------------------------- MODULE BufferedPackageProofs -------------------------
(***************************************************************************)
(* Proofs about BufferedPackage, for any number of dies and planes, all    *)
(* lengths, widths and sizes its assumption allows and both modes.         *)
(* Whatever commands the FTL gives, but for the registers and the store:   *)
(* without garbage collection only does a register have an owner.          *)
(*                                                                         *)
(* The buffer keeps the bits and the controller or the die keeps the       *)
(* packets, and nothing but their order ties the two.  BufferInv is what   *)
(* makes the order enough: OutMatches towards the controller, InInv with   *)
(* the pieces on the way, the room kept for them and the time a device     *)
(* beat takes towards the die.                                             *)
(***************************************************************************)
EXTENDS BufferedPackage, FlashDiesProofs

-----------------------------------------------------------------------------
(* Pieces.  A packet is complete with its last piece, and not before.      *)
Beats(type) == BeatsOf(Length(type), CHANNEL_WIDTH)
PageBeats == BeatsOf(PAGE_LENGTH, DEVICE_WIDTH)
Types == {"DATA", "READ", "WRITE", "GC_READ", "GC_WRITE", "ERASE"}

LEMMA PositiveBeats ==
    ASSUME NEW bits \in Nat \ {0}, NEW width \in Nat \ {0}
    PROVE  /\ BeatsOf(bits, width) \in Nat \ {0}
           /\ width * BeatsOf(bits, width) \in Nat
           /\ width * BeatsOf(bits, width) >= bits
           /\ width * (BeatsOf(bits, width) - 1) < bits
           /\ bits % width = 0 => width * BeatsOf(bits, width) = bits
<1> DEFINE n == bits + width - 1
           b == n \div width
           r == n % width
<1>1. n \in Nat /\ n >= width  OBVIOUS
<1>2. /\ b \in Nat /\ r \in 0 .. width - 1 /\ n = width * b + r
  <2> HIDE DEF n
  <2>1. b \in Nat /\ r \in 0 .. width - 1  BY <1>1, QuotientType, RemainderType
  <2>2. n = width * b + r  BY <1>1
  <2>3. QED  BY <2>1, <2>2
<1>3. n = bits + width - 1 /\ BeatsOf(bits, width) = b  BY DEF BeatsOf
<1> HIDE DEF n, b, r
<1>4. b # 0  BY <1>1, <1>2
<1>5. width * b \in Nat /\ width * (b - 1) = width * b - width  BY <1>2
<1> DEFINE p == width * b
<1>6. /\ p \in Nat /\ width * (b - 1) = p - width /\ n = p + r  BY <1>2, <1>5
<1> HIDE DEF p
<1>7. p >= bits /\ p - width < bits  BY <1>2, <1>3, <1>6
<1>8. ASSUME bits % width = 0  PROVE p = bits
  <2> DEFINE k == bits \div width
  <2>1. k \in Nat /\ bits = width * k  BY <1>8, QuotientType
  <2> HIDE DEF k
  <2>2. width * k <= width * b /\ width * b < width * k + width
        BY <1>6, <1>7, <2>1 DEF p
  <2>3. width * (k + 1) = width * k + width  BY <2>1
  <2>4. ~(k + 1 <= b)
    <3>1. k + 1 <= b => width * (k + 1) <= width * b  BY <1>2, <2>1
    <3>2. width * k \in Nat /\ width * b \in Nat  BY <1>2, <2>1
    <3>3. QED  BY <2>2, <2>3, <3>1, <3>2
  <2>5. ~(b + 1 <= k)
    <3>1. b + 1 <= k => width * (b + 1) <= width * k  BY <1>2, <2>1
    <3>2. width * (b + 1) = width * b + width  BY <1>2
    <3>3. width * k \in Nat /\ width * b \in Nat  BY <1>2, <2>1
    <3>4. QED  BY <2>2, <3>1, <3>2, <3>3
  <2>6. k = b  BY <1>2, <2>1, <2>4, <2>5
  <2>7. QED  BY <2>1, <2>6 DEF p
<1>9. QED  BY <1>2, <1>3, <1>4, <1>5, <1>6, <1>7, <1>8 DEF p

LEMMA FewerPieces ==
    ASSUME NEW width \in Nat \ {0}, NEW b \in Nat \ {0}, NEW k \in 0 .. b - 1
    PROVE  width * k \in Nat /\ width * k <= width * (b - 1)
<1>1. k <= b - 1 /\ b - 1 \in Nat /\ k \in Nat  OBVIOUS
<1> DEFINE c == b - 1
<1>2. c \in Nat /\ k <= c  BY <1>1
<1> HIDE DEF c
<1>3. width * k <= width * c  BY <1>1, <1>2
<1>4. QED  BY <1>1, <1>3 DEF c

LEMMA PacketLengths ==
    ASSUME NEW type \in Types
    PROVE  /\ Length(type) \in Nat \ {0}
           /\ Beats(type) \in Nat \ {0}
           /\ PacketSize(type) = CHANNEL_WIDTH * Beats(type)
           /\ PacketSize(type) \in Nat /\ PacketSize(type) >= Length(type)
           /\ CHANNEL_WIDTH \in Nat \ {0}
           /\ \A k \in 1 .. Beats(type) :
                 /\ CHANNEL_WIDTH * (Beats(type) - k) \in Nat
                 /\ CHANNEL_WIDTH * (Beats(type) - k) < Length(type)
           /\ CUT_THROUGH \in CutThroughModes /\ CUT_THROUGH = TRUE
                 => PacketSize(type) = Length(type)
           /\ type = "DATA" => PacketSize(type) = Length(type) /\ Length(type) = PAGE_LENGTH
<1> DEFINE w == CHANNEL_WIDTH
           l == Length(type)
           b == BeatsOf(l, w)
<1>1. w \in Nat \ {0} /\ l \in Nat \ {0}  BY BufferedPackageAssumption DEF Length
<1>2. /\ b \in Nat \ {0} /\ w * b \in Nat /\ w * b >= l /\ w * (b - 1) < l
      /\ l % w = 0 => w * b = l
  <2> HIDE DEF w, l
  <2>1. QED  BY <1>1, PositiveBeats
<1>3. ASSUME NEW k \in 1 .. b  PROVE w * (b - k) \in Nat /\ w * (b - k) < l
  <2> DEFINE j == b - k
  <2>1. j \in 0 .. b - 1  BY <1>2
  <2> HIDE DEF w, l, b, j
  <2>2. w * j \in Nat /\ w * j <= w * (b - 1)  BY <1>1, <1>2, <2>1, FewerPieces
  <2> DEFINE x == w * (b - 1)
             y == w * j
  <2>3. x \in Int /\ x < l /\ y \in Nat /\ y <= x  BY <1>1, <1>2, <2>2
  <2> HIDE DEF x, y
  <2>4. y < l  BY <1>1, <2>3
  <2>5. QED  BY <2>2, <2>4 DEF y, j
<1>4. type = "DATA" => l = PAGE_LENGTH /\ l % w = 0
      BY BufferedPackageAssumption DEF Length
<1>5. CUT_THROUGH \in CutThroughModes /\ CUT_THROUGH = TRUE => l % w = 0
      BY BufferedPackageAssumption DEF Length
<1>6. Beats(type) = b /\ PacketSize(type) = w * b  BY DEF Beats, PacketSize
<1>7. QED  BY <1>1, <1>2, <1>3, <1>4, <1>5, <1>6

LEMMA PageLengths ==
    /\ PAGE_LENGTH \in Nat \ {0} /\ DEVICE_WIDTH \in Nat \ {0}
    /\ PAGE_LENGTH > DEVICE_WIDTH
    /\ PageBeats \in Nat \ {0, 1} /\ DEVICE_WIDTH * PageBeats = PAGE_LENGTH
    /\ \A k \in 1 .. PageBeats : /\ DEVICE_WIDTH * (PageBeats - k) \in Nat
                                 /\ DEVICE_WIDTH * (PageBeats - k) < PAGE_LENGTH
    /\ CHANNEL_WIDTH * BeatsOf(PAGE_LENGTH, CHANNEL_WIDTH) = PAGE_LENGTH
<1> DEFINE w == DEVICE_WIDTH
           l == PAGE_LENGTH
           b == BeatsOf(l, w)
<1>1. /\ w \in Nat \ {0} /\ l \in Nat \ {0} /\ l > w /\ l % w = 0
      /\ CHANNEL_WIDTH \in Nat \ {0} /\ l % CHANNEL_WIDTH = 0
      BY BufferedPackageAssumption
<1>2. PageBeats = b  BY DEF PageBeats
<1>3. CHANNEL_WIDTH * BeatsOf(l, CHANNEL_WIDTH) = l
  <2> HIDE DEF l
  <2>1. QED  BY <1>1, PositiveBeats
<1>4. b \in Nat \ {0} /\ w * b = l
  <2> HIDE DEF w, l
  <2>1. QED  BY <1>1, PositiveBeats
<1>5. b # 1
  <2>1. b = 1 => w * b = w  BY <1>1
  <2>2. QED  BY <1>1, <1>4, <2>1
<1>6. ASSUME NEW k \in 1 .. b  PROVE w * (b - k) \in Nat /\ w * (b - k) < l
  <2> DEFINE j == b - k
  <2>1. j \in 0 .. b - 1  BY <1>4
  <2> HIDE DEF w, l, b, j
  <2>2. w * j \in Nat /\ w * j <= w * (b - 1)  BY <1>1, <1>4, <2>1, FewerPieces
  <2>3. w * (b - 1) = w * b - w  BY <1>1, <1>4
  <2> DEFINE x == w * (b - 1)
             y == w * j
  <2>4. x = l - w /\ y \in Nat /\ y <= x  BY <1>1, <1>4, <2>2, <2>3
  <2> HIDE DEF x, y
  <2>5. y < l  BY <1>1, <2>4
  <2>6. QED  BY <2>2, <2>5 DEF y, j
<1>7. QED  BY <1>1, <1>2, <1>3, <1>4, <1>5, <1>6
-----------------------------------------------------------------------------
(* Types.  The sizes of the buffer are integers here: that they are never  *)
(* negative needs the whole account of its bits, below.                    *)
ClockInv ==
    /\ controllerUpdates \in Nat /\ channelUpdates \in Nat
    /\ channelUpdates < DEVICE_CYCLES
    /\ turn = ControllerTurn => controllerUpdates > 0 /\ channelUpdates > 0
    /\ turn = ChannelTurn => channelUpdates > 0
    /\ \A d \in Dies : turn = BufferTurn(d) => channelUpdates > 0
SendInv ==
    /\ paused \in BOOLEAN /\ pendingPackets \in Seq(Packets)
    /\ piece \in [type : Types, unit : Units] \cup {NoPiece}
    /\ sender \in {0, Nobody}
    /\ paused => outgoing # NoPacket /\ channelBeatsLeft > 0
InTypes ==
    /\ inData \in [Dies -> Seq(Parts)] /\ inDataSize \in [Dies -> Int]
    /\ inDataLeft \in [Dies -> Nat] /\ cyclesLeft \in [Dies -> Nat]
    /\ waiting \in [Dies -> BOOLEAN]
    /\ lookup \in [die : Dies, left : 1 .. BUFFER_LOOKUP_CYCLES] \cup {NoLookup}
OutTypes ==
    /\ outData \in [Dies -> Seq(Parts)] /\ outDataSize \in [Dies -> Int]
    /\ outDataLeft \in [Dies -> Nat]
    /\ sendingUnit \in Units \cup {NoUnit}
ReturnTypes ==
    /\ pendingDataPackets \in [Dies -> Seq(Packets)]
    /\ dataCyclesLeft \in [Dies -> Nat] /\ deviceBeatsLeft \in [Dies -> Nat]
Shape ==
    /\ DiesInv /\ turn \in Turns /\ CUT_THROUGH \in CutThroughModes
    /\ ClockInv /\ SendInv /\ InTypes /\ OutTypes /\ ReturnTypes

LEMMA NotPackets ==
    /\ NoPacket.type \notin Types /\ NoPiece.type \notin Types
    /\ \A t \in Types, u \in Units : Piece(t, u) # NoPiece
    /\ \A x \in [type : Types, unit : Units] : x # NoPiece
BY DEF NoPacket, NoPiece, Types, Piece

LEMMA TurnsApart ==
    /\ FtlTurn # ControllerTurn /\ FtlTurn # ChannelTurn /\ ControllerTurn # ChannelTurn
    /\ \A d \in Dies : /\ DieTurn(d) # FtlTurn /\ DieTurn(d) # ControllerTurn
                       /\ DieTurn(d) # ChannelTurn /\ BufferTurn(d) # FtlTurn
                       /\ BufferTurn(d) # ControllerTurn /\ BufferTurn(d) # ChannelTurn
    /\ \A d, e \in Dies : /\ DieTurn(d) # BufferTurn(e)
                          /\ DieTurn(d) = DieTurn(e) => d = e
                          /\ BufferTurn(d) = BufferTurn(e) => d = e
BY DEF FtlTurn, ControllerTurn, ChannelTurn, DieTurn, BufferTurn

LEMMA DiesOf ==
    ASSUME Shape
    PROVE  /\ DiesTypeOK /\ readQueues \in [Dies -> Seq(Packets)] /\ die_pointer \in Dies
           /\ outgoing \in MaybePacket /\ channelBeatsLeft \in Nat
           /\ returnTransaction \in Seq(Packets)
           /\ returnDataPackets \in [Dies -> Seq(Packets)]
BY DEF Shape, DiesInv, DiesTypeOK

(* What is on the channel, or is put there: nothing is placed while the    *)
(* channel is held or busy.                                                *)
LEMMA Placed ==
    ASSUME Shape, PlacePacket(Placeable)
    PROVE  \/ /\ Placeable = {} /\ UNCHANGED <<readQueues, die_pointer>>
              /\ OnChannel = outgoing /\ BeatsLeft = channelBeatsLeft
           \/ \E d \in Dies :
                /\ Placeable # {} /\ outgoing = NoPacket /\ ChannelFree
                /\ readQueues[d] # <<>> /\ OnChannel = Head(readQueues[d])
                /\ OnChannel \in Packets
                /\ readQueues' = [readQueues EXCEPT ![d] = Tail(@)] /\ die_pointer' \in Dies
                /\ BeatsLeft = AllBeats
<1>1. CASE Placeable = {}
      BY <1>1 DEF PlacePacket, OnChannel, BeatsLeft
<1>2. CASE Placeable # {}
  <2> DEFINE d == FirstDie(Placeable)
  <2>1. /\ readQueues' = [readQueues EXCEPT ![d] = Tail(@)]
        /\ die_pointer' = (d + 1) % DIES_PER_PACKAGE
        BY <1>2 DEF PlacePacket
  <2>2. ChannelFree /\ Placeable = DiesWaiting  BY <1>2 DEF Placeable
  <2>3. d \in Dies /\ outgoing = NoPacket /\ readQueues[d] # <<>>
    <3>1. Placeable \in SUBSET Dies  BY <2>2 DEF DiesWaiting
    <3>2. d \in Placeable  BY <1>2, <3>1, DiesOf, FirstDieIn
    <3>3. QED  BY <2>2, <3>2 DEF DiesWaiting
  <2>4. OnChannel = Head(readQueues[d]) /\ BeatsLeft = AllBeats
        BY <1>2 DEF OnChannel, BeatsLeft
  <2> HIDE DEF d
  <2>5. Head(readQueues[d]) \in Packets  BY <2>3, DiesOf, HeadTailProperties
  <2>6. die_pointer' \in Dies
    <3>1. d + 1 \in Nat /\ DIES_PER_PACKAGE \in Nat \ {0}
          BY <2>3, DieTypes, FlashDiesAssumption
    <3>2. QED  BY <2>1, <3>1, RemainderType DEF Dies
  <2>7. QED  BY <1>2, <2>1, <2>2, <2>3, <2>4, <2>5, <2>6
<1>3. QED  BY <1>1, <1>2

LEMMA PlaceType ==
    ASSUME Shape, PlacePacket(Placeable)
    PROVE  /\ readQueues' \in [Dies -> Seq(Packets)] /\ die_pointer' \in Dies
           /\ OnChannel \in MaybePacket
           /\ BeatsLeft \in Nat
           /\ OnChannel # NoPacket => OnChannel \in Packets /\ AllBeats \in Nat \ {0}
<1>1. CASE OnChannel \in Packets
  <2>1. OnChannel.type \in Types  BY <1>1, PacketTypes DEF Types
  <2>2. AllBeats \in Nat \ {0}  BY <2>1, PacketLengths DEF AllBeats, Beats
  <2>3. CASE UNCHANGED <<readQueues, die_pointer>> /\ BeatsLeft = channelBeatsLeft
        BY <1>1, <2>2, <2>3, DiesOf DEF MaybePacket
  <2>4. ASSUME NEW d \in Dies, readQueues[d] # <<>>,
               readQueues' = [readQueues EXCEPT ![d] = Tail(@)], die_pointer' \in Dies,
               BeatsLeft = AllBeats
        PROVE  readQueues' \in [Dies -> Seq(Packets)] /\ BeatsLeft \in Nat
    <3>1. Tail(readQueues[d]) \in Seq(Packets)  BY <2>4, DiesOf, HeadTailProperties
    <3>2. QED  BY <2>2, <2>4, <3>1, DiesOf
  <2>5. QED  BY <1>1, <2>2, <2>3, <2>4, Placed DEF MaybePacket
<1>2. CASE OnChannel \notin Packets
  <2>1. /\ UNCHANGED <<readQueues, die_pointer>>
        /\ OnChannel = outgoing /\ BeatsLeft = channelBeatsLeft
        BY <1>2, Placed
  <2>2. QED  BY <1>2, <2>1, DiesOf DEF MaybePacket
<1>3. QED  BY <1>1, <1>2

(* The cases of a controller update: nothing is sent; the packet whose     *)
(* last piece is gone leaves the channel; a piece of a packet is sent or   *)
(* put off.                                                                *)
NothingSent ==
    /\ Placeable = {}
    /\ \/ outgoing = NoPacket \/ channelBeatsLeft > 0
       \/ ~paused /\ ~hasChannel("CONTROLLER", 0)
    /\ UNCHANGED <<readQueues, die_pointer, outgoing, channelBeatsLeft, channelVars,
                   sendVars, piece>>
PacketSent ==
    /\ Placeable = {} /\ outgoing \in Packets /\ ~paused
    /\ hasChannel("CONTROLLER", 0) /\ channelBeatsLeft = 0
    /\ sType' = "CONTROLLER" /\ sender' = Nobody
    /\ pendingPackets' = Append(pendingPackets, outgoing)
    /\ outgoing' = NoPacket
    /\ UNCHANGED <<readQueues, die_pointer, channelBeatsLeft, paused, piece>>
PieceMoves ==
    /\ OnChannel \in Packets /\ BeatsLeft > 0 /\ ~busy /\ HasChannelNow
    /\ Pause \/ SendPiece

LEMMA ControllerCases ==
    ASSUME Shape, ControllerUpdate
    PROVE  NothingSent \/ PacketSent \/ PieceMoves
<1>1. /\ PlacePacket(Placeable)
      /\ \/ NothingMoves
         \/ /\ OnChannel # NoPacket /\ HasChannelNow
            /\ LastPieceSent \/ PieceWaits \/ Pause \/ SendPiece
      BY DEF ControllerUpdate
<1>2. /\ OnChannel \in MaybePacket /\ BeatsLeft \in Nat
      /\ OnChannel # NoPacket => OnChannel \in Packets /\ AllBeats \in Nat \ {0}
      BY <1>1, PlaceType
<1>3. Placeable # {} => OnChannel \in Packets /\ HasChannelNow /\ BeatsLeft > 0 /\ ~busy
  <2>1. ASSUME Placeable # {}
        PROVE  OnChannel \in Packets /\ BeatsLeft = AllBeats /\ ChannelFree
        BY <1>1, <2>1, Placed
  <2>2. ASSUME Placeable # {}
        PROVE  OnChannel # NoPacket /\ BeatsLeft > 0
    <3>1. OnChannel # NoPacket  BY <2>1, <2>2, PacketTypes
    <3>2. QED  BY <1>2, <2>1, <2>2, <3>1
  <2>3. QED  BY <2>1, <2>2 DEF HasChannelNow, ChannelFree
<1>4. Placeable = {} =>
        /\ UNCHANGED <<readQueues, die_pointer>>
        /\ OnChannel = outgoing /\ BeatsLeft = channelBeatsLeft
      BY <1>1, Placed
<1>5. CASE NothingMoves \/ PieceWaits
  <2>1. Placeable = {}
        BY <1>2, <1>3, <1>5, PacketTypes DEF NothingMoves, PieceWaits
  <2>2. \/ outgoing = NoPacket \/ channelBeatsLeft > 0
        \/ ~paused /\ ~hasChannel("CONTROLLER", 0)
    <3>1. CASE NothingMoves
      <4>1. paused => channelBeatsLeft > 0  BY DEF Shape, SendInv
      <4>2. QED  BY <1>4, <2>1, <3>1, <4>1 DEF NothingMoves, HasChannelNow
    <3>2. CASE PieceWaits  BY <1>4, <2>1, <3>2 DEF PieceWaits
    <3>3. QED  BY <1>5, <3>1, <3>2
  <2>3. QED  BY <1>4, <1>5, <2>1, <2>2 DEF NothingMoves, PieceWaits, NothingSent
<1>6. CASE OnChannel # NoPacket /\ HasChannelNow /\ LastPieceSent
  <2>1. Placeable = {}  BY <1>3, <1>6 DEF LastPieceSent
  <2>2. BeatsLeft = 0 /\ channelBeatsLeft = 0  BY <1>4, <1>6, <2>1 DEF LastPieceSent
  <2>3. ~paused  BY <2>2 DEF Shape, SendInv
  <2>4. hasChannel("CONTROLLER", 0)  BY <1>6, <2>1, <2>3 DEF HasChannelNow, Resumes
  <2>5. outgoing \in Packets  BY <1>2, <1>4, <1>6, <2>1
  <2>6. QED  BY <1>4, <1>6, <2>1, <2>2, <2>3, <2>4, <2>5 DEF LastPieceSent, PacketSent
<1>7. CASE OnChannel # NoPacket /\ HasChannelNow /\ (Pause \/ SendPiece)
      BY <1>2, <1>7 DEF Pause, SendPiece, PieceMoves
<1>8. QED  BY <1>1, <1>5, <1>6, <1>7

-----------------------------------------------------------------------------
(* The types are kept.                                                     *)
LEMMA InitShape == Init => Shape
<1> SUFFICES ASSUME Init PROVE Shape  OBVIOUS
<1>1. DiesTypeOK
  <2>1. readQueues \in [Dies -> Seq(Packets)] /\ returnDataPackets \in [Dies -> Seq(Packets)]
        BY DEF Init, DiesInit
  <2>2. blocks \in [Units -> [PageNums -> Data \cup {NoData}]]  BY DEF Init, DiesInit
  <2>3. QED  BY <2>1, <2>2, DieTypes DEF Init, DiesInit, DiesTypeOK, MaybePacket
<1>2. DiesInv  BY <1>1 DEF Init, DiesInit, DiesInv, RegistersFilled
<1>3. turn \in Turns /\ CUT_THROUGH \in CutThroughModes
      BY DEF Init, DiesInit, Turns
<1>4. ClockInv
      BY TurnsApart, BufferedPackageAssumption DEF Init, DiesInit, ClockInv
<1>5. SendInv
  <2>1. paused = FALSE /\ pendingPackets = <<>> /\ piece = NoPiece /\ sender = Nobody
        BY DEF Init, DiesInit
  <2>2. pendingPackets \in Seq(Packets)  BY <2>1, EmptySeq
  <2>3. paused \in BOOLEAN  BY <2>1, Zenon
  <2>4. QED  BY <2>1, <2>2, <2>3, Zenon DEF SendInv
<1>6. InTypes /\ OutTypes /\ ReturnTypes
      BY DEF Init, InTypes, OutTypes, ReturnTypes
<1>7. QED  BY <1>2, <1>3, <1>4, <1>5, <1>6 DEF Shape

LEMMA FtlUpdateShape == ASSUME Shape, FtlUpdate PROVE Shape'
<1>1. readQueues' \in [Dies -> Seq(Packets)]  BY AddedType DEF FtlUpdate, Shape
<1>2. /\ UNCHANGED <<die_pointer, outgoing, channelBeatsLeft, returnTransaction,
                     channelVars, commandVars, returnDataPackets, planeVars>>
      /\ UNCHANGED <<CUT_THROUGH, sendVars, piece, inVars, outVars, driveVars, returnVars>>
      BY DEF FtlUpdate, FtlGives
<1>3. PICK n \in CHANNEL_UPDATES :
         /\ controllerUpdates' = n /\ channelUpdates' = n
         /\ turn' = IF n = 0 THEN DieTurn(0) ELSE ControllerTurn
      BY DEF FtlUpdate
<1>4. n \in Nat /\ n < DEVICE_CYCLES  BY BufferedPackageAssumption
<1>5. turn' \in Turns  BY <1>3, DieTypes DEF Turns
<1>6. ClockInv'  BY <1>3, <1>4, TurnsApart, DieTypes DEF ClockInv
<1>7. DiesInv'
      BY <1>1, <1>2 DEF Shape, DiesInv, DiesTypeOK, channelVars, commandVars, planeVars,
                        RegistersFilled
<1>8. SendInv' /\ InTypes' /\ OutTypes' /\ ReturnTypes' /\ CUT_THROUGH' \in CutThroughModes
      BY <1>2 DEF Shape, SendInv, InTypes, OutTypes, ReturnTypes, sendVars, inVars, latchVars,
                  outVars, driveVars, returnVars, channelVars
<1>9. QED  BY <1>5, <1>6, <1>7, <1>8 DEF Shape

LEMMA ControllerUpdateShape == ASSUME Shape, ControllerUpdate PROVE Shape'
<1>1. /\ turn = ControllerTurn
      /\ controllerUpdates' = controllerUpdates - 1
      /\ turn' = IF controllerUpdates = 1 THEN ChannelTurn ELSE ControllerTurn
      /\ PlacePacket(Placeable) /\ AnswerReads
      /\ UNCHANGED <<CUT_THROUGH, channelUpdates, inVars, outVars, driveVars, returnVars,
                     commandVars, planeVars, returnDataPackets>>
      BY DEF ControllerUpdate
<1>2. /\ readQueues' \in [Dies -> Seq(Packets)] /\ die_pointer' \in Dies
      /\ BeatsLeft \in Nat
      BY <1>1, PlaceType
<1>3. turn' \in Turns  BY <1>1 DEF Turns
<1>4. ClockInv'
  <2>1. /\ controllerUpdates \in Nat /\ controllerUpdates > 0
        /\ channelUpdates \in Nat /\ channelUpdates > 0 /\ channelUpdates < DEVICE_CYCLES
        BY <1>1 DEF Shape, ClockInv
  <2>2. controllerUpdates' \in Nat /\ (controllerUpdates = 1 \/ controllerUpdates' > 0)
        BY <1>1, <2>1
  <2>3. QED  BY <1>1, <2>1, <2>2, TurnsApart DEF ClockInv
<1>5. returnTransaction' \in Seq(Packets)  BY <1>1 DEF AnswerReads
<1>6. /\ outgoing' \in MaybePacket /\ channelBeatsLeft' \in Nat
      /\ sType' \in {"CONTROLLER", "BUFFER"} /\ sender' \in {0, Nobody}
      /\ paused' \in BOOLEAN /\ pendingPackets' \in Seq(Packets)
      /\ piece' \in [type : Types, unit : Units] \cup {NoPiece}
      /\ paused' => outgoing' # NoPacket /\ channelBeatsLeft' > 0
  <2>0. /\ outgoing \in MaybePacket /\ channelBeatsLeft \in Nat
        /\ sType \in {"CONTROLLER", "BUFFER"} /\ SendInv
        BY DiesOf DEF Shape, DiesTypeOK
  <2>1. CASE NothingSent
        BY <2>0, <2>1 DEF NothingSent, sendVars, channelVars, SendInv
  <2>2. CASE PacketSent
    <3>1. Append(pendingPackets, outgoing) \in Seq(Packets)
          BY <2>0, <2>2, AppendProperties DEF PacketSent, SendInv
    <3>2. QED  BY <2>0, <2>2, <3>1 DEF PacketSent, SendInv, MaybePacket
  <2>3. CASE PieceMoves
    <3>1. OnChannel \in Packets /\ OnChannel # NoPacket /\ BeatsLeft > 0 /\ (Pause \/ SendPiece)
          BY <2>3, PacketTypes DEF PieceMoves
    <3>2. CASE Pause
          BY <1>2, <2>0, <3>1, <3>2 DEF Pause, SendInv, MaybePacket
    <3>3. CASE SendPiece
      <4>1. Piece(OnChannel.type, UnitOf(OnChannel)) \in [type : Types, unit : Units]
            BY <3>1, PacketTypes DEF Piece, Types
      <4>2. BeatsLeft - 1 \in Nat  BY <1>2, <3>1
      <4>3. QED  BY <2>0, <3>1, <3>3, <4>1, <4>2 DEF SendPiece, SendInv, MaybePacket
    <3>4. QED  BY <3>1, <3>2, <3>3
  <2>4. QED  BY <2>1, <2>2, <2>3, ControllerCases
<1>7. SendInv'  BY <1>6 DEF SendInv
<1>8. DiesInv'
  <2>1. /\ UNCHANGED <<currentCommands, controlCyclesLeft, dataReg, cacheReg, blocks>>
        /\ UNCHANGED returnDataPackets
        BY <1>1 DEF commandVars, planeVars
  <2>2. RegistersFilled'  BY <2>1 DEF Shape, DiesInv, RegistersFilled
  <2>3. sender' \in Dies \cup {Nobody}  BY <1>6, DieTypes
  <2>4. DiesTypeOK  BY DiesOf
  <2>5. DiesTypeOK'  BY <1>2, <1>5, <1>6, <2>1, <2>3, <2>4 DEF DiesTypeOK
  <2>6. QED  BY <2>2, <2>5 DEF DiesInv
<1>9. InTypes' /\ OutTypes' /\ ReturnTypes' /\ CUT_THROUGH' \in CutThroughModes
      BY <1>1 DEF Shape, InTypes, OutTypes, ReturnTypes, inVars, latchVars,
                  outVars, driveVars, returnVars
<1>10. QED  BY <1>3, <1>4, <1>7, <1>8, <1>9 DEF Shape

(* Bits join the last packet, or begin one.                                *)
Part(type, plane, bits) == [type |-> type, plane |-> plane, number |-> bits]
Joins(s, type, plane) ==
    /\ s # <<>> /\ s[Len(s)].type = type /\ s[Len(s)].plane = plane
    /\ s[Len(s)].number < Length(type)

LEMMA AddBitsIs ==
    ASSUME NEW s \in Seq(Parts), NEW type \in Types, NEW plane \in Planes, NEW bits \in Nat
    PROVE  LET r == AddBits(s, type, plane, bits)
               n == Len(s)
           IN  /\ r \in Seq(Parts) /\ n \in Nat /\ r # <<>>
               /\ Joins(s, type, plane) =>
                    /\ n > 0 /\ Len(r) = n /\ \A i \in 1 .. n - 1 : r[i] = s[i]
                    /\ r[n] = Part(type, plane, s[n].number + bits)
               /\ ~Joins(s, type, plane) =>
                    /\ Len(r) = n + 1 /\ \A i \in 1 .. n : r[i] = s[i]
                    /\ r[n + 1] = Part(type, plane, bits)
<1> DEFINE r == AddBits(s, type, plane, bits)
           n == Len(s)
           new == Part(type, plane, bits)
           grown == Part(type, plane, s[n].number + bits)
<1>0. n \in Nat  BY LenProperties
<1>1. new \in Parts  BY DEF Parts, Types, Part
<1>2. CASE Joins(s, type, plane)
  <2>1. n \in Nat \ {0}  BY <1>2, EmptySeq DEF Joins
  <2>2. n \in 1 .. Len(s)  BY <2>1
  <2>3. s[n] \in Parts  BY <2>2, ElementOfSeq
  <2>4. grown \in Parts /\ grown = [s[n] EXCEPT !.number = @ + bits]
        BY <1>2, <2>3 DEF Parts, Types, Part, Joins
  <2>5. r = [s EXCEPT ![n].number = @ + bits]  BY <1>2 DEF AddBits, Joins
  <2>6. r = [s EXCEPT ![n] = grown]  BY <2>4, <2>5
  <2> HIDE DEF grown, n, r
  <2>7. /\ r \in Seq(Parts) /\ Len(r) = Len(s)
        /\ \A j \in 1 .. Len(s) : r[j] = IF j = n THEN grown ELSE s[j]
        BY <2>2, <2>4, <2>6, ExceptSeq
  <2>8. n = Len(s)  BY DEF n
  <2>9. r # <<>>  BY <2>1, <2>7, <2>8, EmptySeq
  <2>10. r[n] = grown  BY <2>2, <2>7
  <2>11. \A i \in 1 .. n - 1 : r[i] = s[i]
    <3> SUFFICES ASSUME NEW i \in 1 .. n - 1  PROVE r[i] = s[i]  OBVIOUS
    <3>1. i \in 1 .. Len(s) /\ i # n  BY <2>1, <2>8
    <3>2. QED  BY <2>7, <3>1
  <2>12. n > 0  BY <2>1
  <2>13. QED  BY <1>0, <1>2, <2>7, <2>8, <2>9, <2>10, <2>11, <2>12 DEF r, n, grown
<1>3. CASE ~Joins(s, type, plane)
  <2>1. r = Append(s, new)  BY <1>3 DEF AddBits, Joins, Part
  <2> HIDE DEF new, r, n
  <2>2. /\ r \in Seq(Parts) /\ Len(r) = Len(s) + 1
        /\ \A i \in 1 .. Len(s) : r[i] = s[i]
        /\ r[Len(s) + 1] = new
        BY <1>1, <2>1, AppendProperties
  <2>3. r # <<>>  BY <1>0, <2>2, EmptySeq DEF n
  <2>4. QED  BY <1>0, <1>3, <2>2, <2>3 DEF r, n, new
<1>4. QED  BY <1>2, <1>3

LEMMA ChannelUpdateShape == ASSUME Shape, ChannelUpdate PROVE Shape'
<1>1. /\ turn = ChannelTurn /\ turn' = BufferTurn(0) /\ piece' = NoPiece
      /\ UNCHANGED <<CUT_THROUGH, clockVars, sendVars, latchVars, outVars, driveVars, returnVars,
                     controllerVars, returnTransaction, channelVars, commandVars,
                     planeVars, returnDataPackets>>
      BY DEF ChannelUpdate
<1>2. inData' \in [Dies -> Seq(Parts)] /\ inDataSize' \in [Dies -> Int]
  <2>0. inData \in [Dies -> Seq(Parts)] /\ inDataSize \in [Dies -> Int]
        BY DEF Shape, InTypes
  <2>1. CASE UNCHANGED <<inData, inDataSize>>  BY <2>0, <2>1
  <2>2. ASSUME busy, NEW d, d = piece.unit[1],
               inData' = [inData EXCEPT ![d] =
                            AddBits(@, piece.type, piece.unit[2], CHANNEL_WIDTH)],
               inDataSize' = [inDataSize EXCEPT ![d] = @ + CHANNEL_WIDTH]
        PROVE  inData' \in [Dies -> Seq(Parts)] /\ inDataSize' \in [Dies -> Int]
    <3>1. piece \in [type : Types, unit : Units]  BY <2>2 DEF Shape, SendInv, busy
    <3>2. piece.type \in Types /\ d \in Dies /\ piece.unit[2] \in Planes
          BY <2>2, <3>1, UnitTypes
    <3>3. CHANNEL_WIDTH \in Nat  BY BufferedPackageAssumption
    <3>4. inData[d] \in Seq(Parts)  BY <2>0, <3>2
    <3>5. AddBits(inData[d], piece.type, piece.unit[2], CHANNEL_WIDTH) \in Seq(Parts)
          BY <3>2, <3>3, <3>4, AddBitsIs
    <3>6. QED  BY <2>0, <2>2, <3>2, <3>3, <3>5
  <2>3. QED  BY <2>1, <2>2 DEF ChannelUpdate
<1>3. turn' \in Turns  BY <1>1, DieTypes DEF Turns
<1>4. ClockInv'
      BY <1>1, TurnsApart, DieTypes DEF Shape, ClockInv, clockVars
<1>5. SendInv'
  <2>1. NoPiece \in [type : Types, unit : Units] \cup {NoPiece}  OBVIOUS
  <2>2. UNCHANGED <<paused, pendingPackets, sender, outgoing, channelBeatsLeft>>
        BY <1>1 DEF sendVars, channelVars, controllerVars
  <2>3. QED  BY <1>1, <2>1, <2>2 DEF Shape, SendInv
<1>6. DiesInv'
      BY <1>1 DEF Shape, DiesInv, DiesTypeOK, channelVars, commandVars, planeVars,
                  controllerVars, RegistersFilled
<1>7. InTypes'  BY <1>1, <1>2 DEF Shape, InTypes, latchVars
<1>8. OutTypes' /\ ReturnTypes' /\ CUT_THROUGH' \in CutThroughModes
      BY <1>1 DEF Shape, OutTypes, ReturnTypes, outVars, driveVars, returnVars
<1>9. QED  BY <1>3, <1>4, <1>5, <1>6, <1>7, <1>8 DEF Shape

(* The cases of the buffer's round towards a die: nothing, a step of a     *)
(* packet that stays in the buffer, or a packet the die takes.             *)
LeftNow(d) == IF Unstarted(d) THEN FrontLength(d) ELSE inDataLeft[d]
CyclesNow(d) == IF Unstarted(d) THEN DEVICE_CYCLES ELSE cyclesLeft[d]
BitsNow(d) ==
    IF CyclesNow(d) > 1 THEN 0
    ELSE IF LeftNow(d) >= DEVICE_WIDTH THEN DEVICE_WIDTH ELSE LeftNow(d)
SizeNow(d) == IF CUT_THROUGH THEN inDataSize[d] - BitsNow(d) ELSE inDataSize[d]

InputIdle ==
    UNCHANGED <<inData, inDataSize, inDataLeft, cyclesLeft, waiting, pendingPackets,
                commandVars, planeVars, failed>>
InputSteps(d) ==
    /\ MayLatch(d)
    /\ inDataLeft' = [inDataLeft EXCEPT ![d] = LeftNow(d) - BitsNow(d)]
    /\ cyclesLeft' = [cyclesLeft EXCEPT ![d] =
                        IF LeftNow(d) = BitsNow(d) THEN 0
                        ELSE IF CyclesNow(d) <= 1 THEN DEVICE_CYCLES ELSE CyclesNow(d) - 1]
InputStays(d) ==
    /\ InputSteps(d)
    /\ waiting' = [waiting EXCEPT ![d] = (LeftNow(d) = BitsNow(d))]
    /\ inDataSize' = [inDataSize EXCEPT ![d] = SizeNow(d)]
    /\ UNCHANGED <<inData, pendingPackets, commandVars, planeVars, failed>>
InputArrives(d) ==
    /\ InputSteps(d) /\ LeftNow(d) = BitsNow(d) /\ Accepts(d)
    /\ waiting' = [waiting EXCEPT ![d] = FALSE]
    /\ inData' = [inData EXCEPT ![d] = Tail(@)]
    /\ inDataSize' = [inDataSize EXCEPT ![d] =
                        IF CUT_THROUGH THEN SizeNow(d)
                        ELSE TakeOff(SizeNow(d), PacketSize(InFront(d).type))]
    /\ bufferDone(<<d, InFront(d).plane>>)

LEMMA LatchTypes ==
    ASSUME Shape, NEW d \in Dies, inData[d] # <<>>
    PROVE  /\ InFront(d) \in Parts /\ InFront(d) = inData[d][1]
           /\ Tail(inData[d]) \in Seq(Parts) /\ FrontLength(d) \in Nat \ {0}
           /\ PacketSize(InFront(d).type) \in Nat
           /\ LeftNow(d) \in Nat /\ CyclesNow(d) \in Nat /\ DEVICE_CYCLES \in Nat \ {0}
           /\ BitsNow(d) \in Nat /\ BitsNow(d) <= LeftNow(d) /\ BitsNow(d) <= DEVICE_WIDTH
           /\ SizeNow(d) \in Int
           /\ <<d, InFront(d).plane>> \in Units
<1>1. /\ inData[d] \in Seq(Parts) /\ inDataLeft[d] \in Nat /\ cyclesLeft[d] \in Nat
      /\ inDataSize[d] \in Int
      BY DEF Shape, InTypes
<1>2. InFront(d) \in Parts /\ InFront(d) = inData[d][1] /\ Tail(inData[d]) \in Seq(Parts)
      BY <1>1, SplitHead DEF InFront
<1>3. InFront(d).type \in Types /\ InFront(d).plane \in Planes
      BY <1>2 DEF Parts, Types
<1>4. FrontLength(d) \in Nat \ {0} /\ PacketSize(InFront(d).type) \in Nat
      BY <1>3, PacketLengths DEF FrontLength
<1>5. DEVICE_CYCLES \in Nat \ {0} /\ DEVICE_WIDTH \in Nat \ {0}  BY BufferedPackageAssumption
<1>6. LeftNow(d) \in Nat /\ CyclesNow(d) \in Nat
      BY <1>1, <1>4, <1>5 DEF LeftNow, CyclesNow
<1>7. BitsNow(d) \in Nat /\ BitsNow(d) <= LeftNow(d) /\ BitsNow(d) <= DEVICE_WIDTH
  <2> DEFINE l == LeftNow(d)
  <2>1. l \in Nat  BY <1>6
  <2> HIDE DEF l
  <2>2. BitsNow(d) = IF CyclesNow(d) > 1 THEN 0
                     ELSE IF l >= DEVICE_WIDTH THEN DEVICE_WIDTH ELSE l
        BY DEF BitsNow, l
  <2>3. BitsNow(d) \in Nat /\ BitsNow(d) <= l /\ BitsNow(d) <= DEVICE_WIDTH
        BY <1>5, <2>1, <2>2
  <2>4. QED  BY <2>3 DEF l
<1>8. SizeNow(d) \in Int  BY <1>1, <1>7 DEF SizeNow
<1>9. <<d, InFront(d).plane>> \in Units  BY <1>3, UnitTypes
<1>10. QED  BY <1>2, <1>4, <1>5, <1>6, <1>7, <1>8, <1>9

LEMMA InputCases ==
    ASSUME Shape, NEW d \in Dies, TowardsDie(d)
    PROVE  /\ InputIdle \/ InputStays(d) \/ InputArrives(d)
           /\ lookup' \in [die : Dies, left : 1 .. BUFFER_LOOKUP_CYCLES] \cup {NoLookup}
<1>1. ASSUME MayLatch(d), processInData(d, LeftNow(d), CyclesNow(d))
      PROVE  InputStays(d) \/ InputArrives(d)
  <2> DEFINE left == LeftNow(d)
             cycles == CyclesNow(d)
  <2>1. cycles \in Nat  BY <1>1, LatchTypes DEF MayLatch
  <2>2. (IF ~(cycles <= 1) THEN 0
         ELSE IF left >= DEVICE_WIDTH THEN DEVICE_WIDTH ELSE left) = BitsNow(d)
    <3>1. ~(cycles <= 1) <=> cycles > 1  BY <2>1
    <3>2. QED  BY <3>1 DEF BitsNow
  <2> HIDE DEF left, cycles
  <2>3. processInData(d, left, cycles)  BY <1>1 DEF left, cycles
  <2>4. /\ inDataLeft' = [inDataLeft EXCEPT ![d] = left - BitsNow(d)]
        /\ cyclesLeft' = [cyclesLeft EXCEPT ![d] =
                            IF left = BitsNow(d) THEN 0
                            ELSE IF cycles <= 1 THEN DEVICE_CYCLES ELSE cycles - 1]
        /\ waiting' = [waiting EXCEPT ![d] = (left = BitsNow(d)) /\ ~Accepts(d)]
        /\ IF left = BitsNow(d) /\ Accepts(d)
           THEN /\ inData' = [inData EXCEPT ![d] = Tail(@)]
                /\ inDataSize' = [inDataSize EXCEPT ![d] =
                     IF CUT_THROUGH THEN SizeNow(d)
                     ELSE TakeOff(SizeNow(d), PacketSize(InFront(d).type))]
                /\ bufferDone(<<d, InFront(d).plane>>)
           ELSE /\ inDataSize' = [inDataSize EXCEPT ![d] = SizeNow(d)]
                /\ UNCHANGED <<inData, pendingPackets, commandVars, planeVars, failed>>
    <3> DEFINE b == IF ~(cycles <= 1) THEN 0
                   ELSE IF left >= DEVICE_WIDTH THEN DEVICE_WIDTH ELSE left
    <3>1. /\ inDataLeft' = [inDataLeft EXCEPT ![d] = left - b]
          /\ cyclesLeft' = [cyclesLeft EXCEPT ![d] =
                              IF left = b THEN 0
                              ELSE IF cycles <= 1 THEN DEVICE_CYCLES ELSE cycles - 1]
          /\ waiting' = [waiting EXCEPT ![d] = (left = b) /\ ~Accepts(d)]
          /\ IF left = b /\ Accepts(d)
             THEN /\ inData' = [inData EXCEPT ![d] = Tail(@)]
                  /\ inDataSize' = [inDataSize EXCEPT ![d] =
                       IF CUT_THROUGH THEN (IF CUT_THROUGH THEN inDataSize[d] - b ELSE inDataSize[d])
                       ELSE TakeOff((IF CUT_THROUGH THEN inDataSize[d] - b ELSE inDataSize[d]), PacketSize(InFront(d).type))]
                  /\ bufferDone(<<d, InFront(d).plane>>)
             ELSE /\ inDataSize' = [inDataSize EXCEPT ![d] = (IF CUT_THROUGH THEN inDataSize[d] - b ELSE inDataSize[d])]
                  /\ UNCHANGED <<inData, pendingPackets, commandVars, planeVars, failed>>
          BY <2>3 DEF processInData
    <3>2. b = BitsNow(d)  BY <2>2
    <3> HIDE DEF b
    <3>3. (IF CUT_THROUGH THEN inDataSize[d] - b ELSE inDataSize[d]) = SizeNow(d)
          BY <3>2 DEF SizeNow
    <3>4. QED  BY <3>1, <3>2, <3>3
  <2>5. InputSteps(d)  BY <1>1, <2>4 DEF InputSteps, left, cycles
  <2>6. CASE left = BitsNow(d) /\ Accepts(d)
    <3>1. waiting' = [waiting EXCEPT ![d] = FALSE]  BY <2>4, <2>6
    <3>2. QED  BY <2>4, <2>5, <2>6, <3>1 DEF InputArrives, left
  <2>7. CASE ~(left = BitsNow(d) /\ Accepts(d))
    <3>1. waiting' = [waiting EXCEPT ![d] = (left = BitsNow(d))]
          BY <2>4, <2>7
    <3>2. QED  BY <2>4, <2>5, <2>7, <3>1 DEF InputStays, left
  <2>8. QED  BY <2>6, <2>7
<1>2. /\ BUFFER_LOOKUP_CYCLES \in Nat
      /\ lookup \in [die : Dies, left : 1 .. BUFFER_LOOKUP_CYCLES] \cup {NoLookup}
      BY BufferedPackageAssumption DEF Shape, InTypes
<1>3. CASE InputWaits(d)
      BY <1>2, <1>3 DEF InputWaits, inVars, latchVars, InputIdle
<1>4. CASE LookUp(d)
  <2>1. InputIdle  BY <1>4 DEF LookUp, InputIdle
  <2>2. BUFFER_LOOKUP_CYCLES # 0 /\ ~(lookup.die = d /\ lookup.left = 1)
        BY <1>4 DEF LookUp, NeedsLookup, LookupEnds
  <2>3. CASE lookup = NoLookup
    <3>1. lookup' = [die |-> d, left |-> BUFFER_LOOKUP_CYCLES]  BY <1>4, <2>3 DEF LookUp
    <3>2. QED  BY <1>2, <2>1, <2>2, <3>1
  <2>4. CASE lookup # NoLookup /\ lookup.die = d
    <3>1. lookup' = [lookup EXCEPT !.left = @ - 1]  BY <1>4, <2>4 DEF LookUp
    <3>2. lookup \in [die : Dies, left : 1 .. BUFFER_LOOKUP_CYCLES]  BY <1>2, <2>4
    <3>3. lookup.left - 1 \in 1 .. BUFFER_LOOKUP_CYCLES  BY <1>2, <2>2, <2>4, <3>2
    <3>4. QED  BY <2>1, <3>1, <3>2, <3>3
  <2>5. CASE lookup # NoLookup /\ lookup.die # d
    <3>1. lookup' = lookup  BY <1>4, <2>5 DEF LookUp
    <3>2. QED  BY <1>2, <2>1, <3>1
  <2>6. QED  BY <2>3, <2>4, <2>5
<1>5. CASE StartPacket(d)
  <2>1. MayLatch(d) /\ processInData(d, LeftNow(d), CyclesNow(d))
        BY <1>5 DEF StartPacket, LeftNow, CyclesNow
  <2>2. lookup' = NoLookup \/ lookup' = lookup  BY <1>5 DEF StartPacket
  <2>3. QED  BY <1>1, <1>2, <2>1, <2>2
<1>6. CASE ContinuePacket(d)
  <2>1. MayLatch(d) /\ processInData(d, LeftNow(d), CyclesNow(d))
        BY <1>6 DEF ContinuePacket, LeftNow, CyclesNow
  <2>2. lookup' = lookup  BY <1>6 DEF ContinuePacket
  <2>3. QED  BY <1>1, <1>2, <2>1, <2>2
<1>7. QED  BY <1>3, <1>4, <1>5, <1>6 DEF TowardsDie

(* bufferDone finds the first packet for the plane.                        *)
Without(s, i) == SubSeq(s, 1, i - 1) \o SubSeq(s, i + 1, Len(s))
FirstFor(u, i) ==
    /\ i \in 1 .. Len(pendingPackets) /\ UnitOf(pendingPackets[i]) = u
    /\ \A j \in 1 .. i - 1 : UnitOf(pendingPackets[j]) # u

LEMMA DoneCases ==
    ASSUME Shape, NEW u \in Units, bufferDone(u)
    PROVE  \/ /\ \A i \in 1 .. Len(pendingPackets) : UnitOf(pendingPackets[i]) # u
              /\ UNCHANGED <<pendingPackets, commandVars, planeVars, failed>>
           \/ \E i \in 1 .. Len(pendingPackets) :
                 /\ FirstFor(u, i) /\ pendingPackets[i] \in Packets
                 /\ pendingPackets' = Without(pendingPackets, i)
                 /\ receiveFromBuffer(pendingPackets[i])
<1> DEFINE matching == {i \in DOMAIN pendingPackets : UnitOf(pendingPackets[i]) = u}
           i == CHOOSE j \in matching : \A k \in matching : j <= k
<1>1. /\ DOMAIN pendingPackets = 1 .. Len(pendingPackets) /\ Len(pendingPackets) \in Nat
      /\ \A j \in 1 .. Len(pendingPackets) : pendingPackets[j] \in Packets
      BY LenProperties, ElementOfSeq DEF Shape, SendInv
<1>2. CASE matching = {}
      BY <1>1, <1>2 DEF bufferDone
<1>3. CASE matching # {}
  <2>1. matching \in SUBSET Nat  BY <1>1
  <2>2. i \in matching /\ \A k \in matching : i <= k
    <3> HIDE DEF matching
    <3>1. \E m \in matching : \A n \in matching : m <= n  BY <1>3, <2>1, LeastExists
    <3>2. QED  BY <3>1
  <2>3. /\ pendingPackets' = Without(pendingPackets, i)
        /\ receiveFromBuffer(pendingPackets[i])
        BY <1>3 DEF bufferDone, Without
  <2> HIDE DEF i
  <2>4. i \in 1 .. Len(pendingPackets) /\ UnitOf(pendingPackets[i]) = u  BY <1>1, <2>2
  <2>5. ASSUME NEW j \in 1 .. i - 1  PROVE UnitOf(pendingPackets[j]) # u
    <3>1. j \in DOMAIN pendingPackets /\ ~(i <= j)  BY <1>1, <2>4
    <3>2. QED  BY <2>2, <3>1
  <2>6. FirstFor(u, i)  BY <2>4, <2>5 DEF FirstFor
  <2>7. QED  BY <1>1, <2>3, <2>4, <2>6
<1>4. QED  BY <1>2, <1>3

LEMMA DoneTypes ==
    ASSUME Shape, NEW u \in Units, bufferDone(u)
    PROVE  /\ pendingPackets' \in Seq(Packets)
           /\ currentCommands' \in [Units -> MaybePacket]
           /\ controlCyclesLeft' \in [Units -> Nat]
           /\ dataReg' \in [Units -> MaybePacket] /\ cacheReg' \in [Units -> MaybePacket]
           /\ blocks' \in [Units -> [PageNums -> Data \cup {NoData}]]
           /\ RegistersFilled'
<1>0. DiesInv /\ pendingPackets \in Seq(Packets)  BY DEF Shape, SendInv
<1>1. CASE UNCHANGED <<pendingPackets, commandVars, planeVars, failed>>
      BY <1>0, <1>1 DEF DiesInv, DiesTypeOK, RegistersFilled, commandVars, planeVars
<1>2. ASSUME NEW i \in 1 .. Len(pendingPackets), pendingPackets[i] \in Packets,
             pendingPackets' = Without(pendingPackets, i),
             receiveFromBuffer(pendingPackets[i])
      PROVE  /\ pendingPackets' \in Seq(Packets)
             /\ currentCommands' \in [Units -> MaybePacket]
             /\ controlCyclesLeft' \in [Units -> Nat]
             /\ dataReg' \in [Units -> MaybePacket] /\ cacheReg' \in [Units -> MaybePacket]
             /\ blocks' \in [Units -> [PageNums -> Data \cup {NoData}]]
             /\ RegistersFilled'
  <2>1. /\ SubSeq(pendingPackets, 1, i - 1) \in Seq(Packets)
        /\ SubSeq(pendingPackets, i + 1, Len(pendingPackets)) \in Seq(Packets)
        BY <1>0, SplitAt
  <2>2. pendingPackets' \in Seq(Packets)  BY <1>2, <2>1, ConcatProperties DEF Without
  <2>3. QED  BY <1>0, <1>2, <2>2, ReceivedType
<1>3. QED  BY <1>1, <1>2, DoneCases

LEMMA BufferUpdateShape == ASSUME Shape, NEW d \in Dies, BufferUpdate(d) PROVE Shape'
<1>1. /\ turn = BufferTurn(d) /\ TowardsDie(d) /\ TowardsController(d)
      /\ IF d < DIES_PER_PACKAGE - 1
         THEN turn' = BufferTurn(d + 1) /\ UNCHANGED channelUpdates
         ELSE /\ channelUpdates' = channelUpdates - 1
              /\ turn' = IF channelUpdates = 1 THEN DieTurn(0) ELSE ChannelTurn
      /\ UNCHANGED <<CUT_THROUGH, controllerUpdates, paused, controllerVars,
                     returnDataPackets, dataCyclesLeft, deviceBeatsLeft>>
      BY DEF BufferUpdate
<1>2. d < DIES_PER_PACKAGE - 1 => d + 1 \in Dies  BY FlashDiesAssumption DEF Dies
<1>3. turn' \in Turns
  <2>1. CASE d < DIES_PER_PACKAGE - 1  BY <1>1, <1>2, <2>1 DEF Turns
  <2>2. CASE ~(d < DIES_PER_PACKAGE - 1)  BY <1>1, <2>2, DieTypes DEF Turns
  <2>3. QED  BY <2>1, <2>2
<1>4. ClockInv'
  <2>1. /\ controllerUpdates \in Nat /\ channelUpdates \in Nat /\ channelUpdates > 0
        /\ channelUpdates < DEVICE_CYCLES /\ DEVICE_CYCLES \in Nat
        BY <1>1, BufferedPackageAssumption DEF Shape, ClockInv
  <2>2. CASE d < DIES_PER_PACKAGE - 1
    <3>1. turn' = BufferTurn(d + 1) /\ channelUpdates' = channelUpdates /\ d + 1 \in Dies
          BY <1>1, <1>2, <2>2
    <3>2. turn' # ControllerTurn /\ turn' # ChannelTurn  BY <3>1, TurnsApart
    <3>3. QED  BY <1>1, <2>1, <3>1, <3>2 DEF ClockInv
  <2>3. CASE ~(d < DIES_PER_PACKAGE - 1)
    <3>1. /\ channelUpdates' = channelUpdates - 1
          /\ turn' = IF channelUpdates = 1 THEN DieTurn(0) ELSE ChannelTurn
          BY <1>1, <2>3
    <3>2. /\ channelUpdates' \in Nat /\ channelUpdates' < DEVICE_CYCLES
          /\ channelUpdates = 1 \/ channelUpdates' > 0
          BY <2>1, <3>1
    <3>3. turn' # ControllerTurn /\ (turn' = DieTurn(0) \/ channelUpdates' > 0)
          BY <3>1, <3>2, TurnsApart, DieTypes
    <3>4. \A e \in Dies : turn' # BufferTurn(e)  BY <3>1, TurnsApart, DieTypes
    <3>5. turn' = ChannelTurn => channelUpdates' > 0  BY <3>3, TurnsApart, DieTypes
    <3>6. QED  BY <1>1, <2>1, <3>2, <3>3, <3>4, <3>5 DEF ClockInv
  <2>4. QED  BY <2>2, <2>3
<1>5. /\ InTypes' /\ pendingPackets' \in Seq(Packets)
      /\ currentCommands' \in [Units -> MaybePacket]
      /\ controlCyclesLeft' \in [Units -> Nat]
      /\ dataReg' \in [Units -> MaybePacket] /\ cacheReg' \in [Units -> MaybePacket]
      /\ blocks' \in [Units -> [PageNums -> Data \cup {NoData}]]
      /\ RegistersFilled'
  <2>0. /\ InTypes /\ pendingPackets \in Seq(Packets) /\ DiesTypeOK /\ RegistersFilled
        /\ lookup' \in [die : Dies, left : 1 .. BUFFER_LOOKUP_CYCLES] \cup {NoLookup}
        BY <1>1, InputCases DEF Shape, SendInv, DiesInv
  <2>1. CASE InputIdle
        BY <2>0, <2>1 DEF InputIdle, InTypes, DiesTypeOK, RegistersFilled, commandVars, planeVars
  <2>2. ASSUME InputSteps(d)
        PROVE  /\ inDataLeft' \in [Dies -> Nat] /\ cyclesLeft' \in [Dies -> Nat]
               /\ inData[d] # <<>>
    <3>1. /\ LeftNow(d) \in Nat /\ CyclesNow(d) \in Nat /\ DEVICE_CYCLES \in Nat \ {0}
          /\ BitsNow(d) \in Nat /\ BitsNow(d) <= LeftNow(d)
          BY <2>2, LatchTypes DEF InputSteps, MayLatch
    <3> DEFINE a == LeftNow(d) - BitsNow(d)
               b == IF LeftNow(d) = BitsNow(d) THEN 0
                    ELSE IF CyclesNow(d) <= 1 THEN DEVICE_CYCLES ELSE CyclesNow(d) - 1
    <3>2. a \in Nat /\ b \in Nat  BY <3>1
    <3>3. inDataLeft' = [inDataLeft EXCEPT ![d] = a] /\ cyclesLeft' = [cyclesLeft EXCEPT ![d] = b]
          BY <2>2 DEF InputSteps
    <3> HIDE DEF a, b
    <3>4. QED  BY <2>0, <2>2, <3>2, <3>3 DEF InTypes, InputSteps, MayLatch
  <2>3. CASE InputStays(d)
    <3>1. /\ inDataLeft' \in [Dies -> Nat] /\ cyclesLeft' \in [Dies -> Nat]
          /\ inData[d] # <<>>
          BY <2>2, <2>3 DEF InputStays
    <3>2. SizeNow(d) \in Int  BY <3>1, LatchTypes
    <3>3. inDataSize' \in [Dies -> Int]  BY <2>0, <2>3, <3>2 DEF InputStays, InTypes
    <3>4. waiting' \in [Dies -> BOOLEAN]
      <4> DEFINE w == (LeftNow(d) = BitsNow(d))
      <4>1. w \in BOOLEAN  OBVIOUS
      <4>2. waiting' = [waiting EXCEPT ![d] = w] /\ waiting \in [Dies -> BOOLEAN]
            BY <2>0, <2>3 DEF InputStays, InTypes
      <4> HIDE DEF w
      <4>3. QED  BY <4>1, <4>2
    <3>5. UNCHANGED <<inData, pendingPackets, commandVars, planeVars>>
          BY <2>3 DEF InputStays
    <3>6. InTypes'  BY <2>0, <3>1, <3>3, <3>4, <3>5 DEF InTypes
    <3>7. QED  BY <2>0, <3>5, <3>6 DEF DiesTypeOK, RegistersFilled, commandVars, planeVars
  <2>4. CASE InputArrives(d)
    <3>1. /\ inDataLeft' \in [Dies -> Nat] /\ cyclesLeft' \in [Dies -> Nat]
          /\ inData[d] # <<>>
          BY <2>2, <2>4 DEF InputArrives
    <3>2. /\ SizeNow(d) \in Int /\ PacketSize(InFront(d).type) \in Nat
          /\ <<d, InFront(d).plane>> \in Units /\ Tail(inData[d]) \in Seq(Parts)
          BY <3>1, LatchTypes
    <3>3. inDataSize' \in [Dies -> Int]
      <4> DEFINE x == IF CUT_THROUGH THEN SizeNow(d)
                      ELSE TakeOff(SizeNow(d), PacketSize(InFront(d).type))
      <4>1. x \in Int  BY <3>2 DEF TakeOff
      <4>2. inDataSize' = [inDataSize EXCEPT ![d] = x]  BY <2>4 DEF InputArrives
      <4> HIDE DEF x
      <4>3. QED  BY <2>0, <4>1, <4>2 DEF InTypes
    <3>4. waiting' \in [Dies -> BOOLEAN] /\ inData' \in [Dies -> Seq(Parts)]
          BY <2>0, <2>4, <3>2 DEF InputArrives, InTypes
    <3>5. InTypes'  BY <2>0, <3>1, <3>3, <3>4 DEF InTypes
    <3>6. bufferDone(<<d, InFront(d).plane>>)  BY <2>4 DEF InputArrives
    <3>7. QED  BY <3>2, <3>5, <3>6, DoneTypes
  <2>5. QED  BY <1>1, <2>1, <2>3, <2>4, InputCases
<1>6. /\ OutTypes' /\ pendingDataPackets' \in [Dies -> Seq(Packets)]
      /\ returnTransaction' \in Seq(Packets)
      /\ sType' \in {"CONTROLLER", "BUFFER"} /\ sender' \in {0, Nobody}
      /\ piece' \in [type : Types, unit : Units] \cup {NoPiece}
  <2>0. /\ OutTypes /\ pendingDataPackets \in [Dies -> Seq(Packets)]
        /\ returnTransaction \in Seq(Packets)
        /\ sType \in {"CONTROLLER", "BUFFER"} /\ sender \in {0, Nobody}
        /\ piece \in [type : Types, unit : Units] \cup {NoPiece}
        BY DEF Shape, DiesInv, DiesTypeOK, SendInv, ReturnTypes
  <2>1. CASE OutputWaits(d)
        BY <2>0, <2>1 DEF OutputWaits, outVars, driveVars, channelVars, OutTypes
  <2>2. ASSUME MayDrive(d)
        PROVE  /\ OutUnit(d) \in Units /\ Tail(outData[d]) \in Seq(Parts)
               /\ BitsToSend(d) \in Nat
    <3>1. outData[d] # <<>> /\ outData[d] \in Seq(Parts)
          BY <2>0, <2>2 DEF MayDrive, OutReady, OutTypes
    <3>2. OutFront(d) \in Parts /\ Tail(outData[d]) \in Seq(Parts)
          BY <3>1, HeadTailProperties DEF OutFront
    <3>3. OutUnit(d) \in Units  BY <3>2, UnitTypes DEF OutUnit, Parts
    <3>4. BitsToSend(d) \in Nat  BY <2>0, PageLengths DEF BitsToSend, OutTypes
    <3>5. QED  BY <3>2, <3>3, <3>4
  <2>3. CASE SendPageBits(d)
    <3> DEFINE bits == IF BitsToSend(d) >= CHANNEL_WIDTH THEN CHANNEL_WIDTH ELSE BitsToSend(d)
    <3>1. /\ MayDrive(d) /\ sType' = "BUFFER" /\ sender' = 0 /\ sendingUnit' = OutUnit(d)
          /\ piece' = Piece("READ", OutUnit(d))
          /\ outDataLeft' = [outDataLeft EXCEPT ![d] = BitsToSend(d) - bits]
          /\ outDataSize' = [outDataSize EXCEPT ![d] = IF CUT_THROUGH THEN @ - bits ELSE @]
          /\ UNCHANGED <<outData, pendingDataPackets, returnTransaction>>
          BY <2>3 DEF SendPageBits
    <3>2. OutUnit(d) \in Units /\ BitsToSend(d) \in Nat /\ CHANNEL_WIDTH \in Nat
          BY <2>2, <3>1, BufferedPackageAssumption
    <3>3. bits \in Nat /\ BitsToSend(d) - bits \in Nat  BY <3>2
    <3> HIDE DEF bits
    <3>4. piece' \in [type : Types, unit : Units]  BY <3>1, <3>2 DEF Piece, Types
    <3>5. outDataLeft' \in [Dies -> Nat] /\ outDataSize' \in [Dies -> Int]
          BY <2>0, <3>1, <3>3 DEF OutTypes
    <3>6. QED  BY <2>0, <3>1, <3>2, <3>4, <3>5 DEF OutTypes
  <2>4. CASE PageArrived(d)
    <3>1. /\ MayDrive(d) /\ sender' = Nobody /\ sendingUnit' = NoUnit
          /\ outData' = [outData EXCEPT ![d] = Tail(@)]
          /\ outDataSize' = [outDataSize EXCEPT ![d] =
               IF CUT_THROUGH THEN @
               ELSE TakeOff(@, CHANNEL_WIDTH * BeatsOf(PAGE_LENGTH, CHANNEL_WIDTH))]
          /\ UNCHANGED <<sType, piece, outDataLeft>>
          BY <2>4 DEF PageArrived
    <3>2. Tail(outData[d]) \in Seq(Parts)  BY <2>2, <3>1
    <3>3. outDataSize' \in [Dies -> Int]
      <4>1. CHANNEL_WIDTH * BeatsOf(PAGE_LENGTH, CHANNEL_WIDTH) \in Nat  BY PageLengths
      <4>2. outDataSize[d] \in Int  BY <2>0 DEF OutTypes
      <4> DEFINE x == IF CUT_THROUGH THEN outDataSize[d]
                      ELSE TakeOff(outDataSize[d], CHANNEL_WIDTH * BeatsOf(PAGE_LENGTH, CHANNEL_WIDTH))
      <4>3. x \in Int  BY <4>1, <4>2 DEF TakeOff
      <4>4. outDataSize' = [outDataSize EXCEPT ![d] = x]  BY <3>1
      <4> HIDE DEF x
      <4>5. QED  BY <2>0, <4>3, <4>4 DEF OutTypes
    <3>4. OutTypes'
          BY <2>0, <3>1, <3>2, <3>3 DEF OutTypes
    <3>5. CASE UNCHANGED <<returnTransaction, pendingDataPackets>>
          BY <2>0, <3>1, <3>4, <3>5
    <3>6. CASE /\ pendingDataPackets[d] # <<>>
               /\ receiveFromChannel(Head(pendingDataPackets[d]))
               /\ pendingDataPackets' = [pendingDataPackets EXCEPT ![d] = Tail(@)]
      <4> DEFINE s == pendingDataPackets[d]
      <4>1. s \in Seq(Packets) /\ s # <<>>  BY <2>0, <3>6
      <4>2. Head(s) \in Packets /\ Tail(s) \in Seq(Packets)  BY <4>1, HeadTailProperties
      <4>3. Append(returnTransaction, Head(s)) \in Seq(Packets)
            BY <2>0, <4>2, AppendProperties
      <4>4. returnTransaction' \in Seq(Packets)
            BY <2>0, <3>6, <4>3 DEF receiveFromChannel
      <4>5. QED  BY <2>0, <3>1, <3>4, <3>6, <4>2, <4>4
    <3>7. QED  BY <2>4, <3>5, <3>6 DEF PageArrived
  <2>5. QED  BY <1>1, <2>1, <2>3, <2>4 DEF TowardsController
<1>7. SendInv'
      BY <1>1, <1>5, <1>6 DEF Shape, SendInv, controllerVars
<1>8. DiesInv'
  <2>1. sender' \in Dies \cup {Nobody}  BY <1>6, DieTypes
  <2>2. QED  BY <1>1, <1>5, <1>6, <2>1 DEF Shape, DiesInv, DiesTypeOK, controllerVars
<1>9. ReturnTypes' /\ CUT_THROUGH' \in CutThroughModes
      BY <1>1, <1>6 DEF Shape, ReturnTypes
<1>10. QED  BY <1>3, <1>4, <1>5, <1>6, <1>7, <1>8, <1>9 DEF Shape

(* A beat that ends belongs to a page that is under way already.           *)
LEMMA BeatEndsOnlyWhenSending ==
    ASSUME Shape, NEW d \in Dies, BeatEnds(d)
    PROVE  /\ ~PageStarts(d) /\ sending(d) /\ deviceBeatsLeft[d] \in Nat \ {0}
           /\ ToReturn(d) # <<>> /\ Head(ToReturn(d)) \in Packets
           /\ Tail(ToReturn(d)) \in Seq(Packets)
<1>1. ToReturn(d) # <<>> /\ BeatsToSend(d) > 0 /\ CyclesToBeat(d) = 0
      BY DEF BeatEnds
<1>2. ~PageStarts(d)  BY <1>1, BufferedPackageAssumption DEF CyclesToBeat
<1>3. deviceBeatsLeft[d] \in Nat  BY DEF Shape, ReturnTypes
<1>4. deviceBeatsLeft[d] > 0  BY <1>1, <1>2 DEF BeatsToSend
<1>5. ToReturn(d) \in Seq(Packets)  BY ToReturnType DEF Shape
<1>6. QED  BY <1>1, <1>2, <1>3, <1>4, <1>5, HeadTailProperties DEF sending

LEMMA DieUpdateShape == ASSUME Shape, NEW d \in Dies, DieUpdate(d) PROVE Shape'
<1>1. /\ EndCommands(d)
      /\ PageWaits(d) \/ BeatRuns(d) \/ BeatEnds(d)
      /\ turn' = IF d = DIES_PER_PACKAGE - 1 THEN FtlTurn ELSE DieTurn(d + 1)
      /\ UNCHANGED <<CUT_THROUGH, clockVars, controllerVars, returnTransaction, channelVars,
                     sendVars, piece, inVars, driveVars>>
      BY DEF DieUpdate
<1>2. /\ turn' \in Turns /\ turn' # ControllerTurn /\ turn' # ChannelTurn
      /\ \A e \in Dies : turn' # BufferTurn(e)
  <2>1. d # DIES_PER_PACKAGE - 1 => d + 1 \in Dies  BY FlashDiesAssumption DEF Dies
  <2>2. FtlTurn # ControllerTurn /\ FtlTurn # ChannelTurn
        /\ \A e \in Dies : FtlTurn # BufferTurn(e)
        BY TurnsApart
  <2>3. CASE d = DIES_PER_PACKAGE - 1
        BY <1>1, <2>2, <2>3 DEF Turns
  <2>4. CASE d # DIES_PER_PACKAGE - 1
        BY <1>1, <2>1, <2>4, TurnsApart DEF Turns
  <2>5. QED  BY <2>3, <2>4
<1>3. ClockInv'  BY <1>1, <1>2 DEF Shape, ClockInv, clockVars
<1>4. /\ currentCommands' \in [Units -> MaybePacket]
      /\ controlCyclesLeft' \in [Units -> Nat]
      /\ dataReg' \in [Units -> MaybePacket]
      /\ blocks' \in [Units -> [PageNums -> Data \cup {NoData}]]
      /\ RegistersFilled'
      /\ \A u \in Units : CacheRegAfter(d, u) \in MaybePacket
      BY <1>1, EndedType DEF Shape
<1>5. /\ returnDataPackets \in [Dies -> Seq(Packets)] /\ ToReturn(d) \in Seq(Packets)
      /\ outData \in [Dies -> Seq(Parts)] /\ outDataSize \in [Dies -> Int]
      /\ ReturnTypes /\ NoPacket \in MaybePacket /\ DEVICE_CYCLES \in Nat \ {0}
      BY DiesOf, ToReturnType, BufferedPackageAssumption DEF Shape, OutTypes, MaybePacket
<1>6. ASSUME KeepPages(d)
      PROVE  returnDataPackets' \in [Dies -> Seq(Packets)] /\ cacheReg' \in [Units -> MaybePacket]
      BY <1>4, <1>5, <1>6 DEF KeepPages
<1>7. /\ returnDataPackets' \in [Dies -> Seq(Packets)] /\ cacheReg' \in [Units -> MaybePacket]
      /\ outData' \in [Dies -> Seq(Parts)] /\ outDataSize' \in [Dies -> Int]
      /\ ReturnTypes'
  <2>1. CASE PageWaits(d)
        BY <1>5, <1>6, <2>1 DEF PageWaits, outVars, returnVars, ReturnTypes
  <2>2. CASE BeatRuns(d)
    <3>1. /\ CyclesToBeat(d) > 0
          /\ dataCyclesLeft' = [dataCyclesLeft EXCEPT ![d] = CyclesToBeat(d) - 1]
          /\ deviceBeatsLeft' = [deviceBeatsLeft EXCEPT ![d] = BeatsToSend(d)]
          /\ KeepPages(d) /\ UNCHANGED <<outVars, pendingDataPackets>>
          BY <2>2 DEF BeatRuns
    <3>2. CyclesToBeat(d) \in Nat  BY <1>5 DEF CyclesToBeat, ReturnTypes
    <3>3. BeatsToSend(d) \in Nat
          BY <1>5, PageLengths DEF BeatsToSend, ReturnTypes, PageBeats
    <3>4. CyclesToBeat(d) - 1 \in Nat  BY <3>1, <3>2
    <3>5. QED  BY <1>5, <1>6, <3>1, <3>3, <3>4 DEF ReturnTypes, outVars
  <2>3. CASE BeatEnds(d)
    <3> DEFINE page == Head(ToReturn(d))
               data == AddBits(outData[d], "DATA", page.plane, DEVICE_WIDTH)
               loaded == Loaded(data[Len(data)])
    <3>1. /\ page \in Packets /\ Tail(ToReturn(d)) \in Seq(Packets)
          /\ deviceBeatsLeft[d] \in Nat \ {0}
          BY <2>3, BeatEndsOnlyWhenSending
    <3>2. /\ outData' = [outData EXCEPT ![d] = data]
          /\ outDataSize' = [outDataSize EXCEPT ![d] = @ + DEVICE_WIDTH]
          /\ deviceBeatsLeft' = [deviceBeatsLeft EXCEPT ![d] = @ - 1]
          /\ dataCyclesLeft' = [dataCyclesLeft EXCEPT ![d] =
                                  IF loaded THEN 0 ELSE DEVICE_CYCLES - 1]
          /\ IF loaded
             THEN /\ pendingDataPackets' = [pendingDataPackets EXCEPT ![d] = Append(@, page)]
                  /\ ReleaseFirstPage(d)
             ELSE KeepPages(d) /\ UNCHANGED pendingDataPackets
          BY <2>3 DEF BeatEnds
    <3>3. DEVICE_WIDTH \in Nat /\ page.plane \in Planes /\ outData[d] \in Seq(Parts)
          BY <1>5, <3>1, PacketTypes, PageLengths
    <3>4. data \in Seq(Parts)
      <4> DEFINE s == outData[d]
                 p == page.plane
      <4>1. s \in Seq(Parts) /\ p \in Planes  BY <3>3
      <4> HIDE DEF s, p
      <4>2. AddBits(s, "DATA", p, DEVICE_WIDTH) \in Seq(Parts)
            BY <3>3, <4>1, AddBitsIs DEF Types
      <4>3. QED  BY <4>2 DEF s, p
    <3>5. Append(pendingDataPackets[d], page) \in Seq(Packets)
      <4> DEFINE s == pendingDataPackets[d]
      <4>1. s \in Seq(Packets)  BY <1>5 DEF ReturnTypes
      <4> HIDE DEF s, page
      <4>2. Append(s, page) \in Seq(Packets)  BY <3>1, <4>1, AppendProperties
      <4>3. QED  BY <4>2 DEF s
    <3> DEFINE next == IF loaded THEN 0 ELSE DEVICE_CYCLES - 1
    <3>10. next \in Nat  BY <1>5
    <3>11. dataCyclesLeft' = [dataCyclesLeft EXCEPT ![d] = next]  BY <3>2
    <3> HIDE DEF page, data, loaded, next
    <3>9. /\ outData' \in [Dies -> Seq(Parts)] /\ outDataSize' \in [Dies -> Int]
          /\ deviceBeatsLeft' \in [Dies -> Nat] /\ dataCyclesLeft' \in [Dies -> Nat]
      <4>1. outDataSize' \in [Dies -> Int] /\ deviceBeatsLeft' \in [Dies -> Nat]
            BY <1>5, <3>1, <3>2, <3>3, SMTT(30) DEF ReturnTypes
      <4>2. dataCyclesLeft' \in [Dies -> Nat]  BY <1>5, <3>10, <3>11 DEF ReturnTypes
      <4>3. outData' \in [Dies -> Seq(Parts)]  BY <1>5, <3>2, <3>4
      <4>4. QED  BY <4>1, <4>2, <4>3
    <3>6. CASE loaded
      <4>1. /\ returnDataPackets' = [returnDataPackets EXCEPT ![d] = Tail(ToReturn(d))]
            /\ cacheReg' = [u \in Units |-> IF u = UnitOf(Head(ToReturn(d))) THEN NoPacket
                                            ELSE CacheRegAfter(d, u)]
            BY <3>2, <3>6 DEF ReleaseFirstPage
      <4>2. returnDataPackets' \in [Dies -> Seq(Packets)] /\ cacheReg' \in [Units -> MaybePacket]
            BY <1>4, <1>5, <3>1, <4>1
      <4>3. pendingDataPackets' \in [Dies -> Seq(Packets)]
            BY <1>5, <3>2, <3>5, <3>6 DEF ReturnTypes
      <4>4. QED  BY <3>9, <4>2, <4>3 DEF ReturnTypes
    <3>7. CASE ~loaded
      <4>1. KeepPages(d) /\ UNCHANGED pendingDataPackets  BY <3>2, <3>7
      <4>2. QED  BY <1>5, <1>6, <3>9, <4>1 DEF ReturnTypes
    <3>8. QED  BY <3>6, <3>7
  <2>4. QED  BY <1>1, <2>1, <2>2, <2>3
<1>8. DiesInv'
      BY <1>1, <1>4, <1>7 DEF Shape, DiesInv, DiesTypeOK, controllerVars, channelVars
<1>9. SendInv' /\ InTypes' /\ OutTypes' /\ CUT_THROUGH' \in CutThroughModes
      BY <1>1, <1>7 DEF Shape, SendInv, InTypes, OutTypes, sendVars, controllerVars, channelVars,
                        inVars, latchVars, driveVars
<1>10. QED  BY <1>2, <1>3, <1>7, <1>8, <1>9 DEF Shape

LEMMA ShapeNext == Shape /\ [Next]_vars => Shape'
<1> SUFFICES ASSUME Shape, [Next]_vars PROVE Shape'  OBVIOUS
<1>1. CASE FtlUpdate  BY <1>1, FtlUpdateShape
<1>2. CASE ControllerUpdate  BY <1>2, ControllerUpdateShape
<1>3. CASE ChannelUpdate  BY <1>3, ChannelUpdateShape
<1>4. ASSUME NEW d \in Dies, BufferUpdate(d) PROVE Shape'  BY <1>4, BufferUpdateShape
<1>5. ASSUME NEW d \in Dies, DieUpdate(d) PROVE Shape'  BY <1>5, DieUpdateShape
<1>6. CASE UNCHANGED vars
  <2>1. /\ UNCHANGED <<turn, readQueues, die_pointer, outgoing, channelBeatsLeft,
                       returnTransaction, sType, sender, currentCommands, controlCyclesLeft,
                       returnDataPackets, dataReg, cacheReg, blocks>>
        /\ UNCHANGED <<CUT_THROUGH, controllerUpdates, channelUpdates, paused, pendingPackets,
                       piece, inData, inDataSize, inDataLeft, cyclesLeft, waiting, lookup>>
        /\ UNCHANGED <<outData, outDataSize, outDataLeft, sendingUnit, pendingDataPackets,
                       dataCyclesLeft, deviceBeatsLeft>>
        BY <1>6 DEF vars, diesVars, controllerVars, channelVars, commandVars, planeVars,
                    clockVars, sendVars, inVars, latchVars, outVars, driveVars, returnVars
  <2>2. DiesInv'  BY <2>1 DEF Shape, DiesInv, DiesTypeOK, RegistersFilled
  <2>3. ClockInv' /\ SendInv'  BY <2>1 DEF Shape, ClockInv, SendInv
  <2>4. InTypes' /\ OutTypes' /\ ReturnTypes' /\ turn' \in Turns
        /\ CUT_THROUGH' \in CutThroughModes
        BY <2>1 DEF Shape, InTypes, OutTypes, ReturnTypes
  <2>5. QED  BY <2>2, <2>3, <2>4 DEF Shape
<1>7. QED  BY <1>1, <1>2, <1>3, <1>4, <1>5, <1>6 DEF Next

-----------------------------------------------------------------------------
(* The channel.                                                            *)
LEMMA ChannelInit == Init => ChannelOwned
BY DieTypes DEF Init, DiesInit, ChannelOwned, hasChannel, Nobody

LEMMA ChannelSame ==
    ASSUME ChannelOwned,
           UNCHANGED <<outgoing, paused, sType, sender, sendingUnit>>,
           \A d \in Dies : outData[d] # <<>> =>
                outData'[d] # <<>> /\ Head(outData'[d]).plane = Head(outData[d]).plane,
           sendingUnit \in Units \cup {NoUnit}
    PROVE  ChannelOwned'
<1>1. /\ (outgoing' # NoPacket /\ ~paused') <=> hasChannel("CONTROLLER", 0)'
      /\ hasChannel("BUFFER", 0)' <=> sendingUnit' # NoUnit
      BY DEF ChannelOwned, hasChannel
<1>2. ASSUME hasChannel("BUFFER", 0)'
      PROVE  outData'[sendingUnit[1]] # <<>> /\ OutUnit(sendingUnit[1])' = sendingUnit
  <2> DEFINE d == sendingUnit[1]
  <2>1. hasChannel("BUFFER", 0) /\ sendingUnit # NoUnit
        BY <1>1, <1>2 DEF hasChannel, ChannelOwned
  <2>2. sendingUnit \in Units  BY <2>1
  <2>3. d \in Dies  BY <2>2, UnitTypes
  <2>4. outData[d] # <<>> /\ OutUnit(d) = sendingUnit  BY <2>1 DEF ChannelOwned
  <2>5. outData'[d] # <<>> /\ Head(outData'[d]).plane = Head(outData[d]).plane
        BY <2>3, <2>4
  <2>6. sendingUnit = <<d, Head(outData[d]).plane>>  BY <2>4 DEF OutUnit, OutFront
  <2>7. OutUnit(sendingUnit[1])' = <<d, Head(outData'[d]).plane>>
        BY DEF OutUnit, OutFront
  <2> HIDE DEF d
  <2>8. OutUnit(sendingUnit[1])' = sendingUnit  BY <2>5, <2>6, <2>7
  <2>9. QED  BY <2>5, <2>8 DEF d
<1>3. QED  BY <1>1, <1>2 DEF ChannelOwned

LEMMA ChannelControllerUpdate ==
    ASSUME Shape, ChannelOwned, ControllerUpdate  PROVE ChannelOwned'
<1>1. UNCHANGED <<sendingUnit, outData>>
      BY DEF ControllerUpdate, driveVars, outVars
<1>2. 0 # Nobody /\ sendingUnit \in Units \cup {NoUnit}
      BY DieTypes DEF Shape, OutTypes
<1>3. CASE NothingSent
      BY <1>1, <1>2, <1>3, ChannelSame DEF NothingSent, channelVars, sendVars
<1>4. CASE PacketSent
  <2>1. ~hasChannel("BUFFER", 0)  BY <1>4 DEF PacketSent, hasChannel
  <2>2. sType' = "CONTROLLER" /\ sender' = Nobody /\ outgoing' = NoPacket
        BY <1>4 DEF PacketSent
  <2>3. QED  BY <1>1, <1>2, <2>1, <2>2 DEF ChannelOwned, hasChannel
<1>5. CASE PieceMoves
  <2>1. ~hasChannel("BUFFER", 0)
    <3>1. Placeable # {} => ChannelFree  BY DEF Placeable
    <3>2. HasChannelNow  BY <1>5 DEF PieceMoves
    <3>3. QED  BY <1>2, <3>1, <3>2 DEF HasChannelNow, Resumes, ChannelFree, hasChannel
  <2>2. sendingUnit' = NoUnit  BY <1>1, <2>1 DEF ChannelOwned
  <2>3. outgoing' # NoPacket /\ sType' = "CONTROLLER"
        BY <1>5, PacketTypes DEF PieceMoves, Pause, SendPiece
  <2>4. \/ sender' = Nobody /\ paused' = TRUE
        \/ sender' = 0 /\ paused' = FALSE
        BY <1>5 DEF PieceMoves, Pause, SendPiece
  <2>5. QED  BY <1>2, <2>2, <2>3, <2>4 DEF ChannelOwned, hasChannel
<1>6. QED  BY <1>3, <1>4, <1>5, ControllerCases

LEMMA SendsWhenLeft ==
    ASSUME NEW d \in Dies, BitsToSend(d) # PAGE_LENGTH  PROVE Sends(d)
BY DEF BitsToSend

LEMMA ChannelBufferUpdate ==
    ASSUME Shape, ChannelOwned, NEW d \in Dies, BufferUpdate(d)  PROVE ChannelOwned'
<1>1. /\ TowardsController(d) /\ UNCHANGED <<paused, outgoing>>
      BY DEF BufferUpdate, controllerVars
<1>2. 0 # Nobody /\ sendingUnit \in Units \cup {NoUnit}
      BY DieTypes DEF Shape, OutTypes
<1>3. CASE OutputWaits(d)
      BY <1>1, <1>2, <1>3, ChannelSame DEF OutputWaits, channelVars, outVars, driveVars
<1>4. CASE SendPageBits(d)
  <2>1. /\ sType' = "BUFFER" /\ sender' = 0 /\ sendingUnit' = OutUnit(d)
        /\ UNCHANGED outData /\ MayDrive(d)
        BY <1>4 DEF SendPageBits
  <2>2. outData[d] # <<>> /\ (sender = Nobody \/ hasChannel("BUFFER", 0))
        BY <2>1 DEF MayDrive, OutReady, Sends
  <2>3. ~(outgoing # NoPacket /\ ~paused)
        BY <1>2, <2>2 DEF ChannelOwned, hasChannel
  <2>4. OutUnit(d) # NoUnit /\ OutUnit(d)[1] = d
    <3>1. d # -1  BY DieTypes
    <3>2. QED  BY <3>1 DEF OutUnit, NoUnit
  <2>5. OutUnit(d)' = OutUnit(d)  BY <2>1 DEF OutUnit, OutFront
  <2>6. hasChannel("BUFFER", 0)' /\ ~hasChannel("CONTROLLER", 0)'  BY <2>1 DEF hasChannel
  <2>7. sendingUnit'[1] = d  BY <2>1, <2>4
  <2>8. outData'[sendingUnit'[1]] # <<>>  BY <2>1, <2>2, <2>7
  <2>9. OutUnit(sendingUnit[1])' = sendingUnit'
    <3>1. OutUnit(sendingUnit[1])' = <<d, Head(outData'[d]).plane>>
          BY <2>7 DEF OutUnit, OutFront
    <3>2. QED  BY <2>1, <3>1 DEF OutUnit, OutFront
  <2>10. QED  BY <1>1, <2>1, <2>3, <2>4, <2>6, <2>8, <2>9 DEF ChannelOwned
<1>5. CASE PageArrived(d)
  <2>1. sender' = Nobody /\ sendingUnit' = NoUnit /\ UNCHANGED sType /\ BitsToSend(d) = 0
        BY <1>5 DEF PageArrived
  <2>2. Sends(d)  BY <2>1, SendsWhenLeft, PageLengths
  <2>3. ~(outgoing # NoPacket /\ ~paused)
        BY <2>2 DEF ChannelOwned, hasChannel, Sends
  <2>4. QED  BY <1>1, <1>2, <2>1, <2>3 DEF ChannelOwned, hasChannel
<1>6. QED  BY <1>1, <1>3, <1>4, <1>5 DEF TowardsController

(* Bits that join the packets of a die leave the first one its plane.      *)
LEMMA AddBitsHead ==
    ASSUME NEW s \in Seq(Parts), NEW type \in Types, NEW plane \in Planes, NEW bits \in Nat,
           s # <<>>
    PROVE  /\ AddBits(s, type, plane, bits) # <<>>
           /\ Head(AddBits(s, type, plane, bits)).plane = Head(s).plane
<1> DEFINE r == AddBits(s, type, plane, bits)
           n == Len(s)
<1>1. n \in Nat \ {0} /\ Head(s) = s[1]  BY EmptySeq, SplitHead
<1>2. /\ r \in Seq(Parts) /\ r # <<>>
      /\ Joins(s, type, plane) =>
           /\ \A i \in 1 .. n - 1 : r[i] = s[i]
           /\ r[n] = Part(type, plane, s[n].number + bits)
      /\ ~Joins(s, type, plane) => \A i \in 1 .. n : r[i] = s[i]
      BY AddBitsIs
<1>3. Head(r) = r[1]  BY <1>2, SplitHead
<1>4. r[1].plane = s[1].plane
  <2>1. CASE Joins(s, type, plane) /\ n = 1
        BY <1>2, <2>1 DEF Joins, Part
  <2>2. CASE Joins(s, type, plane) /\ n # 1
    <3>0. n \in Nat /\ n # 0 /\ n # 1  BY <1>1, <2>2
    <3> HIDE DEF n, r
    <3>1. 1 \in 1 .. n - 1  BY <3>0
    <3>2. QED  BY <1>2, <2>2, <3>1
  <2>3. CASE ~Joins(s, type, plane)
    <3>1. 1 \in 1 .. n  BY <1>1
    <3>2. QED  BY <1>2, <2>3, <3>1
  <2>4. QED  BY <2>1, <2>2, <2>3
<1>5. QED  BY <1>1, <1>2, <1>3, <1>4

LEMMA ChannelDieUpdate ==
    ASSUME Shape, ChannelOwned, NEW d \in Dies, DieUpdate(d)  PROVE ChannelOwned'
<1>1. /\ PageWaits(d) \/ BeatRuns(d) \/ BeatEnds(d)
      /\ UNCHANGED <<outgoing, paused, sType, sender, sendingUnit>>
      BY DEF DieUpdate, controllerVars, sendVars, channelVars, driveVars
<1>2. sendingUnit \in Units \cup {NoUnit} /\ outData \in [Dies -> Seq(Parts)]
      BY DEF Shape, OutTypes
<1>3. CASE PageWaits(d) \/ BeatRuns(d)
      BY <1>1, <1>2, <1>3, ChannelSame DEF PageWaits, BeatRuns, outVars
<1>4. CASE BeatEnds(d)
  <2> DEFINE plane == Head(ToReturn(d)).plane
             s == outData[d]
             r == AddBits(s, "DATA", plane, DEVICE_WIDTH)
  <2>1. outData' = [outData EXCEPT ![d] = r]  BY <1>4 DEF BeatEnds
  <2>2. plane \in Planes /\ DEVICE_WIDTH \in Nat
        BY <1>4, BeatEndsOnlyWhenSending, PacketTypes, PageLengths
  <2>3. s # <<>> => r # <<>> /\ Head(r).plane = Head(s).plane
    <3>1. s \in Seq(Parts) /\ "DATA" \in Types  BY <1>2 DEF Types
    <3> HIDE DEF s, plane
    <3>2. QED  BY <2>2, <3>1, AddBitsHead
  <2> HIDE DEF plane, r
  <2>4. \A e \in Dies : outData[e] # <<>> =>
            outData'[e] # <<>> /\ Head(outData'[e]).plane = Head(outData[e]).plane
        BY <1>2, <2>1, <2>3
  <2>5. QED  BY <1>1, <1>2, <2>4, ChannelSame
<1>5. QED  BY <1>1, <1>3, <1>4

LEMMA ChannelNext == Shape /\ ChannelOwned /\ [Next]_vars => ChannelOwned'
<1> SUFFICES ASSUME Shape, ChannelOwned, [Next]_vars PROVE ChannelOwned'  OBVIOUS
<1>0. sendingUnit \in Units \cup {NoUnit}  BY DEF Shape, OutTypes
<1>1. CASE FtlUpdate
      BY <1>0, <1>1, ChannelSame
      DEF FtlUpdate, FtlGives, channelVars, sendVars, outVars, driveVars
<1>2. CASE ControllerUpdate  BY <1>2, ChannelControllerUpdate
<1>3. CASE ChannelUpdate
      BY <1>0, <1>3, ChannelSame
      DEF ChannelUpdate, channelVars, sendVars, outVars, driveVars, controllerVars
<1>4. ASSUME NEW d \in Dies, BufferUpdate(d) PROVE ChannelOwned'
      BY <1>4, ChannelBufferUpdate
<1>5. ASSUME NEW d \in Dies, DieUpdate(d) PROVE ChannelOwned'
      BY <1>5, ChannelDieUpdate
<1>6. CASE UNCHANGED vars
      BY <1>0, <1>6, ChannelSame
      DEF vars, diesVars, channelVars, sendVars, outVars, driveVars, controllerVars
<1>7. QED  BY <1>1, <1>2, <1>3, <1>4, <1>5, <1>6 DEF Next

(* One owner of the channel at a time, with a paused controller out of the *)
(* way of the pages, whatever commands the FTL gives.                      *)
THEOREM BufferChannelOwned == Spec => []ChannelOwned
<1>1. QED  BY InitShape, ShapeNext, ChannelInit, ChannelNext, PTL DEF Spec

-----------------------------------------------------------------------------
(* The pages of a die in the buffer: those the die has given away are      *)
(* complete, and behind them is the one it is sending, with as many bits   *)
(* as beats have ended.                                                    *)
OutSound(data, given, returning, left) ==
    /\ left \in 0 .. PageBeats
    /\ left > 0 => returning # <<>>
    /\ \A i \in 1 .. Len(given) :
         data[i] = Part("DATA", given[i].plane, PAGE_LENGTH)
    /\ Len(data) = IF left \in 1 .. PageBeats - 1 THEN Len(given) + 1 ELSE Len(given)
    /\ left \in 1 .. PageBeats - 1 =>
         data[Len(given) + 1] =
            Part("DATA", Head(returning).plane, DEVICE_WIDTH * (PageBeats - left))

OutMatches ==
    \A d \in Dies : OutSound(outData[d], pendingDataPackets[d], returnDataPackets[d],
                             deviceBeatsLeft[d])

(* What has been sent of the first page was there to send.                 *)
SendSound ==
    \A d \in Dies : outData[d] # <<>> /\ Sends(d) =>
        /\ outDataLeft[d] <= PAGE_LENGTH
        /\ PAGE_LENGTH - outDataLeft[d] <= OutFront(d).number

LEMMA OutTail ==
    ASSUME NEW data \in Seq(Parts), NEW given \in Seq(Packets), NEW returning \in Seq(Packets),
           NEW left, OutSound(data, given, returning, left),
           data # <<>>, Head(data).number >= PAGE_LENGTH
    PROVE  /\ given # <<>> /\ Head(given).plane = Head(data).plane
           /\ Head(data) = Part("DATA", Head(given).plane, PAGE_LENGTH)
           /\ OutSound(Tail(data), Tail(given), returning, left)
<1> DEFINE k == Len(given)
           b == PageBeats
           rest == Tail(given)
           tail == Tail(data)
<1>1. /\ k \in Nat /\ Len(data) \in Nat \ {0} /\ Head(data) = data[1] /\ tail \in Seq(Parts)
      /\ Len(tail) = Len(data) - 1 /\ \A i \in 1 .. Len(tail) : tail[i] = data[i + 1]
      BY LenProperties, EmptySeq, SplitHead, HeadTailProperties
<1>2. /\ left \in 0 .. b /\ b \in Nat
      /\ left > 0 => returning # <<>>
      /\ \A i \in 1 .. k : data[i] = Part("DATA", given[i].plane, PAGE_LENGTH)
      /\ Len(data) = IF left \in 1 .. b - 1 THEN k + 1 ELSE k
      /\ left \in 1 .. b - 1 =>
           data[k + 1] = Part("DATA", Head(returning).plane, DEVICE_WIDTH * (b - left))
      BY PageLengths DEF OutSound
<1>3. k # 0
  <2> SUFFICES ASSUME k = 0 PROVE FALSE  OBVIOUS
  <2>1. left \in 1 .. b - 1  BY <1>1, <1>2
  <2>2. data[1] = Part("DATA", Head(returning).plane, DEVICE_WIDTH * (b - left))
        BY <1>2, <2>1
  <2>3. left \in 1 .. b  BY <1>2, <2>1
  <2>4. DEVICE_WIDTH * (b - left) \in Nat /\ DEVICE_WIDTH * (b - left) < PAGE_LENGTH
        BY <2>3, PageLengths
  <2>5. data[1].number = DEVICE_WIDTH * (b - left)  BY <2>2 DEF Part
  <2> DEFINE x == DEVICE_WIDTH * (b - left)
  <2>6. x \in Nat /\ x < PAGE_LENGTH /\ x >= PAGE_LENGTH /\ PAGE_LENGTH \in Nat
        BY <1>1, <2>4, <2>5, PageLengths
  <2> HIDE DEF x
  <2>7. QED  BY <2>6
<1>4. given # <<>>  BY <1>3, EmptySeq
<1>5. /\ Head(given) = given[1] /\ rest \in Seq(Packets) /\ Len(rest) = k - 1
      /\ \A i \in 1 .. k - 1 : rest[i] = given[i + 1]
      BY <1>4, SplitHead, HeadTailProperties
<1> HIDE DEF k, b, rest, tail
<1>6. 1 \in 1 .. k  BY <1>1, <1>3
<1>7. Head(data) = Part("DATA", Head(given).plane, PAGE_LENGTH)
      BY <1>1, <1>2, <1>5, <1>6
<1>8. \A i \in 1 .. Len(rest) : tail[i] = Part("DATA", rest[i].plane, PAGE_LENGTH)
  <2> SUFFICES ASSUME NEW i \in 1 .. Len(rest)
               PROVE  tail[i] = Part("DATA", rest[i].plane, PAGE_LENGTH)
      OBVIOUS
  <2>1. i \in 1 .. k - 1 /\ i + 1 \in 1 .. k /\ i \in 1 .. Len(tail)
        BY <1>1, <1>2, <1>5
  <2>2. data[i + 1] = Part("DATA", given[i + 1].plane, PAGE_LENGTH)  BY <1>2, <2>1
  <2>3. QED  BY <1>1, <1>5, <2>1, <2>2
<1>9. Len(tail) = IF left \in 1 .. b - 1 THEN Len(rest) + 1 ELSE Len(rest)
      BY <1>1, <1>2, <1>5
<1>10. ASSUME left \in 1 .. b - 1
       PROVE  tail[Len(rest) + 1] =
                Part("DATA", Head(returning).plane, DEVICE_WIDTH * (b - left))
  <2>1. Len(rest) + 1 = k /\ k \in 1 .. Len(tail)  BY <1>1, <1>2, <1>3, <1>5, <1>10
  <2>2. tail[k] = data[k + 1]  BY <1>1, <2>1
  <2>3. QED  BY <1>2, <1>10, <2>1, <2>2
<1>11. Head(given).plane = Head(data).plane  BY <1>7 DEF Part
<1>12. OutSound(tail, rest, returning, left)
       BY <1>2, <1>8, <1>9, <1>10 DEF OutSound, b
<1>13. QED  BY <1>4, <1>7, <1>11, <1>12 DEF tail, rest

LEMMA OutBeat ==
    ASSUME NEW data \in Seq(Parts), NEW given \in Seq(Packets), NEW returning \in Seq(Packets),
           NEW left, OutSound(data, given, returning, left), left > 0,
           NEW page \in Packets, page = Head(returning)
    PROVE  LET next == AddBits(data, "DATA", page.plane, DEVICE_WIDTH)
           IN  /\ left = 1 => /\ Loaded(next[Len(next)])
                              /\ OutSound(next, Append(given, page), Tail(returning), 0)
               /\ left # 1 => /\ ~Loaded(next[Len(next)])
                              /\ OutSound(next, given, returning, left - 1)
               /\ data # <<>> => Head(next).number >= Head(data).number
<1> DEFINE k == Len(given)
           b == PageBeats
           w == DEVICE_WIDTH
           plane == page.plane
           n == Len(data)
           next == AddBits(data, "DATA", plane, w)
<1>1. k \in Nat /\ n \in Nat /\ \A i \in 1 .. n : data[i] \in Parts
      BY LenProperties, ElementOfSeq
<1>2. /\ left \in 1 .. b /\ b \in Nat \ {0, 1} /\ returning # <<>>
      /\ w \in Nat \ {0} /\ PAGE_LENGTH \in Nat /\ w < PAGE_LENGTH /\ w * b = PAGE_LENGTH
      /\ \A j \in 1 .. b : w * (b - j) \in Nat /\ w * (b - j) < PAGE_LENGTH
      BY PageLengths DEF OutSound
<1>3. /\ \A i \in 1 .. k : data[i] = Part("DATA", given[i].plane, PAGE_LENGTH)
      /\ n = IF left \in 1 .. b - 1 THEN k + 1 ELSE k
      /\ left \in 1 .. b - 1 => data[k + 1] = Part("DATA", plane, w * (b - left))
      BY DEF OutSound
<1>4. plane \in Planes /\ "DATA" \in Types /\ Length("DATA") = PAGE_LENGTH
      BY PacketTypes DEF Types, Length
<1>5. /\ next \in Seq(Parts) /\ next # <<>>
      /\ Joins(data, "DATA", plane) =>
           /\ n > 0 /\ Len(next) = n /\ \A i \in 1 .. n - 1 : next[i] = data[i]
           /\ next[n] = Part("DATA", plane, data[n].number + w)
      /\ ~Joins(data, "DATA", plane) =>
           /\ Len(next) = n + 1 /\ \A i \in 1 .. n : next[i] = data[i]
           /\ next[n + 1] = Part("DATA", plane, w)
  <2> HIDE DEF plane, w
  <2>1. QED  BY <1>2, <1>4, AddBitsIs
<1>6. /\ Append(given, page) \in Seq(Packets) /\ Len(Append(given, page)) = k + 1
      /\ \A i \in 1 .. k : Append(given, page)[i] = given[i]
      /\ Append(given, page)[k + 1] = page
      BY AppendProperties
<1>7. CASE left = b
  <2>1. n = k  BY <1>2, <1>3, <1>7
  <2>2. ~Joins(data, "DATA", plane)
    <3>1. CASE n = 0  BY <3>1, <1>1, EmptySeq DEF Joins
    <3>2. CASE n # 0
      <4>1. n \in 1 .. k  BY <1>1, <2>1, <3>2
      <4>2. data[n] = Part("DATA", given[n].plane, PAGE_LENGTH)
        <5> HIDE DEF n
        <5>1. QED  BY <1>3, <4>1
      <4>3. data[n].number = PAGE_LENGTH  BY <4>2 DEF Part
      <4>4. QED  BY <1>2, <1>4, <4>3 DEF Joins
    <3>3. QED  BY <3>1, <3>2
  <2>3. /\ Len(next) = k + 1 /\ \A i \in 1 .. k : next[i] = data[i]
        /\ next[k + 1] = Part("DATA", plane, w)
        BY <1>5, <2>1, <2>2
  <2>4. left - 1 \in 1 .. b - 1 /\ left # 1 /\ b - (left - 1) = 1 /\ w * 1 = w
        BY <1>2, <1>7
  <2>5. ~Loaded(next[Len(next)])
    <3>1. next[Len(next)].number = w  BY <2>3 DEF Part
    <3>2. QED  BY <1>2, <3>1 DEF Loaded
  <2>6. OutSound(next, given, returning, left - 1)
    <3>1. \A i \in 1 .. k : next[i] = Part("DATA", given[i].plane, PAGE_LENGTH)
          BY <1>3, <2>3
    <3>2. next[k + 1] = Part("DATA", Head(returning).plane, w * (b - (left - 1)))
          BY <2>3, <2>4
    <3>3. left - 1 \in 0 .. b  BY <1>2
    <3> HIDE DEF next
    <3>4. QED  BY <1>2, <2>3, <2>4, <3>1, <3>2, <3>3 DEF OutSound
  <2>7. data # <<>> => Head(next).number >= Head(data).number
    <3>1. SUFFICES ASSUME data # <<>> PROVE Head(next).number >= Head(data).number
          OBVIOUS
    <3>2. n # 0 /\ Head(data) = data[1]  BY <3>1, EmptySeq, SplitHead
    <3>3. 1 \in 1 .. n /\ 1 \in 1 .. k  BY <1>1, <2>1, <3>2
    <3>4. Head(next) = next[1]  BY <1>5, SplitHead
    <3>5. next[1] = data[1]  BY <2>3, <3>3
    <3>6. data[1].number \in Nat  BY <1>1, <3>3 DEF Parts
    <3> HIDE DEF next
    <3>7. QED  BY <3>2, <3>4, <3>5, <3>6
  <2>8. QED  BY <2>4, <2>5, <2>6, <2>7
<1>8. CASE left # b
  <2>0. left \in 1 .. b - 1 /\ left \in 1 .. b  BY <1>2, <1>8
  <2>1. n = k + 1 /\ data[n] = Part("DATA", plane, w * (b - left))  BY <1>3, <2>0
  <2> DEFINE x == w * (b - left)
  <2>2. x \in Nat /\ x < PAGE_LENGTH  BY <1>2, <2>0
  <2>3. data[n].number = x /\ data[n].type = "DATA" /\ data[n].plane = plane
        BY <2>1 DEF Part
  <2>4. x + w = w * (b - (left - 1))
    <3> HIDE DEF x, w, b
    <3>1. b - (left - 1) = (b - left) + 1  BY <1>2
    <3> DEFINE m == b - left
    <3>2. m \in Nat /\ x = w * m  BY <1>2 DEF x
    <3>3. w * (m + 1) = w * m + w
      <4> HIDE DEF m
      <4>1. QED  BY <1>2, <3>2
    <3>4. QED  BY <3>1, <3>2, <3>3
  <2> HIDE DEF x
  <2>5. Joins(data, "DATA", plane)
    <3>1. data # <<>>  BY <1>1, <2>1, EmptySeq
    <3>2. QED  BY <1>4, <2>2, <2>3, <3>1 DEF Joins
  <2>6. /\ Len(next) = k + 1 /\ \A i \in 1 .. k : next[i] = data[i]
        /\ next[k + 1] = Part("DATA", plane, x + w)
        BY <1>1, <1>5, <2>1, <2>3, <2>5
  <2>7. next[Len(next)].number = x + w  BY <2>6 DEF Part
  <2>8. \A i \in 1 .. k : next[i] = Part("DATA", given[i].plane, PAGE_LENGTH)
        BY <1>3, <2>6
  <2>9. data # <<>> => Head(next).number >= Head(data).number
    <3>1. n # 0 /\ data # <<>> /\ Head(data) = data[1]  BY <1>1, <2>1, EmptySeq, SplitHead
    <3>2. Head(next) = next[1]  BY <1>5, SplitHead
    <3> HIDE DEF next
    <3>3. CASE k = 0
      <4>1. n = 1 /\ next[1] = Part("DATA", plane, x + w) /\ data[1].number = x
            BY <2>1, <2>3, <2>6, <3>3
      <4>2. next[1].number = x + w  BY <4>1 DEF Part
      <4>3. QED  BY <1>2, <2>2, <3>1, <3>2, <4>1, <4>2
    <3>4. CASE k # 0
      <4>1. 1 \in 1 .. k /\ 1 \in 1 .. n  BY <1>1, <2>1, <3>4
      <4>2. next[1] = data[1] /\ data[1].number \in Nat  BY <1>1, <2>6, <4>1 DEF Parts
      <4>3. QED  BY <3>1, <3>2, <4>2
    <3>5. QED  BY <3>3, <3>4
  <2>10. CASE left = 1
    <3>1. x + w = PAGE_LENGTH
      <4>1. b - (left - 1) = b  BY <1>2, <2>10
      <4>2. QED  BY <1>2, <2>4, <4>1
    <3>2. Loaded(next[Len(next)])  BY <1>2, <2>7, <3>1 DEF Loaded
    <3>3. \A i \in 1 .. Len(Append(given, page)) :
             next[i] = Part("DATA", Append(given, page)[i].plane, PAGE_LENGTH)
      <4> SUFFICES ASSUME NEW i \in 1 .. k + 1
                   PROVE  next[i] = Part("DATA", Append(given, page)[i].plane, PAGE_LENGTH)
          BY <1>6
      <4>1. CASE i = k + 1  BY <1>6, <2>6, <3>1, <4>1
      <4>2. CASE i # k + 1
        <5>1. i \in 1 .. k  BY <1>1, <4>2
        <5>2. QED  BY <1>6, <2>8, <5>1
      <4>3. QED  BY <4>1, <4>2
    <3>4. 0 \in 0 .. b /\ 0 \notin 1 .. b - 1 /\ ~(0 > 0)  BY <1>2
    <3> HIDE DEF next
    <3>5. OutSound(next, Append(given, page), Tail(returning), 0)
          BY <1>6, <2>6, <3>3, <3>4, Zenon DEF OutSound, b
    <3>6. QED  BY <2>9, <2>10, <3>2, <3>5 DEF next
  <2>11. CASE left # 1
    <3>1. left - 1 \in 1 .. b - 1 /\ left - 1 \in 1 .. b /\ left - 1 \in 0 .. b
          BY <1>2, <2>0, <2>11
    <3>2. x + w < PAGE_LENGTH /\ x + w \in Nat  BY <1>2, <2>4, <3>1
    <3>3. ~Loaded(next[Len(next)])  BY <1>2, <2>7, <3>2 DEF Loaded
    <3>4. next[k + 1] = Part("DATA", Head(returning).plane, w * (b - (left - 1)))
          BY <2>4, <2>6
    <3> HIDE DEF next
    <3>5. OutSound(next, given, returning, left - 1)
          BY <1>2, <2>6, <2>8, <3>1, <3>4 DEF OutSound
    <3>6. QED  BY <2>9, <2>11, <3>3, <3>5 DEF next
  <2>12. QED  BY <2>10, <2>11
<1>9. QED  BY <1>7, <1>8

(* Nothing is sent from the buffer, and nothing joins it.                  *)
LEMMA OutSame ==
    ASSUME OutMatches, SendSound,
           UNCHANGED <<outData, pendingDataPackets, returnDataPackets, deviceBeatsLeft,
                       outDataLeft>>,
           UNCHANGED <<sType, sender, sendingUnit>> \/ ~hasChannel("BUFFER", 0)'
    PROVE  OutMatches' /\ SendSound'
<1>1. OutMatches'  BY DEF OutMatches
<1>2. ASSUME NEW d \in Dies, outData'[d] # <<>>, Sends(d)'
      PROVE  /\ outDataLeft'[d] <= PAGE_LENGTH
             /\ PAGE_LENGTH - outDataLeft'[d] <= OutFront(d)'.number
  <2>1. UNCHANGED <<sType, sender, sendingUnit>>  BY <1>2 DEF Sends
  <2>2. Sends(d)  BY <1>2, <2>1 DEF Sends, hasChannel, OutUnit, OutFront
  <2>3. OutFront(d)' = OutFront(d)  BY DEF OutFront
  <2>4. QED  BY <1>2, <2>2, <2>3 DEF SendSound
<1>3. QED  BY <1>1, <1>2 DEF SendSound

LEMMA OutInit == Init => OutMatches /\ SendSound
<1> SUFFICES ASSUME Init PROVE OutMatches /\ SendSound  OBVIOUS
<1>1. /\ \A d \in Dies : outData[d] = <<>> /\ pendingDataPackets[d] = <<>> /\ deviceBeatsLeft[d] = 0
      BY DEF Init
<1>2. ASSUME NEW d \in Dies
      PROVE  OutSound(outData[d], pendingDataPackets[d], returnDataPackets[d], deviceBeatsLeft[d])
  <2>1. 0 \in 0 .. PageBeats /\ 0 \notin 1 .. PageBeats - 1 /\ Len(<<>>) = 0  BY PageLengths
  <2>2. QED  BY <1>1, <2>1 DEF OutSound
<1>3. QED  BY <1>1, <1>2 DEF OutMatches, SendSound

(* A page leaves the buffer with its packet.                               *)
LEMMA OutBufferUpdate ==
    ASSUME Shape, ChannelOwned, OutMatches, SendSound, NEW d \in Dies, BufferUpdate(d)
    PROVE  OutMatches' /\ SendSound'
<1>1. /\ TowardsController(d) /\ UNCHANGED <<returnDataPackets, deviceBeatsLeft>>
      BY DEF BufferUpdate
<1>2. /\ outData \in [Dies -> Seq(Parts)] /\ outDataLeft \in [Dies -> Nat]
      /\ pendingDataPackets \in [Dies -> Seq(Packets)]
      /\ returnDataPackets \in [Dies -> Seq(Packets)]
      BY DiesOf DEF Shape, OutTypes, ReturnTypes
<1>3. CASE OutputWaits(d)
      BY <1>1, <1>3, OutSame DEF OutputWaits, outVars, driveVars, channelVars
<1>4. ASSUME MayDrive(d)
      PROVE  /\ outData[d] # <<>> /\ OutFront(d) \in Parts /\ BitsToSend(d) \in Nat
             /\ BitsToSend(d) <= PAGE_LENGTH
             /\ PAGE_LENGTH - BitsToSend(d) <= OutFront(d).number
             /\ \/ OutFront(d).number >= PAGE_LENGTH - BitsToSend(d) + CHANNEL_WIDTH
                \/ OutFront(d).number >= PAGE_LENGTH
             /\ \A e \in Dies : OutUnit(e)[1] = e
  <2>1. outData[d] # <<>> /\ EnoughOut(d)  BY <1>4 DEF MayDrive, OutReady
  <2>2. OutFront(d) \in Parts  BY <1>2, <2>1, HeadTailProperties DEF OutFront
  <2>3. OutFront(d).number \in Nat  BY <2>2 DEF Parts
  <2>4. PAGE_LENGTH \in Nat  BY PageLengths
  <2>5. CASE Sends(d)
    <3>1. BitsToSend(d) = outDataLeft[d]  BY <2>5 DEF BitsToSend
    <3>2. QED  BY <1>2, <2>1, <2>2, <2>5, <3>1 DEF SendSound, EnoughOut, OutUnit
  <2>6. CASE ~Sends(d)
    <3>1. BitsToSend(d) = PAGE_LENGTH  BY <2>6 DEF BitsToSend
    <3>2. QED  BY <2>1, <2>2, <2>3, <2>4, <3>1 DEF EnoughOut, OutUnit
  <2>7. QED  BY <2>5, <2>6
<1>5. CASE SendPageBits(d)
  <2> DEFINE b == BitsToSend(d)
             bits == IF b >= CHANNEL_WIDTH THEN CHANNEL_WIDTH ELSE b
             x == OutFront(d).number
  <2>1. /\ MayDrive(d) /\ sendingUnit' = OutUnit(d)
        /\ outDataLeft' = [outDataLeft EXCEPT ![d] = b - bits]
        /\ UNCHANGED <<outData, pendingDataPackets>>
        BY <1>5 DEF SendPageBits
  <2>2. OutMatches'  BY <1>1, <2>1 DEF OutMatches
  <2>3. ASSUME NEW e \in Dies, outData'[e] # <<>>, Sends(e)'
        PROVE  /\ outDataLeft'[e] <= PAGE_LENGTH
               /\ PAGE_LENGTH - outDataLeft'[e] <= OutFront(e)'.number
    <3>1. OutUnit(e)' = OutUnit(e) /\ OutFront(e)' = OutFront(e)
          BY <2>1 DEF OutUnit, OutFront
    <3>2. sendingUnit' = OutUnit(e)  BY <2>3, <3>1 DEF Sends
    <3>3. OutUnit(e)[1] = e /\ OutUnit(d)[1] = d  BY DEF OutUnit
    <3>4. e = d
      <4> DEFINE s == OutUnit(e)
                 t == OutUnit(d)
      <4>1. s = t  BY <2>1, <3>2
      <4>2. s[1] = e /\ t[1] = d  BY <3>3
      <4> HIDE DEF s, t
      <4>3. QED  BY <4>1, <4>2
    <3>5. outDataLeft'[e] = b - bits /\ OutFront(e)'.number = x
          BY <1>2, <2>1, <3>1, <3>4
    <3>6. /\ b \in Nat /\ b <= PAGE_LENGTH /\ PAGE_LENGTH - b <= x
          /\ x >= PAGE_LENGTH - b + CHANNEL_WIDTH \/ x >= PAGE_LENGTH
          BY <1>4, <2>1
    <3>7. CHANNEL_WIDTH \in Nat /\ PAGE_LENGTH \in Nat  BY BufferedPackageAssumption
    <3>8. x \in Nat  BY <1>4, <2>1 DEF Parts
    <3> HIDE DEF b, x
    <3>9. b - bits <= PAGE_LENGTH /\ PAGE_LENGTH - (b - bits) <= x
          BY <3>6, <3>7, <3>8
    <3>10. QED  BY <3>5, <3>9
  <2>4. QED  BY <2>2, <2>3 DEF SendSound
<1>6. CASE PageArrived(d)
  <2> DEFINE data == outData[d]
             given == pendingDataPackets[d]
             returning == returnDataPackets[d]
  <2>1. /\ MayDrive(d) /\ BitsToSend(d) = 0 /\ sender' = Nobody
        /\ outData' = [outData EXCEPT ![d] = Tail(@)]
        /\ given # <<>> /\ Head(given).plane = OutFront(d).plane =>
             pendingDataPackets' = [pendingDataPackets EXCEPT ![d] = Tail(@)]
        BY <1>6 DEF PageArrived
  <2>2. OutFront(d).number >= PAGE_LENGTH
    <3> DEFINE x == OutFront(d).number
    <3>1. x \in Nat /\ (PAGE_LENGTH - 0 <= x)  BY <1>4, <2>1 DEF Parts
    <3>2. PAGE_LENGTH \in Nat  BY PageLengths
    <3> HIDE DEF x
    <3>3. x >= PAGE_LENGTH  BY <3>1, <3>2
    <3>4. QED  BY <3>3 DEF x
  <2>3. /\ data # <<>> /\ OutFront(d) = Head(data)
        /\ data \in Seq(Parts) /\ given \in Seq(Packets) /\ returning \in Seq(Packets)
        /\ OutSound(data, given, returning, deviceBeatsLeft[d])
        BY <1>2, <1>4, <2>1 DEF OutFront, OutMatches
  <2>4. /\ given # <<>> /\ Head(given).plane = Head(data).plane
        /\ OutSound(Tail(data), Tail(given), returning, deviceBeatsLeft[d])
    <3> HIDE DEF data, given, returning
    <3>1. Head(data).number >= PAGE_LENGTH  BY <2>2, <2>3
    <3>2. QED  BY <2>3, <3>1, OutTail
  <2>5. pendingDataPackets' = [pendingDataPackets EXCEPT ![d] = Tail(@)]
        BY <2>1, <2>3, <2>4
  <2>6. OutMatches'
    <3> SUFFICES ASSUME NEW e \in Dies
                 PROVE  OutSound(outData'[e], pendingDataPackets'[e], returnDataPackets'[e],
                                 deviceBeatsLeft'[e])
        BY DEF OutMatches
    <3>1. CASE e = d  BY <1>1, <1>2, <2>1, <2>4, <2>5, <3>1
    <3>2. CASE e # d
      <4>1. outData'[e] = outData[e] /\ pendingDataPackets'[e] = pendingDataPackets[e]
            BY <1>2, <2>1, <2>5, <3>2
      <4>2. QED  BY <1>1, <4>1 DEF OutMatches
    <3>3. QED  BY <3>1, <3>2
  <2>7. SendSound'
    <3>1. 0 # Nobody  BY DieTypes
    <3>2. QED  BY <2>1, <3>1 DEF SendSound, Sends, hasChannel
  <2>8. QED  BY <2>6, <2>7
<1>7. QED  BY <1>1, <1>3, <1>5, <1>6 DEF TowardsController

(* A page enters the buffer beat by beat.                                  *)
LEMMA ReturningKept ==
    ASSUME Shape, NEW d \in Dies, returnDataPackets[d] # <<>>
    PROVE  ToReturn(d) # <<>> /\ Head(ToReturn(d)) = Head(returnDataPackets[d])
<1> DEFINE r == returnDataPackets[d]
           f == Fetched(d)
<1>1. r \in Seq(Packets) /\ f \in Seq(Packets) /\ r # <<>>
      BY DiesOf, ToReturnType DEF Shape
<1>2. ToReturn(d) = r \o f  BY DEF ToReturn
<1> HIDE DEF r, f
<1>3. r \o f # <<>> /\ Head(r \o f) = Head(r)  BY <1>1, HeadTailConcat
<1>4. QED  BY <1>2, <1>3 DEF r

LEMMA OutDieUpdate ==
    ASSUME Shape, ChannelOwned, OutMatches, SendSound, NEW d \in Dies, DieUpdate(d)
    PROVE  OutMatches' /\ SendSound'
<1>1. /\ PageWaits(d) \/ BeatRuns(d) \/ BeatEnds(d)
      /\ UNCHANGED <<sType, sender, sendingUnit, outDataLeft>>
      BY DEF DieUpdate, channelVars, driveVars
<1>2. /\ outData \in [Dies -> Seq(Parts)] /\ deviceBeatsLeft \in [Dies -> Nat]
      /\ pendingDataPackets \in [Dies -> Seq(Packets)]
      /\ returnDataPackets \in [Dies -> Seq(Packets)] /\ ToReturn(d) \in Seq(Packets)
      BY DiesOf, ToReturnType DEF Shape, OutTypes, ReturnTypes
<1>3. OutSound(outData[d], pendingDataPackets[d], returnDataPackets[d], deviceBeatsLeft[d])
      BY DEF OutMatches
<1>4. ASSUME NEW left, deviceBeatsLeft' = [deviceBeatsLeft EXCEPT ![d] = left],
             \/ left = deviceBeatsLeft[d]
             \/ deviceBeatsLeft[d] = 0 /\ left = PageBeats /\ ToReturn(d) # <<>>,
             KeepPages(d), UNCHANGED <<outData, pendingDataPackets>>
      PROVE  OutMatches' /\ SendSound'
  <2>1. returnDataPackets' = [returnDataPackets EXCEPT ![d] = ToReturn(d)]
        BY <1>4 DEF KeepPages
  <2>2. OutSound(outData[d], pendingDataPackets[d], ToReturn(d), left)
    <3>1. CASE left = deviceBeatsLeft[d]
      <4>1. returnDataPackets[d] # <<>> => /\ ToReturn(d) # <<>>
                                           /\ Head(ToReturn(d)) = Head(returnDataPackets[d])
            BY ReturningKept
      <4>2. \A m \in 1 .. PageBeats - 1 : m > 0  BY PageLengths
      <4>3. QED  BY <1>3, <3>1, <4>1, <4>2 DEF OutSound
    <3>2. CASE deviceBeatsLeft[d] = 0 /\ left = PageBeats /\ ToReturn(d) # <<>>
      <4>1. /\ PageBeats \in 0 .. PageBeats /\ PageBeats \notin 1 .. PageBeats - 1
            /\ 0 \notin 1 .. PageBeats - 1
            BY PageLengths
      <4>2. QED  BY <1>3, <3>2, <4>1 DEF OutSound
    <3>3. QED  BY <1>4, <3>1, <3>2
  <2>3. OutMatches'
    <3> SUFFICES ASSUME NEW e \in Dies
                 PROVE  OutSound(outData'[e], pendingDataPackets'[e], returnDataPackets'[e],
                                 deviceBeatsLeft'[e])
        BY DEF OutMatches
    <3>1. CASE e = d  BY <1>2, <1>4, <2>1, <2>2, <3>1
    <3>2. CASE e # d
      <4>1. returnDataPackets'[e] = returnDataPackets[e] /\ deviceBeatsLeft'[e] = deviceBeatsLeft[e]
            BY <1>2, <1>4, <2>1, <3>2
      <4>2. QED  BY <1>4, <4>1 DEF OutMatches
    <3>3. QED  BY <3>1, <3>2
  <2>4. SendSound'
        BY <1>1, <1>4 DEF SendSound, Sends, hasChannel, OutUnit, OutFront
  <2>5. QED  BY <2>3, <2>4
<1>5. CASE PageWaits(d)
  <2>1. deviceBeatsLeft' = [deviceBeatsLeft EXCEPT ![d] = deviceBeatsLeft[d]]
        BY <1>2, <1>5 DEF PageWaits, returnVars
  <2>2. KeepPages(d) /\ UNCHANGED <<outData, pendingDataPackets>>
        BY <1>5 DEF PageWaits, outVars, returnVars
  <2>3. QED  BY <1>4, <2>1, <2>2
<1>6. CASE BeatRuns(d)
  <2>1. /\ deviceBeatsLeft' = [deviceBeatsLeft EXCEPT ![d] = BeatsToSend(d)]
        /\ KeepPages(d) /\ UNCHANGED <<outData, pendingDataPackets>> /\ ToReturn(d) # <<>>
        BY <1>6 DEF BeatRuns, outVars
  <2>2. CASE PageStarts(d)
    <3>1. BeatsToSend(d) = PageBeats  BY <2>2 DEF BeatsToSend, PageBeats
    <3>2. deviceBeatsLeft[d] = 0
      <4>1. deviceBeatsLeft[d] \in Nat  BY <1>2
      <4>2. ~(deviceBeatsLeft[d] > 0)  BY <2>2 DEF PageStarts, sending
      <4>3. QED  BY <4>1, <4>2
    <3>3. QED  BY <1>4, <2>1, <3>1, <3>2
  <2>3. CASE ~PageStarts(d)
    <3>1. BeatsToSend(d) = deviceBeatsLeft[d]  BY <2>3 DEF BeatsToSend
    <3>2. QED  BY <1>4, <2>1, <3>1
  <2>4. QED  BY <2>2, <2>3
<1>7. CASE BeatEnds(d)
  <2> DEFINE page == Head(ToReturn(d))
             s == outData[d]
             g == pendingDataPackets[d]
             r == returnDataPackets[d]
             left == deviceBeatsLeft[d]
             next == AddBits(s, "DATA", page.plane, DEVICE_WIDTH)
             loaded == Loaded(next[Len(next)])
  <2>1. left \in Nat \ {0} /\ page \in Packets  BY <1>7, BeatEndsOnlyWhenSending
  <2>2. /\ outData' = [outData EXCEPT ![d] = next]
        /\ deviceBeatsLeft' = [deviceBeatsLeft EXCEPT ![d] = left - 1]
        /\ loaded => /\ pendingDataPackets' = [pendingDataPackets EXCEPT ![d] = Append(@, page)]
                     /\ ReleaseFirstPage(d)
        /\ ~loaded => KeepPages(d) /\ UNCHANGED pendingDataPackets
        BY <1>7 DEF BeatEnds
  <2>3. r # <<>>  BY <1>3, <2>1 DEF OutSound
  <2>4. page = Head(r) /\ ToReturn(d) # <<>>  BY <2>3, ReturningKept
  <2>5. /\ s \in Seq(Parts) /\ g \in Seq(Packets) /\ r \in Seq(Packets)
        /\ OutSound(s, g, r, left) /\ left > 0
        BY <1>2, <1>3, <2>1
  <2>6. /\ left = 1 => loaded /\ OutSound(next, Append(g, page), Tail(r), 0)
        /\ left # 1 => ~loaded /\ OutSound(next, g, r, left - 1)
        /\ s # <<>> => Head(next).number >= Head(s).number
    <3> HIDE DEF s, g, r, left, page
    <3>1. QED  BY <2>1, <2>4, <2>5, OutBeat
  <2>7. OutSound(next, pendingDataPackets'[d], returnDataPackets'[d], left - 1)
    <3>1. CASE left = 1
      <4>1. /\ pendingDataPackets' = [pendingDataPackets EXCEPT ![d] = Append(@, page)]
            /\ returnDataPackets' = [returnDataPackets EXCEPT ![d] = Tail(ToReturn(d))]
            BY <2>2, <2>6, <3>1 DEF ReleaseFirstPage
      <4>2. pendingDataPackets'[d] = Append(g, page)  BY <1>2, <4>1
      <4>3. left - 1 = 0  BY <3>1
      <4>4. \A t : OutSound(next, Append(g, page), t, 0)
        <5>1. 0 \notin 1 .. PageBeats - 1 /\ ~(0 > 0)  BY PageLengths
        <5> HIDE DEF next, g, page
        <5>2. QED  BY <2>6, <3>1, <5>1 DEF OutSound
      <4> HIDE DEF next, left
      <4>5. QED  BY <4>2, <4>3, <4>4
    <3>2. CASE left # 1
      <4>1. /\ pendingDataPackets' = pendingDataPackets
            /\ returnDataPackets' = [returnDataPackets EXCEPT ![d] = ToReturn(d)]
            BY <2>2, <2>6, <3>2 DEF KeepPages
      <4>2. returnDataPackets'[d] = ToReturn(d) /\ Head(ToReturn(d)) = Head(r)
            BY <1>2, <2>4, <4>1
      <4>3. OutSound(next, g, r, left - 1)  BY <2>6, <3>2
      <4> DEFINE t == ToReturn(d)
      <4> HIDE DEF next, g, left, r, t
      <4>4. OutSound(next, g, t, left - 1)
            BY <2>4, <4>2, <4>3 DEF OutSound, t
      <4>5. QED  BY <4>1, <4>2, <4>4 DEF t, g
    <3>3. QED  BY <3>1, <3>2
  <2>8. \A e \in Dies \ {d} : /\ pendingDataPackets'[e] = pendingDataPackets[e]
                              /\ returnDataPackets'[e] = returnDataPackets[e]
                              /\ deviceBeatsLeft'[e] = deviceBeatsLeft[e]
                              /\ outData'[e] = outData[e]
    <3> HIDE DEF loaded, next, page
    <3>1. CASE loaded
      <4>1. returnDataPackets' = [returnDataPackets EXCEPT ![d] = Tail(ToReturn(d))]
            BY <2>2, <3>1 DEF ReleaseFirstPage
      <4>2. QED  BY <1>2, <2>2, <3>1, <4>1
    <3>2. CASE ~loaded
      <4>1. returnDataPackets' = [returnDataPackets EXCEPT ![d] = ToReturn(d)]
            BY <2>2, <3>2 DEF KeepPages
      <4>2. QED  BY <1>2, <2>2, <3>2, <4>1
    <3>3. QED  BY <3>1, <3>2
  <2>9. OutMatches'
    <3> SUFFICES ASSUME NEW e \in Dies
                 PROVE  OutSound(outData'[e], pendingDataPackets'[e], returnDataPackets'[e],
                                 deviceBeatsLeft'[e])
        BY DEF OutMatches
    <3>1. CASE e = d
      <4>1. outData'[e] = next /\ deviceBeatsLeft'[e] = left - 1
            BY <1>2, <2>2, <3>1
      <4>2. QED  BY <2>7, <3>1, <4>1
    <3>2. CASE e # d  BY <2>8, <3>2 DEF OutMatches
    <3>3. QED  BY <3>1, <3>2
  <2>10. SendSound'
    <3> SUFFICES ASSUME NEW e \in Dies, outData'[e] # <<>>, Sends(e)'
                 PROVE  /\ outDataLeft'[e] <= PAGE_LENGTH
                        /\ PAGE_LENGTH - outDataLeft'[e] <= OutFront(e)'.number
        BY DEF SendSound
    <3>1. CASE e # d
      <4>1. outData'[e] = outData[e]  BY <2>8, <3>1
      <4>2. OutFront(e)' = OutFront(e) /\ OutUnit(e)' = OutUnit(e)
            BY <4>1 DEF OutFront, OutUnit
      <4>3. Sends(e)  BY <1>1, <4>2 DEF Sends, hasChannel
      <4>4. QED  BY <1>1, <4>1, <4>2, <4>3 DEF SendSound
    <3>2. CASE e = d
      <4>1. outData'[d] = next  BY <1>2, <2>2
      <4>2. hasChannel("BUFFER", 0) /\ sendingUnit = OutUnit(d)'
            BY <1>1, <3>2 DEF Sends, hasChannel
      <4>3. sendingUnit[1] = d  BY <4>2 DEF OutUnit
      <4>4. s # <<>> /\ OutUnit(d) = sendingUnit  BY <4>2, <4>3 DEF ChannelOwned
      <4>5. Sends(d)  BY <4>2, <4>4 DEF Sends
      <4>6. /\ outDataLeft[d] <= PAGE_LENGTH
            /\ PAGE_LENGTH - outDataLeft[d] <= Head(s).number
            BY <4>4, <4>5 DEF SendSound, OutFront
      <4>7. Head(next).number >= Head(s).number  BY <2>6, <4>4
      <4>8. OutFront(d)' = Head(next)  BY <4>1 DEF OutFront
      <4>9. Head(next).number \in Nat /\ Head(s).number \in Nat
        <5>1. Head(s) \in Parts  BY <2>5, <4>4, SplitHead
        <5>2. next \in Seq(Parts) /\ next # <<>>
          <6>1. page.plane \in Planes /\ DEVICE_WIDTH \in Nat /\ "DATA" \in Types
                BY <2>1, PacketTypes, PageLengths DEF Types
          <6> DEFINE p == page.plane
          <6> HIDE DEF s, p
          <6>2. AddBits(s, "DATA", p, DEVICE_WIDTH) \in Seq(Parts)
                /\ AddBits(s, "DATA", p, DEVICE_WIDTH) # <<>>
                BY <2>5, <6>1, AddBitsIs DEF p
          <6>3. QED  BY <6>2 DEF p
        <5> HIDE DEF next, s
        <5>3. Head(next) \in Parts  BY <5>2, SplitHead
        <5>4. QED  BY <5>1, <5>3 DEF Parts
      <4> DEFINE x == Head(next).number
                 y == Head(s).number
                 z == outDataLeft[d]
      <4>10. z \in Nat /\ PAGE_LENGTH \in Nat
             BY PageLengths DEF Shape, OutTypes
      <4>11. x \in Nat /\ y \in Nat /\ x >= y /\ PAGE_LENGTH - z <= y  BY <4>6, <4>7, <4>9
      <4>12. PAGE_LENGTH - z <= x
        <5> HIDE DEF x, y, z
        <5>1. QED  BY <4>10, <4>11
      <4>13. QED  BY <1>1, <3>2, <4>6, <4>8, <4>12
    <3>3. QED  BY <3>1, <3>2
  <2>11. QED  BY <2>9, <2>10
<1>8. QED  BY <1>1, <1>5, <1>6, <1>7

OutInv == Shape /\ ChannelOwned /\ OutMatches /\ SendSound

LEMMA OutInvInit == Init => OutInv
BY InitShape, ChannelInit, OutInit DEF OutInv

LEMMA OutInvNext == OutInv /\ [Next]_vars => OutInv'
<1> SUFFICES ASSUME OutInv, [Next]_vars PROVE OutInv'  OBVIOUS
<1>0. Shape /\ ChannelOwned /\ OutMatches /\ SendSound  BY DEF OutInv
<1>1. Shape' /\ ChannelOwned'  BY <1>0, ShapeNext, ChannelNext
<1>2. CASE FtlUpdate
      BY <1>0, <1>1, <1>2, OutSame
      DEF OutInv, FtlUpdate, FtlGives, outVars, driveVars, returnVars, channelVars
<1>3. CASE ControllerUpdate
  <2>1. UNCHANGED <<outData, pendingDataPackets, returnDataPackets, deviceBeatsLeft,
                    outDataLeft, sendingUnit>>
        BY <1>3 DEF ControllerUpdate, outVars, driveVars, returnVars
  <2>2. UNCHANGED <<sType, sender, sendingUnit>> \/ ~hasChannel("BUFFER", 0)'
    <3>1. CASE NothingSent  BY <2>1, <3>1 DEF NothingSent, channelVars
    <3>2. CASE PacketSent  BY <3>2 DEF PacketSent, hasChannel
    <3>3. CASE PieceMoves  BY <3>3 DEF PieceMoves, Pause, SendPiece, hasChannel
    <3>4. QED  BY <1>0, <1>3, <3>1, <3>2, <3>3, ControllerCases
  <2>3. QED  BY <1>0, <1>1, <2>1, <2>2, OutSame DEF OutInv
<1>4. CASE ChannelUpdate
      BY <1>0, <1>1, <1>4, OutSame
      DEF OutInv, ChannelUpdate, outVars, driveVars, returnVars, channelVars
<1>5. ASSUME NEW d \in Dies, BufferUpdate(d) PROVE OutInv'
      BY <1>0, <1>1, <1>5, OutBufferUpdate DEF OutInv
<1>6. ASSUME NEW d \in Dies, DieUpdate(d) PROVE OutInv'
      BY <1>0, <1>1, <1>6, OutDieUpdate DEF OutInv
<1>7. CASE UNCHANGED vars
      BY <1>0, <1>1, <1>7, OutSame
      DEF OutInv, vars, diesVars, outVars, driveVars, returnVars, channelVars
<1>8. QED  BY <1>2, <1>3, <1>4, <1>5, <1>6, <1>7 DEF Next

LEMMA OutSoundMatches ==
    ASSUME OutInv  PROVE BufferMatchesDie
<1> SUFFICES ASSUME NEW d \in Dies
             PROVE  LET whole == Len(pendingDataPackets[d])
                    IN  /\ Len(outData[d]) \in {whole, whole + 1}
                        /\ \A i \in 1 .. whole :
                             /\ outData[d][i].number >= PAGE_LENGTH
                             /\ outData[d][i].plane = pendingDataPackets[d][i].plane
                        /\ Len(outData[d]) = whole + 1 =>
                             /\ sending(d)
                             /\ outData[d][whole + 1].number < PAGE_LENGTH
                             /\ outData[d][whole + 1].plane = Head(returnDataPackets[d]).plane
    BY DEF BufferMatchesDie
<1> DEFINE k == Len(pendingDataPackets[d])
           left == deviceBeatsLeft[d]
<1>1. /\ left \in 0 .. PageBeats
      /\ \A i \in 1 .. k :
           outData[d][i] = Part("DATA", pendingDataPackets[d][i].plane, PAGE_LENGTH)
      /\ Len(outData[d]) = IF left \in 1 .. PageBeats - 1 THEN k + 1 ELSE k
      /\ left \in 1 .. PageBeats - 1 =>
           outData[d][k + 1] =
              Part("DATA", Head(returnDataPackets[d]).plane, DEVICE_WIDTH * (PageBeats - left))
      BY DEF OutInv, OutMatches, OutSound
<1>2. k \in Nat  BY LenProperties DEF OutInv, Shape, ReturnTypes
<1>3. \A i \in 1 .. k : /\ outData[d][i].number >= PAGE_LENGTH
                        /\ outData[d][i].plane = pendingDataPackets[d][i].plane
  <2> TAKE i \in 1 .. k
  <2>1. outData[d][i] = Part("DATA", pendingDataPackets[d][i].plane, PAGE_LENGTH)  BY <1>1
  <2>2. PAGE_LENGTH >= PAGE_LENGTH  BY PageLengths
  <2>3. QED  BY <2>1, <2>2 DEF Part
<1>4. ASSUME Len(outData[d]) = k + 1
      PROVE  /\ sending(d)
             /\ outData[d][k + 1].number < PAGE_LENGTH
             /\ outData[d][k + 1].plane = Head(returnDataPackets[d]).plane
  <2>1. left \in 1 .. PageBeats - 1
    <3> HIDE DEF k, left
    <3>1. k + 1 # k  BY <1>2
    <3>2. QED  BY <1>1, <1>4, <3>1
  <2>2. left \in 1 .. PageBeats /\ left > 0  BY <2>1, PageLengths
  <2>3. DEVICE_WIDTH * (PageBeats - left) < PAGE_LENGTH  BY <2>2, PageLengths
  <2>4. QED  BY <1>1, <2>1, <2>2, <2>3 DEF Part, sending
<1>5. QED  BY <1>1, <1>3, <1>4

(* The pages the die has given away are the complete pages of the buffer,  *)
(* in their order: when the last bits of one arrive, the packet that the   *)
(* die hands the controller is its packet.                                 *)
THEOREM PagesMatchBuffer == Spec => []BufferMatchesDie
<1>1. QED  BY OutInvInit, OutInvNext, OutSoundMatches, PTL DEF Spec

-----------------------------------------------------------------------------
(* The packets of a die in the buffer: they are those the controller has   *)
(* for the die, the last without the pieces that are missing.              *)
Pieces(type, missing) == CHANNEL_WIDTH * (Beats(type) - missing)
MissingAt(i, has, missing) == IF i = Len(has) THEN missing ELSE 0
InSound(data, has, missing) ==
    /\ missing \in Nat
    /\ missing > 0 => has # <<>> /\ missing <= Beats(has[Len(has)].type)
    /\ Len(data) = IF missing > 0 /\ missing = Beats(has[Len(has)].type)
                   THEN Len(has) - 1 ELSE Len(has)
    /\ \A i \in 1 .. Len(data) :
         data[i] = Part(has[i].type, has[i].plane, Pieces(has[i].type, MissingAt(i, has, missing)))

LEMMA PieceFacts ==
    ASSUME NEW type \in Types
    PROVE  /\ Pieces(type, 0) = PacketSize(type) /\ Pieces(type, 0) >= Length(type)
           /\ Beats(type) \in Nat \ {0} /\ Length(type) \in Nat \ {0}
           /\ CHANNEL_WIDTH \in Nat \ {0} /\ Pieces(type, 0) \in Nat
           /\ Pieces(type, Beats(type) - 1) = CHANNEL_WIDTH
           /\ \A k \in 1 .. Beats(type) :
                /\ Pieces(type, k) \in Nat /\ Pieces(type, k) < Length(type)
                /\ Pieces(type, k) + CHANNEL_WIDTH = Pieces(type, k - 1)
<1> DEFINE b == Beats(type)
           w == CHANNEL_WIDTH
<1>1. /\ b \in Nat \ {0} /\ w \in Nat \ {0} /\ Length(type) \in Nat \ {0}
      /\ PacketSize(type) = w * b /\ PacketSize(type) \in Nat /\ PacketSize(type) >= Length(type)
      /\ \A k \in 1 .. b : w * (b - k) \in Nat /\ w * (b - k) < Length(type)
      BY PacketLengths
<1>2. \A k : Pieces(type, k) = w * (b - k)  BY DEF Pieces
<1> HIDE DEF b, w
<1>3. b - 0 = b /\ b - (b - 1) = 1 /\ w * 1 = w  BY <1>1
<1>4. ASSUME NEW k \in 1 .. b  PROVE w * (b - k) + w = w * (b - (k - 1))
  <2> DEFINE m == b - k
  <2>1. m \in Nat /\ b - (k - 1) = m + 1  BY <1>1
  <2> HIDE DEF m
  <2>2. w * (m + 1) = w * m + w  BY <1>1, <2>1
  <2>3. QED  BY <2>1, <2>2 DEF m
<1>5. QED  BY <1>1, <1>2, <1>3, <1>4 DEF b, w

LEMMA HasTypes ==
    ASSUME NEW has \in Seq(Packets), NEW i \in 1 .. Len(has)
    PROVE  has[i] \in Packets /\ has[i].type \in Types /\ has[i].plane \in Planes
<1>1. has[i] \in Packets  BY ElementOfSeq
<1>2. QED  BY <1>1, PacketTypes DEF Types

(* The controller puts a packet on the channel.                            *)
LEMMA InPlace ==
    ASSUME NEW data \in Seq(Parts), NEW has \in Seq(Packets), NEW pkt \in Packets,
           InSound(data, has, 0)
    PROVE  InSound(data, Append(has, pkt), Beats(pkt.type))
<1> DEFINE n == Len(has)
           more == Append(has, pkt)
           b == Beats(pkt.type)
<1>1. /\ more \in Seq(Packets) /\ Len(more) = n + 1 /\ more[n + 1] = pkt /\ n \in Nat
      /\ \A i \in 1 .. n : more[i] = has[i]
      BY AppendProperties, LenProperties
<1>2. b \in Nat \ {0}
  <2>1. pkt.type \in Types  BY PacketTypes DEF Types
  <2>2. QED  BY <2>1, PieceFacts
<1>3. /\ Len(data) = n
      /\ \A i \in 1 .. n : data[i] = Part(has[i].type, has[i].plane,
                                          Pieces(has[i].type, MissingAt(i, has, 0)))
      BY DEF InSound
<1>4. more # <<>>  BY <1>1, EmptySeq
<1> HIDE DEF n, more, b
<1>5. more[Len(more)] = pkt  BY <1>1
<1>6. Len(data) = IF b > 0 /\ b = Beats(more[Len(more)].type) THEN Len(more) - 1 ELSE Len(more)
      BY <1>1, <1>2, <1>3, <1>5 DEF b
<1>7. ASSUME NEW i \in 1 .. Len(data)
      PROVE  data[i] = Part(more[i].type, more[i].plane,
                            Pieces(more[i].type, MissingAt(i, more, b)))
  <2>1. i \in 1 .. n /\ i # Len(more)  BY <1>1, <1>3
  <2>2. MissingAt(i, more, b) = 0 /\ MissingAt(i, has, 0) = 0
        BY <2>1 DEF MissingAt
  <2>3. QED  BY <1>1, <1>3, <2>1, <2>2
<1>8. b <= Beats(more[Len(more)].type)  BY <1>2, <1>5 DEF b
<1>9. InSound(data, more, b)  BY <1>2, <1>4, <1>6, <1>7, <1>8 DEF InSound
<1>10. QED  BY <1>9 DEF more, b

(* A piece reaches the buffer.                                             *)
LEMMA InPiece ==
    ASSUME NEW data \in Seq(Parts), NEW has \in Seq(Packets), NEW missing,
           InSound(data, has, missing), missing > 0,
           NEW type, NEW plane, type = has[Len(has)].type, plane = has[Len(has)].plane
    PROVE  LET next == AddBits(data, type, plane, CHANNEL_WIDTH)
           IN  /\ InSound(next, has, missing - 1) /\ next \in Seq(Parts)
               /\ data # <<>> => /\ Head(next).number >= Head(data).number
                                 /\ Head(next).type = Head(data).type
<1> DEFINE n == Len(has)
           m == Len(data)
           b == Beats(type)
           w == CHANNEL_WIDTH
           next == AddBits(data, type, plane, w)
<1>1. /\ missing \in Nat \ {0} /\ has # <<>> /\ missing <= b
      /\ m = IF missing = b THEN n - 1 ELSE n
      /\ \A i \in 1 .. m :
           data[i] = Part(has[i].type, has[i].plane, Pieces(has[i].type, MissingAt(i, has, missing)))
      BY DEF InSound
<1>2. n \in Nat \ {0} /\ m \in Nat  BY <1>1, EmptySeq, LenProperties
<1>3. n \in 1 .. Len(has)  BY <1>2
<1>4. type \in Types /\ plane \in Planes  BY <1>3, HasTypes
<1>5. /\ b \in Nat \ {0} /\ w \in Nat \ {0} /\ Length(type) \in Nat
      /\ Pieces(type, b - 1) = w
      /\ \A k \in 1 .. b : /\ Pieces(type, k) \in Nat /\ Pieces(type, k) < Length(type)
                           /\ Pieces(type, k) + w = Pieces(type, k - 1)
      BY <1>4, PieceFacts
<1>6. /\ next \in Seq(Parts) /\ next # <<>>
      /\ Joins(data, type, plane) =>
           /\ Len(next) = m /\ \A i \in 1 .. m - 1 : next[i] = data[i]
           /\ next[m] = Part(type, plane, data[m].number + w)
      /\ ~Joins(data, type, plane) =>
           /\ Len(next) = m + 1 /\ \A i \in 1 .. m : next[i] = data[i]
           /\ next[m + 1] = Part(type, plane, w)
  <2>1. w \in Nat  BY <1>5
  <2> HIDE DEF w
  <2>2. QED  BY <1>4, <2>1, AddBitsIs
<1>7. \A i \in 1 .. n - 1 : MissingAt(i, has, missing) = 0 /\ MissingAt(i, has, missing - 1) = 0
      BY <1>2 DEF MissingAt
<1>8. MissingAt(n, has, missing) = missing /\ MissingAt(n, has, missing - 1) = missing - 1
      BY DEF MissingAt
<1>9. has[n].type = type /\ has[n].plane = plane  OBVIOUS
<1>10. /\ Len(next) = n /\ \A i \in 1 .. n - 1 : next[i] = data[i]
       /\ next[n] = Part(type, plane, Pieces(type, missing - 1))
  <2>1. CASE missing = b
    <3>1. m = n - 1  BY <1>1, <2>1
    <3>2. ~Joins(data, type, plane)
      <4>1. CASE m = 0  BY <1>2, <4>1, EmptySeq DEF Joins
      <4>2. CASE m # 0
        <5>1. m \in 1 .. m /\ m \in 1 .. n - 1  BY <1>2, <3>1, <4>2
        <5>2. data[m] = Part(has[m].type, has[m].plane, Pieces(has[m].type, 0))
          <6>1. MissingAt(m, has, missing) = 0
            <7> HIDE DEF n, m
            <7>1. QED  BY <1>7, <5>1
          <6> HIDE DEF m
          <6>2. QED  BY <1>1, <5>1, <6>1
        <5>3. has[m].type \in Types
          <6>1. m \in 1 .. Len(has)  BY <1>2, <5>1
          <6>2. QED  BY <6>1, HasTypes
        <5>4. data[m].number >= Length(has[m].type) /\ data[m].type = has[m].type
              /\ data[m].number \in Nat /\ Length(has[m].type) \in Nat
              BY <5>2, <5>3, PieceFacts DEF Part
        <5>5. SUFFICES ASSUME Joins(data, type, plane) PROVE FALSE  OBVIOUS
        <5>6. data[m].number < Length(type) /\ data[m].type = type  BY <5>5 DEF Joins
        <5> DEFINE x == data[m].number
                   y == Length(type)
        <5>7. x \in Nat /\ y \in Nat /\ x >= y /\ x < y  BY <5>4, <5>6
        <5> HIDE DEF x, y
        <5>8. QED  BY <5>7
      <4>3. QED  BY <4>1, <4>2
    <3>3. Pieces(type, missing - 1) = w  BY <1>5, <2>1
    <3> HIDE DEF next, n, m, w
    <3>4. m + 1 = n  BY <1>2, <3>1
    <3>5. QED  BY <1>6, <3>1, <3>2, <3>3, <3>4
  <2>2. CASE missing # b
    <3>1. m = n  BY <1>1, <2>2
    <3>2. n \in 1 .. m  BY <1>2, <3>1
    <3>3. data[n] = Part(type, plane, Pieces(type, missing))
      <4> HIDE DEF n, m
      <4>1. QED  BY <1>1, <1>8, <1>9, <3>2
    <3>4. missing \in 1 .. b  BY <1>1, <1>5
    <3>5. Joins(data, type, plane)
      <4>1. data # <<>>  BY <1>2, <3>1, EmptySeq
      <4>2. data[Len(data)] = Part(type, plane, Pieces(type, missing))  BY <3>1, <3>3
      <4>3. Pieces(type, missing) < Length(type)  BY <1>5, <3>4
      <4>4. QED  BY <4>1, <4>2, <4>3 DEF Joins, Part
    <3>6. data[m].number = Pieces(type, missing)  BY <3>1, <3>3 DEF Part
    <3>7. Pieces(type, missing) + w = Pieces(type, missing - 1)  BY <1>5, <3>4
    <3> HIDE DEF next, n, m, w
    <3>8. QED  BY <1>6, <3>1, <3>5, <3>6, <3>7
  <2>3. QED  BY <2>1, <2>2
<1>11. missing - 1 \in Nat /\ missing - 1 < b  BY <1>1, <1>5
<1>12. ASSUME NEW i \in 1 .. Len(next)
       PROVE  next[i] = Part(has[i].type, has[i].plane,
                             Pieces(has[i].type, MissingAt(i, has, missing - 1)))
  <2> HIDE DEF n, m, next, b, w
  <2>1. CASE i = n  BY <1>8, <1>9, <1>10, <2>1
  <2>2. CASE i # n
    <3>1. i \in 1 .. n - 1 /\ i \in 1 .. m  BY <1>1, <1>2, <1>10, <2>2
    <3>2. QED  BY <1>1, <1>7, <1>10, <3>1
  <2>3. QED  BY <2>1, <2>2
<1>13. InSound(next, has, missing - 1)
  <2>1. Len(next) = IF missing - 1 > 0 /\ missing - 1 = Beats(has[Len(has)].type)
                    THEN Len(has) - 1 ELSE Len(has)
        BY <1>10, <1>11
  <2>2. missing - 1 <= Beats(has[Len(has)].type)  BY <1>5, <1>11
  <2> HIDE DEF next, b, n, m
  <2>3. QED  BY <1>1, <1>11, <1>12, <2>1, <2>2 DEF InSound
<1>14. ASSUME data # <<>>
       PROVE  Head(next).number >= Head(data).number /\ Head(next).type = Head(data).type
  <2>1. m # 0 /\ Head(data) = data[1] /\ Head(next) = next[1]
        BY <1>6, <1>14, EmptySeq, SplitHead
  <2>2. 1 \in 1 .. m  BY <1>2, <2>1
  <2>3. data[1] \in Parts  BY <2>2, ElementOfSeq
  <2>4. data[1].number \in Nat  BY <2>3 DEF Parts
  <2> HIDE DEF n, m, next, b, w
  <2>5. CASE n = 1
    <3>1. m = 1 /\ missing # b  BY <1>1, <2>2, <2>5
    <3>2. data[1] = Part(type, plane, Pieces(type, missing))
      <4>1. n \in 1 .. m  BY <2>5, <3>1
      <4>2. QED  BY <1>1, <1>8, <1>9, <2>5, <4>1
    <3>3. next[1] = Part(type, plane, Pieces(type, missing - 1))  BY <1>10, <2>5
    <3>4. Pieces(type, missing) + w = Pieces(type, missing - 1) /\ Pieces(type, missing) \in Nat
      <4>1. missing \in 1 .. b  BY <1>1, <1>5
      <4>2. QED  BY <1>5, <4>1
    <3> DEFINE x == Pieces(type, missing)
               y == Pieces(type, missing - 1)
    <3>5. x \in Nat /\ y = x + w  BY <3>4
    <3>6. next[1].number = y /\ data[1].number = x /\ next[1].type = data[1].type
          BY <3>2, <3>3 DEF Part
    <3> HIDE DEF x, y
    <3>7. QED  BY <1>5, <2>1, <3>5, <3>6
  <2>6. CASE n # 1
    <3>1. 1 \in 1 .. n - 1  BY <1>2, <2>6
    <3>2. next[1] = data[1]  BY <1>10, <3>1
    <3>3. QED  BY <2>1, <2>4, <3>2
  <2>7. QED  BY <2>5, <2>6
<1>15. QED  BY <1>6, <1>13, <1>14

(* The die takes a packet that is complete.                                *)
LEMMA InFirst ==
    ASSUME NEW data \in Seq(Parts), NEW has \in Seq(Packets), NEW missing,
           InSound(data, has, missing), data # <<>>
    PROVE  /\ has # <<>> /\ Head(has) \in Packets /\ Head(has).type \in Types
           /\ Head(data).type = Head(has).type /\ Head(data).plane = Head(has).plane
           /\ \/ /\ missing \in 1 .. Beats(Head(has).type) /\ Len(has) = 1
                 /\ Head(data).number = Pieces(Head(has).type, missing)
                 /\ Head(data).number < Length(Head(has).type)
              \/ /\ missing = 0 \/ Len(has) > 1
                 /\ Head(data).number = PacketSize(Head(has).type)
                 /\ Head(data).number >= Length(Head(has).type)
<1> DEFINE n == Len(has)
           m == Len(data)
<1>1. /\ missing \in Nat
      /\ missing > 0 => missing <= Beats(has[n].type)
      /\ m = IF missing > 0 /\ missing = Beats(has[n].type) THEN n - 1 ELSE n
      /\ \A i \in 1 .. m :
           data[i] = Part(has[i].type, has[i].plane, Pieces(has[i].type, MissingAt(i, has, missing)))
      BY DEF InSound
<1>2. m \in Nat \ {0} /\ n \in Nat /\ Head(data) = data[1]
      BY EmptySeq, LenProperties, SplitHead
<1> HIDE DEF m
<1>3. n # 0 /\ 1 \in 1 .. m /\ 1 \in 1 .. n /\ m <= n
  <2> HIDE DEF n
  <2>1. QED  BY <1>1, <1>2
<1>4. has # <<>> /\ Head(has) = has[1]  BY <1>3, EmptySeq, SplitHead
<1>5. has[1] \in Packets /\ has[1].type \in Types  BY <1>3, HasTypes
<1>6. data[1] = Part(has[1].type, has[1].plane, Pieces(has[1].type, MissingAt(1, has, missing)))
      BY <1>1, <1>3
<1>7. /\ data[1].type = has[1].type /\ data[1].plane = has[1].plane
      /\ data[1].number = Pieces(has[1].type, MissingAt(1, has, missing))
      BY <1>6 DEF Part
<1>8. CASE n = 1 /\ missing > 0
  <2>1. MissingAt(1, has, missing) = missing /\ has[n] = has[1]  BY <1>8 DEF MissingAt
  <2>2. missing \in 1 .. Beats(has[1].type)  BY <1>1, <1>5, <1>8, <2>1, PieceFacts
  <2>3. Pieces(has[1].type, missing) < Length(has[1].type)  BY <1>5, <2>2, PieceFacts
  <2>4. QED  BY <1>2, <1>4, <1>5, <1>7, <1>8, <2>1, <2>2, <2>3
<1>9. CASE ~(n = 1 /\ missing > 0)
  <2>1. MissingAt(1, has, missing) = 0 /\ (missing = 0 \/ n > 1)
    <3>1. n > 1 \/ missing = 0
      <4> HIDE DEF n
      <4>1. QED  BY <1>1, <1>2, <1>3, <1>9
    <3>2. CASE n > 1
      <4>1. n # 1
        <5> HIDE DEF n
        <5>1. QED  BY <1>2, <3>2
      <4>2. QED  BY <3>2, <4>1 DEF MissingAt
    <3>3. CASE missing = 0  BY <3>3 DEF MissingAt
    <3>4. QED  BY <3>1, <3>2, <3>3
  <2>2. Pieces(has[1].type, 0) = PacketSize(has[1].type)
        /\ Pieces(has[1].type, 0) >= Length(has[1].type)
        BY <1>5, PieceFacts
  <2>3. QED  BY <1>2, <1>4, <1>5, <1>7, <2>1, <2>2
<1>10. QED  BY <1>8, <1>9

LEMMA InTake ==
    ASSUME NEW data \in Seq(Parts), NEW has \in Seq(Packets), NEW missing,
           InSound(data, has, missing), data # <<>>, missing = 0 \/ Len(has) > 1
    PROVE  InSound(Tail(data), Tail(has), missing)
<1> DEFINE n == Len(has)
           m == Len(data)
           rest == Tail(has)
           tail == Tail(data)
<1>1. /\ missing \in Nat
      /\ missing > 0 => missing <= Beats(has[n].type)
      /\ m = IF missing > 0 /\ missing = Beats(has[n].type) THEN n - 1 ELSE n
      /\ \A i \in 1 .. m :
           data[i] = Part(has[i].type, has[i].plane, Pieces(has[i].type, MissingAt(i, has, missing)))
      BY DEF InSound
<1>2. has # <<>>  BY InFirst
<1>3. /\ n \in Nat \ {0} /\ m \in Nat \ {0}
      /\ rest \in Seq(Packets) /\ Len(rest) = n - 1 /\ tail \in Seq(Parts) /\ Len(tail) = m - 1
      /\ \A i \in 1 .. n - 1 : rest[i] = has[i + 1]
      /\ \A i \in 1 .. m - 1 : tail[i] = data[i + 1]
      BY <1>2, EmptySeq, HeadTailProperties
<1>4. missing > 0 => n - 1 \in Nat \ {0} /\ rest # <<>> /\ rest[Len(rest)] = has[n]
  <2> SUFFICES ASSUME missing > 0
               PROVE  n - 1 \in Nat \ {0} /\ rest # <<>> /\ rest[Len(rest)] = has[n]
      OBVIOUS
  <2>1. n > 1  OBVIOUS
  <2> HIDE DEF n, rest
  <2>2. n - 1 \in Nat \ {0} /\ n - 1 \in 1 .. n - 1 /\ n - 1 + 1 = n  BY <1>3, <2>1
  <2>3. rest # <<>>  BY <1>3, <2>2, EmptySeq
  <2>4. QED  BY <1>3, <2>2, <2>3
<1> HIDE DEF n, m, rest, tail
<1>5. Len(tail) = IF missing > 0 /\ missing = Beats(rest[Len(rest)].type)
                  THEN Len(rest) - 1 ELSE Len(rest)
      BY <1>1, <1>3, <1>4
<1>6. ASSUME NEW i \in 1 .. Len(tail)
      PROVE  tail[i] = Part(rest[i].type, rest[i].plane,
                            Pieces(rest[i].type, MissingAt(i, rest, missing)))
  <2>1. i \in 1 .. m - 1 /\ i \in 1 .. n - 1 /\ i + 1 \in 1 .. m
        BY <1>1, <1>3
  <2>2. MissingAt(i, rest, missing) = MissingAt(i + 1, has, missing)
    <3>1. i = Len(rest) <=> i + 1 = n  BY <1>3, <2>1
    <3>2. QED  BY <3>1 DEF MissingAt, n
  <2>3. data[i + 1] = Part(has[i + 1].type, has[i + 1].plane,
                           Pieces(has[i + 1].type, MissingAt(i + 1, has, missing)))
        BY <1>1, <2>1
  <2>4. QED  BY <1>3, <2>1, <2>2, <2>3
<1>7. InSound(tail, rest, missing)  BY <1>1, <1>4, <1>5, <1>6 DEF InSound
<1>8. QED  BY <1>7 DEF tail, rest

-----------------------------------------------------------------------------
(* The first of the picked packets, in its place and taken out of it.      *)
LEMMA FirstPicked ==
    ASSUME NEW s \in Seq(Packets), NEW T, NEW k \in 1 .. Len(s), s[k] \in T,
           \A j \in 1 .. k - 1 : s[j] \notin T
    PROVE  /\ Picked(s, T) # <<>> /\ Head(Picked(s, T)) = s[k]
           /\ Picked(Without(s, k), T) = Tail(Picked(s, T))
           /\ \A U : s[k] \notin U => Picked(Without(s, k), U) = Picked(s, U)
           /\ Without(s, k) \in Seq(Packets)
<1> DEFINE a == SubSeq(s, 1, k - 1)
           b == SubSeq(s, k + 1, Len(s))
           e == s[k]
<1>1. /\ a \in Seq(Packets) /\ b \in Seq(Packets) /\ e \in Packets
      /\ s = a \o (<<e>> \o b)
      BY SplitAt
<1>2. Without(s, k) = a \o b  BY DEF Without
<1>3. Picked(a, T) = <<>>
  <2>1. /\ Len(s) \in Nat /\ 1 \in 1 .. Len(s) + 1 /\ k - 1 \in 0 .. Len(s) /\ k - 1 \in Int
        /\ \A j \in 1 .. k - 1 : j \in 1 .. Len(s)
        BY LenProperties
  <2>2. \A j \in 1 .. k - 1 : s[j] \in Packets  BY <2>1, ElementOfSeq
  <2>3. Len(a) = k - 1 /\ \A j \in 1 .. k - 1 : a[j] = s[j]
        BY <2>1, <2>2, SubSeqProperties
  <2>4. \A j \in 1 .. Len(a) : a[j] \notin T  BY <2>3
  <2> HIDE DEF a
  <2>5. QED  BY <1>1, <2>4, PickedNone
<1> HIDE DEF a, b, e
<1>4. <<e>> \in Seq(Packets) /\ <<e>> \o b \in Seq(Packets) /\ a \o b \in Seq(Packets)
      BY <1>1, SingletonSeq, ConcatProperties
<1>5. ASSUME NEW U
      PROVE  /\ Picked(s, U) = Picked(a, U) \o (If(e \in U, e) \o Picked(b, U))
             /\ Picked(Without(s, k), U) = Picked(a, U) \o Picked(b, U)
             /\ Picked(a, U) \in Seq(Packets) /\ Picked(b, U) \in Seq(Packets)
  <2> DEFINE x == <<e>>
             y == x \o b
  <2>1. x \in Seq(Packets) /\ y \in Seq(Packets)  BY <1>4
  <2>2. Picked(x, U) = If(e \in U, e)  BY <1>1, PickedSingle
  <2>3. s = a \o y  BY <1>1
  <2> HIDE DEF x
  <2>4. Picked(y, U) = Picked(x, U) \o Picked(b, U)  BY <1>1, <2>1, PickedConcat, SMTT(30)
  <2> HIDE DEF y
  <2>5. Picked(a \o y, U) = Picked(a, U) \o Picked(y, U)  BY <1>1, <2>1, PickedConcat, SMTT(30)
  <2>6. Picked(a \o b, U) = Picked(a, U) \o Picked(b, U)  BY <1>1, PickedConcat
  <2>7. Picked(a, U) \in Seq(Packets) /\ Picked(b, U) \in Seq(Packets)
        BY <1>1, PickedType
  <2>8. QED  BY <1>2, <2>3, <2>5, <2>4, <2>2, <2>6, <2>7
<1>6. ASSUME NEW U, e \notin U  PROVE Picked(Without(s, k), U) = Picked(s, U)
  <2>1. If(e \in U, e) = <<>>  BY <1>6 DEF If
  <2>2. <<>> \o Picked(b, U) = Picked(b, U)  BY <1>5, ConcatEmptySeq
  <2>3. QED  BY <1>5, <2>1, <2>2
<1>7. /\ Picked(s, T) # <<>> /\ Head(Picked(s, T)) = e
      /\ Picked(Without(s, k), T) = Tail(Picked(s, T))
  <2> DEFINE p == Picked(b, T)
  <2>1. If(e \in T, e) = <<e>>  BY DEF If, e
  <2>2. p \in Seq(Packets)  BY <1>5
  <2>3. Picked(s, T) = <<>> \o (<<e>> \o p)  BY <1>3, <1>5, <2>1
  <2>4. Picked(Without(s, k), T) = <<>> \o p  BY <1>3, <1>5
  <2> HIDE DEF p
  <2>5. /\ <<e>> \o p \in Seq(Packets) /\ <<e>> \o p # <<>>
        /\ Head(<<e>> \o p) = e /\ Tail(<<e>> \o p) = p
        BY <1>1, <2>2, HeadOfConcat
  <2>6. <<>> \o (<<e>> \o p) = <<e>> \o p /\ <<>> \o p = p  BY <2>2, <2>5, ConcatEmptySeq
  <2>7. QED  BY <2>3, <2>4, <2>5, <2>6
<1>8. QED  BY <1>2, <1>4, <1>6, <1>7 DEF e

LEMMA FirstPickedExists ==
    ASSUME NEW s \in Seq(Packets), NEW T, Picked(s, T) # <<>>
    PROVE  \E k \in 1 .. Len(s) : s[k] \in T /\ \A j \in 1 .. k - 1 : s[j] \notin T
<1> DEFINE P == {k \in 1 .. Len(s) : s[k] \in T}
<1>1. Len(s) \in Nat  BY LenProperties
<1>2. P \in SUBSET Nat  BY <1>1
<1>3. P # {}
  <2>1. ~ \A i \in 1 .. Len(s) : s[i] \notin T  BY PickedNone
  <2>2. QED  BY <2>1
<1>4. PICK k \in P : \A j \in P : k <= j
  <2> HIDE DEF P
  <2>1. QED  BY <1>2, <1>3, LeastExists
<1>5. ASSUME NEW j \in 1 .. k - 1  PROVE s[j] \notin T
  <2>1. j \in 1 .. Len(s) /\ ~(k <= j)  BY <1>1
  <2>2. QED  BY <1>4, <2>1
<1>6. QED  BY <1>5

(* The packets of a die.                                                   *)
OnDie(d) == {pkt \in Packets : pkt.die = d}

LEMMA DieIsPicked ==
    ASSUME NEW s \in Seq(Packets), NEW d  PROVE OfDie(d, s) = Picked(s, OnDie(d))
<1>1. \A i \in DOMAIN s : s[i] \in Packets  BY LenProperties, ElementOfSeq
<1>2. \A i \in DOMAIN s : s[i] \in OnDie(d) <=> s[i].die = d  BY <1>1 DEF OnDie
<1>3. Portions(s, OnDie(d)) = [i \in DOMAIN s |-> If(s[i].die = d, s[i])]
      BY <1>2 DEF Portions, If
<1>4. QED  BY <1>3 DEF OfDie, Picked

(* What the controller has for a die: sent, or on the channel.             *)
Has(d, sent, out) == OfDie(d, sent) \o If(out # NoPacket /\ out.die = d, out)

LEMMA HasIs ==
    ASSUME NEW d, NEW sent \in Seq(Packets), NEW out \in MaybePacket
    PROVE  /\ Picked(sent, OnDie(d)) \in Seq(Packets) /\ Has(d, sent, out) \in Seq(Packets)
           /\ OfDie(d, sent) = Picked(sent, OnDie(d))
           /\ ~(out # NoPacket /\ out.die = d) => Has(d, sent, out) = Picked(sent, OnDie(d))
           /\ out # NoPacket /\ out.die = d =>
                /\ Has(d, sent, out) = Append(Picked(sent, OnDie(d)), out)
                /\ Has(d, sent, out)[Len(Has(d, sent, out))] = out
                /\ Has(d, sent, out) # <<>>
<1> DEFINE p == Picked(sent, OnDie(d))
<1>1. p \in Seq(Packets) /\ OfDie(d, sent) = p  BY PickedType, DieIsPicked
<1>2. Has(d, sent, out) = p \o If(out # NoPacket /\ out.die = d, out)  BY <1>1 DEF Has
<1>3. CASE ~(out # NoPacket /\ out.die = d)
  <2>1. If(out # NoPacket /\ out.die = d, out) = <<>>  BY <1>3 DEF If
  <2> HIDE DEF p
  <2>2. p \o <<>> = p  BY <1>1, ConcatEmptySeq
  <2>3. Has(d, sent, out) = p  BY <1>2, <2>1, <2>2
  <2>4. QED  BY <1>1, <1>3, <2>3 DEF p
<1>4. CASE out # NoPacket /\ out.die = d
  <2>1. If(out # NoPacket /\ out.die = d, out) = <<out>>  BY <1>4 DEF If
  <2>2. out \in Packets  BY <1>4 DEF MaybePacket
  <2> HIDE DEF p
  <2>3. Append(p, out) = p \o <<out>>  BY <1>1, <2>2, AppendIsConcat
  <2>4. Has(d, sent, out) = Append(p, out)  BY <1>2, <2>1, <2>3
  <2>5. /\ Append(p, out) \in Seq(Packets) /\ Append(p, out) # <<>>
        /\ Len(Append(p, out)) = Len(p) + 1 /\ Append(p, out)[Len(p) + 1] = out
        BY <1>1, <2>2, AppendProperties
  <2>6. QED  BY <1>1, <1>4, <2>4, <2>5 DEF p
<1>5. QED  BY <1>3, <1>4

LEMMA HasSent ==
    ASSUME NEW d, NEW sent \in Seq(Packets), NEW out \in Packets
    PROVE  Has(d, Append(sent, out), NoPacket) = Has(d, sent, out)
<1> DEFINE p == Picked(sent, OnDie(d))
           more == Append(sent, out)
<1>1. more \in Seq(Packets)  BY AppendProperties
<1>2. Picked(more, OnDie(d)) = p \o If(out \in OnDie(d), out)  BY PickedAppend
<1>3. NoPacket \in MaybePacket /\ out # NoPacket  BY PacketTypes DEF MaybePacket
<1> HIDE DEF more
<1>4. Has(d, more, NoPacket) = Picked(more, OnDie(d))  BY <1>1, <1>3, HasIs
<1>5. OfDie(d, sent) = p  BY DieIsPicked
<1>6. If(out \in OnDie(d), out) = If(out # NoPacket /\ out.die = d, out)
      BY <1>3 DEF OnDie, If
<1>7. Has(d, sent, out) = p \o If(out # NoPacket /\ out.die = d, out)  BY <1>5 DEF Has
<1>8. QED  BY <1>2, <1>4, <1>6, <1>7 DEF more

(* The pieces of a packet that have not reached the buffer: one of them    *)
(* may be on the channel.                                                  *)
OnWire(d) == busy /\ sType = "CONTROLLER" /\ piece.unit[1] = d
Missing(d) ==
    (IF outgoing # NoPacket /\ outgoing.die = d THEN channelBeatsLeft ELSE 0)
    + (IF OnWire(d) THEN 1 ELSE 0)

Matches(data, has, missing, wire, pc) ==
    /\ InSound(data, has, missing)
    /\ wire => /\ pc.type = has[Len(has)].type
               /\ pc.unit[2] = has[Len(has)].plane
DieMatches(d) == Matches(inData[d], ControllerHas(d), Missing(d), OnWire(d), piece)
InMatches == \A d \in Dies : DieMatches(d)

LEMMA MissingTypes ==
    ASSUME Shape, NEW d
    PROVE  /\ ControllerHas(d) = Has(d, pendingPackets, outgoing)
           /\ ControllerHas(d) \in Seq(Packets)
           /\ pendingPackets \in Seq(Packets) /\ outgoing \in MaybePacket
           /\ Missing(d) \in Nat /\ (OnWire(d) => Missing(d) > 0)
           /\ OnWire(d) => piece.type \in Types /\ piece.unit \in Units
<1>1. pendingPackets \in Seq(Packets)  BY DEF Shape, SendInv
<1>2. outgoing \in MaybePacket /\ channelBeatsLeft \in Nat  BY DiesOf
<1>3. ControllerHas(d) = Has(d, pendingPackets, outgoing)  BY DEF ControllerHas, Has
<1>4. ControllerHas(d) \in Seq(Packets)  BY <1>1, <1>2, <1>3, HasIs
<1>5. Missing(d) \in Nat /\ (OnWire(d) => Missing(d) > 0)  BY <1>2 DEF Missing
<1>6. OnWire(d) => piece.type \in Types /\ piece.unit \in Units
      BY DEF OnWire, busy, Shape, SendInv
<1>7. QED  BY <1>1, <1>2, <1>3, <1>4, <1>5, <1>6

LEMMA MatchesInit == Init => InMatches
<1> SUFFICES ASSUME Init, NEW d \in Dies PROVE DieMatches(d)  BY DEF InMatches
<1>1. /\ pendingPackets = <<>> /\ outgoing = NoPacket /\ piece = NoPiece /\ inData[d] = <<>>
      BY DEF Init, DiesInit
<1>2. ~OnWire(d) /\ Missing(d) = 0  BY <1>1 DEF OnWire, busy, Missing
<1>3. Picked(<<>>, OnDie(d)) = <<>>  BY PickedEmpty
<1>4. <<>> \in Seq(Packets) /\ NoPacket \in MaybePacket  BY EmptySeq DEF MaybePacket
<1>5. Has(d, <<>>, NoPacket) = <<>>  BY <1>3, <1>4, HasIs
<1>6. ControllerHas(d) = <<>>  BY <1>1, <1>5 DEF ControllerHas, Has
<1>7. Len(<<>>) = 0 /\ 1 .. 0 = {}  OBVIOUS
<1>8. InSound(<<>>, <<>>, 0)  BY <1>7 DEF InSound
<1>9. QED  BY <1>1, <1>2, <1>6, <1>8 DEF DieMatches, Matches

LEMMA MatchesSame ==
    ASSUME NEW d, DieMatches(d), inData'[d] = inData[d],
           UNCHANGED <<pendingPackets, outgoing, channelBeatsLeft>>,
           OnWire(d)' <=> OnWire(d), OnWire(d) => piece' = piece
    PROVE  DieMatches(d)'
<1>1. ControllerHas(d)' = ControllerHas(d)  BY DEF ControllerHas, OfDie
<1>2. Missing(d)' = Missing(d)  BY DEF Missing
<1>3. QED  BY <1>1, <1>2 DEF DieMatches, Matches

(* A controller update moves packets and pieces, but none into the buffer. *)
LEMMA MovedPiece ==
    ASSUME Shape, PieceMoves
    PROVE  /\ outgoing' = OnChannel /\ OnChannel \in Packets /\ BeatsLeft \in Nat \ {0}
           /\ \A d \in Dies : ~OnWire(d)
           /\ \A d \in Dies : Missing(d)' = IF d = OnChannel.die THEN BeatsLeft ELSE 0
           /\ \A d \in Dies : OnWire(d)' =>
                /\ SendPiece /\ d = OnChannel.die
                /\ piece' = Piece(OnChannel.type, UnitOf(OnChannel))
<1>1. OnChannel \in Packets /\ BeatsLeft > 0 /\ ~busy /\ (Pause \/ SendPiece)
      BY DEF PieceMoves
<1>2. OnChannel # NoPacket  BY <1>1, PacketTypes
<1>3. BeatsLeft \in Nat
  <2>1. channelBeatsLeft \in Nat  BY DiesOf
  <2>2. OnChannel.type \in Types  BY <1>1, PacketTypes DEF Types
  <2>3. AllBeats \in Nat  BY <2>2, PacketLengths DEF AllBeats, Beats
  <2>4. QED  BY <2>1, <2>3 DEF BeatsLeft
<1>4. \A d \in Dies : ~OnWire(d)  BY <1>1 DEF OnWire
<1>5. CASE Pause
  <2>1. outgoing' = OnChannel /\ channelBeatsLeft' = BeatsLeft /\ piece' = piece
        BY <1>5 DEF Pause
  <2>2. \A d \in Dies : ~OnWire(d)'  BY <1>1, <2>1 DEF OnWire, busy
  <2>3. \A d \in Dies : Missing(d)' = IF d = OnChannel.die THEN BeatsLeft ELSE 0
        BY <1>2, <1>3, <2>1, <2>2 DEF Missing
  <2>4. QED  BY <1>1, <1>3, <1>4, <2>1, <2>2, <2>3
<1>6. CASE SendPiece
  <2>1. /\ outgoing' = OnChannel /\ channelBeatsLeft' = BeatsLeft - 1 /\ sType' = "CONTROLLER"
        /\ piece' = Piece(OnChannel.type, UnitOf(OnChannel))
        BY <1>6 DEF SendPiece
  <2>2. piece' # NoPiece
    <3>1. OnChannel.type \in Types /\ UnitOf(OnChannel) \in Units
          BY <1>1, PacketTypes DEF Types
    <3>2. QED  BY <2>1, <3>1, NotPackets
  <2>3. piece'.unit[1] = OnChannel.die  BY <2>1 DEF Piece, UnitOf
  <2>4. \A d \in Dies : OnWire(d)' <=> d = OnChannel.die
        BY <2>1, <2>2, <2>3 DEF OnWire, busy
  <2>5. \A d \in Dies : Missing(d)' = IF d = OnChannel.die THEN BeatsLeft ELSE 0
        BY <1>2, <1>3, <2>1, <2>4 DEF Missing
  <2>6. QED  BY <1>1, <1>3, <1>4, <1>6, <2>1, <2>4, <2>5
<1>7. QED  BY <1>1, <1>5, <1>6

LEMMA MatchesControllerUpdate ==
    ASSUME Shape, InMatches, ControllerUpdate  PROVE InMatches'
<1>0. /\ UNCHANGED inData /\ PlacePacket(Placeable)
      /\ pendingPackets \in Seq(Packets) /\ outgoing \in MaybePacket
      /\ \A d \in Dies : inData[d] \in Seq(Parts)
      BY DiesOf DEF ControllerUpdate, inVars, Shape, SendInv, InTypes
<1> SUFFICES ASSUME NEW d \in Dies PROVE DieMatches(d)'  BY DEF InMatches
<1>1. DieMatches(d)  BY DEF InMatches
<1>2. CASE NothingSent
  <2>1. UNCHANGED <<pendingPackets, outgoing, channelBeatsLeft, piece, sType>>
        BY <1>2 DEF NothingSent, sendVars, channelVars
  <2>2. OnWire(d)' <=> OnWire(d)  BY <2>1 DEF OnWire, busy
  <2>3. QED  BY <1>0, <1>1, <2>1, <2>2, MatchesSame
<1>3. CASE PacketSent
  <2>1. /\ outgoing \in Packets /\ channelBeatsLeft = 0 /\ sType = "CONTROLLER"
        /\ sType' = "CONTROLLER" /\ pendingPackets' = Append(pendingPackets, outgoing)
        /\ outgoing' = NoPacket /\ UNCHANGED piece
        BY <1>3 DEF PacketSent, hasChannel
  <2>2. OnWire(d)' <=> OnWire(d)  BY <2>1 DEF OnWire, busy
  <2>3. Missing(d)' = Missing(d)  BY <2>1, <2>2 DEF Missing
  <2>4. ControllerHas(d)' = ControllerHas(d)
    <3>1. ControllerHas(d)' = Has(d, pendingPackets', outgoing')
          BY DEF ControllerHas, Has, OfDie
    <3>2. ControllerHas(d) = Has(d, pendingPackets, outgoing)  BY DEF ControllerHas, Has
    <3>3. Has(d, Append(pendingPackets, outgoing), NoPacket) = Has(d, pendingPackets, outgoing)
          BY <1>0, <2>1, HasSent
    <3>4. QED  BY <2>1, <3>1, <3>2, <3>3
  <2>5. QED  BY <1>0, <1>1, <2>1, <2>2, <2>3, <2>4 DEF DieMatches, Matches
<1>4. CASE PieceMoves
  <2> DEFINE pkt == OnChannel
             has == Has(d, pendingPackets, outgoing)
             next == Has(d, pendingPackets, pkt)
  <2>1. /\ outgoing' = pkt /\ pkt \in Packets /\ BeatsLeft \in Nat \ {0} /\ ~OnWire(d)
        /\ Missing(d)' = IF d = pkt.die THEN BeatsLeft ELSE 0
        /\ OnWire(d)' => /\ d = pkt.die
                         /\ piece' = Piece(pkt.type, UnitOf(pkt))
        BY <1>4, MovedPiece
  <2>2. UNCHANGED pendingPackets  BY <1>4 DEF PieceMoves, Pause, SendPiece
  <2>3. ControllerHas(d)' = next /\ ControllerHas(d) = has
    <3>1. ControllerHas(d)' = Has(d, pendingPackets', outgoing')
          BY DEF ControllerHas, Has, OfDie
    <3>2. QED  BY <2>1, <2>2, <3>1 DEF ControllerHas, Has
  <2>4. \/ outgoing = pkt /\ BeatsLeft = channelBeatsLeft
        \/ outgoing = NoPacket /\ BeatsLeft = Beats(pkt.type)
        BY <1>0, Placed DEF AllBeats, Beats
  <2>5. pkt # NoPacket /\ pkt \in MaybePacket  BY <2>1, PacketTypes DEF MaybePacket
  <2>6. InSound(inData[d], has, Missing(d))  BY <1>1, <2>3 DEF DieMatches, Matches
  <2>7. OnWire(d)' => /\ piece'.type = next[Len(next)].type
                      /\ piece'.unit[2] = next[Len(next)].plane
    <3> SUFFICES ASSUME OnWire(d)'
                 PROVE  /\ piece'.type = next[Len(next)].type
                        /\ piece'.unit[2] = next[Len(next)].plane
        OBVIOUS
    <3>1. pkt.die = d /\ piece' = Piece(pkt.type, UnitOf(pkt))  BY <2>1
    <3>2. next[Len(next)] = pkt
      <4> HIDE DEF pkt
      <4>1. QED  BY <1>0, <2>5, <3>1, HasIs
    <3>3. QED  BY <3>1, <3>2 DEF Piece, UnitOf
  <2>8. InSound(inData[d], next, Missing(d)')
    <3> HIDE DEF pkt
    <3>1. CASE d # pkt.die
      <4>1. has = Picked(pendingPackets, OnDie(d)) /\ next = Picked(pendingPackets, OnDie(d))
            BY <1>0, <2>4, <2>5, <3>1, HasIs
      <4>2. Missing(d) = 0  BY <2>1, <2>4, <3>1 DEF Missing
      <4>3. QED  BY <2>1, <2>6, <3>1, <4>1, <4>2
    <3>2. CASE d = pkt.die /\ outgoing = pkt /\ BeatsLeft = channelBeatsLeft
      <4>1. Missing(d) = BeatsLeft  BY <2>1, <2>5, <3>2 DEF Missing
      <4>2. QED  BY <2>1, <2>6, <3>2, <4>1
    <3>3. CASE d = pkt.die /\ outgoing = NoPacket /\ BeatsLeft = Beats(pkt.type)
      <4>1. has = Picked(pendingPackets, OnDie(d)) /\ has \in Seq(Packets)
            BY <1>0, <3>3, HasIs
      <4>2. next = Append(has, pkt)  BY <1>0, <2>5, <3>3, <4>1, HasIs
      <4>3. Missing(d) = 0  BY <2>1, <3>3 DEF Missing
      <4> HIDE DEF has, next
      <4>4. InSound(inData[d], Append(has, pkt), Beats(pkt.type))
            BY <1>0, <2>1, <2>6, <4>1, <4>3, InPlace
      <4>5. QED  BY <2>1, <3>3, <4>2, <4>4
    <3>4. QED  BY <2>4, <3>1, <3>2, <3>3
  <2> HIDE DEF pkt, has, next
  <2>9. QED  BY <1>0, <2>3, <2>7, <2>8 DEF DieMatches, Matches
<1>5. QED  BY <1>2, <1>3, <1>4, ControllerCases

(* A piece reaches the buffer, which has kept room for it.                 *)
LEMMA PieceArrives ==
    ASSUME Shape, InMatches, ChannelUpdate,
           \A d \in Dies : OnWire(d) => InHasRoom(d)
    PROVE  /\ UNCHANGED <<pendingPackets, outgoing, channelBeatsLeft, sType, failed, latchVars,
                          CUT_THROUGH>>
           /\ \A d \in Dies : ~OnWire(d)'
           /\ \A d \in Dies :
                IF OnWire(d)
                THEN /\ inData'[d] = AddBits(inData[d], piece.type, piece.unit[2], CHANNEL_WIDTH)
                     /\ inDataSize'[d] = inDataSize[d] + CHANNEL_WIDTH
                     /\ Missing(d)' = Missing(d) - 1
                ELSE /\ inData'[d] = inData[d] /\ inDataSize'[d] = inDataSize[d]
                     /\ Missing(d)' = Missing(d)
<1>1. /\ UNCHANGED <<pendingPackets, outgoing, channelBeatsLeft, sType, latchVars, CUT_THROUGH>>
      /\ piece' = NoPiece
      BY DEF ChannelUpdate, sendVars, controllerVars, channelVars
<1>2. \A d \in Dies : ~OnWire(d)'  BY <1>1 DEF OnWire, busy
<1>3. inData \in [Dies -> Seq(Parts)] /\ inDataSize \in [Dies -> Int]
      BY DEF Shape, InTypes
<1>4. ASSUME NEW d \in Dies
      PROVE  Missing(d)' = IF OnWire(d) THEN Missing(d) - 1 ELSE Missing(d)
  <2> DEFINE x == IF outgoing # NoPacket /\ outgoing.die = d THEN channelBeatsLeft ELSE 0
  <2>1. x \in Nat  BY DiesOf
  <2>2. Missing(d)' = x  BY <1>1, <1>2, <2>1 DEF Missing
  <2>3. Missing(d) = x + IF OnWire(d) THEN 1 ELSE 0  BY DEF Missing
  <2> HIDE DEF x
  <2>4. QED  BY <2>1, <2>2, <2>3
<1>5. CASE busy /\ sType = "CONTROLLER"
  <2> DEFINE d == piece.unit[1]
  <2>1. d \in Dies
    <3>1. piece.unit \in Units  BY <1>5 DEF Shape, SendInv, busy
    <3>2. QED  BY <3>1, UnitTypes
  <2>2. \A e \in Dies : OnWire(e) <=> e = d  BY <1>5 DEF OnWire
  <2>3. InHasRoom(d)  BY <2>1, <2>2
  <2>4. /\ inData' = [inData EXCEPT ![d] =
                         AddBits(@, piece.type, piece.unit[2], CHANNEL_WIDTH)]
        /\ inDataSize' = [inDataSize EXCEPT ![d] = @ + CHANNEL_WIDTH]
        /\ UNCHANGED failed
        BY <1>5, <2>3 DEF ChannelUpdate
  <2> HIDE DEF d
  <2>5. QED  BY <1>1, <1>2, <1>3, <1>4, <2>1, <2>2, <2>4
<1>6. CASE ~(busy /\ sType = "CONTROLLER")
  <2>1. UNCHANGED <<inData, inDataSize, failed>>  BY <1>6 DEF ChannelUpdate
  <2>2. \A e \in Dies : ~OnWire(e)  BY <1>6 DEF OnWire
  <2>3. QED  BY <1>1, <1>2, <1>4, <2>1, <2>2
<1>7. QED  BY <1>5, <1>6

LEMMA MatchesChannelUpdate ==
    ASSUME Shape, InMatches, ChannelUpdate,
           \A d \in Dies : OnWire(d) => InHasRoom(d)
    PROVE  InMatches'
<1> SUFFICES ASSUME NEW d \in Dies PROVE DieMatches(d)'  BY DEF InMatches
<1>1. DieMatches(d)  BY DEF InMatches
<1>2. /\ UNCHANGED <<pendingPackets, outgoing>> /\ ~OnWire(d)'
      /\ IF OnWire(d)
         THEN /\ inData'[d] = AddBits(inData[d], piece.type, piece.unit[2], CHANNEL_WIDTH)
              /\ Missing(d)' = Missing(d) - 1
         ELSE inData'[d] = inData[d] /\ Missing(d)' = Missing(d)
      BY PieceArrives
<1>3. ControllerHas(d)' = ControllerHas(d)  BY <1>2 DEF ControllerHas, OfDie
<1>4. CASE ~OnWire(d)
      BY <1>1, <1>2, <1>3, <1>4 DEF DieMatches, Matches
<1>5. CASE OnWire(d)
  <2> DEFINE has == ControllerHas(d)
             missing == Missing(d)
             data == inData[d]
             type == piece.type
             plane == piece.unit[2]
  <2>1. /\ has \in Seq(Packets) /\ data \in Seq(Parts) /\ missing > 0
        /\ InSound(data, has, missing)
        /\ type = has[Len(has)].type /\ plane = has[Len(has)].plane
        BY <1>1, <1>5, MissingTypes DEF DieMatches, Matches, Shape, InTypes
  <2> HIDE DEF has, missing, data, type, plane
  <2>2. InSound(AddBits(data, type, plane, CHANNEL_WIDTH), has, missing - 1)
        BY <2>1, InPiece
  <2>3. InSound(inData'[d], ControllerHas(d)', Missing(d)')
        BY <1>2, <1>3, <1>5, <2>2 DEF has, missing, data, type, plane
  <2>4. QED  BY <1>2, <2>3 DEF DieMatches, Matches
<1>6. QED  BY <1>4, <1>5

(* Room is kept for a piece that is on the channel and, when packets are   *)
(* stored before they are forwarded, for the rest of a packet that has     *)
(* begun.                                                                  *)
Begun(d) ==
    outgoing # NoPacket /\ outgoing.die = d /\ channelBeatsLeft < Beats(outgoing.type)
RoomFor(d) ==
    /\ ~CUT_THROUGH => inDataSize[d] >= 0
    /\ IN_BUFFER_SIZE # 0 =>
         /\ OnWire(d) => inDataSize[d] + CHANNEL_WIDTH <= IN_BUFFER_SIZE
         /\ ~CUT_THROUGH /\ Begun(d) =>
              inDataSize[d] + CHANNEL_WIDTH * Missing(d) <= IN_BUFFER_SIZE
RoomKept == \A d \in Dies : RoomFor(d)

LEMMA RoomHas ==
    ASSUME Shape, NEW d \in Dies, RoomFor(d), OnWire(d)
    PROVE  InHasRoom(d)
<1>1. /\ inDataSize[d] \in Int /\ CHANNEL_WIDTH \in Nat /\ IN_BUFFER_SIZE \in Nat
      BY BufferedPackageAssumption DEF Shape, InTypes
<1>2. IN_BUFFER_SIZE # 0 => inDataSize[d] + CHANNEL_WIDTH <= IN_BUFFER_SIZE  BY DEF RoomFor
<1>3. QED  BY <1>1, <1>2 DEF InHasRoom

LEMMA RoomControllerUpdate ==
    ASSUME Shape, InMatches, RoomKept, ControllerUpdate, NEW d \in Dies
    PROVE  RoomFor(d)'
<1>0. /\ UNCHANGED <<inDataSize, CUT_THROUGH>> /\ PlacePacket(Placeable)
      /\ RoomFor(d) /\ DieMatches(d)
      BY DEF ControllerUpdate, inVars, RoomKept, InMatches
<1>1. /\ inDataSize[d] \in Int /\ IN_BUFFER_SIZE \in Nat /\ CHANNEL_WIDTH \in Nat \ {0}
      BY BufferedPackageAssumption DEF Shape, InTypes
<1>2. CASE NothingSent
  <2>1. UNCHANGED <<outgoing, channelBeatsLeft, piece, sType>>
        BY <1>2 DEF NothingSent, sendVars, channelVars
  <2>2. OnWire(d)' <=> OnWire(d)  BY <2>1 DEF OnWire, busy
  <2>3. (Begun(d)' <=> Begun(d)) /\ Missing(d)' = Missing(d)
        BY <2>1, <2>2 DEF Begun, Missing
  <2>4. QED  BY <1>0, <2>2, <2>3 DEF RoomFor
<1>3. CASE PacketSent
  <2>1. sType = "CONTROLLER" /\ sType' = "CONTROLLER" /\ outgoing' = NoPacket /\ UNCHANGED piece
        BY <1>3 DEF PacketSent, hasChannel
  <2>2. OnWire(d)' <=> OnWire(d)  BY <2>1 DEF OnWire, busy
  <2>3. ~Begun(d)'  BY <2>1 DEF Begun
  <2>4. QED  BY <1>0, <2>2, <2>3 DEF RoomFor
<1>4. CASE PieceMoves
  <2> DEFINE pkt == OnChannel
             size == inDataSize[d]
             w == CHANNEL_WIDTH
             b == Beats(pkt.type)
  <2>1. /\ outgoing' = pkt /\ pkt \in Packets /\ BeatsLeft \in Nat \ {0}
        /\ Missing(d)' = IF d = pkt.die THEN BeatsLeft ELSE 0
        /\ OnWire(d)' => SendPiece /\ d = pkt.die
        BY <1>4, MovedPiece
  <2>2. /\ Pause \/ SendPiece
        /\ AllBeats = b /\ BeatsLeft > 0 /\ ~busy
        BY <1>4 DEF PieceMoves, AllBeats, Beats
  <2>3. b \in Nat \ {0} /\ PacketSize(pkt.type) = w * b /\ w * b \in Nat
    <3>1. pkt.type \in Types  BY <2>1, PacketTypes DEF Types
    <3> HIDE DEF pkt
    <3>2. QED  BY <3>1, PacketLengths
  <2>4. \/ outgoing = pkt /\ BeatsLeft = channelBeatsLeft /\ Placeable = {}
        \/ BeatsLeft = AllBeats
        BY <1>0, Placed
  <2>5. AllBeats = b  BY DEF AllBeats, Beats
  <2>6. ASSUME SendPiece, d = pkt.die, IN_BUFFER_SIZE # 0, ~CUT_THROUGH
        PROVE  size + w * BeatsLeft <= IN_BUFFER_SIZE
    <3>1. CASE BeatsLeft = AllBeats
      <4>1. ~isFull(pkt.type, d)  BY <2>6, <3>1 DEF SendPiece, MustAsk
      <4>2. ~(size > IN_BUFFER_SIZE - PacketSize(pkt.type))  BY <2>6, <4>1 DEF isFull
      <4> DEFINE p == w * b
      <4>3. ~(size > IN_BUFFER_SIZE - p) /\ p \in Nat  BY <2>3, <4>2
      <4>4. w * BeatsLeft = p  BY <2>5, <3>1
      <4> HIDE DEF p, w, size
      <4>5. size \in Int  BY <1>1 DEF size
      <4>6. size + p <= IN_BUFFER_SIZE  BY <1>1, <4>3, <4>5
      <4>7. QED  BY <4>4, <4>6
    <3>2. CASE BeatsLeft # AllBeats
      <4>1. outgoing = pkt /\ BeatsLeft = channelBeatsLeft  BY <2>4, <3>2
      <4>2. pkt # NoPacket  BY <2>1, PacketTypes
      <4>3. ~OnWire(d)  BY <2>2 DEF OnWire
      <4>4. Missing(d) = BeatsLeft  BY <2>1, <2>6, <4>1, <4>2, <4>3 DEF Missing
      <4>5. BeatsLeft <= b
        <5>1. InSound(inData[d], ControllerHas(d), Missing(d))
              BY <1>0 DEF DieMatches, Matches
        <5>2. ControllerHas(d)[Len(ControllerHas(d))] = pkt
          <6>1. /\ ControllerHas(d) = Has(d, pendingPackets, outgoing)
                /\ pendingPackets \in Seq(Packets) /\ outgoing \in MaybePacket
                BY MissingTypes
          <6>2. outgoing # NoPacket /\ outgoing.die = d  BY <2>6, <4>1, <4>2
          <6> DEFINE has == Has(d, pendingPackets, outgoing)
          <6>3. has[Len(has)] = outgoing  BY <6>1, <6>2, HasIs
          <6> HIDE DEF has
          <6>4. ControllerHas(d) = has  BY <6>1 DEF has
          <6>5. QED  BY <4>1, <6>3, <6>4
        <5>3. QED  BY <2>1, <4>4, <5>1, <5>2 DEF InSound
      <4>6. BeatsLeft < b
        <5> DEFINE m == BeatsLeft
        <5>1. m \in Nat /\ m <= b /\ m # b  BY <2>1, <2>5, <3>2, <4>5
        <5> HIDE DEF m, b
        <5>2. b \in Nat  BY <2>3
        <5>3. m < b  BY <5>1, <5>2
        <5>4. QED  BY <5>3 DEF m
      <4>7. Begun(d)  BY <2>6, <4>1, <4>2, <4>6 DEF Begun
      <4>8. QED  BY <1>0, <2>6, <4>4, <4>7 DEF RoomFor
    <3>3. QED  BY <3>1, <3>2
  <2>7. ASSUME OnWire(d)', IN_BUFFER_SIZE # 0
        PROVE  size + w <= IN_BUFFER_SIZE
    <3>1. SendPiece /\ d = pkt.die  BY <2>1, <2>7
    <3>2. CASE CUT_THROUGH
      <4>1. ~isFull(pkt.type, d)  BY <3>1, <3>2 DEF SendPiece, MustAsk
      <4>2. InHasRoom(d)  BY <2>7, <3>2, <4>1 DEF isFull
      <4>3. size <= IN_BUFFER_SIZE - w  BY <2>7, <4>2 DEF InHasRoom
      <4>4. QED  BY <1>1, <4>3
    <3>3. CASE ~CUT_THROUGH
      <4>1. size + w * BeatsLeft <= IN_BUFFER_SIZE  BY <2>6, <2>7, <3>1, <3>3
      <4> DEFINE m == BeatsLeft
                 p == w * m
      <4>2. m \in Nat \ {0} /\ w \in Nat \ {0} /\ size \in Int  BY <1>1, <2>1
      <4>3. size + p <= IN_BUFFER_SIZE  BY <4>1
      <4> HIDE DEF m, w, size
      <4>4. p \in Nat /\ p >= w  BY <4>2
      <4> HIDE DEF p
      <4>5. size + w <= IN_BUFFER_SIZE  BY <1>1, <4>2, <4>3, <4>4
      <4>6. QED  BY <4>5 DEF w, size
    <3>4. QED  BY <3>2, <3>3
  <2>8. ASSUME Begun(d)', IN_BUFFER_SIZE # 0, ~CUT_THROUGH
        PROVE  size + w * Missing(d)' <= IN_BUFFER_SIZE
    <3>1. d = pkt.die /\ channelBeatsLeft' < b  BY <2>1, <2>8 DEF Begun
    <3>2. SendPiece
      <4> SUFFICES ASSUME Pause PROVE FALSE  BY <2>2
      <4>1. BeatsLeft = b /\ channelBeatsLeft' = BeatsLeft
            BY <2>5, <2>8 DEF Pause, MustAsk
      <4>2. QED  BY <2>3, <3>1, <4>1
    <3>3. Missing(d)' = BeatsLeft  BY <2>1, <3>1
    <3>4. QED  BY <2>6, <2>8, <3>1, <3>2, <3>3
  <2>9. QED  BY <1>0, <2>7, <2>8 DEF RoomFor
<1>5. QED  BY <1>2, <1>3, <1>4, ControllerCases

LEMMA RoomChannelUpdate ==
    ASSUME Shape, InMatches, RoomKept, ChannelUpdate, NEW d \in Dies
    PROVE  RoomFor(d)'
<1>1. \A e \in Dies : OnWire(e) => InHasRoom(e)  BY RoomHas DEF RoomKept
<1>2. /\ UNCHANGED <<CUT_THROUGH, outgoing, channelBeatsLeft>> /\ ~OnWire(d)'
      /\ IF OnWire(d)
         THEN inDataSize'[d] = inDataSize[d] + CHANNEL_WIDTH /\ Missing(d)' = Missing(d) - 1
         ELSE inDataSize'[d] = inDataSize[d] /\ Missing(d)' = Missing(d)
      BY <1>1, PieceArrives
<1>3. Begun(d)' <=> Begun(d)  BY <1>2 DEF Begun
<1>4. RoomFor(d)  BY DEF RoomKept
<1>5. CASE ~OnWire(d)  BY <1>2, <1>3, <1>4, <1>5 DEF RoomFor
<1>6. CASE OnWire(d)
  <2> DEFINE size == inDataSize[d]
             m == Missing(d)
             w == CHANNEL_WIDTH
  <2>1. size \in Int /\ m \in Nat \ {0} /\ w \in Nat \ {0} /\ IN_BUFFER_SIZE \in Nat
        BY <1>6, MissingTypes, BufferedPackageAssumption DEF Shape, InTypes
  <2>2. /\ ~CUT_THROUGH => size >= 0
        /\ IN_BUFFER_SIZE # 0 /\ ~CUT_THROUGH /\ Begun(d) => size + w * m <= IN_BUFFER_SIZE
        BY <1>4 DEF RoomFor
  <2>3. inDataSize'[d] = size + w /\ Missing(d)' = m - 1  BY <1>2, <1>6
  <2> HIDE DEF size, m, w
  <2>4. size + w + w * (m - 1) = size + w * m
    <3>1. w * (m - 1) = w * m - w /\ w * m \in Int  BY <2>1
    <3>2. QED  BY <2>1, <3>1
  <2>5. ~CUT_THROUGH => size + w >= 0  BY <2>1, <2>2
  <2>6. QED  BY <1>2, <1>3, <2>2, <2>3, <2>4, <2>5 DEF RoomFor, w
<1>7. QED  BY <1>5, <1>6

-----------------------------------------------------------------------------
(* What is latched of a packet is there to be latched, and a device beat   *)
(* that waits for bits has all its cycles to go.                           *)
LatchFor(d) ==
    /\ waiting[d] => inDataLeft[d] = 0
    /\ ~Unstarted(d) =>
         /\ inData[d] # <<>>
         /\ inDataLeft[d] <= FrontLength(d)
         /\ FrontLength(d) - inDataLeft[d] <= InFront(d).number
         /\ inDataLeft[d] \in 1 .. DEVICE_WIDTH /\ InFront(d).number < FrontLength(d) =>
              cyclesLeft[d] = DEVICE_CYCLES

(* A packet has arrived in the buffer and is still the controller's.  The  *)
(* updates that the buffer may make for a die before the controller's next *)
(* one do not suffice to end it.                                           *)
Arrived(d) ==
    /\ outgoing # NoPacket /\ outgoing.die = d
    /\ Missing(d) = 0 /\ Len(inData[d]) = 1
Updates(d, t, n) ==
    IF t = ChannelTurn THEN n
    ELSE IF \E e \in Dies : t = BufferTurn(e) /\ e <= d THEN n
    ELSE IF \E e \in Dies : t = BufferTurn(e) THEN n - 1
    ELSE 0
TimeFor(d) ==
    Arrived(d) /\ ~Unstarted(d) =>
        /\ inDataLeft[d] > 0
        /\ \/ inDataLeft[d] > DEVICE_WIDTH
           \/ cyclesLeft[d] > Updates(d, turn, channelUpdates)

LEMMA NoUpdates ==
    /\ \A d, n : Updates(d, FtlTurn, n) = 0 /\ Updates(d, ControllerTurn, n) = 0
    /\ \A d, n : \A e \in Dies : Updates(d, DieTurn(e), n) = 0
BY TurnsApart DEF Updates

LEMMA EnoughBits ==
    ASSUME Shape, NEW d \in Dies, LatchFor(d), MayLatch(d)
    PROVE  /\ FrontLength(d) - LeftNow(d) + BitsNow(d) <= InFront(d).number
           /\ LeftNow(d) <= FrontLength(d)
           /\ LeftNow(d) <= DEVICE_WIDTH => InFront(d).number >= FrontLength(d)
<1> DEFINE left == LeftNow(d)
           bits == BitsNow(d)
           full == FrontLength(d)
           number == InFront(d).number
<1>1. inData[d] # <<>> /\ EnoughIn(d)  BY DEF MayLatch
<1>2. /\ left \in Nat /\ bits \in Nat /\ bits <= left /\ bits <= DEVICE_WIDTH
      /\ full \in Nat \ {0} /\ number \in Nat
      BY <1>1, LatchTypes DEF Parts
<1>3. DEVICE_WIDTH \in Nat \ {0} /\ PAGE_LENGTH > DEVICE_WIDTH /\ PAGE_LENGTH \in Nat
      BY PageLengths
<1>4. CASE Unstarted(d)
  <2>1. left = full  BY <1>4 DEF LeftNow
  <2>2. \/ number >= full
        \/ full = PAGE_LENGTH /\ number >= DEVICE_WIDTH
        BY <1>1, <1>4 DEF EnoughIn, IsData, FrontLength, Length
  <2> HIDE DEF left, bits, full, number
  <2>3. QED  BY <1>2, <1>3, <2>1, <2>2 DEF left, bits, full, number
<1>5. CASE ~Unstarted(d)
  <2>1. left = inDataLeft[d] /\ left <= full  BY <1>5 DEF LeftNow, LatchFor
  <2>2. number >= full - left + DEVICE_WIDTH \/ number >= full
        BY <1>1, <1>5, <2>1 DEF EnoughIn
  <2> HIDE DEF left, bits, full, number
  <2>3. QED  BY <1>2, <1>3, <2>1, <2>2 DEF left, bits, full, number
<1>6. QED  BY <1>4, <1>5

(* A step of the latch, and the packet that stays in the buffer.           *)
LEMMA LatchStays ==
    ASSUME Shape, NEW d \in Dies, LatchFor(d), InputStays(d)
    PROVE  LatchFor(d)' /\ (Unstarted(d)' => FALSE)
<1> DEFINE left == LeftNow(d)
           bits == BitsNow(d)
           cycles == CyclesNow(d)
           full == FrontLength(d)
           number == InFront(d).number
<1>1. MayLatch(d) /\ UNCHANGED inData /\ inData[d] # <<>>
      BY DEF InputStays, InputSteps, MayLatch
<1>2. /\ left \in Nat /\ bits \in Nat /\ bits <= left /\ bits <= DEVICE_WIDTH
      /\ full \in Nat \ {0} /\ number \in Nat /\ cycles \in Nat /\ DEVICE_CYCLES \in Nat \ {0}
      /\ DEVICE_WIDTH \in Nat \ {0}
      BY <1>1, LatchTypes, PageLengths DEF Parts
<1>3. /\ full - left + bits <= number /\ left <= full
      /\ left <= DEVICE_WIDTH => number >= full
      BY <1>1, EnoughBits
<1>4. FrontLength(d)' = full /\ InFront(d)' = InFront(d)  BY <1>1 DEF FrontLength, InFront
<1>5. /\ inDataLeft'[d] = left - bits
      /\ cyclesLeft'[d] = IF left = bits THEN 0
                          ELSE IF cycles <= 1 THEN DEVICE_CYCLES ELSE cycles - 1
      /\ waiting'[d] = (left = bits)
      BY DEF InputStays, InputSteps, Shape, InTypes
<1>6. bits = IF cycles > 1 THEN 0 ELSE IF left >= DEVICE_WIDTH THEN DEVICE_WIDTH ELSE left
      BY DEF BitsNow
<1> HIDE DEF left, bits, cycles, full, number
<1>7. waiting'[d] => inDataLeft'[d] = 0
  <2>1. left = bits => left - bits = 0  BY <1>2
  <2>2. waiting'[d] = (left = bits) /\ inDataLeft'[d] = left - bits  BY <1>5
  <2>3. QED  BY <2>1, <2>2, Zenon
<1>8. ~Unstarted(d)'
  <2>1. inDataLeft'[d] = 0 => left = bits  BY <1>2, <1>5
  <2>2. QED  BY <1>5, <2>1 DEF Unstarted
<1>9. inDataLeft'[d] <= full /\ full - inDataLeft'[d] <= number  BY <1>2, <1>3, <1>5
<1>10. ASSUME inDataLeft'[d] \in 1 .. DEVICE_WIDTH, number < full
       PROVE  cyclesLeft'[d] = DEVICE_CYCLES
  <2>1. left # bits /\ ~(left <= DEVICE_WIDTH)  BY <1>2, <1>3, <1>5, <1>10
  <2>2. bits # 0  BY <1>2, <1>5, <1>10, <2>1
  <2>3. ~(cycles > 1)  BY <1>6, <2>2
  <2>4. QED  BY <1>2, <1>5, <2>1, <2>3
<1>11. QED  BY <1>1, <1>4, <1>7, <1>8, <1>9, <1>10 DEF LatchFor, number

LEMMA LatchEmpties ==
    ASSUME Shape, NEW d \in Dies, InputArrives(d)
    PROVE  LatchFor(d)' /\ Unstarted(d)'
<1>1. LeftNow(d) \in Nat  BY LatchTypes DEF InputArrives, InputSteps, MayLatch
<1>2. inDataLeft'[d] = 0 /\ waiting'[d] = FALSE
      BY <1>1 DEF InputArrives, InputSteps, Shape, InTypes
<1>3. QED  BY <1>2 DEF LatchFor, Unstarted

LEMMA LatchSame ==
    ASSUME NEW d, LatchFor(d), inData'[d] = inData[d], inDataLeft'[d] = inDataLeft[d],
           cyclesLeft'[d] = cyclesLeft[d], waiting'[d] = waiting[d]
    PROVE  LatchFor(d)' /\ (Unstarted(d)' <=> Unstarted(d))
BY DEF LatchFor, Unstarted, FrontLength, InFront

(* The packet that the die takes is complete, and is the first that the    *)
(* controller has sent the die: bufferDone takes it.                       *)
LEMMA NotYet ==
    ASSUME Shape, NEW d \in Dies, TimeFor(d), turn = BufferTurn(d),
           MayLatch(d), LeftNow(d) = BitsNow(d)
    PROVE  ~Arrived(d)
<1> SUFFICES ASSUME Arrived(d) PROVE FALSE  OBVIOUS
<1>1. inData[d] # <<>>  BY DEF MayLatch
<1>2. Updates(d, turn, channelUpdates) = channelUpdates
  <2>1. turn # ChannelTurn  BY TurnsApart
  <2>2. d <= d  BY DieTypes
  <2>3. QED  BY <2>1, <2>2 DEF Updates
<1>3. /\ channelUpdates \in Nat \ {0} /\ channelUpdates < DEVICE_CYCLES
      /\ DEVICE_CYCLES \in Nat /\ DEVICE_WIDTH \in Nat
      BY BufferedPackageAssumption DEF Shape, ClockInv
<1>4. /\ LeftNow(d) \in Nat /\ BitsNow(d) <= DEVICE_WIDTH /\ FrontLength(d) \in Nat \ {0}
      /\ CyclesNow(d) \in Nat
      BY <1>1, LatchTypes
<1>5. LeftNow(d) > 0
      BY <1>4 DEF TimeFor, LeftNow
<1>6. CyclesNow(d) > 1
  <2>1. CASE Unstarted(d)  BY <1>3, <2>1 DEF CyclesNow
  <2>2. CASE ~Unstarted(d)
    <3>1. LeftNow(d) = inDataLeft[d] /\ CyclesNow(d) = cyclesLeft[d]
          BY <2>2 DEF LeftNow, CyclesNow
    <3>2. LeftNow(d) > DEVICE_WIDTH \/ CyclesNow(d) > channelUpdates
          BY <1>2, <2>2, <3>1 DEF TimeFor
    <3>3. QED  BY <1>3, <1>4, <3>2
  <2>3. QED  BY <2>1, <2>2
<1>7. QED  BY <1>4, <1>5, <1>6 DEF BitsNow

LEMMA ArrivesComplete ==
    ASSUME Shape, NEW d \in Dies, LatchFor(d), DieMatches(d), InputArrives(d)
    PROVE  /\ inData[d] # <<>> /\ ControllerHas(d) # <<>>
           /\ Missing(d) = 0 \/ Len(ControllerHas(d)) > 1
           /\ InFront(d).type = Head(ControllerHas(d)).type
           /\ InFront(d).plane = Head(ControllerHas(d)).plane
           /\ InFront(d).number = PacketSize(InFront(d).type)
           /\ Head(ControllerHas(d)) \in Packets
<1> DEFINE has == ControllerHas(d)
           data == inData[d]
           missing == Missing(d)
           type == Head(has).type
<1>1. MayLatch(d) /\ LeftNow(d) = BitsNow(d) /\ data # <<>>
      BY DEF InputArrives, InputSteps, MayLatch
<1>2. LeftNow(d) <= DEVICE_WIDTH  BY <1>1, LatchTypes
<1>3. InFront(d).number >= FrontLength(d)  BY <1>1, <1>2, EnoughBits
<1>4. /\ data \in Seq(Parts) /\ has \in Seq(Packets) /\ missing \in Nat
      /\ InSound(data, has, missing)
      BY MissingTypes DEF DieMatches, Matches, Shape, InTypes
<1>5. InFront(d) = Head(data) /\ FrontLength(d) = Length(Head(data).type)
      BY DEF InFront, FrontLength
<1> HIDE DEF has, data, missing
<1>6. /\ has # <<>> /\ Head(has) \in Packets /\ type \in Types
      /\ Head(data).type = type /\ Head(data).plane = Head(has).plane
      /\ \/ /\ missing \in 1 .. Beats(type) /\ Len(has) = 1
            /\ Head(data).number < Length(type)
            /\ Head(data).number = Pieces(type, missing)
         \/ /\ missing = 0 \/ Len(has) > 1
            /\ Head(data).number = PacketSize(type)
      BY <1>1, <1>4, InFirst
<1>7. missing = 0 \/ Len(has) > 1
  <2> SUFFICES ASSUME ~(missing = 0 \/ Len(has) > 1) PROVE FALSE  OBVIOUS
  <2>1. missing \in 1 .. Beats(type) /\ Head(data).number = Pieces(type, missing)
        /\ Head(data).number < Length(type)
        BY <1>6
  <2>2. Pieces(type, missing) \in Nat /\ Length(type) \in Nat  BY <1>6, <2>1, PieceFacts
  <2> DEFINE x == Head(data).number
             y == Length(type)
  <2>3. x \in Nat /\ y \in Nat /\ x < y /\ x >= y  BY <1>3, <1>5, <1>6, <2>1, <2>2
  <2> HIDE DEF x, y
  <2>4. QED  BY <2>3
<1>8. Head(data).number = PacketSize(type)
  <2> SUFFICES ASSUME Head(data).number # PacketSize(type) PROVE FALSE  OBVIOUS
  <2>1. missing \in 1 .. Beats(type) /\ Len(has) = 1  BY <1>6
  <2>2. missing # 0 /\ ~(Len(has) > 1)
    <3>1. Beats(type) \in Nat  BY <1>6, PieceFacts
    <3>2. QED  BY <2>1, <3>1
  <2>3. QED  BY <1>7, <2>2
<1>9. QED  BY <1>1, <1>5, <1>6, <1>7, <1>8 DEF has, data, missing

LEMMA DoneTakesFirst ==
    ASSUME Shape, NEW d \in Dies, LatchFor(d), DieMatches(d), InputArrives(d), ~Arrived(d),
           UNCHANGED outgoing
    PROVE  /\ receiveFromBuffer(Head(ControllerHas(d)))
           /\ ControllerHas(d)' = Tail(ControllerHas(d))
           /\ \A e \in Dies : e # d => ControllerHas(e)' = ControllerHas(e)
           /\ \E i \in 1 .. Len(pendingPackets) :
                /\ pendingPackets[i] = Head(ControllerHas(d))
                /\ pendingPackets' = Without(pendingPackets, i)
                /\ \A j \in 1 .. i - 1 : pendingPackets[j].die # d
<1> DEFINE has == ControllerHas(d)
           p == pendingPackets
           sent == Picked(p, OnDie(d))
           u == <<d, InFront(d).plane>>
<1>1. /\ p \in Seq(Packets) /\ outgoing \in MaybePacket
      /\ has = Has(d, p, outgoing) /\ has \in Seq(Packets) /\ Missing(d) \in Nat
      BY MissingTypes
<1>2. /\ inData[d] # <<>> /\ has # <<>> /\ (Missing(d) = 0 \/ Len(has) > 1)
      /\ InFront(d).plane = Head(has).plane /\ Head(has) \in Packets
      BY ArrivesComplete
<1>3. /\ sent \in Seq(Packets)
      /\ ~(outgoing # NoPacket /\ outgoing.die = d) => has = sent
      /\ outgoing # NoPacket /\ outgoing.die = d => has = Append(sent, outgoing)
  <2> HIDE DEF has, p
  <2>1. QED  BY <1>1, HasIs
<1>4. sent # <<>>
  <2> SUFFICES ASSUME sent = <<>> PROVE FALSE  OBVIOUS
  <2>1. outgoing # NoPacket /\ outgoing.die = d /\ has = Append(<<>>, outgoing)
        BY <1>2, <1>3
  <2>2. outgoing \in Packets  BY <1>1, <2>1 DEF MaybePacket
  <2>3. Len(has) = 1
    <3>1. <<>> \in Seq(Packets) /\ Len(<<>>) = 0  BY EmptySeq
    <3>2. Len(Append(<<>>, outgoing)) = 0 + 1  BY <2>2, <3>1, AppendProperties
    <3>3. QED  BY <2>1, <3>2
  <2>4. Missing(d) = 0  BY <1>2, <2>3
  <2>5. Len(inData[d]) = 1
    <3>1. InSound(inData[d], has, Missing(d))  BY DEF DieMatches, Matches
    <3>2. ~(Missing(d) > 0)  BY <2>4
    <3>3. QED  BY <2>3, <3>1, <3>2 DEF InSound
  <2>6. QED  BY <2>1, <2>4, <2>5 DEF Arrived
<1>5. Head(has) = Head(sent) /\ Tail(has) = IF outgoing # NoPacket /\ outgoing.die = d
                                            THEN Append(Tail(sent), outgoing) ELSE Tail(sent)
  <2>1. CASE ~(outgoing # NoPacket /\ outgoing.die = d)  BY <1>3, <2>1
  <2>2. CASE outgoing # NoPacket /\ outgoing.die = d
    <3> DEFINE x == <<outgoing>>
    <3>1. outgoing \in Packets  BY <1>1, <2>2 DEF MaybePacket
    <3>2. x \in Seq(Packets) /\ Tail(sent) \in Seq(Packets)
          BY <1>3, <1>4, <3>1, SingletonSeq, HeadTailProperties
    <3> HIDE DEF sent
    <3>3. Append(sent, outgoing) = sent \o x /\ Append(Tail(sent), outgoing) = Tail(sent) \o x
          BY <1>3, <3>1, <3>2, AppendIsConcat
    <3> HIDE DEF x
    <3>4. Head(sent \o x) = Head(sent) /\ Tail(sent \o x) = Tail(sent) \o x
          BY <1>3, <1>4, <3>2, HeadTailConcat
    <3>5. has = sent \o x  BY <1>3, <2>2, <3>3
    <3> HIDE DEF has
    <3>6. QED  BY <2>2, <3>3, <3>4, <3>5
  <2>3. QED  BY <2>1, <2>2
<1>6. PICK k \in 1 .. Len(p) : p[k] \in OnDie(d) /\ \A j \in 1 .. k - 1 : p[j] \notin OnDie(d)
  <2> HIDE DEF p
  <2>1. QED  BY <1>1, <1>4, FirstPickedExists
<1>7. /\ Head(sent) = p[k] /\ Picked(Without(p, k), OnDie(d)) = Tail(sent)
      /\ \A U : p[k] \notin U => Picked(Without(p, k), U) = Picked(p, U)
      /\ Without(p, k) \in Seq(Packets)
  <2> HIDE DEF p
  <2>1. QED  BY <1>1, <1>6, FirstPicked
<1>8. p[k].die = d /\ p[k] \in Packets /\ UnitOf(p[k]) = u
      BY <1>2, <1>5, <1>6, <1>7 DEF OnDie, UnitOf
<1>9. u \in Units /\ bufferDone(u)
      BY <1>2, LatchTypes DEF InputArrives
<1>10. p' = Without(p, k) /\ receiveFromBuffer(p[k])
  <2>1. PICK i \in 1 .. Len(p) :
           /\ FirstFor(u, i) /\ p[i] \in Packets
           /\ p' = Without(p, i) /\ receiveFromBuffer(p[i])
    <3> HIDE DEF u
    <3>1. ~ \A i \in 1 .. Len(p) : UnitOf(p[i]) # u  BY <1>8
    <3>2. QED  BY <1>9, <3>1, DoneCases
  <2>2. Len(p) \in Nat  BY <1>1, LenProperties
  <2>3. ~(i <= k - 1)
    <3>1. UnitOf(p[i]) = u  BY <2>1 DEF FirstFor
    <3>2. p[i] \in OnDie(d)  BY <2>1, <3>1 DEF OnDie, UnitOf
    <3>3. QED  BY <1>6, <2>2, <3>2
  <2>4. ~(k <= i - 1)
    <3>1. \A j \in 1 .. i - 1 : UnitOf(p[j]) # u  BY <2>1 DEF FirstFor
    <3>2. QED  BY <1>8, <2>2, <3>1
  <2>5. i = k  BY <2>2, <2>3, <2>4
  <2>6. QED  BY <2>1, <2>5
<1>11. \A j \in 1 .. k - 1 : p[j].die # d
  <2> SUFFICES ASSUME NEW j \in 1 .. k - 1 PROVE p[j].die # d  OBVIOUS
  <2>1. Len(p) \in Nat  BY <1>1, LenProperties
  <2>2. j \in 1 .. Len(p)  BY <2>1
  <2>3. p[j] \in Packets  BY <1>1, <2>2, ElementOfSeq
  <2>4. QED  BY <1>6, <2>3 DEF OnDie
<1>12. \A e : ControllerHas(e)' = Has(e, Without(p, k), outgoing)
       BY <1>10 DEF ControllerHas, Has, OfDie
<1>13. ControllerHas(d)' = Tail(has)
  <2> DEFINE s == Without(p, k)
  <2>1. s \in Seq(Packets) /\ Picked(s, OnDie(d)) = Tail(sent)  BY <1>7
  <2> HIDE DEF s
  <2>2. outgoing \in MaybePacket /\ s \in Seq(Packets)  BY <1>1, <2>1
  <2>3. /\ ~(outgoing # NoPacket /\ outgoing.die = d) => Has(d, s, outgoing) = Picked(s, OnDie(d))
        /\ outgoing # NoPacket /\ outgoing.die = d =>
             Has(d, s, outgoing) = Append(Picked(s, OnDie(d)), outgoing)
        BY <2>2, HasIs
  <2>4. Has(d, s, outgoing) = Tail(has)  BY <1>5, <2>1, <2>3
  <2>5. QED  BY <1>12, <2>4 DEF s
<1>14. ASSUME NEW e \in Dies, e # d  PROVE ControllerHas(e)' = ControllerHas(e)
  <2> DEFINE s == Without(p, k)
  <2>1. p[k] \notin OnDie(e)  BY <1>8, <1>14 DEF OnDie
  <2>2. s \in Seq(Packets) /\ Picked(s, OnDie(e)) = Picked(p, OnDie(e))  BY <1>7, <2>1
  <2> HIDE DEF s, p
  <2>3. OfDie(e, s) = OfDie(e, p)  BY <1>1, <2>2, DieIsPicked
  <2>4. Has(e, s, outgoing) = Has(e, p, outgoing)  BY <2>3 DEF Has
  <2>5. ControllerHas(e) = Has(e, p, outgoing)  BY DEF ControllerHas, Has, p
  <2>6. QED  BY <1>12, <2>4, <2>5 DEF s
<1>15. QED  BY <1>5, <1>7, <1>10, <1>11, <1>13, <1>14

(* The buffer's round leaves the pieces on the channel alone.              *)
LEMMA WireKept ==
    ASSUME NEW x, BufferUpdate(x), NEW d
    PROVE  /\ UNCHANGED <<outgoing, channelBeatsLeft, CUT_THROUGH>>
           /\ OnWire(d)' <=> OnWire(d)
           /\ OnWire(d) => piece' = piece
           /\ Missing(d)' = Missing(d) /\ (Begun(d)' <=> Begun(d))
<1>1. UNCHANGED <<outgoing, channelBeatsLeft, CUT_THROUGH>> /\ TowardsController(x)
      BY DEF BufferUpdate, controllerVars
<1>2. (OnWire(d)' <=> OnWire(d)) /\ (OnWire(d) => piece' = piece)
  <2>1. CASE OutputWaits(x)  BY <2>1 DEF OutputWaits, channelVars, OnWire, busy
  <2>2. CASE SendPageBits(x)  BY <2>2 DEF SendPageBits, MayDrive, OnWire, busy
  <2>3. CASE PageArrived(x)  BY <2>3 DEF PageArrived, MayDrive, OnWire, busy
  <2>4. QED  BY <1>1, <2>1, <2>2, <2>3 DEF TowardsController
<1>3. QED  BY <1>1, <1>2 DEF Missing, Begun

LEMMA UpdatesFall ==
    ASSUME Shape, NEW x \in Dies, BufferUpdate(x), NEW d \in Dies
    PROVE  /\ Updates(d, turn, channelUpdates) \in Nat
           /\ Updates(d, turn', channelUpdates') \in Nat
           /\ Updates(d, turn', channelUpdates') <= Updates(d, turn, channelUpdates)
           /\ Updates(x, turn, channelUpdates) = channelUpdates
           /\ Updates(x, turn', channelUpdates') <= channelUpdates - 1
           /\ channelUpdates \in Nat \ {0} /\ channelUpdates < DEVICE_CYCLES
           /\ DEVICE_CYCLES \in Nat
<1> DEFINE n == channelUpdates
           m == channelUpdates'
<1>1. /\ turn = BufferTurn(x)
      /\ IF x < DIES_PER_PACKAGE - 1
         THEN turn' = BufferTurn(x + 1) /\ m = n
         ELSE m = n - 1 /\ turn' = IF n = 1 THEN DieTurn(0) ELSE ChannelTurn
      BY DEF BufferUpdate
<1>2. n \in Nat \ {0} /\ n < DEVICE_CYCLES /\ DEVICE_CYCLES \in Nat
      BY <1>1, BufferedPackageAssumption DEF Shape, ClockInv
<1>3. \A e \in Dies : Updates(e, turn, n) = IF x <= e THEN n ELSE n - 1
      BY <1>1, TurnsApart DEF Updates
<1>4. \A e \in Dies : Updates(e, turn', m) <= (IF x <= e /\ x # e THEN n ELSE n - 1)
                      /\ Updates(e, turn', m) \in Nat
  <2> HIDE DEF n, m
  <2>1. CASE x < DIES_PER_PACKAGE - 1
    <3>1. x + 1 \in Dies /\ m = n /\ turn' = BufferTurn(x + 1)
          BY <1>1, <2>1, FlashDiesAssumption DEF Dies
    <3>2. \A e \in Dies : Updates(e, turn', m) = IF x + 1 <= e THEN n ELSE n - 1
      <4> DEFINE y == x + 1
      <4>1. y \in Dies /\ turn' = BufferTurn(y)  BY <3>1
      <4> HIDE DEF y
      <4>2. \A e \in Dies : Updates(e, turn', m) = IF y <= e THEN n ELSE n - 1
            BY <3>1, <4>1, TurnsApart DEF Updates
      <4>3. QED  BY <4>2 DEF y
    <3>3. \A e \in Dies : x + 1 <= e <=> (x <= e /\ x # e)  BY DieTypes
    <3>4. QED  BY <1>2, <3>2, <3>3
  <2>2. CASE ~(x < DIES_PER_PACKAGE - 1)
    <3>1. m = n - 1 /\ turn' = IF n = 1 THEN DieTurn(0) ELSE ChannelTurn  BY <1>1, <2>2
    <3>2. \A e \in Dies : Updates(e, turn', m) = n - 1
      <4>1. CASE n = 1
        <5>1. \A e \in Dies : Updates(e, DieTurn(0), m) = 0  BY NoUpdates, DieTypes
        <5>2. QED  BY <3>1, <4>1, <5>1
      <4>2. CASE n # 1  BY <3>1, <4>2 DEF Updates
      <4>3. QED  BY <4>1, <4>2
    <3>3. QED  BY <1>2, <3>2
  <2>3. QED  BY <2>1, <2>2
<1>5. x <= x /\ ~(x <= x /\ x # x)  BY DieTypes
<1> HIDE DEF n, m
<1>6. Updates(d, turn, n) \in Nat /\ Updates(d, turn', m) \in Nat  BY <1>2, <1>3, <1>4
<1>7. Updates(d, turn', m) <= Updates(d, turn, n)
  <2>1. Updates(d, turn, n) = IF x <= d THEN n ELSE n - 1  BY <1>3
  <2>2. Updates(d, turn', m) <= IF x <= d /\ x # d THEN n ELSE n - 1  BY <1>4
  <2>3. QED  BY <1>2, <1>6, <2>1, <2>2
<1>8. Updates(x, turn, n) = n /\ Updates(x, turn', m) <= n - 1
  <2>1. Updates(x, turn', m) <= IF x <= x /\ x # x THEN n ELSE n - 1  BY <1>4
  <2>2. Updates(x, turn, n) = IF x <= x THEN n ELSE n - 1  BY <1>3
  <2>3. QED  BY <1>5, <2>1, <2>2
<1>9. QED  BY <1>2, <1>6, <1>7, <1>8 DEF n, m

(* A packet that has arrived is not ended by the step either.              *)
LEMMA TimeStays ==
    ASSUME Shape, NEW d \in Dies, LatchFor(d), TimeFor(d), BufferUpdate(d), InputStays(d)
    PROVE  TimeFor(d)'
<1> DEFINE left == LeftNow(d)
           bits == BitsNow(d)
           cycles == CyclesNow(d)
           n == channelUpdates
           m == Updates(d, turn', channelUpdates')
<1>1. MayLatch(d) /\ UNCHANGED inData /\ inData[d] # <<>>
      BY DEF InputStays, InputSteps, MayLatch
<1>2. /\ left \in Nat /\ bits \in Nat /\ bits <= left /\ bits <= DEVICE_WIDTH
      /\ cycles \in Nat /\ DEVICE_CYCLES \in Nat \ {0} /\ DEVICE_WIDTH \in Nat \ {0}
      /\ FrontLength(d) \in Nat \ {0}
      BY <1>1, LatchTypes, PageLengths
<1>3. /\ m \in Nat /\ m <= n - 1 /\ n \in Nat \ {0} /\ n < DEVICE_CYCLES
      /\ Updates(d, turn, channelUpdates) = n
      BY UpdatesFall
<1>4. Arrived(d)' <=> Arrived(d)  BY <1>1, WireKept DEF Arrived
<1>5. /\ inDataLeft'[d] = left - bits
      /\ cyclesLeft'[d] = IF left = bits THEN 0
                          ELSE IF cycles <= 1 THEN DEVICE_CYCLES ELSE cycles - 1
      BY DEF InputStays, InputSteps, Shape, InTypes
<1>6. bits = IF cycles > 1 THEN 0 ELSE IF left >= DEVICE_WIDTH THEN DEVICE_WIDTH ELSE left
      BY DEF BitsNow
<1>7. Arrived(d) => left > 0 /\ (left > DEVICE_WIDTH \/ cycles > n)
  <2>1. CASE Unstarted(d)
        BY <1>2, <1>3, <2>1 DEF LeftNow, CyclesNow
  <2>2. CASE ~Unstarted(d)
        BY <1>3, <2>2 DEF TimeFor, LeftNow, CyclesNow
  <2>3. QED  BY <2>1, <2>2
<1> HIDE DEF left, bits, cycles, n, m
<1>8. Arrived(d) => /\ inDataLeft'[d] > 0
                    /\ inDataLeft'[d] > DEVICE_WIDTH \/ cyclesLeft'[d] > m
  <2> SUFFICES ASSUME Arrived(d)
               PROVE  /\ inDataLeft'[d] > 0
                      /\ inDataLeft'[d] > DEVICE_WIDTH \/ cyclesLeft'[d] > m
      OBVIOUS
  <2>1. left > 0 /\ (left > DEVICE_WIDTH \/ cycles > n)  BY <1>7
  <2>2. CASE cycles > 1
    <3>1. bits = 0  BY <1>6, <2>2
    <3>2. inDataLeft'[d] = left /\ cyclesLeft'[d] = cycles - 1  BY <1>2, <1>5, <2>1, <2>2, <3>1
    <3>3. QED  BY <1>2, <1>3, <2>1, <3>2
  <2>3. CASE ~(cycles > 1)
    <3>1. left > DEVICE_WIDTH  BY <1>2, <1>3, <2>1, <2>3
    <3>2. bits = DEVICE_WIDTH  BY <1>2, <1>6, <2>3, <3>1
    <3>3. cyclesLeft'[d] = DEVICE_CYCLES  BY <1>2, <1>5, <2>3, <3>1, <3>2
    <3>4. QED  BY <1>2, <1>3, <1>5, <3>1, <3>2, <3>3
  <2>4. QED  BY <2>2, <2>3
<1>9. QED  BY <1>4, <1>8 DEF TimeFor, m

LEMMA TimeSame ==
    ASSUME Shape, NEW d \in Dies, TimeFor(d),
           Arrived(d)' => Arrived(d), Unstarted(d)' <=> Unstarted(d),
           inDataLeft'[d] = inDataLeft[d], cyclesLeft'[d] = cyclesLeft[d],
           Updates(d, turn, channelUpdates) \in Nat,
           Updates(d, turn', channelUpdates') \in Nat,
           Updates(d, turn', channelUpdates') <= Updates(d, turn, channelUpdates)
    PROVE  TimeFor(d)'
<1> DEFINE n == Updates(d, turn, channelUpdates)
           m == Updates(d, turn', channelUpdates')
           c == cyclesLeft[d]
<1>1. n \in Nat /\ m \in Nat /\ m <= n /\ c \in Nat  BY DEF Shape, InTypes
<1>2. Arrived(d)' /\ ~Unstarted(d)' =>
        inDataLeft[d] > 0 /\ (inDataLeft[d] > DEVICE_WIDTH \/ c > n)
      BY DEF TimeFor
<1>3. TimeFor(d)' <=> (Arrived(d)' /\ ~Unstarted(d)' =>
        inDataLeft'[d] > 0 /\ (inDataLeft'[d] > DEVICE_WIDTH \/ cyclesLeft'[d] > m))
      BY DEF TimeFor
<1> HIDE DEF n, m
<1>4. c > n => c > m  BY <1>1
<1>5. QED  BY <1>2, <1>3, <1>4

InFor(d) == DieMatches(d) /\ RoomFor(d) /\ LatchFor(d) /\ TimeFor(d)
InInv == \A d \in Dies : InFor(d)

LEMMA MatchesKept ==
    ASSUME NEW d, DieMatches(d), inData'[d] = inData[d],
           ControllerHas(d)' = ControllerHas(d), Missing(d)' = Missing(d),
           OnWire(d)' <=> OnWire(d), OnWire(d) => piece' = piece
    PROVE  DieMatches(d)'
BY DEF DieMatches, Matches

LEMMA RoomFalls ==
    ASSUME Shape, NEW d \in Dies, RoomFor(d), UNCHANGED CUT_THROUGH,
           OnWire(d)' <=> OnWire(d), Missing(d)' = Missing(d), Begun(d)' <=> Begun(d),
           inDataSize'[d] \in Int, inDataSize'[d] <= inDataSize[d],
           ~CUT_THROUGH /\ inDataSize[d] >= 0 => inDataSize'[d] >= 0
    PROVE  RoomFor(d)'
<1> DEFINE size == inDataSize[d]
           next == inDataSize'[d]
           w == CHANNEL_WIDTH
           p == CHANNEL_WIDTH * Missing(d)
<1>1. size \in Int /\ next \in Int /\ next <= size /\ w \in Nat /\ IN_BUFFER_SIZE \in Nat
      BY BufferedPackageAssumption DEF Shape, InTypes
<1>2. p \in Nat
  <2>1. Missing(d) \in Nat /\ CHANNEL_WIDTH \in Nat  BY MissingTypes, BufferedPackageAssumption
  <2>2. QED  BY <2>1
<1>3. /\ ~CUT_THROUGH => size >= 0
      /\ IN_BUFFER_SIZE # 0 =>
           /\ OnWire(d) => size + w <= IN_BUFFER_SIZE
           /\ ~CUT_THROUGH /\ Begun(d) => size + p <= IN_BUFFER_SIZE
      BY DEF RoomFor
<1>4. ~CUT_THROUGH => next >= 0  BY <1>3
<1>5. RoomFor(d)' <=>
        /\ ~CUT_THROUGH => next >= 0
        /\ IN_BUFFER_SIZE # 0 =>
             /\ OnWire(d) => next + w <= IN_BUFFER_SIZE
             /\ ~CUT_THROUGH /\ Begun(d) => next + p <= IN_BUFFER_SIZE
      BY DEF RoomFor
<1> HIDE DEF size, next, w, p
<1>6. IN_BUFFER_SIZE # 0 /\ OnWire(d) => next + w <= IN_BUFFER_SIZE  BY <1>1, <1>3
<1>7. IN_BUFFER_SIZE # 0 /\ ~CUT_THROUGH /\ Begun(d) => next + p <= IN_BUFFER_SIZE
      BY <1>1, <1>2, <1>3
<1>8. QED  BY <1>4, <1>5, <1>6, <1>7

(* What the buffer's round for a die does to its sizes, and to the others. *)
LEMMA SizeFalls ==
    ASSUME Shape, NEW x \in Dies, TowardsDie(x), ~CUT_THROUGH => inDataSize[x] >= 0
    PROVE  /\ inDataSize'[x] \in Int /\ inDataSize'[x] <= inDataSize[x]
           /\ ~CUT_THROUGH => inDataSize'[x] >= 0
<1>0. inDataSize \in [Dies -> Int]  BY DEF Shape, InTypes
<1> DEFINE size == inDataSize[x]
<1>1. size \in Int  BY <1>0
<1>2. CASE InputIdle  BY <1>1, <1>2 DEF InputIdle
<1>3. ASSUME inData[x] # <<>>
      PROVE  /\ SizeNow(x) \in Int /\ SizeNow(x) <= size
             /\ ~CUT_THROUGH => SizeNow(x) = size
             /\ PacketSize(InFront(x).type) \in Nat
  <2>1. BitsNow(x) \in Nat /\ PacketSize(InFront(x).type) \in Nat  BY <1>3, LatchTypes
  <2>2. SizeNow(x) = IF CUT_THROUGH THEN size - BitsNow(x) ELSE size  BY DEF SizeNow
  <2> HIDE DEF size
  <2>3. QED  BY <1>1, <2>1, <2>2
<1>4. CASE InputStays(x)
  <2>1. inData[x] # <<>>  BY <1>4 DEF InputStays, InputSteps, MayLatch
  <2>2. inDataSize'[x] = SizeNow(x)  BY <1>0, <1>4 DEF InputStays
  <2>3. QED  BY <1>3, <2>1, <2>2
<1>5. CASE InputArrives(x)
  <2> DEFINE now == SizeNow(x)
             bits == PacketSize(InFront(x).type)
  <2>1. inData[x] # <<>>  BY <1>5 DEF InputArrives, InputSteps, MayLatch
  <2>2. inDataSize'[x] = IF CUT_THROUGH THEN now ELSE TakeOff(now, bits)
        BY <1>0, <1>5 DEF InputArrives
  <2>3. now \in Int /\ now <= size /\ (~CUT_THROUGH => now = size) /\ bits \in Nat
        BY <1>3, <2>1
  <2> HIDE DEF now, bits
  <2>4. CASE CUT_THROUGH  BY <2>2, <2>3, <2>4
  <2>5. CASE ~CUT_THROUGH
    <3> DEFINE next == inDataSize'[x]
    <3>1. next = IF size >= bits THEN size - bits ELSE 0
          BY <2>2, <2>3, <2>5 DEF TakeOff
    <3>2. size \in Int /\ bits \in Nat /\ size >= 0  BY <1>1, <2>3, <2>5
    <3> HIDE DEF next, size
    <3>3. next \in Int /\ next <= size /\ next >= 0
          BY <3>1, <3>2
    <3>4. QED  BY <2>5, <3>3 DEF next, size
  <2>6. QED  BY <2>4, <2>5
<1>6. QED  BY <1>2, <1>4, <1>5, InputCases

LEMMA InKept ==
    ASSUME Shape, NEW x \in Dies, BufferUpdate(x), NEW d \in Dies, InFor(d),
           inData'[d] = inData[d], inDataSize'[d] = inDataSize[d],
           inDataLeft'[d] = inDataLeft[d], cyclesLeft'[d] = cyclesLeft[d],
           waiting'[d] = waiting[d], ControllerHas(d)' = ControllerHas(d)
    PROVE  InFor(d)'
<1>1. DieMatches(d) /\ RoomFor(d) /\ LatchFor(d) /\ TimeFor(d)  BY DEF InFor
<1>2. /\ UNCHANGED <<outgoing, channelBeatsLeft, CUT_THROUGH>>
      /\ OnWire(d)' <=> OnWire(d)
      /\ OnWire(d) => piece' = piece
      /\ Missing(d)' = Missing(d) /\ (Begun(d)' <=> Begun(d))
      BY WireKept
<1>3. DieMatches(d)'  BY <1>1, <1>2, MatchesKept
<1>4. inDataSize'[d] \in Int /\ inDataSize'[d] <= inDataSize[d]  BY DEF Shape, InTypes
<1>5. RoomFor(d)'  BY <1>1, <1>2, <1>4, RoomFalls
<1>6. LatchFor(d)' /\ (Unstarted(d)' <=> Unstarted(d))  BY <1>1, LatchSame
<1>7. Arrived(d)' => Arrived(d)  BY <1>2 DEF Arrived
<1>8. /\ Updates(d, turn, channelUpdates) \in Nat
      /\ Updates(d, turn', channelUpdates') \in Nat
      /\ Updates(d, turn', channelUpdates') <= Updates(d, turn, channelUpdates)
      BY UpdatesFall
<1>9. TimeFor(d)'  BY <1>1, <1>6, <1>7, <1>8, TimeSame
<1>10. QED  BY <1>3, <1>5, <1>6, <1>9 DEF InFor

LEMMA InOthers ==
    ASSUME Shape, NEW x \in Dies, BufferUpdate(x), InFor(x), NEW d \in Dies, d # x \/ InputIdle
    PROVE  /\ inData'[d] = inData[d] /\ inDataSize'[d] = inDataSize[d]
           /\ inDataLeft'[d] = inDataLeft[d] /\ cyclesLeft'[d] = cyclesLeft[d]
           /\ waiting'[d] = waiting[d] /\ ControllerHas(d)' = ControllerHas(d)
<1>1. TowardsDie(x) /\ UNCHANGED outgoing /\ turn = BufferTurn(x)
      BY DEF BufferUpdate, controllerVars
<1>2. /\ inData \in [Dies -> Seq(Parts)] /\ inDataSize \in [Dies -> Int]
      /\ inDataLeft \in [Dies -> Nat] /\ cyclesLeft \in [Dies -> Nat]
      /\ waiting \in [Dies -> BOOLEAN]
      BY DEF Shape, InTypes
<1>3. CASE InputIdle
      BY <1>1, <1>3 DEF InputIdle, ControllerHas, OfDie
<1>4. CASE d # x /\ InputStays(x)
  <2>1. UNCHANGED <<inData, pendingPackets>>  BY <1>4 DEF InputStays
  <2>2. ControllerHas(d)' = ControllerHas(d)  BY <1>1, <2>1 DEF ControllerHas, OfDie
  <2>3. /\ inDataSize'[d] = inDataSize[d] /\ inDataLeft'[d] = inDataLeft[d]
        /\ cyclesLeft'[d] = cyclesLeft[d] /\ waiting'[d] = waiting[d]
        BY <1>2, <1>4 DEF InputStays, InputSteps
  <2>4. QED  BY <2>1, <2>2, <2>3
<1>5. CASE d # x /\ InputArrives(x)
  <2>1. DieMatches(x) /\ LatchFor(x) /\ TimeFor(x)  BY DEF InFor
  <2>2. MayLatch(x) /\ LeftNow(x) = BitsNow(x)  BY <1>5 DEF InputArrives, InputSteps
  <2>3. ~Arrived(x)  BY <1>1, <2>1, <2>2, NotYet
  <2>4. ControllerHas(d)' = ControllerHas(d)  BY <1>1, <1>5, <2>1, <2>3, DoneTakesFirst
  <2>5. /\ inDataSize'[d] = inDataSize[d] /\ inDataLeft'[d] = inDataLeft[d]
        /\ cyclesLeft'[d] = cyclesLeft[d] /\ waiting'[d] = waiting[d]
        /\ inData'[d] = inData[d]
        BY <1>2, <1>5 DEF InputArrives, InputSteps
  <2>6. QED  BY <2>4, <2>5
<1>6. QED  BY <1>1, <1>3, <1>4, <1>5, InputCases

LEMMA InStays ==
    ASSUME Shape, NEW d \in Dies, BufferUpdate(d), InFor(d), InputStays(d)
    PROVE  InFor(d)'
<1>1. DieMatches(d) /\ RoomFor(d) /\ LatchFor(d) /\ TimeFor(d)  BY DEF InFor
<1>2. /\ UNCHANGED <<outgoing, channelBeatsLeft, CUT_THROUGH>>
      /\ OnWire(d)' <=> OnWire(d)
      /\ OnWire(d) => piece' = piece
      /\ Missing(d)' = Missing(d) /\ (Begun(d)' <=> Begun(d))
      BY WireKept
<1>3. UNCHANGED <<inData, pendingPackets>>  BY DEF InputStays
<1>4. ControllerHas(d)' = ControllerHas(d)  BY <1>2, <1>3 DEF ControllerHas, OfDie
<1>5. DieMatches(d)'  BY <1>1, <1>2, <1>3, <1>4, MatchesKept
<1>6. TowardsDie(d) /\ (~CUT_THROUGH => inDataSize[d] >= 0)
      BY <1>1 DEF BufferUpdate, RoomFor
<1>7. /\ inDataSize'[d] \in Int /\ inDataSize'[d] <= inDataSize[d]
      /\ ~CUT_THROUGH => inDataSize'[d] >= 0
      BY <1>6, SizeFalls
<1>8. RoomFor(d)'  BY <1>1, <1>2, <1>7, RoomFalls
<1>9. LatchFor(d)'  BY <1>1, LatchStays
<1>10. TimeFor(d)'  BY <1>1, TimeStays
<1>11. QED  BY <1>5, <1>8, <1>9, <1>10 DEF InFor

LEMMA InArrives ==
    ASSUME Shape, NEW d \in Dies, BufferUpdate(d), InFor(d), InputArrives(d)
    PROVE  /\ InFor(d)'
           /\ receiveFromBuffer(Head(ControllerHas(d)))
           /\ ControllerHas(d)' = Tail(ControllerHas(d))
           /\ InSound(inData'[d], Tail(ControllerHas(d)), Missing(d))
           /\ Missing(d) > 0 => Len(ControllerHas(d)) > 1
<1>1. DieMatches(d) /\ RoomFor(d) /\ LatchFor(d) /\ TimeFor(d)  BY DEF InFor
<1>2. /\ UNCHANGED <<outgoing, channelBeatsLeft, CUT_THROUGH>>
      /\ OnWire(d)' <=> OnWire(d)
      /\ OnWire(d) => piece' = piece
      /\ Missing(d)' = Missing(d) /\ (Begun(d)' <=> Begun(d))
      BY WireKept
<1>3. TowardsDie(d) /\ turn = BufferTurn(d) /\ (~CUT_THROUGH => inDataSize[d] >= 0)
      BY <1>1 DEF BufferUpdate, RoomFor
<1>4. MayLatch(d) /\ LeftNow(d) = BitsNow(d)  BY DEF InputArrives, InputSteps
<1>5. ~Arrived(d)  BY <1>1, <1>3, <1>4, NotYet
<1>6. receiveFromBuffer(Head(ControllerHas(d))) /\ ControllerHas(d)' = Tail(ControllerHas(d))
      BY <1>1, <1>2, <1>5, DoneTakesFirst
<1>7. /\ inData[d] # <<>> /\ ControllerHas(d) # <<>>
      /\ Missing(d) = 0 \/ Len(ControllerHas(d)) > 1
      BY <1>1, ArrivesComplete
<1>8. inData'[d] = Tail(inData[d])  BY DEF InputArrives, Shape, InTypes
<1> DEFINE has == ControllerHas(d)
           data == inData[d]
           missing == Missing(d)
<1>9. /\ data \in Seq(Parts) /\ has \in Seq(Packets) /\ missing \in Nat
      /\ InSound(data, has, missing) /\ (OnWire(d) => missing > 0)
      BY <1>1, MissingTypes DEF DieMatches, Matches, Shape, InTypes
<1> HIDE DEF has, data, missing
<1>10. InSound(Tail(data), Tail(has), missing)
       BY <1>7, <1>9, InTake DEF has, data, missing
<1>11. ASSUME OnWire(d)  PROVE Tail(has)[Len(Tail(has))] = has[Len(has)]
  <2>1. Len(has) > 1  BY <1>7, <1>9, <1>11 DEF has, missing
  <2>2. /\ Len(has) \in Nat /\ Len(Tail(has)) = Len(has) - 1
        /\ \A i \in 1 .. Len(has) - 1 : Tail(has)[i] = has[i + 1]
        BY <1>7, <1>9, HeadTailProperties, LenProperties DEF has
  <2> DEFINE n == Len(has)
  <2> HIDE DEF n
  <2>3. n - 1 \in 1 .. n - 1 /\ n - 1 + 1 = n  BY <2>1, <2>2 DEF n
  <2>4. QED  BY <2>2, <2>3 DEF n
<1>12. OnWire(d) => piece.type = has[Len(has)].type /\ piece.unit[2] = has[Len(has)].plane
       BY <1>1 DEF DieMatches, Matches, has
<1>13. inData'[d] = Tail(data) /\ ControllerHas(d)' = Tail(has) /\ Missing(d)' = missing
       BY <1>2, <1>6, <1>8 DEF has, data, missing
<1>14. DieMatches(d)'
       BY <1>2, <1>10, <1>11, <1>12, <1>13 DEF DieMatches, Matches
<1>15. /\ inDataSize'[d] \in Int /\ inDataSize'[d] <= inDataSize[d]
       /\ ~CUT_THROUGH => inDataSize'[d] >= 0
       BY <1>3, SizeFalls
<1>16. RoomFor(d)'  BY <1>1, <1>2, <1>15, RoomFalls
<1>17. LatchFor(d)' /\ Unstarted(d)'  BY LatchEmpties
<1>18. TimeFor(d)'  BY <1>17 DEF TimeFor
<1>19. InFor(d)'  BY <1>14, <1>16, <1>17, <1>18 DEF InFor
<1>20. Missing(d) > 0 => Len(ControllerHas(d)) > 1  BY <1>7, <1>9 DEF missing
<1>21. InSound(inData'[d], Tail(ControllerHas(d)), Missing(d))
       BY <1>8, <1>10 DEF has, data, missing
<1>22. QED  BY <1>6, <1>19, <1>20, <1>21

LEMMA InBufferUpdate ==
    ASSUME Shape, InInv, NEW x \in Dies, BufferUpdate(x), NEW d \in Dies
    PROVE  InFor(d)'
<1>1. InFor(d) /\ InFor(x)  BY DEF InInv
<1>2. TowardsDie(x)  BY DEF BufferUpdate
<1>3. CASE d # x \/ InputIdle  BY <1>1, <1>3, InOthers, InKept
<1>4. CASE d = x /\ InputStays(x)  BY <1>1, <1>4, InStays
<1>5. CASE d = x /\ InputArrives(x)  BY <1>1, <1>5, InArrives
<1>6. QED  BY <1>2, <1>3, <1>4, <1>5, InputCases

(* After the controller's update no packet has arrived and is still its.   *)
LEMMA InControllerUpdate ==
    ASSUME Shape, ChannelOwned, InInv, ControllerUpdate, NEW d \in Dies
    PROVE  InFor(d)' /\ ~Arrived(d)'
<1>1. InMatches /\ RoomKept /\ LatchFor(d)  BY DEF InInv, InFor, InMatches, RoomKept
<1>2. DieMatches(d)'  BY <1>1, MatchesControllerUpdate DEF InMatches
<1>3. RoomFor(d)'  BY <1>1, RoomControllerUpdate
<1>4. UNCHANGED <<inData, inDataLeft, cyclesLeft, waiting>>
      BY DEF ControllerUpdate, inVars, latchVars
<1>5. LatchFor(d)'  BY <1>1, <1>4, LatchSame
<1>6. ~Arrived(d)'
  <2>1. CASE NothingSent
    <3>1. UNCHANGED <<outgoing, channelBeatsLeft>>  BY <2>1 DEF NothingSent
    <3>2. outgoing = NoPacket \/ channelBeatsLeft > 0
          BY <2>1 DEF NothingSent, ChannelOwned
    <3>3. channelBeatsLeft \in Nat  BY DiesOf
    <3>4. outgoing' # NoPacket /\ outgoing'.die = d => Missing(d)' # 0
          BY <3>1, <3>2, <3>3 DEF Missing
    <3>5. QED  BY <3>4 DEF Arrived
  <2>2. CASE PacketSent  BY <2>2 DEF PacketSent, Arrived
  <2>3. CASE PieceMoves
    <3>1. /\ outgoing' = OnChannel /\ BeatsLeft # 0
          /\ d = OnChannel.die => Missing(d)' = BeatsLeft
          BY <2>3, MovedPiece
    <3>2. QED  BY <3>1 DEF Arrived
  <2>4. QED  BY <2>1, <2>2, <2>3, ControllerCases
<1>7. QED  BY <1>2, <1>3, <1>5, <1>6 DEF InFor, TimeFor

LEMMA LatchChannelUpdate ==
    ASSUME Shape, InInv, ChannelUpdate, NEW d \in Dies, OnWire(d)
    PROVE  /\ LatchFor(d)' /\ (Unstarted(d)' <=> Unstarted(d))
           /\ inDataLeft'[d] = inDataLeft[d] /\ cyclesLeft'[d] = cyclesLeft[d]
           /\ InSound(inData'[d], ControllerHas(d), Missing(d) - 1)
<1>1. InMatches /\ RoomKept /\ LatchFor(d) /\ DieMatches(d)
      BY DEF InInv, InFor, InMatches, RoomKept
<1>2. \A e \in Dies : OnWire(e) => InHasRoom(e)  BY <1>1, RoomHas DEF RoomKept
<1>3. /\ UNCHANGED <<inDataLeft, cyclesLeft, waiting>>
      /\ inData'[d] = AddBits(inData[d], piece.type, piece.unit[2], CHANNEL_WIDTH)
      BY <1>1, <1>2, PieceArrives DEF latchVars
<1> DEFINE has == ControllerHas(d)
           data == inData[d]
           next == inData'[d]
           missing == Missing(d)
           type == piece.type
           plane == piece.unit[2]
<1>4. /\ data \in Seq(Parts) /\ has \in Seq(Packets) /\ missing > 0
      /\ InSound(data, has, missing)
      /\ type = has[Len(has)].type /\ plane = has[Len(has)].plane
      /\ next = AddBits(data, type, plane, CHANNEL_WIDTH)
      BY <1>1, <1>3, MissingTypes DEF DieMatches, Matches, Shape, InTypes
<1> HIDE DEF has, data, next, missing, type, plane
<1>5. /\ InSound(next, has, missing - 1) /\ next \in Seq(Parts)
      /\ data # <<>> => /\ Head(next).number >= Head(data).number
                        /\ Head(next).type = Head(data).type
      BY <1>4, InPiece
<1>6. Unstarted(d)' <=> Unstarted(d)  BY <1>3 DEF Unstarted
<1>7. LatchFor(d)'
  <2>1. waiting'[d] => inDataLeft'[d] = 0  BY <1>1, <1>3 DEF LatchFor
  <2>2. CASE Unstarted(d)  BY <1>6, <2>1, <2>2 DEF LatchFor
  <2>3. CASE ~Unstarted(d)
    <3> DEFINE full == FrontLength(d)
               left == inDataLeft[d]
               number == Head(data).number
               more == Head(next).number
    <3>1. /\ data # <<>> /\ left <= full /\ full - left <= number
          /\ left \in 1 .. DEVICE_WIDTH /\ number < full => cyclesLeft[d] = DEVICE_CYCLES
          BY <1>1, <2>3 DEF LatchFor, data, InFront
    <3>2. next # <<>>
      <4>1. type \in Types /\ plane \in Planes /\ CHANNEL_WIDTH \in Nat
        <5>1. piece.type \in Types /\ piece.unit \in Units  BY MissingTypes
        <5>2. QED  BY <5>1, UnitTypes, BufferedPackageAssumption DEF type, plane
      <4>2. QED  BY <1>4, <4>1, AddBitsIs
    <3>3. full \in Nat /\ number \in Nat /\ more \in Nat /\ left \in Nat
      <4>1. full \in Nat  BY <3>1, LatchTypes DEF data
      <4>2. Head(data) \in Parts /\ Head(next) \in Parts
            BY <1>4, <1>5, <3>1, <3>2, HeadTailProperties
      <4>3. left \in Nat  BY DEF Shape, InTypes
      <4>4. QED  BY <4>1, <4>2, <4>3 DEF Parts
    <3>4. more >= number /\ Head(next).type = Head(data).type  BY <1>5, <3>1
    <3>5. FrontLength(d)' = full /\ InFront(d)'.number = more
          BY <3>4 DEF FrontLength, InFront, data, next
    <3> HIDE DEF full, left, number, more
    <3>6. full - left <= more  BY <3>1, <3>3, <3>4
    <3>7. left \in 1 .. DEVICE_WIDTH /\ more < full => cyclesLeft[d] = DEVICE_CYCLES
          BY <3>1, <3>3, <3>4
    <3>8. /\ inData'[d] # <<>> /\ inDataLeft'[d] <= FrontLength(d)'
          /\ FrontLength(d)' - inDataLeft'[d] <= InFront(d)'.number
          /\ inDataLeft'[d] \in 1 .. DEVICE_WIDTH /\ InFront(d)'.number < FrontLength(d)' =>
              cyclesLeft'[d] = DEVICE_CYCLES
          BY <1>3, <3>1, <3>2, <3>5, <3>6, <3>7 DEF next, left
    <3>9. QED  BY <2>1, <3>8 DEF LatchFor
  <2>4. QED  BY <2>2, <2>3
<1>8. QED  BY <1>3, <1>5, <1>6, <1>7 DEF has, next, missing

LEMMA TimeChannelUpdate ==
    ASSUME Shape, InInv, ChannelUpdate, NEW d \in Dies, OnWire(d)
    PROVE  TimeFor(d)'
<1>1. DieMatches(d) /\ LatchFor(d)  BY DEF InInv, InFor
<1>2. /\ LatchFor(d)' /\ (Unstarted(d)' <=> Unstarted(d))
      /\ inDataLeft'[d] = inDataLeft[d] /\ cyclesLeft'[d] = cyclesLeft[d]
      /\ InSound(inData'[d], ControllerHas(d), Missing(d) - 1)
      BY LatchChannelUpdate
<1>3. InMatches /\ RoomKept  BY DEF InInv, InFor, InMatches, RoomKept
<1>4. Missing(d)' = Missing(d) - 1
  <2>1. \A e \in Dies : OnWire(e) => InHasRoom(e)  BY <1>3, RoomHas DEF RoomKept
  <2>2. QED  BY <1>3, <2>1, PieceArrives
<1>5. turn' = BufferTurn(0) /\ UNCHANGED channelUpdates  BY DEF ChannelUpdate, clockVars
<1> SUFFICES ASSUME Arrived(d)', ~Unstarted(d)'
             PROVE  inDataLeft'[d] > 0 /\ (inDataLeft'[d] > DEVICE_WIDTH
                      \/ cyclesLeft'[d] > Updates(d, turn', channelUpdates'))
    BY DEF TimeFor
<1>6. Missing(d)' = 0 /\ Len(inData'[d]) = 1  BY DEF Arrived
<1> DEFINE has == ControllerHas(d)
           data == inData[d]
           missing == Missing(d)
           full == FrontLength(d)
           left == inDataLeft[d]
           number == InFront(d).number
<1>7. /\ data # <<>> /\ left <= full /\ full - left <= number
      /\ left \in 1 .. DEVICE_WIDTH /\ number < full => cyclesLeft[d] = DEVICE_CYCLES
      /\ left = 0 => waiting[d]
      BY <1>1, <1>2 DEF LatchFor, Unstarted
<1>8. /\ data \in Seq(Parts) /\ has \in Seq(Packets) /\ missing \in Nat
      /\ InSound(data, has, missing)
      BY <1>1, MissingTypes DEF DieMatches, Matches, Shape, InTypes
<1>9. missing = 1 /\ Len(has) = 1
  <2>1. missing = 1
    <3> HIDE DEF missing
    <3>1. missing - 1 = 0  BY <1>4, <1>6 DEF missing
    <3>2. QED  BY <1>8, <3>1
  <2>2. InSound(inData'[d], has, 0)  BY <1>2, <1>4, <1>6
  <2>3. Len(inData'[d]) = Len(has)  BY <2>2 DEF InSound
  <2>4. QED  BY <1>6, <2>1, <2>3
<1>10. number < full
  <2>1. InFront(d) = Head(data) /\ full = Length(Head(data).type)
        BY DEF InFront, FrontLength
  <2> HIDE DEF has, data, missing, full, number
  <2>2. /\ Head(data).type = Head(has).type
        /\ \/ Head(data).number < Length(Head(has).type)
           \/ missing = 0 \/ Len(has) > 1
        BY <1>7, <1>8, InFirst
  <2>3. Head(data).number < Length(Head(data).type)  BY <1>9, <2>2
  <2>4. QED  BY <2>1, <2>3 DEF number
<1>11. full \in Nat /\ number \in Nat /\ left \in Nat /\ DEVICE_WIDTH \in Nat
  <2>1. full \in Nat /\ InFront(d) \in Parts  BY <1>7, LatchTypes
  <2>2. QED  BY <2>1, PageLengths DEF Parts, Shape, InTypes
<1>12. Updates(d, turn', channelUpdates') = channelUpdates
  <2>1. 0 \in Dies /\ 0 <= d /\ BufferTurn(0) # ChannelTurn  BY DieTypes, TurnsApart
  <2>2. QED  BY <1>5, <2>1 DEF Updates
<1>13. channelUpdates < DEVICE_CYCLES  BY DEF Shape, ClockInv
<1> HIDE DEF full, left, number
<1>14. left # 0  BY <1>7, <1>10, <1>11
<1>15. left > DEVICE_WIDTH \/ cyclesLeft[d] = DEVICE_CYCLES
       BY <1>7, <1>10, <1>11, <1>14
<1>16. channelUpdates \in Nat /\ DEVICE_CYCLES \in Nat
       BY BufferedPackageAssumption DEF Shape, ClockInv
<1>17. left > 0  BY <1>11, <1>14
<1>18. cyclesLeft[d] = DEVICE_CYCLES => cyclesLeft[d] > channelUpdates  BY <1>13, <1>16
<1>19. QED  BY <1>2, <1>12, <1>15, <1>17, <1>18 DEF left

LEMMA InChannelUpdate ==
    ASSUME Shape, InInv, ChannelUpdate, NEW d \in Dies
    PROVE  InFor(d)'
<1>1. InMatches /\ RoomKept /\ LatchFor(d) /\ TimeFor(d)
      BY DEF InInv, InFor, InMatches, RoomKept
<1>2. \A e \in Dies : OnWire(e) => InHasRoom(e)  BY <1>1, RoomHas DEF RoomKept
<1>3. DieMatches(d)'  BY <1>1, <1>2, MatchesChannelUpdate DEF InMatches
<1>4. RoomFor(d)'  BY <1>1, RoomChannelUpdate
<1>5. CASE OnWire(d)
      BY <1>3, <1>4, <1>5, LatchChannelUpdate, TimeChannelUpdate DEF InFor
<1>6. CASE ~OnWire(d)
  <2>1. /\ UNCHANGED <<outgoing, inDataLeft, cyclesLeft, waiting>>
        /\ inData'[d] = inData[d] /\ Missing(d)' = Missing(d)
        BY <1>1, <1>2, <1>6, PieceArrives DEF latchVars
  <2>2. LatchFor(d)' /\ (Unstarted(d)' <=> Unstarted(d))  BY <1>1, <2>1, LatchSame
  <2>3. Arrived(d)' => Arrived(d)  BY <2>1 DEF Arrived
  <2>4. turn = ChannelTurn /\ turn' = BufferTurn(0) /\ UNCHANGED channelUpdates
        /\ channelUpdates \in Nat
        BY DEF ChannelUpdate, clockVars, Shape, ClockInv
  <2>5. /\ Updates(d, turn, channelUpdates) = channelUpdates
        /\ Updates(d, turn', channelUpdates') = channelUpdates
    <3>1. 0 \in Dies /\ 0 <= d /\ BufferTurn(0) # ChannelTurn  BY DieTypes, TurnsApart
    <3>2. QED  BY <2>4, <3>1 DEF Updates
  <2>6. TimeFor(d)'  BY <1>1, <2>1, <2>2, <2>3, <2>4, <2>5, TimeSame
  <2>7. QED  BY <1>3, <1>4, <2>2, <2>6 DEF InFor
<1>7. QED  BY <1>5, <1>6

LEMMA InStill ==
    ASSUME Shape, NEW d \in Dies, InFor(d),
           UNCHANGED <<CUT_THROUGH, inVars, sendVars, piece, outgoing, channelBeatsLeft, sType>>,
           Updates(d, turn, channelUpdates) \in Nat,
           Updates(d, turn', channelUpdates') \in Nat,
           Updates(d, turn', channelUpdates') <= Updates(d, turn, channelUpdates)
    PROVE  InFor(d)'
<1>1. DieMatches(d) /\ RoomFor(d) /\ LatchFor(d) /\ TimeFor(d)  BY DEF InFor
<1>2. UNCHANGED <<inData, inDataSize, inDataLeft, cyclesLeft, waiting, pendingPackets>>
      BY DEF inVars, latchVars, sendVars
<1>3. /\ OnWire(d)' <=> OnWire(d)
      /\ Missing(d)' = Missing(d) /\ (Begun(d)' <=> Begun(d))
      /\ ControllerHas(d)' = ControllerHas(d)
      BY <1>2 DEF OnWire, busy, Missing, Begun, ControllerHas, OfDie
<1>4. DieMatches(d)'  BY <1>1, <1>2, <1>3, MatchesKept
<1>5. RoomFor(d)'  BY <1>1, <1>2, <1>3 DEF RoomFor
<1>6. LatchFor(d)' /\ (Unstarted(d)' <=> Unstarted(d))  BY <1>1, <1>2, LatchSame
<1>7. Arrived(d)' => Arrived(d)  BY <1>2, <1>3 DEF Arrived
<1>8. TimeFor(d)'  BY <1>1, <1>2, <1>6, <1>7, TimeSame
<1>9. QED  BY <1>4, <1>5, <1>6, <1>8 DEF InFor

LEMMA InInit == ASSUME Init PROVE InInv
<1> SUFFICES ASSUME NEW d \in Dies PROVE InFor(d)  BY DEF InInv
<1>1. DieMatches(d)  BY MatchesInit DEF InMatches
<1>2. /\ inDataSize[d] = 0 /\ inDataLeft[d] = 0 /\ waiting[d] = FALSE
      /\ outgoing = NoPacket /\ piece = NoPiece
      BY DEF Init, DiesInit
<1>3. Unstarted(d) /\ ~Arrived(d) /\ ~OnWire(d) /\ ~Begun(d)
      BY <1>2 DEF Unstarted, Arrived, OnWire, busy, Begun
<1>4. QED  BY <1>1, <1>2, <1>3 DEF InFor, RoomFor, LatchFor, TimeFor

(* The whole of the way in.                                                *)
InAll == Shape /\ ChannelOwned /\ InInv

LEMMA InAllInit == Init => InAll
BY InitShape, ChannelInit, InInit DEF InAll

LEMMA InAllNext == InAll /\ [Next]_vars => InAll'
<1> SUFFICES ASSUME InAll, [Next]_vars PROVE InAll'  OBVIOUS
<1>1. Shape /\ ChannelOwned /\ InInv  BY DEF InAll
<1>2. Shape' /\ ChannelOwned'  BY <1>1, ShapeNext, ChannelNext
<1> SUFFICES ASSUME NEW d \in Dies PROVE InFor(d)'  BY <1>2 DEF InAll, InInv
<1>3. InFor(d)  BY <1>1 DEF InInv
<1>4. CASE FtlUpdate
  <2>1. UNCHANGED <<CUT_THROUGH, inVars, sendVars, piece, outgoing, channelBeatsLeft, sType>>
        BY <1>4 DEF FtlUpdate, FtlGives, controllerVars, channelVars
  <2>2. turn = FtlTurn /\ (turn' = DieTurn(0) \/ turn' = ControllerTurn)
        BY <1>4 DEF FtlUpdate
  <2>3. /\ Updates(d, turn, channelUpdates) = 0
        /\ Updates(d, turn', channelUpdates') = 0
        BY <2>2, NoUpdates, DieTypes
  <2>4. QED  BY <1>1, <1>3, <2>1, <2>3, InStill
<1>5. CASE ControllerUpdate  BY <1>1, <1>5, InControllerUpdate
<1>6. CASE ChannelUpdate  BY <1>1, <1>6, InChannelUpdate
<1>7. ASSUME NEW x \in Dies, BufferUpdate(x)  PROVE InFor(d)'
      BY <1>1, <1>7, InBufferUpdate
<1>8. ASSUME NEW x \in Dies, DieUpdate(x)  PROVE InFor(d)'
  <2>1. UNCHANGED <<CUT_THROUGH, inVars, sendVars, piece, outgoing, channelBeatsLeft, sType>>
        BY <1>8 DEF DieUpdate, controllerVars, channelVars
  <2>2. turn = DieTurn(x) /\ (turn' = FtlTurn \/ \E e \in Dies : turn' = DieTurn(e))
    <3>1. x # DIES_PER_PACKAGE - 1 => x + 1 \in Dies
          BY FlashDiesAssumption DEF Dies
    <3>2. QED  BY <1>8, <3>1 DEF DieUpdate
  <2>3. /\ Updates(d, turn, channelUpdates) = 0
        /\ Updates(d, turn', channelUpdates') = 0
        BY <2>2, NoUpdates
  <2>4. QED  BY <1>1, <1>3, <2>1, <2>3, InStill
<1>9. CASE UNCHANGED vars
  <2>1. /\ UNCHANGED <<CUT_THROUGH, inVars, sendVars, piece, outgoing, channelBeatsLeft, sType>>
        /\ UNCHANGED <<turn, channelUpdates>>
        BY <1>9 DEF vars, diesVars, controllerVars, channelVars, clockVars
  <2>2. Updates(d, turn, channelUpdates) \in Nat
    <3>1. channelUpdates \in Nat
          /\ (turn \in {ChannelTurn} \cup {BufferTurn(e) : e \in Dies} => channelUpdates > 0)
          BY <1>1 DEF Shape, ClockInv
    <3>2. QED  BY <3>1 DEF Updates
  <2>3. QED  BY <1>1, <1>3, <2>1, <2>2, InStill
<1>10. QED  BY <1>4, <1>5, <1>6, <1>7, <1>8, <1>9 DEF Next

(* Each die's packets in the buffer are those the controller has for it,   *)
(* in their order; only the newest may be incomplete, or not yet there.    *)
LEMMA InSoundMatches ==
    ASSUME Shape, InInv  PROVE BufferMatchesController
<1> SUFFICES ASSUME NEW d \in Dies
             PROVE  /\ Len(inData[d]) <= Len(ControllerHas(d))
                    /\ Len(inData[d]) >= Len(ControllerHas(d)) - 1
                    /\ \A i \in DOMAIN inData[d] :
                         /\ inData[d][i].type = ControllerHas(d)[i].type
                         /\ inData[d][i].plane = ControllerHas(d)[i].plane
                         /\ i < Len(inData[d]) =>
                              inData[d][i].number >= Length(inData[d][i].type)
    BY DEF BufferMatchesController
<1> DEFINE has == ControllerHas(d)
           data == inData[d]
           missing == Missing(d)
<1>1. DieMatches(d)  BY DEF InInv, InFor
<1>2. /\ data \in Seq(Parts) /\ has \in Seq(Packets) /\ missing \in Nat
      /\ InSound(data, has, missing)
      BY <1>1, MissingTypes DEF DieMatches, Matches, Shape, InTypes
<1> HIDE DEF has, data, missing
<1>3. /\ Len(data) = Len(has) \/ Len(data) = Len(has) - 1
      /\ \A i \in 1 .. Len(data) :
           data[i] = Part(has[i].type, has[i].plane,
                          Pieces(has[i].type, MissingAt(i, has, missing)))
      BY <1>2 DEF InSound
<1>4. Len(data) \in Nat /\ Len(has) \in Nat /\ DOMAIN data = 1 .. Len(data)
      BY <1>2, LenProperties
<1>5. ASSUME NEW i \in 1 .. Len(data)
      PROVE  /\ data[i].type = has[i].type /\ data[i].plane = has[i].plane
             /\ i < Len(data) => data[i].number >= Length(data[i].type)
  <2>1. data[i] = Part(has[i].type, has[i].plane,
                       Pieces(has[i].type, MissingAt(i, has, missing)))
        BY <1>3
  <2>2. /\ data[i].type = has[i].type /\ data[i].plane = has[i].plane
        /\ data[i].number = Pieces(has[i].type, MissingAt(i, has, missing))
        BY <2>1 DEF Part
  <2>3. has[i].type \in Types
    <3>1. i \in 1 .. Len(has)  BY <1>3, <1>4
    <3>2. QED  BY <1>2, <3>1, HasTypes
  <2>4. i < Len(data) => MissingAt(i, has, missing) = 0
    <3>1. i < Len(data) => i # Len(has)  BY <1>3, <1>4
    <3>2. QED  BY <3>1 DEF MissingAt
  <2>5. Pieces(has[i].type, 0) >= Length(has[i].type)  BY <2>3, PieceFacts
  <2>6. QED  BY <2>2, <2>4, <2>5
<1>6. Len(data) <= Len(has) /\ Len(data) >= Len(has) - 1  BY <1>3, <1>4
<1>7. QED  BY <1>4, <1>5, <1>6 DEF has, data

(* The buffer holds each die's packets as the controller does: types,      *)
(* planes and order, all but the newest complete (Buffer.cpp:376,          *)
(* Controller.cpp:745-757).                                                *)
THEOREM BufferMatchesSent == Spec => []BufferMatchesController
<1>1. InAll => BufferMatchesController  BY InSoundMatches DEF InAll
<1>2. QED  BY InAllInit, InAllNext, <1>1, PTL DEF Spec

-----------------------------------------------------------------------------
(* The bits in a side of the buffer, summed part by part.                  *)
Sums(f, s) ==
    /\ f \in [0 .. Len(s) -> Nat] /\ f[0] = 0
    /\ \A i \in 1 .. Len(s) : f[i] = f[i - 1] + s[i].number
    /\ BitsIn(s) = f[Len(s)]

LEMMA BitsSteps ==
    ASSUME NEW s \in Seq(Parts)
    PROVE  \E f : Sums(f, s)
<1> DEFINE n == Len(s)
           Step(g, i) == IF i = 0 THEN 0 ELSE g[i - 1] + s[i].number
           Solves(g, m) == \A i \in 0 .. m : g[i] = Step(g, i)
           G == {m \in 0 .. n : \E g \in [0 .. m -> Nat] : Solves(g, m)}
<1>1. n \in Nat /\ \A i \in 1 .. n : s[i].number \in Nat
  <2>1. \A i \in 1 .. n : s[i] \in Parts  BY ElementOfSeq
  <2>2. n \in Nat  BY LenProperties
  <2>3. QED  BY <2>1, <2>2 DEF Parts
<1>2. 0 \in G
  <2> DEFINE g == [i \in 0 .. 0 |-> 0]
  <2>1. g \in [0 .. 0 -> Nat] /\ \A i \in 0 .. 0 : g[i] = 0 /\ i = 0  OBVIOUS
  <2> HIDE DEF g
  <2>2. Solves(g, 0)  BY <2>1
  <2> HIDE DEF Solves
  <2>3. 0 \in 0 .. n  BY <1>1
  <2>4. QED  BY <2>1, <2>2, <2>3
<1>3. ASSUME NEW m \in 1 .. n, m - 1 \in G  PROVE m \in G
  <2>1. PICK g \in [0 .. m - 1 -> Nat] : Solves(g, m - 1)  BY <1>3
  <2> DEFINE h == [i \in 0 .. m |-> IF i < m THEN g[i] ELSE Step(g, m)]
  <2>2. Step(g, m) \in Nat
    <3>1. m - 1 \in 0 .. m - 1 /\ m # 0  BY <1>1
    <3>2. g[m - 1] \in Nat /\ s[m].number \in Nat  BY <1>1, <3>1
    <3>3. QED  BY <3>1, <3>2
  <2>3. h \in [0 .. m -> Nat]
    <3> HIDE DEF Step
    <3>1. \A i \in 0 .. m : i < m => i \in 0 .. m - 1  BY <1>1
    <3>2. QED  BY <2>2, <3>1
  <2>4. \A i \in 0 .. m : Step(h, i) = Step(g, i)
    <3>1. \A i \in 0 .. m : i # 0 => i - 1 \in 0 .. m /\ i - 1 < m  BY <1>1
    <3>2. QED  BY <3>1
  <2>5. \A i \in 0 .. m : h[i] = Step(g, i)
    <3> HIDE DEF Step
    <3>1. \A i \in 0 .. m : i = m \/ (i < m /\ i \in 0 .. m - 1)  BY <1>1
    <3>2. QED  BY <2>1, <3>1
  <2> HIDE DEF Step, h
  <2>6. Solves(h, m)  BY <2>4, <2>5
  <2> HIDE DEF Solves
  <2>7. m \in 0 .. n  BY <1>1
  <2> HIDE DEF n
  <2>8. QED  BY <2>3, <2>6, <2>7
<1> HIDE DEF G
<1>4. n \in G
  <2>1. \A m \in 0 .. n : m \in G  BY <1>1, <1>2, <1>3, UpToInduction
  <2>2. QED  BY <1>1, <2>1
<1> USE DEF G
<1>5. PICK g \in [0 .. n -> Nat] : Solves(g, n)  BY <1>4
<1> HIDE DEF G
<1>6. g = [i \in 0 .. n |-> Step(g, i)]
  <2> HIDE DEF Step
  <2>1. QED  BY <1>5
<1> DEFINE sum == CHOOSE h : h = [i \in 0 .. n |-> Step(h, i)]
<1>7. sum = [i \in 0 .. n |-> Step(sum, i)]
  <2> HIDE DEF Step
  <2>1. QED  BY <1>6
<1>8. BitsIn(s) = sum[n]  BY DEF BitsIn
<1>9. \A i \in 0 .. n : sum[i] = Step(sum, i)
  <2> HIDE DEF Step, sum
  <2>1. QED  BY <1>7
<1> HIDE DEF sum
<1>10. sum[0] = 0 /\ \A i \in 1 .. n : sum[i] = sum[i - 1] + s[i].number
       BY <1>1, <1>9
<1>11. \A m \in 0 .. n : sum[m] \in Nat
  <2> DEFINE T == {m \in 0 .. n : sum[m] \in Nat}
  <2>1. 0 \in T  BY <1>1, <1>10
  <2>2. ASSUME NEW m \in 1 .. n, m - 1 \in T  PROVE m \in T
    <3>1. sum[m - 1] \in Nat /\ s[m].number \in Nat  BY <1>1, <2>2
    <3>2. QED  BY <1>10, <3>1
  <2> HIDE DEF T
  <2>3. \A m \in 0 .. n : m \in T  BY <1>1, <2>1, <2>2, UpToInduction
  <2>4. QED  BY <2>3 DEF T
<1>12. sum = [i \in 0 .. n |-> sum[i]]
  <2> HIDE DEF Step
  <2>1. \A i \in 0 .. n : sum[i] = Step(sum, i)  BY <1>9
  <2>2. QED  BY <1>7, <2>1
<1>13. sum \in [0 .. n -> Nat]  BY <1>11, <1>12
<1>14. Sums(sum, s)  BY <1>8, <1>10, <1>13 DEF Sums
<1>15. QED  BY <1>14

LEMMA BitsType ==
    ASSUME NEW s \in Seq(Parts)
    PROVE  BitsIn(s) \in Nat /\ (s = <<>> => BitsIn(s) = 0)
<1>1. PICK f : Sums(f, s)  BY BitsSteps
<1>2. Len(s) \in Nat /\ (s = <<>> => Len(s) = 0)  BY LenProperties, EmptySeq
<1>3. QED  BY <1>1, <1>2 DEF Sums

(* Equal parts have equal sums.                                            *)
LEMMA BitsAgree ==
    ASSUME NEW s \in Seq(Parts), NEW t \in Seq(Parts), NEW f, NEW g, Sums(f, s), Sums(g, t),
           NEW n \in Nat, n <= Len(s), n <= Len(t),
           \A i \in 1 .. n : s[i].number = t[i].number
    PROVE  f[n] = g[n]
<1>1. Len(s) \in Nat /\ Len(t) \in Nat  BY LenProperties
<1>2. /\ f[0] = 0 /\ g[0] = 0
      /\ \A i \in 1 .. n : f[i] = f[i - 1] + s[i].number /\ g[i] = g[i - 1] + t[i].number
      BY <1>1 DEF Sums
<1> DEFINE G == {m \in 0 .. n : f[m] = g[m]}
<1>3. 0 \in G  BY <1>2
<1>4. ASSUME NEW m \in 1 .. n, m - 1 \in G  PROVE m \in G
      BY <1>2, <1>4
<1> HIDE DEF G
<1>5. \A m \in 0 .. n : m \in G  BY <1>3, <1>4, UpToInduction
<1>6. QED  BY <1>5 DEF G

LEMMA BitsAdded ==
    ASSUME NEW s \in Seq(Parts), NEW type \in Types, NEW plane \in Planes, NEW bits \in Nat
    PROVE  BitsIn(AddBits(s, type, plane, bits)) = BitsIn(s) + bits
<1> DEFINE r == AddBits(s, type, plane, bits)
           n == Len(s)
<1>1. /\ r \in Seq(Parts) /\ n \in Nat /\ r # <<>>
      /\ Joins(s, type, plane) =>
           /\ n > 0 /\ Len(r) = n /\ \A i \in 1 .. n - 1 : r[i] = s[i]
           /\ r[n] = Part(type, plane, s[n].number + bits)
      /\ ~Joins(s, type, plane) =>
           /\ Len(r) = n + 1 /\ \A i \in 1 .. n : r[i] = s[i]
           /\ r[n + 1] = Part(type, plane, bits)
      BY AddBitsIs
<1> HIDE DEF r
<1>2. PICK f : Sums(f, s)  BY BitsSteps
<1>3. PICK g : Sums(g, r)  BY <1>1, BitsSteps
<1>4. /\ BitsIn(s) = f[n] /\ f \in [0 .. n -> Nat]
      /\ \A i \in 1 .. n : f[i] = f[i - 1] + s[i].number
      BY <1>2 DEF Sums
<1>5. /\ BitsIn(r) = g[Len(r)]
      /\ \A i \in 1 .. Len(r) : g[i] = g[i - 1] + r[i].number
      BY <1>3 DEF Sums
<1>6. \A i \in 1 .. n : s[i].number \in Nat
  <2>1. \A i \in 1 .. n : s[i] \in Parts  BY ElementOfSeq
  <2>2. QED  BY <2>1 DEF Parts
<1>7. CASE Joins(s, type, plane)
  <2>1. n > 0 /\ Len(r) = n /\ r[n].number = s[n].number + bits
        /\ \A i \in 1 .. n - 1 : r[i].number = s[i].number
        BY <1>1, <1>7 DEF Part
  <2> DEFINE m == n - 1
  <2>2. m \in Nat /\ m <= Len(s) /\ m <= Len(r) /\ m \in 0 .. n /\ n \in 1 .. n
        BY <1>1, <2>1
  <2>3. \A i \in 1 .. m : s[i].number = r[i].number  BY <2>1
  <2> HIDE DEF m
  <2>4. f[m] = g[m]  BY <1>1, <1>2, <1>3, <2>2, <2>3, BitsAgree
  <2>5. f[n] = f[m] + s[n].number  BY <1>4, <2>2 DEF m
  <2>6. g[n] = g[m] + r[n].number  BY <1>5, <2>1, <2>2 DEF m
  <2>7. f[m] \in Nat /\ s[n].number \in Nat  BY <1>4, <1>6, <2>2
  <2>8. BitsIn(r) = g[n] /\ BitsIn(s) = f[n]  BY <1>4, <1>5, <2>1
  <2>9. BitsIn(r) = BitsIn(s) + bits  BY <2>1, <2>4, <2>5, <2>6, <2>7, <2>8
  <2>10. QED  BY <2>9 DEF r
<1>8. CASE ~Joins(s, type, plane)
  <2>1. Len(r) = n + 1 /\ r[n + 1].number = bits
        /\ \A i \in 1 .. n : s[i].number = r[i].number
        BY <1>1, <1>8 DEF Part
  <2>2. n <= Len(s) /\ n <= Len(r) /\ n + 1 \in 1 .. Len(r) /\ n + 1 - 1 = n
        BY <1>1, <2>1
  <2>9. n \in Nat  BY <1>1
  <2> HIDE DEF n
  <2>3. f[n] = g[n]  BY <1>1, <1>2, <1>3, <2>1, <2>2, BitsAgree
  <2>4. g[n + 1] = g[n] + bits
    <3> DEFINE k == n + 1
    <3>1. k \in 1 .. Len(r) /\ r[k].number = bits /\ k \in Nat  BY <2>9, <2>1, <2>2
    <3>5. k - 1 = n  BY <2>9
    <3> HIDE DEF k
    <3>2. g[k] = g[k - 1] + r[k].number  BY <1>5, <3>1
    <3>3. g[k] = g[n] + bits  BY <3>1, <3>5, <3>2
    <3>4. QED  BY <3>3 DEF k
  <2>5. BitsIn(r) = g[n + 1] /\ BitsIn(s) = f[n]  BY <1>4, <1>5, <2>1
  <2>6. BitsIn(r) = BitsIn(s) + bits  BY <2>3, <2>4, <2>5
  <2>7. QED  BY <2>6 DEF r
<1>9. QED  BY <1>7, <1>8

LEMMA BitsOfTail ==
    ASSUME NEW s \in Seq(Parts), s # <<>>
    PROVE  /\ BitsIn(s) = Head(s).number + BitsIn(Tail(s))
           /\ Head(s).number \in Nat /\ BitsIn(Tail(s)) \in Nat /\ BitsIn(s) \in Nat
           /\ Head(s).number <= BitsIn(s)
<1> DEFINE n == Len(s)
           t == Tail(s)
<1>1. /\ n \in Nat \ {0} /\ Head(s) = s[1] /\ t \in Seq(Parts) /\ Len(t) = n - 1
      /\ \A i \in 1 .. n - 1 : t[i] = s[i + 1]
      BY LenProperties, EmptySeq, SplitHead, HeadTailProperties
<1>2. s[1].number \in Nat
  <2>1. s[1] \in Parts  BY <1>1, ElementOfSeq
  <2>2. QED  BY <2>1 DEF Parts
<1> HIDE DEF t
<1>3. PICK f : Sums(f, s)  BY BitsSteps
<1>4. PICK g : Sums(g, t)  BY <1>1, BitsSteps
<1>5. /\ f \in [0 .. n -> Nat] /\ f[0] = 0 /\ BitsIn(s) = f[n]
      /\ \A i \in 1 .. n : f[i] = f[i - 1] + s[i].number
      BY <1>3 DEF Sums
<1>6. /\ g \in [0 .. n - 1 -> Nat] /\ g[0] = 0 /\ BitsIn(t) = g[n - 1]
      /\ \A i \in 1 .. n - 1 : g[i] = g[i - 1] + t[i].number
      BY <1>1, <1>4 DEF Sums
<1> HIDE DEF n
<1> DEFINE k == n - 1
           G == {m \in 0 .. k : f[m + 1] = s[1].number + g[m]}
<1>7. k \in Nat /\ n = k + 1  BY <1>1
<1>8. 0 \in G
  <2>1. f[1] = f[1 - 1] + s[1].number /\ 1 - 1 = 0 /\ 0 + 1 = 1 /\ 0 \in 0 .. k
        BY <1>1, <1>5, <1>7
  <2>2. QED  BY <1>2, <1>5, <1>6, <2>1
<1>9. ASSUME NEW m \in 1 .. k, m - 1 \in G  PROVE m \in G
  <2>1. m + 1 \in 1 .. n /\ m + 1 - 1 = m /\ m - 1 + 1 = m /\ m \in 1 .. n - 1
        /\ m \in 0 .. k /\ m - 1 \in 0 .. n - 1
        BY <1>7
  <2>2. f[m + 1] = f[m] + s[m + 1].number  BY <1>5, <2>1
  <2>3. f[m] = s[1].number + g[m - 1]  BY <1>9, <2>1
  <2>4. g[m] = g[m - 1] + s[m + 1].number  BY <1>1, <1>6, <2>1
  <2>5. g[m - 1] \in Nat  BY <1>6, <2>1
  <2>6. s[m + 1].number \in Nat
    <3>1. s[m + 1] \in Parts  BY <2>1, ElementOfSeq DEF n
    <3>2. QED  BY <3>1 DEF Parts
  <2>7. f[m + 1] = s[1].number + g[m]  BY <1>2, <2>2, <2>3, <2>4, <2>5, <2>6
  <2>8. QED  BY <2>1, <2>7
<1> HIDE DEF G
<1>10. k \in G
  <2>1. \A m \in 0 .. k : m \in G  BY <1>7, <1>8, <1>9, UpToInduction
  <2>2. QED  BY <1>7, <2>1
<1>11. f[n] = s[1].number + g[k]  BY <1>7, <1>10 DEF G
<1>12. g[k] \in Nat  BY <1>6, <1>7
<1>13. BitsIn(s) = s[1].number + BitsIn(t)  BY <1>5, <1>6, <1>11
<1>14. BitsIn(t) \in Nat  BY <1>6, <1>12
<1>15. s[1].number <= BitsIn(s) /\ BitsIn(s) \in Nat  BY <1>2, <1>13, <1>14
<1>16. QED  BY <1>1, <1>2, <1>13, <1>14, <1>15 DEF t

(* Towards the die: a piece adds its bits; what is latched leaves at once  *)
(* when packets cut through, with the packet when they do not.             *)
SizeInFor(d) ==
    inDataSize[d] = BitsIn(inData[d]) - (IF CUT_THROUGH THEN LatchedBits(d) ELSE 0)

LEMMA LatchedIs ==
    ASSUME Shape, NEW d \in Dies, LatchFor(d)
    PROVE  /\ LatchedBits(d) \in Nat /\ LatchedBits(d) <= BitsIn(inData[d])
           /\ BitsIn(inData[d]) \in Nat
           /\ inData[d] # <<>> => LatchedBits(d) = FrontLength(d) - LeftNow(d)
<1>0. inData[d] \in Seq(Parts) /\ inDataLeft[d] \in Nat  BY DEF Shape, InTypes
<1>1. BitsIn(inData[d]) \in Nat  BY <1>0, BitsType
<1>2. CASE inData[d] = <<>>  BY <1>1, <1>2 DEF LatchedBits
<1>3. CASE inData[d] # <<>>
  <2> DEFINE full == FrontLength(d)
             left == inDataLeft[d]
             number == Head(inData[d]).number
             sum == BitsIn(inData[d])
  <2>1. full \in Nat  BY <1>3, LatchTypes
  <2>2. number \in Nat /\ number <= sum  BY <1>0, <1>3, BitsOfTail
  <2>3. CASE Unstarted(d)
    <3>1. LatchedBits(d) = 0 /\ LeftNow(d) = full  BY <2>3 DEF LatchedBits, LeftNow
    <3> HIDE DEF full
    <3>2. full - full = 0  BY <2>1
    <3>3. QED  BY <1>1, <3>1, <3>2 DEF full
  <2>4. CASE ~Unstarted(d)
    <3>1. LatchedBits(d) = full - left /\ LeftNow(d) = left
          BY <1>3, <2>4 DEF LatchedBits, LeftNow
    <3>2. left <= full /\ full - left <= number  BY <2>4 DEF LatchFor, InFront
    <3> HIDE DEF full, left, number
    <3>3. full - left \in Nat /\ full - left <= sum  BY <1>0, <1>1, <2>1, <2>2, <3>2 DEF left
    <3>4. QED  BY <1>1, <3>1, <3>3 DEF full
  <2>5. QED  BY <2>3, <2>4
<1>4. QED  BY <1>2, <1>3

LEMMA SizeInSame ==
    ASSUME NEW d, SizeInFor(d), inData'[d] = inData[d], inDataSize'[d] = inDataSize[d],
           inDataLeft'[d] = inDataLeft[d], waiting'[d] = waiting[d], UNCHANGED CUT_THROUGH
    PROVE  SizeInFor(d)'
<1>1. LatchedBits(d)' = LatchedBits(d)  BY DEF LatchedBits, Unstarted, FrontLength, InFront
<1>2. BitsIn(inData[d])' = BitsIn(inData[d])  BY DEF BitsIn
<1>3. QED  BY <1>1, <1>2 DEF SizeInFor

LEMMA SizeInStays ==
    ASSUME Shape, NEW d \in Dies, LatchFor(d), SizeInFor(d), InputStays(d), UNCHANGED CUT_THROUGH
    PROVE  SizeInFor(d)'
<1> DEFINE left == LeftNow(d)
           bits == BitsNow(d)
           full == FrontLength(d)
           size == inDataSize[d]
           sum == BitsIn(inData[d])
<1>1. UNCHANGED inData /\ inData[d] # <<>>
      BY DEF InputStays, InputSteps, MayLatch
<1>2. left \in Nat /\ bits \in Nat /\ full \in Nat /\ size \in Int
      BY <1>1, LatchTypes DEF Shape, InTypes
<1>3. sum \in Nat /\ LatchedBits(d) = full - left  BY <1>1, LatchedIs
<1>4. inDataLeft'[d] = left - bits /\ inDataSize'[d] = SizeNow(d)
      BY DEF InputStays, InputSteps, Shape, InTypes
<1>5. LatchedBits(d)' = full - (left - bits)
  <2>1. ~Unstarted(d)'  BY LatchStays
  <2>2. FrontLength(d)' = full  BY <1>1 DEF FrontLength, InFront
  <2>3. QED  BY <1>1, <1>4, <2>1, <2>2 DEF LatchedBits
<1>6. BitsIn(inData[d])' = sum  BY <1>1 DEF BitsIn
<1>7. size = sum - (IF CUT_THROUGH THEN full - left ELSE 0)  BY <1>3 DEF SizeInFor
<1>8. inDataSize'[d] = IF CUT_THROUGH THEN size - bits ELSE size  BY <1>4 DEF SizeNow
<1> HIDE DEF left, bits, full, size, sum
<1>9. inDataSize'[d] = sum - (IF CUT_THROUGH THEN full - (left - bits) ELSE 0)
      BY <1>2, <1>3, <1>7, <1>8
<1>10. QED  BY <1>5, <1>6, <1>9 DEF SizeInFor, sum

LEMMA SizeInArrives ==
    ASSUME Shape, NEW d \in Dies, LatchFor(d), DieMatches(d), SizeInFor(d), InputArrives(d),
           UNCHANGED CUT_THROUGH
    PROVE  SizeInFor(d)'
<1> DEFINE left == LeftNow(d)
           bits == BitsNow(d)
           full == FrontLength(d)
           size == inDataSize[d]
           data == inData[d]
           packet == PacketSize(InFront(d).type)
           sum == BitsIn(data)
           rest == BitsIn(Tail(data))
<1>1. data # <<>> /\ left = bits /\ InFront(d).number = packet
      BY ArrivesComplete DEF InputArrives
<1>2. /\ left \in Nat /\ bits \in Nat /\ full \in Nat /\ size \in Int /\ packet \in Nat
      /\ InFront(d).type \in Types
      BY <1>1, LatchTypes DEF Shape, InTypes, Parts, Types
<1>3. CUT_THROUGH = TRUE => packet = full
  <2>1. CUT_THROUGH \in CutThroughModes  BY DEF Shape
  <2>2. QED  BY <1>2, <2>1, PacketLengths DEF FrontLength
<1>4. sum \in Nat /\ LatchedBits(d) = full - left  BY <1>1, LatchedIs
<1>5. sum = packet + rest /\ rest \in Nat
  <2>1. data \in Seq(Parts)  BY DEF Shape, InTypes
  <2> HIDE DEF data
  <2>2. sum = Head(data).number + rest /\ rest \in Nat  BY <1>1, <2>1, BitsOfTail
  <2>3. InFront(d) = Head(data)  BY DEF InFront, data
  <2>4. QED  BY <1>1, <2>2, <2>3
<1>6. /\ inData'[d] = Tail(data)
      /\ inDataSize'[d] = IF CUT_THROUGH THEN SizeNow(d) ELSE TakeOff(SizeNow(d), packet)
      BY DEF InputArrives, Shape, InTypes
<1>7. LatchedBits(d)' = 0  BY LatchEmpties DEF LatchedBits
<1>8. BitsIn(inData[d])' = rest  BY <1>6 DEF BitsIn
<1>9. size = sum - (IF CUT_THROUGH THEN full - left ELSE 0)  BY <1>4 DEF SizeInFor
<1>10. inDataSize'[d] = IF CUT_THROUGH THEN size - bits
                        ELSE IF size >= packet THEN size - packet ELSE 0
       BY <1>6 DEF SizeNow, TakeOff
<1> HIDE DEF left, bits, full, size, packet, sum, rest
<1>11. inDataSize'[d] = rest
  <2>1. CASE CUT_THROUGH
    <3>1. packet = full  BY <1>3, <2>1
    <3>2. size = sum - (full - left) /\ inDataSize'[d] = size - bits  BY <1>9, <1>10, <2>1
    <3>3. QED  BY <1>1, <1>2, <1>5, <3>1, <3>2
  <2>2. CASE ~CUT_THROUGH
    <3>1. size = sum  BY <1>4, <1>9, <2>2
    <3>2. size >= packet /\ size - packet = rest  BY <1>2, <1>5, <3>1
    <3>3. QED  BY <1>10, <2>2, <3>2
  <2>3. QED  BY <2>1, <2>2
<1>12. inDataSize'[d] = rest - (IF CUT_THROUGH' THEN LatchedBits(d)' ELSE 0)
       BY <1>5, <1>7, <1>11
<1>13. QED  BY <1>8, <1>12 DEF SizeInFor

LEMMA SizeInPiece ==
    ASSUME Shape, InInv, ChannelUpdate, NEW d \in Dies, SizeInFor(d)
    PROVE  SizeInFor(d)'
<1>1. InMatches /\ RoomKept /\ LatchFor(d) /\ DieMatches(d)
      BY DEF InInv, InFor, InMatches, RoomKept
<1>2. \A e \in Dies : OnWire(e) => InHasRoom(e)  BY <1>1, RoomHas DEF RoomKept
<1>3. /\ UNCHANGED <<inDataLeft, cyclesLeft, waiting, CUT_THROUGH>>
      /\ IF OnWire(d)
         THEN /\ inData'[d] = AddBits(inData[d], piece.type, piece.unit[2], CHANNEL_WIDTH)
              /\ inDataSize'[d] = inDataSize[d] + CHANNEL_WIDTH
         ELSE inData'[d] = inData[d] /\ inDataSize'[d] = inDataSize[d]
      BY <1>1, <1>2, PieceArrives DEF latchVars
<1>4. CASE ~OnWire(d)  BY <1>3, <1>4, SizeInSame
<1>5. CASE OnWire(d)
  <2> DEFINE has == ControllerHas(d)
             data == inData[d]
             missing == Missing(d)
             type == piece.type
             plane == piece.unit[2]
             next == AddBits(data, type, plane, CHANNEL_WIDTH)
  <2>1. /\ data \in Seq(Parts) /\ has \in Seq(Packets) /\ missing > 0
        /\ InSound(data, has, missing)
        /\ type = has[Len(has)].type /\ plane = has[Len(has)].plane
        BY <1>1, <1>5, MissingTypes DEF DieMatches, Matches, Shape, InTypes
  <2>2. type \in Types /\ plane \in Planes /\ CHANNEL_WIDTH \in Nat
    <3>1. piece.type \in Types /\ piece.unit \in Units  BY <1>5, MissingTypes
    <3>2. QED  BY <3>1, UnitTypes, BufferedPackageAssumption
  <2> HIDE DEF has, data, missing, type, plane
  <2>3. data # <<>> => Head(next).type = Head(data).type  BY <2>1, InPiece
  <2>4. next # <<>> /\ next \in Seq(Parts)  BY <2>1, <2>2, AddBitsIs
  <2>5. BitsIn(next) = BitsIn(data) + CHANNEL_WIDTH  BY <2>1, <2>2, BitsAdded
  <2>6. inData'[d] = next  BY <1>3, <1>5 DEF data, type, plane
  <2> HIDE DEF next
  <2>7. LatchedBits(d)' = LatchedBits(d)
    <3>1. Unstarted(d)' <=> Unstarted(d)  BY <1>3 DEF Unstarted
    <3>2. CASE Unstarted(d)  BY <3>1, <3>2 DEF LatchedBits
    <3>3. CASE ~Unstarted(d)
      <4>1. data # <<>>  BY <1>1, <3>3 DEF LatchFor, data
      <4>2. FrontLength(d)' = FrontLength(d)
            BY <2>3, <2>6, <4>1 DEF FrontLength, InFront, data
      <4>3. inData'[d] # <<>> /\ inData[d] # <<>>  BY <2>4, <2>6, <4>1 DEF data
      <4>4. QED  BY <1>3, <3>1, <3>3, <4>2, <4>3 DEF LatchedBits
    <3>4. QED  BY <3>2, <3>3
  <2>8. BitsIn(inData[d])' = BitsIn(data) + CHANNEL_WIDTH
    <3>1. BitsIn(inData[d])' = BitsIn(next)  BY <2>6 DEF BitsIn
    <3>2. QED  BY <2>5, <3>1
  <2> DEFINE latched == IF CUT_THROUGH THEN LatchedBits(d) ELSE 0
             sum == BitsIn(data)
             size == inDataSize[d]
  <2>9. latched \in Nat /\ sum \in Nat /\ size \in Int
    <3>1. LatchedBits(d) \in Nat  BY <1>1, LatchedIs
    <3>2. sum \in Nat  BY <2>1, BitsType
    <3>3. QED  BY <3>1, <3>2 DEF Shape, InTypes
  <2>10. size = sum - latched  BY DEF SizeInFor, data
  <2>11. (IF CUT_THROUGH' THEN LatchedBits(d)' ELSE 0) = latched  BY <1>3, <2>7
  <2>12. inDataSize'[d] = size + CHANNEL_WIDTH  BY <1>3, <1>5
  <2> HIDE DEF latched, sum, size
  <2>13. inDataSize'[d] = sum + CHANNEL_WIDTH - latched  BY <2>2, <2>9, <2>10, <2>12
  <2> DEFINE off == IF CUT_THROUGH' THEN LatchedBits(d)' ELSE 0
             total == BitsIn(inData[d])'
  <2>14. inDataSize'[d] = total - off
    <3>1. off = latched /\ total = sum + CHANNEL_WIDTH  BY <2>8, <2>11 DEF sum
    <3> HIDE DEF off, total
    <3>2. QED  BY <2>2, <2>9, <2>13, <3>1
  <2>15. QED  BY <2>14 DEF SizeInFor
<1>6. QED  BY <1>4, <1>5

LEMMA SizesInNext ==
    ASSUME Shape, ChannelOwned, InInv, [Next]_vars, NEW d \in Dies, SizeInFor(d)
    PROVE  SizeInFor(d)'
<1>1. InFor(d)  BY DEF InInv
<1>2. LatchFor(d) /\ DieMatches(d)  BY <1>1 DEF InFor
<1>3. CASE UNCHANGED <<CUT_THROUGH, inVars>>
      BY <1>3, SizeInSame DEF inVars, latchVars
<1>4. CASE FtlUpdate  BY <1>3, <1>4 DEF FtlUpdate
<1>5. CASE ControllerUpdate  BY <1>3, <1>5 DEF ControllerUpdate
<1>6. CASE ChannelUpdate  BY <1>6, SizeInPiece
<1>7. ASSUME NEW x \in Dies, BufferUpdate(x)  PROVE SizeInFor(d)'
  <2>1. TowardsDie(x) /\ UNCHANGED CUT_THROUGH  BY <1>7 DEF BufferUpdate
  <2>2. InFor(x)  BY DEF InInv
  <2>3. CASE d # x \/ InputIdle
    <3>1. /\ inData'[d] = inData[d] /\ inDataSize'[d] = inDataSize[d]
          /\ inDataLeft'[d] = inDataLeft[d] /\ waiting'[d] = waiting[d]
          BY <1>7, <2>2, <2>3, InOthers
    <3>2. QED  BY <2>1, <3>1, SizeInSame
  <2>4. CASE d = x /\ InputStays(x)  BY <1>2, <2>1, <2>4, SizeInStays
  <2>5. CASE d = x /\ InputArrives(x)  BY <1>2, <2>1, <2>5, SizeInArrives
  <2>6. QED  BY <2>1, <2>3, <2>4, <2>5, InputCases
<1>8. ASSUME NEW x \in Dies, DieUpdate(x)  PROVE SizeInFor(d)'
      BY <1>3, <1>8 DEF DieUpdate
<1>9. CASE UNCHANGED vars  BY <1>3, <1>9 DEF vars
<1>10. QED  BY <1>4, <1>5, <1>6, <1>7, <1>8, <1>9 DEF Next

(* Towards the controller: a beat adds its bits; what is sent leaves at    *)
(* once when pages cut through, with the page when they do not.            *)
SizeOutFor(d) ==
    outDataSize[d] = BitsIn(outData[d]) - (IF CUT_THROUGH THEN SentBits(d) ELSE 0)

LEMMA SentIs ==
    ASSUME Shape, SendSound, NEW d \in Dies
    PROVE  /\ SentBits(d) \in Nat /\ SentBits(d) <= BitsIn(outData[d])
           /\ BitsIn(outData[d]) \in Nat /\ BitsToSend(d) \in Nat
           /\ outData[d] # <<>> => SentBits(d) = PAGE_LENGTH - BitsToSend(d)
<1>0. outData[d] \in Seq(Parts) /\ outDataLeft[d] \in Nat /\ PAGE_LENGTH \in Nat
      BY PageLengths DEF Shape, OutTypes
<1>1. BitsIn(outData[d]) \in Nat  BY <1>0, BitsType
<1>2. CASE ~(outData[d] # <<>> /\ Sends(d))
  <2>1. SentBits(d) = 0  BY <1>2 DEF SentBits
  <2>2. outData[d] # <<>> => BitsToSend(d) = PAGE_LENGTH  BY <1>2 DEF BitsToSend
  <2>3. PAGE_LENGTH - PAGE_LENGTH = 0  BY <1>0
  <2>4. BitsToSend(d) \in Nat  BY <1>0 DEF BitsToSend
  <2>5. QED  BY <1>1, <2>1, <2>2, <2>3, <2>4
<1>3. CASE outData[d] # <<>> /\ Sends(d)
  <2> DEFINE left == outDataLeft[d]
             number == Head(outData[d]).number
             sum == BitsIn(outData[d])
  <2>1. SentBits(d) = PAGE_LENGTH - left /\ BitsToSend(d) = left
        BY <1>3 DEF SentBits, BitsToSend
  <2>2. left <= PAGE_LENGTH /\ PAGE_LENGTH - left <= number
        BY <1>3 DEF SendSound, OutFront
  <2>3. number \in Nat /\ number <= sum  BY <1>0, <1>3, BitsOfTail
  <2> HIDE DEF left, number
  <2>4. PAGE_LENGTH - left \in Nat /\ PAGE_LENGTH - left <= sum
        BY <1>0, <1>1, <2>2, <2>3 DEF left
  <2>5. QED  BY <1>0, <1>1, <2>1, <2>4 DEF left
<1>4. QED  BY <1>2, <1>3

LEMMA SizeOutSame ==
    ASSUME NEW d, SizeOutFor(d), outData'[d] = outData[d], outDataSize'[d] = outDataSize[d],
           Sends(d)' <=> Sends(d), Sends(d) => outDataLeft'[d] = outDataLeft[d],
           UNCHANGED CUT_THROUGH
    PROVE  SizeOutFor(d)'
<1>1. SentBits(d)' = SentBits(d)  BY DEF SentBits
<1>2. BitsIn(outData[d])' = BitsIn(outData[d])  BY DEF BitsIn
<1>3. QED  BY <1>1, <1>2 DEF SizeOutFor

LEMMA OneSends ==
    ASSUME NEW x \in Dies, NEW d \in Dies, Sends(x), Sends(d)
    PROVE  d = x
<1> DEFINE u == OutUnit(d)
           v == OutUnit(x)
<1>1. u = v  BY DEF Sends
<1>2. u[1] = d /\ v[1] = x  BY DEF OutUnit
<1> HIDE DEF u, v
<1>3. QED  BY <1>1, <1>2

LEMMA SizeOutBufferUpdate ==
    ASSUME Shape, OutMatches, SendSound, NEW x \in Dies, BufferUpdate(x), NEW d \in Dies,
           SizeOutFor(d)
    PROVE  SizeOutFor(d)'
<1>1. TowardsController(x) /\ UNCHANGED CUT_THROUGH  BY DEF BufferUpdate
<1>2. /\ outData \in [Dies -> Seq(Parts)] /\ outDataLeft \in [Dies -> Nat]
      /\ outDataSize \in [Dies -> Int] /\ PAGE_LENGTH \in Nat /\ CHANNEL_WIDTH \in Nat
      BY PageLengths, BufferedPackageAssumption DEF Shape, OutTypes
<1>3. CASE OutputWaits(x)
  <2>1. UNCHANGED <<outVars, driveVars, channelVars>>  BY <1>3 DEF OutputWaits
  <2>2. QED
        BY <1>1, <2>1, SizeOutSame
        DEF outVars, driveVars, channelVars, Sends, hasChannel, OutUnit, OutFront
<1>4. CASE SendPageBits(x)
  <2> DEFINE b == BitsToSend(x)
             bits == IF b >= CHANNEL_WIDTH THEN CHANNEL_WIDTH ELSE b
  <2>1. /\ MayDrive(x) /\ sType' = "BUFFER" /\ sender' = 0 /\ sendingUnit' = OutUnit(x)
        /\ outDataLeft' = [outDataLeft EXCEPT ![x] = b - bits]
        /\ outDataSize' = [outDataSize EXCEPT ![x] = IF CUT_THROUGH THEN @ - bits ELSE @]
        /\ UNCHANGED outData
        BY <1>4 DEF SendPageBits
  <2>2. outData[x] # <<>> /\ (sender = Nobody \/ Sends(x))
        BY <2>1 DEF MayDrive, OutReady
  <2>3. \A e : OutUnit(e)' = OutUnit(e)  BY <2>1 DEF OutUnit, OutFront
  <2>4. Sends(x)'  BY <2>1, <2>3 DEF Sends, hasChannel
  <2>5. CASE d = x
    <3> DEFINE sum == BitsIn(outData[x])
               size == outDataSize[x]
    <3>1. SentBits(x) = PAGE_LENGTH - b /\ b \in Nat /\ sum \in Nat  BY <2>2, SentIs
    <3>2. SentBits(x)' = PAGE_LENGTH - (b - bits)
      <4>1. outDataLeft'[x] = b - bits  BY <1>2, <2>1
      <4>2. QED  BY <2>1, <2>2, <2>4, <4>1 DEF SentBits
    <3>3. BitsIn(outData[x])' = sum  BY <2>1 DEF BitsIn
    <3>4. size = sum - (IF CUT_THROUGH THEN PAGE_LENGTH - b ELSE 0)
          BY <2>5, <3>1 DEF SizeOutFor
    <3>5. outDataSize'[x] = IF CUT_THROUGH THEN size - bits ELSE size  BY <1>2, <2>1
    <3>6. bits \in Nat /\ size \in Int  BY <1>2, <3>1
    <3> HIDE DEF b, bits, sum, size
    <3>7. outDataSize'[x] = sum - (IF CUT_THROUGH THEN PAGE_LENGTH - (b - bits) ELSE 0)
          BY <1>2, <3>1, <3>4, <3>5, <3>6
    <3>8. outDataSize'[d] = BitsIn(outData[d])' - (IF CUT_THROUGH' THEN SentBits(d)' ELSE 0)
          BY <1>1, <2>5, <3>2, <3>3, <3>7
    <3>9. QED  BY <3>8 DEF SizeOutFor
  <2>6. CASE d # x
    <3>1. ~Sends(d)'
      <4>1. OutUnit(d) # OutUnit(x)
        <5> DEFINE u == OutUnit(d)
                   v == OutUnit(x)
        <5>1. u[1] = d /\ v[1] = x  BY DEF OutUnit
        <5> HIDE DEF u, v
        <5>2. u # v  BY <2>6, <5>1
        <5>3. QED  BY <5>2 DEF u, v
      <4>2. QED  BY <2>1, <2>3, <4>1 DEF Sends
    <3>2. ~Sends(d)
      <4>1. 0 # Nobody  BY DieTypes
      <4>2. QED  BY <2>2, <2>6, <4>1, OneSends DEF Sends, hasChannel
    <3>3. outData'[d] = outData[d] /\ outDataSize'[d] = outDataSize[d]  BY <1>2, <2>1, <2>6
    <3>4. QED  BY <1>1, <3>1, <3>2, <3>3, SizeOutSame
  <2>7. QED  BY <2>5, <2>6
<1>5. CASE PageArrived(x)
  <2> DEFINE data == outData[x]
             page == CHANNEL_WIDTH * BeatsOf(PAGE_LENGTH, CHANNEL_WIDTH)
             size == outDataSize[x]
             sum == BitsIn(data)
             rest == BitsIn(Tail(data))
  <2>1. /\ MayDrive(x) /\ BitsToSend(x) = 0 /\ sender' = Nobody
        /\ outData' = [outData EXCEPT ![x] = Tail(@)]
        /\ outDataSize' = [outDataSize EXCEPT ![x] =
             IF CUT_THROUGH THEN @ ELSE TakeOff(@, page)]
        BY <1>5 DEF PageArrived
  <2>2. data # <<>> /\ Sends(x)
        BY <2>1, SendsWhenLeft, PageLengths DEF MayDrive, OutReady
  <2>3. ~Sends(d)'
    <3>1. 0 # Nobody  BY DieTypes
    <3>2. QED  BY <2>1, <3>1 DEF Sends, hasChannel
  <2>4. CASE d = x
    <3>1. SentBits(x) = PAGE_LENGTH
      <4>1. SentBits(x) = PAGE_LENGTH - 0  BY <2>1, <2>2, SentIs
      <4>2. QED  BY <1>2, <4>1
    <3>2. Head(data).number = PAGE_LENGTH
      <4>1. /\ data \in Seq(Parts) /\ pendingDataPackets[x] \in Seq(Packets)
            /\ returnDataPackets[x] \in Seq(Packets)
            /\ OutSound(data, pendingDataPackets[x], returnDataPackets[x], deviceBeatsLeft[x])
            BY <1>2, DiesOf DEF OutMatches, Shape, ReturnTypes
      <4>2. Head(data).number >= PAGE_LENGTH
        <5> DEFINE left == outDataLeft[x]
                   number == Head(data).number
        <5>1. PAGE_LENGTH - left <= number /\ left = 0
              BY <2>1, <2>2 DEF SendSound, OutFront, BitsToSend
        <5>2. number \in Nat
          <6> HIDE DEF data
          <6>1. QED  BY <2>2, <4>1, BitsOfTail
        <5> HIDE DEF left, number
        <5>3. number >= PAGE_LENGTH  BY <1>2, <5>1, <5>2
        <5>4. QED  BY <5>3 DEF number
      <4> HIDE DEF data
      <4>3. Head(data) = Part("DATA", Head(pendingDataPackets[x]).plane, PAGE_LENGTH)
            BY <2>2, <4>1, <4>2, OutTail
      <4>4. QED  BY <4>3 DEF Part
    <3>3. sum = PAGE_LENGTH + rest /\ rest \in Nat /\ sum \in Nat
      <4>1. data \in Seq(Parts)  BY <1>2
      <4> HIDE DEF data
      <4>2. QED  BY <2>2, <3>2, <4>1, BitsOfTail
    <3>4. page = PAGE_LENGTH  BY PageLengths
    <3>5. outData'[x] = Tail(data)
          /\ outDataSize'[x] = IF CUT_THROUGH THEN size ELSE TakeOff(size, PAGE_LENGTH)
          BY <1>2, <2>1, <3>4
    <3>6. SentBits(x)' = 0  BY <2>3, <2>4 DEF SentBits
    <3>7. BitsIn(outData[x])' = rest  BY <3>5 DEF BitsIn
    <3>8. size = sum - (IF CUT_THROUGH THEN PAGE_LENGTH ELSE 0)
          BY <2>4, <3>1 DEF SizeOutFor
    <3> HIDE DEF size, sum, rest
    <3>9. outDataSize'[x] = rest
      <4>1. CASE CUT_THROUGH  BY <1>2, <3>3, <3>5, <3>8, <4>1
      <4>2. CASE ~CUT_THROUGH
        <5>1. size = sum  BY <3>3, <3>8, <4>2
        <5>2. size >= PAGE_LENGTH /\ size - PAGE_LENGTH = rest  BY <1>2, <3>3, <5>1
        <5>3. QED  BY <3>5, <4>2, <5>2 DEF TakeOff
      <4>3. QED  BY <4>1, <4>2
    <3>10. outDataSize'[d] = BitsIn(outData[d])' - (IF CUT_THROUGH' THEN SentBits(d)' ELSE 0)
           BY <2>4, <3>3, <3>6, <3>7, <3>9
    <3>11. QED  BY <3>10 DEF SizeOutFor
  <2>5. CASE d # x
    <3>1. ~Sends(d)  BY <2>2, <2>5, OneSends
    <3>2. outData'[d] = outData[d] /\ outDataSize'[d] = outDataSize[d]  BY <1>2, <2>1, <2>5
    <3>3. QED  BY <1>1, <2>3, <3>1, <3>2, SizeOutSame
  <2>6. QED  BY <2>4, <2>5
<1>6. QED  BY <1>1, <1>3, <1>4, <1>5 DEF TowardsController

LEMMA SizeOutDieUpdate ==
    ASSUME Shape, ChannelOwned, NEW x \in Dies, DieUpdate(x), NEW d \in Dies, SizeOutFor(d),
           SentBits(d) \in Nat
    PROVE  SizeOutFor(d)'
<1>1. /\ PageWaits(x) \/ BeatRuns(x) \/ BeatEnds(x)
      /\ UNCHANGED <<CUT_THROUGH, sType, sender, sendingUnit, outDataLeft>>
      BY DEF DieUpdate, channelVars, driveVars
<1>2. outData \in [Dies -> Seq(Parts)] /\ outDataSize \in [Dies -> Int]
      BY DEF Shape, OutTypes
<1>3. CASE outData'[d] = outData[d] /\ outDataSize'[d] = outDataSize[d]
  <2>1. Sends(d)' <=> Sends(d)  BY <1>1, <1>3 DEF Sends, hasChannel, OutUnit, OutFront
  <2>2. QED  BY <1>1, <1>3, <2>1, SizeOutSame
<1>4. CASE PageWaits(x) \/ BeatRuns(x)
  <2>1. UNCHANGED <<outData, outDataSize>>  BY <1>4 DEF PageWaits, BeatRuns, outVars
  <2>2. QED  BY <1>3, <2>1
<1>5. CASE BeatEnds(x) /\ d = x
  <2> DEFINE plane == Head(ToReturn(x)).plane
             s == outData[x]
             next == AddBits(s, "DATA", plane, DEVICE_WIDTH)
  <2>1. outData' = [outData EXCEPT ![x] = next]
        /\ outDataSize' = [outDataSize EXCEPT ![x] = @ + DEVICE_WIDTH]
        BY <1>5 DEF BeatEnds
  <2>2. plane \in Planes /\ DEVICE_WIDTH \in Nat /\ s \in Seq(Parts) /\ "DATA" \in Types
        BY <1>2, <1>5, BeatEndsOnlyWhenSending, PacketTypes, PageLengths DEF Types
  <2> HIDE DEF plane, s
  <2>3. /\ BitsIn(next) = BitsIn(s) + DEVICE_WIDTH
        /\ next # <<>>
        /\ s # <<>> => Head(next).plane = Head(s).plane
        BY <2>2, BitsAdded, AddBitsIs, AddBitsHead, SMTT(30)
  <2> HIDE DEF next
  <2>4. outData'[x] = next /\ outDataSize'[x] = outDataSize[x] + DEVICE_WIDTH
        BY <1>2, <2>1
  <2>5. SentBits(x)' = SentBits(x)
    <3>1. CASE s = <<>>
      <4>1. SentBits(x) = 0  BY <3>1 DEF SentBits, s
      <4>2. ~Sends(x)'
        <5> SUFFICES ASSUME Sends(x)' PROVE FALSE  OBVIOUS
        <5>1. hasChannel("BUFFER", 0) /\ sendingUnit = OutUnit(x)'
              BY <1>1 DEF Sends, hasChannel
        <5>2. sendingUnit[1] = x  BY <5>1 DEF OutUnit
        <5>3. outData[x] # <<>>  BY <5>1, <5>2 DEF ChannelOwned
        <5>4. QED  BY <3>1, <5>3 DEF s
      <4>3. QED  BY <4>1, <4>2 DEF SentBits
    <3>2. CASE s # <<>>
      <4>1. OutUnit(x)' = OutUnit(x)  BY <2>3, <2>4, <3>2 DEF OutUnit, OutFront, s
      <4>2. Sends(x)' <=> Sends(x)  BY <1>1, <4>1 DEF Sends, hasChannel
      <4>3. outData'[x] # <<>> /\ outData[x] # <<>>  BY <2>3, <2>4, <3>2 DEF s
      <4>4. QED  BY <1>1, <4>2, <4>3 DEF SentBits
    <3>3. QED  BY <3>1, <3>2
  <2>6. BitsIn(outData[x])' = BitsIn(s) + DEVICE_WIDTH
    <3>1. BitsIn(outData[x])' = BitsIn(next)  BY <2>4 DEF BitsIn
    <3>2. QED  BY <2>3, <3>1
  <2> DEFINE sent == IF CUT_THROUGH THEN SentBits(x) ELSE 0
             sum == BitsIn(s)
             size == outDataSize[x]
             off == IF CUT_THROUGH' THEN SentBits(x)' ELSE 0
             total == BitsIn(outData[x])'
  <2>7. sent \in Nat /\ sum \in Nat /\ size \in Int
    <3>1. sum \in Nat  BY <2>2, BitsType
    <3>2. QED  BY <1>2, <1>5, <3>1
  <2>8. size = sum - sent  BY <1>5 DEF SizeOutFor, s
  <2>9. off = sent /\ total = sum + DEVICE_WIDTH  BY <1>1, <2>5, <2>6
  <2> HIDE DEF sent, sum, size, off, total
  <2>10. outDataSize'[x] = sum + DEVICE_WIDTH - sent  BY <2>2, <2>4, <2>7, <2>8 DEF size
  <2>11. outDataSize'[x] = total - off  BY <2>2, <2>7, <2>9, <2>10
  <2>12. QED  BY <1>5, <2>11 DEF SizeOutFor, total, off
<1>6. CASE BeatEnds(x) /\ d # x
  <2>1. outData'[d] = outData[d] /\ outDataSize'[d] = outDataSize[d]
        BY <1>2, <1>6 DEF BeatEnds
  <2>2. QED  BY <1>3, <2>1
<1>7. QED  BY <1>1, <1>4, <1>5, <1>6

LEMMA SizesOutNext ==
    ASSUME Shape, ChannelOwned, OutMatches, SendSound, [Next]_vars, NEW d \in Dies,
           SizeOutFor(d)
    PROVE  SizeOutFor(d)'
<1>1. CASE UNCHANGED <<CUT_THROUGH, outVars, driveVars, channelVars>>
      BY <1>1, SizeOutSame DEF outVars, driveVars, channelVars, Sends, hasChannel, OutUnit, OutFront
<1>2. CASE FtlUpdate  BY <1>1, <1>2 DEF FtlUpdate, FtlGives
<1>3. CASE ControllerUpdate
  <2>1. UNCHANGED <<CUT_THROUGH, outData, outDataSize, outDataLeft, sendingUnit>>
        BY <1>3 DEF ControllerUpdate, outVars, driveVars
  <2>2. CASE NothingSent
    <3>1. UNCHANGED <<sType, sender>>  BY <2>2 DEF NothingSent, channelVars
    <3>2. QED  BY <2>1, <3>1, SizeOutSame DEF Sends, hasChannel, OutUnit, OutFront
  <2>3. CASE PacketSent
    <3>1. sType = "CONTROLLER" /\ sType' = "CONTROLLER"
          BY <2>3 DEF PacketSent, hasChannel
    <3>2. ~Sends(d) /\ ~Sends(d)'  BY <3>1 DEF Sends, hasChannel
    <3>3. QED  BY <2>1, <3>2, SizeOutSame
  <2>4. CASE PieceMoves
    <3>1. ~hasChannel("BUFFER", 0)
      <4>1. Placeable # {} => ChannelFree  BY DEF Placeable
      <4>2. HasChannelNow  BY <2>4 DEF PieceMoves
      <4>3. 0 # Nobody  BY DieTypes
      <4>4. QED  BY <4>1, <4>2, <4>3 DEF HasChannelNow, Resumes, ChannelFree, hasChannel
    <3>2. sType' = "CONTROLLER"  BY <2>4 DEF PieceMoves, Pause, SendPiece
    <3>3. ~Sends(d) /\ ~Sends(d)'  BY <3>1, <3>2 DEF Sends, hasChannel
    <3>4. QED  BY <2>1, <3>3, SizeOutSame
  <2>5. QED  BY <1>3, <2>2, <2>3, <2>4, ControllerCases
<1>4. CASE ChannelUpdate  BY <1>1, <1>4 DEF ChannelUpdate
<1>5. ASSUME NEW x \in Dies, BufferUpdate(x)  PROVE SizeOutFor(d)'
      BY <1>5, SizeOutBufferUpdate
<1>6. ASSUME NEW x \in Dies, DieUpdate(x)  PROVE SizeOutFor(d)'
      BY <1>6, SentIs, SizeOutDieUpdate
<1>7. CASE UNCHANGED vars  BY <1>1, <1>7 DEF vars, diesVars
<1>8. QED  BY <1>2, <1>3, <1>4, <1>5, <1>6, <1>7 DEF Next

(* The inductive invariant of the whole package.                           *)
SizesFor(d) == SizeInFor(d) /\ SizeOutFor(d)
BufferInv == Shape /\ ChannelOwned /\ OutMatches /\ SendSound /\ InInv
               /\ \A d \in Dies : SizesFor(d)

LEMMA BufferInvInit == Init => BufferInv
<1> SUFFICES ASSUME Init PROVE BufferInv  OBVIOUS
<1>1. OutInv /\ InAll  BY OutInvInit, InAllInit
<1>2. ASSUME NEW d \in Dies  PROVE SizesFor(d)
  <2>1. /\ inData[d] = <<>> /\ inDataSize[d] = 0 /\ outData[d] = <<>> /\ outDataSize[d] = 0
        BY DEF Init
  <2>2. LatchedBits(d) = 0 /\ SentBits(d) = 0  BY <2>1 DEF LatchedBits, SentBits
  <2>3. BitsIn(inData[d]) = 0 /\ BitsIn(outData[d]) = 0
    <3>1. <<>> \in Seq(Parts)  BY EmptySeq
    <3>2. QED  BY <2>1, <3>1, BitsType
  <2>4. QED  BY <2>1, <2>2, <2>3 DEF SizesFor, SizeInFor, SizeOutFor
<1>3. QED  BY <1>1, <1>2 DEF BufferInv, OutInv, InAll

LEMMA BufferInvNext == BufferInv /\ [Next]_vars => BufferInv'
<1> SUFFICES ASSUME BufferInv, [Next]_vars PROVE BufferInv'  OBVIOUS
<1>1. OutInv /\ InAll  BY DEF BufferInv, OutInv, InAll
<1>2. OutInv' /\ InAll'  BY <1>1, OutInvNext, InAllNext
<1>3. ASSUME NEW d \in Dies  PROVE SizesFor(d)'
  <2>1. SizeInFor(d) /\ SizeOutFor(d)  BY DEF BufferInv, SizesFor
  <2>2. SizeInFor(d)'  BY <2>1, SizesInNext DEF BufferInv
  <2>3. SizeOutFor(d)'  BY <2>1, SizesOutNext DEF BufferInv
  <2>4. QED  BY <2>2, <2>3 DEF SizesFor
<1>4. QED  BY <1>2, <1>3 DEF BufferInv, OutInv, InAll

(* The sizes by which the buffer is judged full are the bits it holds: no  *)
(* bit is lost from the account, and none is taken off twice, in both      *)
(* directions and both modes (Buffer.cpp:95-118, 345-363, 423-455).        *)
THEOREM BufferSizesExact == Spec => []SizesExact
<1>1. BufferInv => SizesExact  BY DEF BufferInv, SizesFor, SizeInFor, SizeOutFor, SizesExact
<1>2. QED  BY BufferInvInit, BufferInvNext, <1>1, PTL DEF Spec

LEMMA SizesAreNat ==
    ASSUME BufferInv
    PROVE  inDataSize \in [Dies -> Nat] /\ outDataSize \in [Dies -> Nat]
<1>1. ASSUME NEW d \in Dies  PROVE inDataSize[d] \in Nat /\ outDataSize[d] \in Nat
  <2>1. Shape /\ SendSound /\ LatchFor(d) /\ SizeInFor(d) /\ SizeOutFor(d)
        BY DEF BufferInv, InInv, InFor, SizesFor
  <2> DEFINE a == BitsIn(inData[d])
             b == IF CUT_THROUGH THEN LatchedBits(d) ELSE 0
             p == BitsIn(outData[d])
             q == IF CUT_THROUGH THEN SentBits(d) ELSE 0
  <2>2. a \in Nat /\ b \in Nat /\ b <= a  BY <2>1, LatchedIs
  <2>3. p \in Nat /\ q \in Nat /\ q <= p  BY <2>1, SentIs
  <2>4. inDataSize[d] = a - b /\ outDataSize[d] = p - q
        BY <2>1 DEF SizeInFor, SizeOutFor
  <2> HIDE DEF a, b, p, q
  <2>5. QED  BY <2>2, <2>3, <2>4
<1>2. inDataSize \in [Dies -> Int] /\ outDataSize \in [Dies -> Int]
      BY DEF BufferInv, Shape, InTypes, OutTypes
<1>3. QED  BY <1>1, <1>2

(* Type correctness; that the sizes of the buffer are never negative needs *)
(* the whole account of its bits.                                          *)
THEOREM BufferedTypes == Spec => []TypeOK
<1>1. ASSUME BufferInv  PROVE TypeOK
  <2>1. Shape /\ DiesTypeOK
    <3>1. Shape  BY <1>1 DEF BufferInv
    <3>2. QED  BY <3>1, DiesOf
  <2>2. inDataSize \in [Dies -> Nat] /\ outDataSize \in [Dies -> Nat]
        BY <1>1, SizesAreNat
  <2>3. QED
        BY <2>1, <2>2
        DEF TypeOK, Shape, ClockInv, SendInv, InTypes, OutTypes, ReturnTypes, Types
<1>2. QED  BY BufferInvInit, BufferInvNext, <1>1, PTL DEF Spec

-----------------------------------------------------------------------------
(* The registers.  The packets of a die that it has not received are those *)
(* the controller has for it and then its queue, whatever the buffer holds *)
(* of them; none of them is on the channel as far as the die can tell.     *)
OnTheirWay == [d \in Dies |-> ControllerHas(d) \o readQueues[d]]
RegisterInv ==
    /\ PacketsSound(OnTheirWay, NoPacket, currentCommands, cacheReg)
    /\ RegistersSound(currentCommands, dataReg)
    /\ \A d \in Dies : PagesSound(returnDataPackets[d], d, cacheReg)
    /\ failed = "no"

LEMMA RegisterInit == Init => RegisterInv
<1> SUFFICES ASSUME Init PROVE RegisterInv  OBVIOUS
<1>1. ASSUME NEW d \in Dies  PROVE OnTheirWay[d] = <<>>
  <2>1. pendingPackets = <<>> /\ outgoing = NoPacket /\ readQueues[d] = <<>>
        BY <1>1 DEF Init, DiesInit
  <2>2. pendingPackets \in Seq(Packets) /\ <<>> \in Seq(Packets)  BY <2>1, EmptySeq
  <2>3. ControllerHas(d) = Picked(<<>>, OnDie(d))
        BY <2>1, <2>2, HasIs DEF ControllerHas, Has, MaybePacket
  <2>4. ControllerHas(d) = <<>>  BY <2>3, PickedEmpty
  <2>5. OnTheirWay[d] = <<>> \o <<>>  BY <2>1, <2>4 DEF OnTheirWay
  <2>6. QED  BY <2>2, <2>5, ConcatEmptySeq
<1>2. PacketsSound(OnTheirWay, NoPacket, currentCommands, cacheReg)
  <2>1. /\ cacheReg = [u \in Units |-> NoPacket] /\ NoPacket.type = "none"
        /\ Len(<<>>) = 0
        BY EmptySeq DEF Init, DiesInit, NoPacket
  <2>2. QED
        BY <1>1, <2>1 DEF PacketsSound, QueuesSound, Paired, DataArrives, DataAwaitsWrite,
           NextOf, Holds, ArrivalSound
<1>3. QED  BY <1>2 DEF Init, DiesInit, RegisterInv, Holds, RegistersSound, PagesSound

LEMMA WayTypes ==
    ASSUME Shape
    PROVE  /\ DiesInv /\ OnTheirWay \in [Dies -> Seq(Packets)] /\ NoPacket \in MaybePacket
           /\ \A d \in Dies : /\ OnTheirWay[d] = ControllerHas(d) \o readQueues[d]
                              /\ ControllerHas(d) \in Seq(Packets)
                              /\ readQueues[d] \in Seq(Packets)
<1>1. ASSUME NEW d \in Dies
      PROVE  /\ ControllerHas(d) \in Seq(Packets) /\ readQueues[d] \in Seq(Packets)
             /\ ControllerHas(d) \o readQueues[d] \in Seq(Packets)
  <2>1. ControllerHas(d) \in Seq(Packets) /\ readQueues[d] \in Seq(Packets)
        BY MissingTypes, DiesOf
  <2>2. QED  BY <2>1, ConcatProperties
<1>2. QED  BY <1>1 DEF OnTheirWay, Shape, MaybePacket

(* The way of one die changes, or of none.                                 *)
LEMMA WaySame ==
    ASSUME \A d \in Dies : ControllerHas(d)' \o readQueues'[d] = ControllerHas(d) \o readQueues[d]
    PROVE  OnTheirWay' = OnTheirWay
BY DEF OnTheirWay

LEMMA WayChanges ==
    ASSUME Shape, NEW d \in Dies, NEW s,
           ControllerHas(d)' \o readQueues'[d] = s,
           \A e \in Dies : e # d =>
              ControllerHas(e)' \o readQueues'[e] = ControllerHas(e) \o readQueues[e]
    PROVE  OnTheirWay' = [OnTheirWay EXCEPT ![d] = s]
<1>1. OnTheirWay' = [e \in Dies |-> ControllerHas(e)' \o readQueues'[e]]
      BY DEF OnTheirWay
<1>2. QED  BY <1>1 DEF OnTheirWay

LEMMA FirstOfBoth ==
    ASSUME NEW s \in Seq(Packets), NEW t \in Seq(Packets), s # <<>>
    PROVE  s \o t # <<>> /\ Head(s \o t) = Head(s) /\ Tail(s \o t) = Tail(s) \o t
<1> DEFINE r == s \o t
           v == Tail(s) \o t
<1>1. /\ r \in Seq(Packets) /\ Len(r) = Len(s) + Len(t) /\ Len(s) \in Nat /\ Len(t) \in Nat
      /\ \A i \in 1 .. Len(s) + Len(t) : r[i] = IF i <= Len(s) THEN s[i] ELSE t[i - Len(s)]
      BY ConcatProperties, LenProperties
<1>2. /\ Len(s) > 0 /\ Head(s) = s[1] /\ Tail(s) \in Seq(Packets) /\ Len(Tail(s)) = Len(s) - 1
      /\ \A i \in 1 .. Len(s) - 1 : Tail(s)[i] = s[i + 1]
      BY HeadTailProperties, LenProperties, EmptySeq
<1>3. /\ v \in Seq(Packets) /\ Len(v) = Len(s) - 1 + Len(t)
      /\ \A i \in 1 .. Len(s) - 1 + Len(t) :
           v[i] = IF i <= Len(s) - 1 THEN Tail(s)[i] ELSE t[i - (Len(s) - 1)]
      BY <1>2, ConcatProperties
<1> DEFINE n == Len(s)
           m == Len(t)
           a == Tail(s)
<1> HIDE DEF r, v
<1>4. r # <<>> /\ Len(r) > 0  BY <1>1, <1>2, EmptySeq
<1>5. Head(r) = Head(s)
  <2>1. Head(r) = r[1]  BY <1>1, <1>4
  <2>2. 1 \in 1 .. n + m /\ 1 <= n  BY <1>1, <1>2
  <2>3. QED  BY <1>1, <1>2, <2>1, <2>2
<1>6. /\ Tail(r) \in Seq(Packets) /\ Len(Tail(r)) = n + m - 1
      /\ \A i \in 1 .. n + m - 1 : Tail(r)[i] = r[i + 1]
      BY <1>1, <1>4, HeadTailProperties
<1>7. ASSUME NEW i \in 1 .. n + m - 1  PROVE Tail(r)[i] = v[i]
  <2> HIDE DEF n, m, a
  <2>0. /\ n \in Nat /\ m \in Nat /\ n > 0
        /\ \A j \in 1 .. n + m : r[j] = IF j <= n THEN s[j] ELSE t[j - n]
        /\ \A j \in 1 .. n - 1 : a[j] = s[j + 1]
        /\ \A j \in 1 .. n - 1 + m : v[j] = IF j <= n - 1 THEN a[j] ELSE t[j - (n - 1)]
        BY <1>1, <1>2, <1>3 DEF n, m, a
  <2>1. i + 1 \in 1 .. n + m /\ i \in 1 .. n - 1 + m  BY <2>0
  <2>2. Tail(r)[i] = r[i + 1]  BY <1>6
  <2>3. CASE i <= n - 1
    <3>1. i \in 1 .. n - 1 /\ i + 1 <= n  BY <2>0, <2>3
    <3>2. r[i + 1] = s[i + 1]  BY <2>0, <2>1, <3>1
    <3>3. v[i] = a[i]  BY <2>0, <2>1, <2>3
    <3>4. QED  BY <2>0, <2>2, <3>1, <3>2, <3>3
  <2>4. CASE ~(i <= n - 1)
    <3>1. ~(i + 1 <= n) /\ i + 1 - n = i - (n - 1)  BY <2>0, <2>4
    <3>2. r[i + 1] = t[i + 1 - n]  BY <2>0, <2>1, <3>1
    <3>3. v[i] = t[i - (n - 1)]  BY <2>0, <2>1, <2>4
    <3>4. QED  BY <2>2, <3>1, <3>2, <3>3
  <2>5. QED  BY <2>3, <2>4
<1>8. Tail(r) = v
  <2>1. Len(v) = n + m - 1  BY <1>1, <1>3
  <2>2. QED  BY <1>3, <1>6, <1>7, <2>1, SeqEqual
<1>9. QED  BY <1>4, <1>5, <1>8 DEF r, v

LEMMA FtlUpdateRegisters ==
    ASSUME HostCommands, Shape, RegisterInv, FtlUpdate  PROVE RegisterInv'
<1>1. /\ UNCHANGED <<outgoing, pendingPackets, returnDataPackets, currentCommands, dataReg,
                     cacheReg, failed>>
      /\ FtlGives
      BY DEF FtlUpdate, FtlGives, commandVars, planeVars, sendVars
<1>2. \A d \in Dies : ControllerHas(d)' = ControllerHas(d)
      BY <1>1 DEF ControllerHas, OfDie
<1>3. PacketsSound(OnTheirWay', NoPacket, currentCommands, cacheReg)
  <2>0. /\ DiesInv /\ OnTheirWay \in [Dies -> Seq(Packets)] /\ NoPacket \in MaybePacket
        /\ PacketsSound(OnTheirWay, NoPacket, currentCommands, cacheReg)
        BY WayTypes DEF RegisterInv
  <2>1. CASE UNCHANGED readQueues
    <3>1. OnTheirWay' = OnTheirWay  BY <1>2, <2>1, WaySame
    <3>2. QED  BY <2>0, <3>1
  <2>2. ASSUME NEW d \in Dies, NEW t \in Seq(Packets), Batch(d, t),
               readQueues' = [readQueues EXCEPT ![d] = @ \o t]
        PROVE  PacketsSound(OnTheirWay', NoPacket, currentCommands, cacheReg)
    <3>1. /\ readQueues'[d] = readQueues[d] \o t
          /\ \A e \in Dies : e # d => readQueues'[e] = readQueues[e]
          BY <2>2, DiesOf
    <3>2. /\ ControllerHas(d) \in Seq(Packets) /\ readQueues[d] \in Seq(Packets)
          /\ OnTheirWay[d] = ControllerHas(d) \o readQueues[d]
          BY WayTypes
    <3>3. ControllerHas(d)' \o readQueues'[d] = OnTheirWay[d] \o t
      <4> DEFINE has == ControllerHas(d)
                 q == readQueues[d]
      <4>1. has \in Seq(Packets) /\ q \in Seq(Packets)  BY <3>2
      <4> HIDE DEF has, q
      <4>2. (has \o q) \o t = has \o (q \o t)  BY <2>2, <4>1, ConcatAssociative
      <4>3. ControllerHas(d)' = has  BY <1>2 DEF has
      <4>4. readQueues'[d] = q \o t  BY <3>1 DEF q
      <4>5. OnTheirWay[d] = has \o q  BY <3>2 DEF has, q
      <4>6. QED  BY <4>2, <4>3, <4>4, <4>5
    <3>4. OnTheirWay' = [OnTheirWay EXCEPT ![d] = OnTheirWay[d] \o t]
          BY <1>2, <3>1, <3>3, WayChanges
    <3>5. QED  BY <2>0, <2>2, <3>4, JoinSound
  <2>3. QED  BY <1>1, <2>0, <2>1, <2>2, GivenBatch
<1>4. QED  BY <1>1, <1>3 DEF RegisterInv

(* The controller moves packets along without changing their order.        *)
LEMMA ControllerKeepsWay ==
    ASSUME Shape, QueuesSound(OnTheirWay), ControllerUpdate  PROVE OnTheirWay' = OnTheirWay
<1>0. /\ PlacePacket(Placeable)
      /\ pendingPackets \in Seq(Packets) /\ outgoing \in MaybePacket
      /\ readQueues \in [Dies -> Seq(Packets)]
      BY DiesOf DEF ControllerUpdate, Shape, SendInv
<1>1. CASE NothingSent
  <2>1. UNCHANGED <<pendingPackets, outgoing, readQueues>>
        BY <1>1 DEF NothingSent, sendVars
  <2>2. QED  BY <2>1, WaySame DEF ControllerHas, OfDie
<1>2. CASE PacketSent
  <2>1. /\ outgoing \in Packets /\ pendingPackets' = Append(pendingPackets, outgoing)
        /\ outgoing' = NoPacket /\ UNCHANGED readQueues
        BY <1>2 DEF PacketSent
  <2>2. ASSUME NEW d \in Dies  PROVE ControllerHas(d)' = ControllerHas(d)
    <3>1. ControllerHas(d)' = Has(d, pendingPackets', outgoing')
          BY DEF ControllerHas, Has, OfDie
    <3>2. ControllerHas(d) = Has(d, pendingPackets, outgoing)  BY DEF ControllerHas, Has
    <3>3. Has(d, Append(pendingPackets, outgoing), NoPacket) = Has(d, pendingPackets, outgoing)
          BY <1>0, <2>1, HasSent
    <3>4. QED  BY <2>1, <3>1, <3>2, <3>3
  <2>3. QED  BY <2>1, <2>2, WaySame
<1>3. CASE PieceMoves
  <2> DEFINE pkt == OnChannel
             p == pendingPackets
  <2>1. outgoing' = pkt /\ pkt \in Packets  BY <1>3, MovedPiece
  <2>2. UNCHANGED pendingPackets  BY <1>3 DEF PieceMoves, Pause, SendPiece
  <2>3. pkt # NoPacket /\ pkt \in MaybePacket  BY <2>1, PacketTypes DEF MaybePacket
  <2>4. \A d \in Dies : /\ ControllerHas(d)' = Has(d, p, pkt)
                        /\ ControllerHas(d) = Has(d, p, outgoing)
        BY <2>1, <2>2 DEF ControllerHas, Has, OfDie
  <2>5. CASE outgoing = pkt /\ UNCHANGED readQueues
        BY <2>4, <2>5, WaySame
  <2>6. ASSUME NEW d \in Dies, outgoing = NoPacket, readQueues[d] # <<>>,
               pkt = Head(readQueues[d]), readQueues' = [readQueues EXCEPT ![d] = Tail(@)]
        PROVE  OnTheirWay' = OnTheirWay
    <3> DEFINE q == readQueues[d]
               sent == Picked(p, OnDie(d))
    <3>1. q \in Seq(Packets) /\ q # <<>> /\ pkt = Head(q)  BY <1>0, <2>6
    <3>2. pkt.die = d
      <4> DEFINE has == ControllerHas(d)
      <4>1. has \in Seq(Packets) /\ OnTheirWay[d] = has \o q  BY WayTypes
      <4>2. \A i \in 1 .. Len(OnTheirWay[d]) : OnTheirWay[d][i].die = d
            BY DEF QueuesSound
      <4> HIDE DEF has, q
      <4>3. /\ Len(has \o q) = Len(has) + Len(q) /\ Len(has) \in Nat /\ Len(q) \in Nat
            /\ \A i \in 1 .. Len(has) + Len(q) :
                 (has \o q)[i] = IF i <= Len(has) THEN has[i] ELSE q[i - Len(has)]
            BY <3>1, <4>1, ConcatProperties, LenProperties
      <4>4. Len(q) > 0 /\ Head(q) = q[1]  BY <3>1, EmptySeq
      <4> DEFINE n == Len(has)
                 m == Len(q)
                 r == has \o q
      <4>5. /\ n \in Nat /\ m \in Nat /\ m > 0
            /\ \A i \in 1 .. n + m : r[i] = IF i <= n THEN has[i] ELSE q[i - n]
            /\ \A i \in 1 .. n + m : r[i].die = d
            BY <4>1, <4>2, <4>3, <4>4
      <4> HIDE DEF n, m, r
      <4>6. n + 1 \in 1 .. n + m /\ ~(n + 1 <= n) /\ n + 1 - n = 1  BY <4>5
      <4>7. r[n + 1] = q[n + 1 - n]  BY <4>5, <4>6
      <4>8. r[n + 1].die = d  BY <4>5, <4>6
      <4>9. QED  BY <3>1, <4>4, <4>6, <4>7, <4>8
    <3>3. sent \in Seq(Packets) /\ Has(d, p, outgoing) = sent /\ Has(d, p, pkt) = Append(sent, pkt)
      <4>1. p \in Seq(Packets) /\ NoPacket \in MaybePacket  BY <1>0 DEF MaybePacket
      <4> HIDE DEF p, pkt
      <4>2. sent \in Seq(Packets) /\ Has(d, p, NoPacket) = sent  BY <4>1, HasIs
      <4>3. Has(d, p, pkt) = Append(sent, pkt)  BY <2>3, <3>2, <4>1, HasIs
      <4>4. QED  BY <2>6, <4>2, <4>3
    <3>4. readQueues'[d] = Tail(q) /\ \A e \in Dies : e # d => readQueues'[e] = readQueues[e]
          BY <1>0, <2>6
    <3>5. Append(sent, pkt) \o Tail(q) = sent \o q
      <4> HIDE DEF p, pkt, q, sent
      <4>1. Append(sent, pkt) = sent \o <<pkt>> /\ <<pkt>> \in Seq(Packets)
            BY <2>1, <3>3, AppendIsConcat
      <4>2. Tail(q) \in Seq(Packets)  BY <3>1, HeadTailProperties
      <4>3. (sent \o <<pkt>>) \o Tail(q) = sent \o (<<pkt>> \o Tail(q))
            BY <3>3, <4>1, <4>2, ConcatAssociative
      <4>4. <<pkt>> \o Tail(q) = q  BY <3>1, <2>1
      <4>5. QED  BY <4>1, <4>3, <4>4
    <3>6. ASSUME NEW e \in Dies
          PROVE  ControllerHas(e)' \o readQueues'[e] = ControllerHas(e) \o readQueues[e]
      <4>1. CASE e = d  BY <2>4, <3>3, <3>4, <3>5, <4>1
      <4>2. CASE e # d
        <5>1. Has(e, p, pkt) = Has(e, p, outgoing)
          <6>1. p \in Seq(Packets) /\ NoPacket \in MaybePacket /\ pkt.die # e
                BY <1>0, <3>2, <4>2 DEF MaybePacket
          <6> HIDE DEF p, pkt
          <6>2. Has(e, p, NoPacket) = Picked(p, OnDie(e))  BY <6>1, HasIs
          <6>3. Has(e, p, pkt) = Picked(p, OnDie(e))  BY <2>3, <6>1, HasIs
          <6>4. QED  BY <2>6, <6>2, <6>3
        <5>2. QED  BY <2>4, <3>4, <4>2, <5>1
      <4>3. QED  BY <4>1, <4>2
    <3>7. QED  BY <3>6, WaySame
  <2>7. QED  BY <1>0, <2>5, <2>6, Placed
<1>4. QED  BY <1>1, <1>2, <1>3, ControllerCases

LEMMA ControllerUpdateRegisters ==
    ASSUME Shape, RegisterInv, ControllerUpdate  PROVE RegisterInv'
<1>1. UNCHANGED <<currentCommands, dataReg, cacheReg, returnDataPackets, failed>>
      BY DEF ControllerUpdate, commandVars, planeVars
<1>2. OnTheirWay' = OnTheirWay
      BY ControllerKeepsWay DEF RegisterInv, PacketsSound
<1>3. QED  BY <1>1, <1>2 DEF RegisterInv

(* No piece finds the buffer full: the controller has asked for room.      *)
LEMMA ChannelUpdateRegisters ==
    ASSUME Shape, InInv, RegisterInv, ChannelUpdate  PROVE RegisterInv'
<1>1. /\ UNCHANGED <<currentCommands, dataReg, cacheReg, returnDataPackets, readQueues,
                     pendingPackets, outgoing>>
      BY DEF ChannelUpdate, commandVars, planeVars, controllerVars, sendVars
<1>2. UNCHANGED failed
  <2>1. \A d \in Dies : OnWire(d) => InHasRoom(d)
        BY RoomHas DEF InInv, InFor
  <2>2. QED  BY <2>1, PieceArrives DEF InInv, InFor, InMatches
<1>3. OnTheirWay' = OnTheirWay  BY <1>1, WaySame DEF ControllerHas, OfDie
<1>4. QED  BY <1>1, <1>2, <1>3 DEF RegisterInv

(* The first packet of a die is the one that its buffer has, and the die   *)
(* has just said that it can take it.                                      *)
LEMMA AcceptedSound ==
    ASSUME Shape, RegisterInv, NEW d \in Dies, InFor(d), InputArrives(d)
    PROVE  /\ ControllerHas(d) # <<>>
           /\ Head(ControllerHas(d)) \in Packets
           /\ ArrivalSound(Head(ControllerHas(d)), currentCommands, cacheReg)
<1> DEFINE out == Head(ControllerHas(d))
           has == ControllerHas(d)
           q == readQueues[d]
           u == UnitOf(out)
<1>1. DieMatches(d) /\ LatchFor(d) /\ Accepts(d)  BY DEF InFor, InputArrives
<1>2. /\ has # <<>> /\ out \in Packets
      /\ InFront(d).type = out.type /\ InFront(d).plane = out.plane
      BY <1>1, ArrivesComplete
<1>3. /\ OnTheirWay[d] # <<>> /\ Head(OnTheirWay[d]) = out
  <2>1. has \in Seq(Packets) /\ q \in Seq(Packets) /\ OnTheirWay[d] = has \o q
        BY WayTypes
  <2>2. has \o q # <<>> /\ Head(has \o q) = Head(has)
    <3> HIDE DEF has, q
    <3>1. QED  BY <1>2, <2>1, FirstOfBoth
  <2>3. QED  BY <2>1, <2>2
<1>4. /\ out.die = d /\ out.type \in {"DATA", "READ", "WRITE", "ERASE"} /\ u \in Units
  <2>1. OnTheirWay \in [Dies -> Seq(Packets)] /\ QueuesSound(OnTheirWay)
        BY WayTypes DEF RegisterInv, PacketsSound
  <2> HIDE DEF out
  <2>2. QED  BY <1>3, <2>1, HeadSound
<1>5. u = <<d, InFront(d).plane>>  BY <1>2, <1>4 DEF UnitOf
<1>6. /\ out.type = "DATA" => cacheReg[u] = NoPacket
           /\ (currentCommands[u] = NoPacket \/ currentCommands[u].type = "WRITE")
      /\ out.type # "DATA" => currentCommands[u] = NoPacket
  <2> HIDE DEF out, u
  <2>1. busyCode(u) = 0 \/ (out.type = "DATA" /\ busyCode(u) = 2)
          \/ (out.type # "DATA" /\ busyCode(u) = 3)
        BY <1>1, <1>2, <1>5 DEF Accepts, IsData
  <2>2. QED  BY <2>1 DEF busyCode, isDieBusy
<1>7. ArrivalSound(out, currentCommands, cacheReg)
      BY <1>4, <1>6 DEF ArrivalSound
<1>8. QED  BY <1>2, <1>7

(* The packet leaves the way, and its die takes it.                        *)
LEMMA WayArrives ==
    ASSUME Shape, InInv, RegisterInv, NEW d \in Dies, BufferUpdate(d), InputArrives(d)
    PROVE  LET out == Head(OnTheirWay[d])
           IN  /\ OnTheirWay[d] # <<>> /\ out \in Packets /\ receiveFromBuffer(out)
               /\ OnTheirWay' = [OnTheirWay EXCEPT ![d] = Tail(@)]
               /\ OnTheirWay' \in [Dies -> Seq(Packets)]
               /\ PacketsSound(OnTheirWay', out, currentCommands, cacheReg)
<1> DEFINE has == ControllerHas(d)
           q == readQueues[d]
           out == Head(has)
           later == [OnTheirWay EXCEPT ![d] = Tail(@)]
<1>1. InFor(d) /\ UNCHANGED readQueues  BY DEF InInv, BufferUpdate, controllerVars
<1>2. /\ has # <<>> /\ out \in Packets
      /\ ArrivalSound(out, currentCommands, cacheReg)
      BY <1>1, AcceptedSound
<1>3. receiveFromBuffer(out) /\ ControllerHas(d)' = Tail(has)
      BY <1>1, InArrives
<1>4. \A e \in Dies : e # d => ControllerHas(e)' = ControllerHas(e)
      BY <1>1, InOthers
<1>5. /\ DiesInv /\ OnTheirWay \in [Dies -> Seq(Packets)]
      /\ has \in Seq(Packets) /\ q \in Seq(Packets) /\ OnTheirWay[d] = has \o q
      BY WayTypes
<1>6. PacketsSound(OnTheirWay, NoPacket, currentCommands, cacheReg)
      BY DEF RegisterInv
<1>7. /\ OnTheirWay[d] # <<>> /\ Head(OnTheirWay[d]) = out
      /\ Tail(OnTheirWay[d]) = Tail(has) \o q
  <2>1. has \o q # <<>> /\ Head(has \o q) = Head(has) /\ Tail(has \o q) = Tail(has) \o q
    <3> HIDE DEF has, q
    <3>1. QED  BY <1>2, <1>5, FirstOfBoth
  <2>2. QED  BY <1>5, <2>1
<1> HIDE DEF has, out
<1>8. OnTheirWay' = later
  <2>1. ControllerHas(d)' \o readQueues'[d] = Tail(OnTheirWay[d])
        BY <1>1, <1>3, <1>7
  <2>2. OnTheirWay' = [OnTheirWay EXCEPT ![d] = Tail(OnTheirWay[d])]
        BY <1>1, <1>4, <2>1, WayChanges
  <2>3. QED  BY <2>2
<1>9. later \in [Dies -> Seq(Packets)]
  <2>1. Tail(OnTheirWay[d]) \in Seq(Packets)  BY <1>5, <1>7, HeadTailProperties
  <2>2. QED  BY <1>5, <2>1
<1>10. PacketsSound(later, out, currentCommands, cacheReg)
       BY <1>2, <1>5, <1>6, <1>7, HeadTaken
<1> HIDE DEF later
<1>11. QED  BY <1>2, <1>3, <1>7, <1>8, <1>9, <1>10 DEF later

LEMMA BufferUpdateRegisters ==
    ASSUME Shape, InInv, RegisterInv, NEW d \in Dies, BufferUpdate(d)  PROVE RegisterInv'
<1>1. /\ TowardsDie(d) /\ UNCHANGED <<readQueues, returnDataPackets, outgoing>>
      BY DEF BufferUpdate, controllerVars
<1>2. InFor(d)  BY DEF InInv
<1>3. CASE InputIdle \/ InputStays(d)
  <2>1. UNCHANGED <<pendingPackets, currentCommands, dataReg, cacheReg, failed>>
        BY <1>3 DEF InputIdle, InputStays, commandVars, planeVars
  <2>2. OnTheirWay' = OnTheirWay  BY <1>1, <2>1, WaySame DEF ControllerHas, OfDie
  <2>3. QED  BY <1>1, <2>1, <2>2 DEF RegisterInv
<1>4. CASE InputArrives(d)
  <2> DEFINE out == Head(OnTheirWay[d])
             later == OnTheirWay'
  <2>1. /\ out \in Packets /\ receiveFromBuffer(out)
        /\ later \in [Dies -> Seq(Packets)]
        /\ PacketsSound(later, out, currentCommands, cacheReg)
        BY <1>4, WayArrives
  <2>2. DiesInv  BY WayTypes
  <2>3. /\ RegistersSound(currentCommands, dataReg)
        /\ \A e \in Dies : PagesSound(returnDataPackets[e], e, cacheReg)
        /\ failed = "no"
        BY DEF RegisterInv
  <2>4. later = OnTheirWay'  OBVIOUS
  <2> HIDE DEF out, later
  <2>5. /\ PacketsSound(later, NoPacket, currentCommands', cacheReg')
        /\ RegistersSound(currentCommands', dataReg')
        /\ \A e \in Dies : PagesSound(returnDataPackets[e], e, cacheReg')
        /\ UNCHANGED failed
        BY <2>1, <2>2, <2>3, ArriveSound
  <2>6. QED  BY <1>1, <2>3, <2>4, <2>5 DEF RegisterInv
<1>5. QED  BY <1>1, <1>3, <1>4, InputCases

LEMMA DieUpdateRegisters ==
    ASSUME ~GARBAGE_COLLECT, Shape, RegisterInv, NEW d \in Dies, DieUpdate(d)
    PROVE  RegisterInv'
<1>1. /\ EndCommands(d) /\ UNCHANGED <<readQueues, outgoing, pendingPackets>>
      /\ KeepPages(d) \/ (ToReturn(d) # <<>> /\ ReleaseFirstPage(d))
      BY DEF DieUpdate, controllerVars, sendVars, PageWaits, BeatRuns, BeatEnds
<1>2. DiesInv /\ OnTheirWay \in [Dies -> Seq(Packets)] /\ NoPacket \in MaybePacket
      BY WayTypes
<1>3. /\ PacketsSound(OnTheirWay, NoPacket, currentCommands, cacheReg)
      /\ RegistersSound(currentCommands, dataReg)
      /\ \A e \in Dies : PagesSound(returnDataPackets[e], e, cacheReg)
      BY DEF RegisterInv
<1>4. /\ PacketsSound(OnTheirWay, NoPacket, currentCommands', cacheReg')
      /\ RegistersSound(currentCommands', dataReg')
      /\ \A e \in Dies : PagesSound(returnDataPackets'[e], e, cacheReg')
      /\ failed' = "no"
      BY <1>1, <1>2, <1>3, DieSound
<1>5. OnTheirWay' = OnTheirWay  BY <1>1, WaySame DEF ControllerHas, OfDie
<1>6. QED  BY <1>4, <1>5 DEF RegisterInv

LEMMA RegisterNext ==
    ASSUME HostCommands, ~GARBAGE_COLLECT, Shape, InInv, RegisterInv, [Next]_vars
    PROVE  RegisterInv'
<1>1. CASE FtlUpdate  BY <1>1, FtlUpdateRegisters
<1>2. CASE ControllerUpdate  BY <1>2, ControllerUpdateRegisters
<1>3. CASE ChannelUpdate  BY <1>3, ChannelUpdateRegisters
<1>4. ASSUME NEW d \in Dies, BufferUpdate(d)  PROVE RegisterInv'
      BY <1>4, BufferUpdateRegisters
<1>5. ASSUME NEW d \in Dies, DieUpdate(d)  PROVE RegisterInv'
      BY <1>5, DieUpdateRegisters
<1>6. CASE UNCHANGED vars
  <2>1. UNCHANGED <<readQueues, outgoing, pendingPackets, currentCommands, cacheReg,
                    dataReg, returnDataPackets, failed>>
        BY <1>6 DEF vars, diesVars, controllerVars, commandVars, planeVars, sendVars
  <2>2. OnTheirWay' = OnTheirWay  BY <2>1, WaySame DEF ControllerHas, OfDie
  <2>3. QED  BY <2>1, <2>2 DEF RegisterInv
<1>7. QED  BY <1>1, <1>2, <1>3, <1>4, <1>5, <1>6 DEF Next

(* Without garbage collection no packet is given to a die that cannot take *)
(* it, though the buffer knows it only by its type and plane, and no abort *)
(* of Plane, Die, Block or Buffer is reached.                              *)
THEOREM BufferedNoAbort == HostCommands /\ ~GARBAGE_COLLECT => (Spec => []NeverAborts)
<1> SUFFICES ASSUME HostCommands, ~GARBAGE_COLLECT  PROVE Spec => []NeverAborts
    OBVIOUS
<1>1. InAll /\ RegisterInv /\ [Next]_vars => InAll' /\ RegisterInv'
      BY InAllNext, RegisterNext DEF InAll
<1>2. RegisterInv => NeverAborts  BY DEF RegisterInv, NeverAborts
<1>3. QED  BY <1>1, <1>2, InAllInit, RegisterInit, PTL DEF Spec

-----------------------------------------------------------------------------
(* The store.  Beside the registers, a command that runs has what it needs *)
(* in the data register, and only pages of reads are on their way back.    *)
ReadPackets == {pkt \in Packets : pkt.type = "READ"}
ReadsFrom(d) == {pkt \in Packets : pkt.type = "READ" /\ pkt.die = d}

StoreInv ==
    /\ CommandsKept(currentCommands, dataReg)
    /\ PagesRead
    /\ returnTransaction \in Seq(ReadPackets)
    /\ \A d \in Dies : pendingDataPackets[d] \in Seq(ReadsFrom(d))

LEMMA StoreInvDies == Shape /\ RegisterInv /\ StoreInv => DiesKept
BY DEF Shape, RegisterInv, StoreInv, DiesKept

LEMMA NoReads == \A T : <<>> \in Seq(T)
BY EmptySeq

LEMMA StoreInvInit == Init => StoreInv
<1> SUFFICES ASSUME Init PROVE StoreInv  OBVIOUS
<1>1. CommandsKept(currentCommands, dataReg)
      BY DEF Init, DiesInit, CommandsKept, Holds
<1>2. PagesRead  BY EmptySeq DEF Init, DiesInit, PagesRead
<1>3. /\ returnTransaction = <<>>
      /\ \A d \in Dies : pendingDataPackets[d] = <<>>
      BY DEF Init, DiesInit
<1>4. QED  BY <1>1, <1>2, <1>3, NoReads DEF StoreInv

(* The first page the die has given away reaches the controller, or none.  *)
LEMMA BufferReturns ==
    ASSUME Shape, StoreInv, NEW d \in Dies, BufferUpdate(d)
    PROVE  \/ UNCHANGED <<returnTransaction, pendingDataPackets>>
           \/ /\ pendingDataPackets[d] # <<>>
              /\ returnTransaction' = Append(returnTransaction, Head(pendingDataPackets[d]))
              /\ pendingDataPackets' = [pendingDataPackets EXCEPT ![d] = Tail(@)]
<1> DEFINE t == pendingDataPackets[d]
<1>1. TowardsController(d)  BY DEF BufferUpdate
<1>2. t \in Seq(ReadsFrom(d))  BY DEF StoreInv
<1>3. t # <<>> => Head(t).type = "READ"
  <2> HIDE DEF t
  <2>1. t # <<>> => Head(t) \in ReadsFrom(d)  BY <1>2, HeadTailProperties
  <2>2. QED  BY <2>1 DEF ReadsFrom
<1>4. CASE OutputWaits(d)  BY <1>4 DEF OutputWaits
<1>5. CASE SendPageBits(d)  BY <1>5 DEF SendPageBits
<1>6. CASE PageArrived(d)  BY <1>3, <1>6 DEF PageArrived, receiveFromChannel
<1>7. QED  BY <1>1, <1>4, <1>5, <1>6 DEF TowardsController

(* A page of a die stays with it, or the first one goes to the buffer.     *)
LEMMA DieReturns ==
    ASSUME NEW d \in Dies, DieUpdate(d)
    PROVE  /\ returnTransaction' = returnTransaction
           /\ \/ /\ returnDataPackets' = [returnDataPackets EXCEPT ![d] = ToReturn(d)]
                 /\ pendingDataPackets' = pendingDataPackets
              \/ /\ ToReturn(d) # <<>>
                 /\ returnDataPackets' = [returnDataPackets EXCEPT ![d] = Tail(ToReturn(d))]
                 /\ pendingDataPackets' =
                      [pendingDataPackets EXCEPT ![d] = Append(@, Head(ToReturn(d)))]
<1>1. returnTransaction' = returnTransaction  BY DEF DieUpdate
<1>2. CASE PageWaits(d)  BY <1>1, <1>2 DEF PageWaits, KeepPages, returnVars
<1>3. CASE BeatRuns(d)  BY <1>1, <1>3 DEF BeatRuns, KeepPages
<1>4. CASE BeatEnds(d)
      BY <1>1, <1>4 DEF BeatEnds, KeepPages, ReleaseFirstPage
<1>5. QED  BY <1>2, <1>3, <1>4 DEF DieUpdate

LEMMA BufferUpdateStoreInv ==
    ASSUME Shape, InInv, RegisterInv, StoreInv, NEW d \in Dies, BufferUpdate(d)
    PROVE  StoreInv'
<1> DEFINE t == pendingDataPackets[d]
           x == returnTransaction
<1>0. /\ x \in Seq(ReadPackets) /\ t \in Seq(ReadsFrom(d))
      /\ pendingDataPackets \in [Dies -> Seq(Packets)]
      BY DEF StoreInv, Shape, ReturnTypes
<1>1. PagesRead'
  <2>1. returnDataPackets' = returnDataPackets  BY DEF BufferUpdate
  <2>2. QED  BY <2>1 DEF StoreInv, PagesRead
<1>2. x' \in Seq(ReadPackets) /\ \A e \in Dies : pendingDataPackets'[e] \in Seq(ReadsFrom(e))
  <2>1. CASE UNCHANGED <<returnTransaction, pendingDataPackets>>  BY <2>1 DEF StoreInv
  <2>2. CASE /\ t # <<>> /\ x' = Append(x, Head(t))
             /\ pendingDataPackets' = [pendingDataPackets EXCEPT ![d] = Tail(@)]
    <3>1. Head(t) \in ReadsFrom(d) /\ Tail(t) \in Seq(ReadsFrom(d))
      <4> HIDE DEF t
      <4>1. QED  BY <1>0, <2>2, HeadTailProperties
    <3>2. Append(x, Head(t)) \in Seq(ReadPackets)
      <4>1. Head(t) \in ReadPackets  BY <3>1 DEF ReadsFrom, ReadPackets
      <4> HIDE DEF x, t
      <4>2. QED  BY <1>0, <4>1, AppendProperties
    <3>3. \A e \in Dies : pendingDataPackets'[e] = IF e = d THEN Tail(t) ELSE pendingDataPackets[e]
          BY <1>0, <2>2
    <3>4. QED  BY <2>2, <3>1, <3>2, <3>3 DEF StoreInv
  <2>3. QED  BY <2>1, <2>2, BufferReturns
<1>3. CommandsKept(currentCommands', dataReg')
  <2>1. CASE InputIdle \/ InputStays(d)
    <3>1. UNCHANGED <<currentCommands, dataReg>>
          BY <2>1 DEF InputIdle, InputStays, commandVars, planeVars
    <3>2. QED  BY <3>1 DEF StoreInv
  <2>2. CASE InputArrives(d)
    <3> DEFINE out == Head(OnTheirWay[d])
    <3>1. /\ out \in Packets /\ receiveFromBuffer(out)
          /\ PacketsSound(OnTheirWay', out, currentCommands, cacheReg)
          BY <2>2, WayArrives
    <3>2. /\ DiesInv /\ RegistersSound(currentCommands, dataReg)
          /\ CommandsKept(currentCommands, dataReg)
          BY DEF Shape, RegisterInv, StoreInv
    <3> HIDE DEF out
    <3>3. QED  BY <3>1, <3>2, ArriveKept
  <2>3. QED  BY <2>1, <2>2, InputCases DEF BufferUpdate
<1>4. QED  BY <1>1, <1>2, <1>3 DEF StoreInv

LEMMA DieUpdateStoreInv ==
    ASSUME Shape, RegisterInv, StoreInv, NEW d \in Dies, DieUpdate(d)
    PROVE  StoreInv'
<1> DEFINE r == ToReturn(d)
           t == pendingDataPackets[d]
<1>0. /\ t \in Seq(ReadsFrom(d)) /\ pendingDataPackets \in [Dies -> Seq(Packets)]
      BY DEF StoreInv, Shape, ReturnTypes
<1>1. CommandsKept(currentCommands', dataReg')  BY EndsKept, StoreInvDies DEF DieUpdate
<1>2. PagesRead'  BY DieReturns, PagesStayReads, StoreInvDies
<1>3. r # <<>> => Head(r) \in ReadsFrom(d)
      BY ToReturnPages, StoreInvDies DEF ReadsFrom
<1>4. returnTransaction' \in Seq(ReadPackets)  BY DieReturns DEF StoreInv
<1>5. \A e \in Dies : pendingDataPackets'[e] \in Seq(ReadsFrom(e))
  <2>1. CASE pendingDataPackets' = pendingDataPackets  BY <2>1 DEF StoreInv
  <2>2. CASE /\ r # <<>>
             /\ pendingDataPackets' = [pendingDataPackets EXCEPT ![d] = Append(@, Head(r))]
    <3>1. Append(t, Head(r)) \in Seq(ReadsFrom(d))
      <4> HIDE DEF r, t
      <4>1. QED  BY <1>0, <1>3, <2>2, AppendProperties
    <3>2. \A e \in Dies : pendingDataPackets'[e] = IF e = d THEN Append(t, Head(r))
                                                  ELSE pendingDataPackets[e]
          BY <1>0, <2>2
    <3>3. QED  BY <3>1, <3>2 DEF StoreInv
  <2>3. QED  BY <2>1, <2>2, DieReturns
<1>6. QED  BY <1>1, <1>2, <1>4, <1>5 DEF StoreInv

LEMMA ChannelKeeps ==
    ASSUME ChannelUpdate
    PROVE  /\ UNCHANGED <<readQueues, outgoing, pendingPackets, currentCommands, dataReg, blocks,
                          returnDataPackets, returnTransaction, pendingDataPackets>>
           /\ answers' = {}
<1>1. /\ UNCHANGED <<sendVars, controllerVars, commandVars, planeVars, returnVars>>
      /\ UNCHANGED <<returnDataPackets, returnTransaction>> /\ answers' = {}
      BY Zenon DEF ChannelUpdate
<1>2. QED  BY <1>1 DEF sendVars, controllerVars, commandVars, planeVars, returnVars

LEMMA StoreInvNext ==
    ASSUME Shape, InInv, RegisterInv, StoreInv, [Next]_vars  PROVE StoreInv'
<1>1. CASE UNCHANGED <<currentCommands, dataReg, returnDataPackets, returnTransaction,
                       pendingDataPackets>>
      BY <1>1 DEF StoreInv, PagesRead
<1>2. CASE FtlUpdate
      BY <1>1, <1>2 DEF FtlUpdate, FtlGives, commandVars, planeVars, returnVars
<1>3. CASE ControllerUpdate
  <2>1. UNCHANGED <<currentCommands, dataReg, returnDataPackets, pendingDataPackets>>
        BY <1>3 DEF ControllerUpdate, commandVars, planeVars, returnVars
  <2>2. returnTransaction' = <<>>  BY <1>3 DEF ControllerUpdate, AnswerReads
  <2>3. QED  BY <2>1, <2>2, NoReads DEF StoreInv, PagesRead
<1>4. CASE ChannelUpdate  BY <1>1, <1>4, ChannelKeeps
<1>5. ASSUME NEW d \in Dies, BufferUpdate(d) PROVE StoreInv'
      BY <1>5, BufferUpdateStoreInv
<1>6. ASSUME NEW d \in Dies, DieUpdate(d) PROVE StoreInv'
      BY <1>6, DieUpdateStoreInv
<1>7. CASE UNCHANGED vars
      BY <1>1, <1>7 DEF vars, diesVars, commandVars, planeVars, returnVars
<1>8. QED  BY <1>2, <1>3, <1>4, <1>5, <1>6, <1>7 DEF Next

(* The commands of a plane, from the one it runs to the newest the         *)
(* controller has, and the reads that come back.                           *)
Writing(u) == If(Running(u, "WRITE"), currentCommands[u])
Reading(u) == If(Running(u, "READ"), currentCommands[u])
Way(u) == Picked(OnTheirWay[u[1]], CommandsFor(u))
Back(u) == FromPlane(u, pendingDataPackets[u[1]])
Held(u) == FromPlane(u, returnDataPackets[u[1]])

LEMMA CommandsOfDie ==
    ASSUME NEW u \in Units
    PROVE  CommandsFor(u) \subseteq OnDie(u[1])
<1>1. \A pkt \in CommandsFor(u) : pkt \in Packets /\ UnitOf(pkt) = u
      BY DEF CommandsFor, CommandOf
<1>2. \A pkt \in Packets : UnitOf(pkt)[1] = pkt.die  BY DEF UnitOf
<1>3. QED  BY <1>1, <1>2 DEF OnDie

(* Facts about concatenations, named so that they are found.               *)
Regroups(x, y, z) == (x \o y) \o z = x \o (y \o z)
PicksJoined(x, y, T) == Picked(x \o y, T) = Picked(x, T) \o Picked(y, T)

LEMMA Regrouped == \A x, y, z \in Seq(Packets) : Regroups(x, y, z)
BY ConcatAssociative DEF Regroups

LEMMA Joined == \A x, y \in Seq(Packets) : x \o y \in Seq(Packets)
BY ConcatProperties

LEMMA PickedJoined == \A x, y \in Seq(Packets) : \A T : PicksJoined(x, y, T)
BY PickedConcat DEF PicksJoined

LEMMA WayOps ==
    ASSUME NEW u \in Units, NEW w \in Seq(Packets), NEW sent \in Seq(Packets),
           NEW out \in MaybePacket, NEW q \in Seq(Packets)
    PROVE  w \o CommandsOf(u, sent) \o If(out # NoPacket /\ CommandOf(u, out), out)
             \o CommandsOf(u, q)
             = w \o Picked(Has(u[1], sent, out) \o q, CommandsFor(u))
<1> DEFINE d == u[1]
           T == CommandsFor(u)
           p == Picked(sent, OnDie(d))
           o == If(out # NoPacket /\ out.die = d, out)
           a == CommandsOf(u, sent)
           b == If(out # NoPacket /\ CommandOf(u, out), out)
           c == CommandsOf(u, q)
<1>1. /\ p \in Seq(Packets) /\ OfDie(d, sent) = p /\ Has(d, sent, out) = p \o o
      BY HasIs DEF Has
<1>2. /\ a = Picked(sent, T) /\ c = Picked(q, T)
      /\ a \in Seq(Packets) /\ c \in Seq(Packets)
      BY PlaneIsPicked, PickedType
<1>3. a = Picked(p, T)
  <2>1. T \subseteq OnDie(d)  BY CommandsOfDie
  <2> HIDE DEF T
  <2>2. QED  BY <1>2, <2>1, PickedTwice
<1>4. o \in Seq(Packets) /\ Picked(o, T) = b /\ b \in Seq(Packets)
  <2>1. CASE out # NoPacket /\ out.die = d
    <3>1. out \in Packets /\ o = <<out>>  BY <2>1 DEF MaybePacket, If
    <3>2. out \in T <=> out # NoPacket /\ CommandOf(u, out)
          BY <2>1, <3>1 DEF CommandsFor
    <3>3. If(out \in T, out) = b  BY <3>2 DEF If
    <3>4. b \in Seq(Packets)  BY <3>1, SingletonSeq, EmptySeq DEF If
    <3> HIDE DEF o, b, T
    <3>5. QED  BY <3>1, <3>3, <3>4, PickedSingle, SingletonSeq
  <2>2. CASE ~(out # NoPacket /\ out.die = d)
    <3>1. o = <<>>  BY <2>2 DEF If
    <3>2. ~(out # NoPacket /\ CommandOf(u, out))
      <4>1. ASSUME out # NoPacket, CommandOf(u, out)  PROVE out.die = d
            BY <4>1 DEF CommandOf, UnitOf
      <4>2. QED  BY <2>2, <4>1
    <3>3. b = <<>>  BY <3>2 DEF If
    <3> HIDE DEF o, b, T
    <3>4. QED  BY <3>1, <3>3, PickedEmpty, NoReads
  <2>3. QED  BY <2>1, <2>2
<1> HIDE DEF p, o, a, b, c, T
<1>5. /\ a \in Seq(Packets) /\ b \in Seq(Packets) /\ c \in Seq(Packets)
      /\ p \in Seq(Packets) /\ o \in Seq(Packets) /\ p \o o \in Seq(Packets)
      /\ a \o b \in Seq(Packets)
      BY <1>1, <1>2, <1>4, Joined, Zenon
<1>6. PicksJoined(p, o, T) /\ PicksJoined(p \o o, q, T)  BY <1>5, PickedJoined, Zenon
<1>7. Regroups(w, a, b) /\ Regroups(w, a \o b, c)  BY <1>5, Regrouped, Zenon
<1>8. Picked((p \o o) \o q, T) = (a \o b) \o c
      BY <1>2, <1>3, <1>4, <1>6, Zenon DEF PicksJoined
<1>9. ((w \o a) \o b) \o c = w \o ((a \o b) \o c)  BY <1>7, Zenon DEF Regroups
<1>10. QED  BY <1>1, <1>8, <1>9 DEF a, b, c, T

LEMMA StoreTypes ==
    ASSUME Shape, NEW u \in Units
    PROVE  /\ Writing(u) \in Seq(Packets) /\ Reading(u) \in Seq(Packets)
           /\ Way(u) \in Seq(Packets) /\ Back(u) \in Seq(Packets) /\ Held(u) \in Seq(Packets)
           /\ FromPlane(u, returnTransaction) \in Seq(Packets)
           /\ Back(u) = Picked(pendingDataPackets[u[1]], OfPlane(u))
           /\ Held(u) = Picked(returnDataPackets[u[1]], OfPlane(u))
           /\ FromPlane(u, returnTransaction) = Picked(returnTransaction, OfPlane(u))
<1>1. /\ u[1] \in Dies /\ OnTheirWay[u[1]] \in Seq(Packets)
      /\ pendingDataPackets[u[1]] \in Seq(Packets)
      /\ returnDataPackets[u[1]] \in Seq(Packets) /\ returnTransaction \in Seq(Packets)
      /\ currentCommands[u] \in MaybePacket
      BY UnitTypes, WayTypes, DiesOf DEF Shape, ReturnTypes, DiesTypeOK
<1>2. Writing(u) \in Seq(Packets) /\ Reading(u) \in Seq(Packets)
      BY <1>1, SingletonSeq, EmptySeq DEF Writing, Reading, Running, If, MaybePacket
<1>3. Way(u) \in Seq(Packets)  BY <1>1, PickedType DEF Way
<1>4. ASSUME NEW s \in Seq(Packets)
      PROVE  FromPlane(u, s) \in Seq(Packets) /\ FromPlane(u, s) = Picked(s, OfPlane(u))
  <2>1. FromPlane(u, s) = Picked(s, OfPlane(u))  BY PlaneIsPicked
  <2>2. Picked(s, OfPlane(u)) \in Seq(Packets)  BY PickedType
  <2>3. QED  BY <2>1, <2>2, Zenon
<1>5. QED  BY <1>1, <1>2, <1>3, <1>4, Zenon DEF Back, Held

LEMMA PendingIs ==
    ASSUME Shape, NEW u \in Units
    PROVE  pendingOps(u) = Writing(u) \o Way(u)
<1> DEFINE d == u[1]
           w == Writing(u)
<1>1. /\ d \in Dies /\ w \in Seq(Packets) /\ pendingPackets \in Seq(Packets)
      /\ outgoing \in MaybePacket /\ readQueues[d] \in Seq(Packets)
      /\ OnTheirWay[d] = ControllerHas(d) \o readQueues[d]
      BY UnitTypes, WayTypes, DiesOf, StoreTypes DEF Shape, SendInv
<1>2. ControllerHas(d) = Has(d, pendingPackets, outgoing)  BY DEF ControllerHas, Has
<1>3. pendingOps(u) = w \o CommandsOf(u, pendingPackets)
                        \o If(outgoing # NoPacket /\ CommandOf(u, outgoing), outgoing)
                        \o CommandsOf(u, readQueues[d])
      BY DEF pendingOps, OnTheWay, Writing
<1>4. Way(u) = Picked(Has(d, pendingPackets, outgoing) \o readQueues[d], CommandsFor(u))
      BY <1>1, <1>2 DEF Way
<1> HIDE DEF w
<1>5. w \o CommandsOf(u, pendingPackets)
        \o If(outgoing # NoPacket /\ CommandOf(u, outgoing), outgoing)
        \o CommandsOf(u, readQueues[d])
        = w \o Picked(Has(d, pendingPackets, outgoing) \o readQueues[d], CommandsFor(u))
      BY <1>1, WayOps
<1>6. QED  BY <1>3, <1>4, <1>5, Zenon DEF w

Split ==
    \A u \in Units :
        /\ pendingOps(u) = Writing(u) \o Way(u)
        /\ Writing(u) \in Seq(Packets) /\ Reading(u) \in Seq(Packets)
        /\ Way(u) \in Seq(Packets) /\ Back(u) \in Seq(Packets) /\ Held(u) \in Seq(Packets)
        /\ FromPlane(u, returnTransaction) \in Seq(Packets)
        /\ Back(u) = Picked(pendingDataPackets[u[1]], OfPlane(u))
        /\ Held(u) = Picked(returnDataPackets[u[1]], OfPlane(u))
        /\ FromPlane(u, returnTransaction) = Picked(returnTransaction, OfPlane(u))

LEMMA ShapeSplits == Shape => Split
BY PendingIs, StoreTypes DEF Split

LEMMA ShapeSplitsNext == Shape' => Split'
BY ShapeSplits, PTL

-----------------------------------------------------------------------------
(* Steps of the store, in terms of the packets they are seen through.      *)
LEMMA MapOfConcat ==
    ASSUME NEW a \in Seq(Packets), NEW b \in Seq(Packets)
    PROVE  LET m == Map(Page, a \o b)
           IN  /\ Len(a) \in 0 .. Len(m)
               /\ SubSeq(m, Len(a) + 1, Len(m)) = Map(Page, b)
               /\ \A i \in 1 .. Len(a) : m[i] = Page(a[i])
<1> DEFINE s == a \o b
           n == Len(a)
           k == Len(b)
           R == {PageOf[pkt] : pkt \in Packets}
           m == Mapped(PageOf, s)
           l == Mapped(PageOf, b)
<1>1. /\ s \in Seq(Packets) /\ Len(s) = n + k /\ n \in Nat /\ k \in Nat
      /\ \A i \in 1 .. n + k : s[i] = IF i <= n THEN a[i] ELSE b[i - n]
      BY ConcatProperties, LenProperties
<1>2. Map(Page, s) = m /\ Map(Page, b) = l  BY <1>1, MapIsMapped
<1>3. /\ l \in Seq(R) /\ Len(l) = k /\ \A i \in 1 .. k : l[i] = PageOf[b[i]]
      BY MappedSeq
<1>4. \A t \in Seq(Packets) : /\ Mapped(PageOf, t) \in Seq(R) /\ Len(Mapped(PageOf, t)) = Len(t)
                              /\ \A i \in 1 .. Len(t) : Mapped(PageOf, t)[i] = PageOf[t[i]]
      BY MappedSeq
<1>5. \A i \in 1 .. n : PageOf[a[i]] = Page(a[i])  BY ElementOfSeq DEF PageOf
<1> HIDE DEF s, n, k, R, m, l
<1>6. m \in Seq(R) /\ Len(m) = n + k /\ \A i \in 1 .. n + k : m[i] = PageOf[s[i]]
      BY <1>1, <1>4 DEF m
<1>7. \A i \in 1 .. n : m[i] = Page(a[i])
  <2> SUFFICES ASSUME NEW i \in 1 .. n  PROVE m[i] = Page(a[i])  OBVIOUS
  <2>1. i \in 1 .. n + k /\ i <= n  BY <1>1
  <2>2. m[i] = PageOf[s[i]] /\ s[i] = a[i]  BY <1>1, <1>6, <2>1
  <2>3. QED  BY <1>5, <2>2
<1> DEFINE r == SubSeq(m, n + 1, n + k)
<1>8. r \in Seq(R) /\ Len(r) = k /\ \A i \in 1 .. k : r[i] = m[n + i]
  <2>1. \A i \in n + 1 .. n + k : m[i] \in R  BY <1>1, <1>6
  <2>2. /\ r \in Seq(R) /\ Len(r) = IF n + 1 <= n + k THEN (n + k) - (n + 1) + 1 ELSE 0
        /\ \A i \in 1 .. (n + k) - (n + 1) + 1 : r[i] = m[(n + 1) + i - 1]
        BY <1>1, <1>6, <2>1, SubSeqProperties
  <2> HIDE DEF r
  <2>3. (n + k) - (n + 1) + 1 = k /\ (n + 1 <= n + k <=> k # 0)  BY <1>1
  <2>4. \A i \in 1 .. k : (n + 1) + i - 1 = n + i  BY <1>1
  <2>5. QED  BY <2>2, <2>3, <2>4
<1> HIDE DEF r
<1>9. \A i \in 1 .. k : r[i] = l[i]
  <2> SUFFICES ASSUME NEW i \in 1 .. k  PROVE r[i] = l[i]  OBVIOUS
  <2>1. n + i \in 1 .. n + k /\ ~(n + i <= n) /\ (n + i) - n = i  BY <1>1
  <2>2. m[n + i] = PageOf[s[n + i]] /\ s[n + i] = b[i]  BY <1>1, <1>6, <2>1
  <2>3. QED  BY <1>3, <1>8, <2>2
<1>10. r = l  BY <1>1, <1>3, <1>8, <1>9, SeqEqual
<1>11. n \in 0 .. n + k  BY <1>1
<1>12. QED  BY <1>2, <1>6, <1>7, <1>10, <1>11 DEF r, n, s

LEMMA OpTypes ==
    ASSUME Shape, NEW u \in Units
    PROVE  /\ pendingOps(u) \in Seq(Packets) /\ fetchedPages(u) \in Seq(Packets)
           /\ fetchedPages(u) = ((FromPlane(u, returnTransaction) \o Back(u)) \o Held(u))
                                  \o Reading(u)
<1> DEFINE a == FromPlane(u, returnTransaction)
           b == Back(u)
           c == Held(u)
           r == Reading(u)
           w == Writing(u)
           x == Way(u)
<1>1. /\ a \in Seq(Packets) /\ b \in Seq(Packets) /\ c \in Seq(Packets)
      /\ r \in Seq(Packets) /\ w \in Seq(Packets) /\ x \in Seq(Packets)
      /\ pendingOps(u) = w \o x
      BY StoreTypes, PendingIs
<1>2. fetchedPages(u) = ((a \o b) \o c) \o r  BY DEF fetchedPages, Back, Held, Reading
<1> HIDE DEF a, b, c, r, w, x
<1>3. w \o x \in Seq(Packets) /\ a \o b \in Seq(Packets)  BY <1>1, Joined, Zenon
<1>4. (a \o b) \o c \in Seq(Packets)  BY <1>1, <1>3, Joined, Zenon
<1>5. ((a \o b) \o c) \o r \in Seq(Packets)  BY <1>1, <1>4, Joined, Zenon
<1>6. QED  BY <1>1, <1>2, <1>3, <1>5 DEF a, b, c, r

LEMMA OpIs ==
    ASSUME NEW pkt, pkt.type \in {"READ", "WRITE", "ERASE"}
    PROVE  /\ Op(pkt).type = pkt.type
           /\ pkt.type \in {"READ", "WRITE"} => Op(pkt).page = pkt.page
           /\ pkt.type = "WRITE" => Op(pkt).data = pkt.data
BY DEF Op

LEMMA AcceptMaps ==
    ASSUME Shape, NEW u \in Units, NEW pkt \in Packets,
           pkt.type \in {"READ", "WRITE", "ERASE"}, pkt.type = "WRITE" => pkt.data \in Data,
           \A v \in Units : /\ pendingOps(v)' = IF v = u THEN Append(pendingOps(v), pkt)
                                                ELSE pendingOps(v)
                            /\ fetchedPages(v)' = fetchedPages(v),
           blocks' = blocks, answers' = {}
    PROVE  Store!Next
<1> DEFINE P == [v \in Units |-> Map(Op, pendingOps(v))]
           Q == [v \in Units |-> Map(Page, fetchedPages(v))]
<1>1. Op(pkt) \in Store!Ops
  <2>1. pkt.page \in PageNums  BY PacketTypes
  <2>2. QED  BY <2>1 DEF Op, Store!Ops
<1>2. P' = [P EXCEPT ![u] = Append(@, Op(pkt))]
  <2>1. \A v \in Units : Map(Op, pendingOps(v)') =
            IF v = u THEN Append(Map(Op, pendingOps(v)), Op(pkt)) ELSE Map(Op, pendingOps(v))
        BY OpTypes, MapAppend
  <2>2. P' = [v \in Units |-> Map(Op, pendingOps(v)')]  OBVIOUS
  <2>3. QED  BY <2>1, <2>2
<1>3. Q' = Q  OBVIOUS
<1>4. Store!Accept(u, Op(pkt))  BY <1>2, <1>3 DEF Store!Accept
<1>5. QED  BY <1>1, <1>4 DEF Store!Next

(* The planes of F read, those of W store and those of E forget their      *)
(* pages; of the reads of every plane those taken are answered, and the    *)
(* rest stay.                                                              *)
Effect(F, W, E, taken, rest) ==
    /\ \A u \in Units :
         /\ taken[u] \in Seq(Packets) /\ rest[u] \in Seq(Packets)
         /\ fetchedPages(u) = taken[u] \o rest[u]
         /\ \A i \in 1 .. Len(taken[u]) :
              taken[u][i].type = "READ" /\ UnitOf(taken[u][i]) = u
         /\ u \in F \cup W \cup E =>
              /\ pendingOps(u) # <<>>
              /\ u \in F => Head(pendingOps(u)).type = "READ"
              /\ u \in W => Head(pendingOps(u)).type = "WRITE"
              /\ u \in E => Head(pendingOps(u)).type = "ERASE"
              /\ UnitOf(Head(pendingOps(u))) = u
         /\ pendingOps(u)' = IF u \in F \cup W \cup E THEN Tail(pendingOps(u))
                             ELSE pendingOps(u)
         /\ u \notin F => fetchedPages(u)' = rest[u]
         /\ u \in F => \E pkt \in Packets :
              /\ pkt.page = Head(pendingOps(u)).page
              /\ pkt.data = blocks[u][Head(pendingOps(u)).page]
              /\ fetchedPages(u)' = Append(rest[u], pkt)
    /\ blocks' = [u \in Units |->
         IF u \in W
         THEN [blocks[u] EXCEPT ![Head(pendingOps(u)).page] = Head(pendingOps(u)).data]
         ELSE IF u \in E THEN [p \in PageNums |-> NoData] ELSE blocks[u]]
    /\ answers' = (UNION {{Answer(taken[u][i]) : i \in 1 .. Len(taken[u])} : u \in Units})
                    \cup {Answer(Head(pendingOps(u))) : u \in W}

LEMMA EffectMaps ==
    ASSUME Shape, NEW F \in SUBSET Units, NEW W \in SUBSET Units, NEW E \in SUBSET Units,
           NEW taken, NEW rest, Effect(F, W, E, taken, rest)
    PROVE  Store!Next
<1> DEFINE P == [u \in Units |-> Map(Op, pendingOps(u))]
           Q == [u \in Units |-> Map(Page, fetchedPages(u))]
           Moves == F \cup W \cup E
           n == [u \in Units |-> Len(taken[u])]
<1>1. ASSUME NEW u \in Moves
      PROVE  LET pkt == Head(pendingOps(u))
             IN  /\ u \in Units /\ pkt \in Packets /\ UnitOf(pkt) = u
                 /\ pkt.type \in {"READ", "WRITE", "ERASE"}
                 /\ u \in F => pkt.type = "READ"
                 /\ u \in W => pkt.type = "WRITE"
                 /\ u \in E => pkt.type = "ERASE"
                 /\ P[u] # <<>> /\ Head(P[u]) = Op(pkt)
                 /\ Tail(P[u]) = Map(Op, Tail(pendingOps(u)))
  <2>1. u \in Units /\ pendingOps(u) \in Seq(Packets) /\ pendingOps(u) # <<>>
        BY OpTypes DEF Effect
  <2>2. Head(pendingOps(u)) \in Packets  BY <2>1, HeadTailProperties
  <2>3. P[u] = Map(Op, pendingOps(u))  BY <2>1
  <2>4. QED  BY <2>1, <2>2, <2>3, MapHeadTail DEF Effect
<1>2. ASSUME NEW u \in Units
      PROVE  /\ n[u] \in 0 .. Len(Q[u])
             /\ SubSeq(Q[u], n[u] + 1, Len(Q[u])) = Map(Page, rest[u])
             /\ \A i \in 1 .. n[u] : Q[u][i] = Page(taken[u][i])
  <2> DEFINE a == taken[u]
             b == rest[u]
  <2>1. a \in Seq(Packets) /\ b \in Seq(Packets) /\ fetchedPages(u) = a \o b  BY DEF Effect
  <2>2. Q[u] = Map(Page, a \o b) /\ n[u] = Len(a)  BY <2>1
  <2> HIDE DEF a, b, Q, n
  <2>3. LET m == Map(Page, a \o b)
        IN  /\ Len(a) \in 0 .. Len(m)
            /\ SubSeq(m, Len(a) + 1, Len(m)) = Map(Page, b)
            /\ \A i \in 1 .. Len(a) : m[i] = Page(a[i])
        BY <2>1, MapOfConcat
  <2>4. QED  BY <2>2, <2>3 DEF a, b
<1>3. P' = [u \in Units |-> IF u \in Moves THEN Tail(P[u]) ELSE P[u]]
  <2>1. ASSUME NEW u \in Units
        PROVE  Map(Op, pendingOps(u)') = IF u \in Moves THEN Tail(P[u]) ELSE P[u]
    <3>1. P[u] = Map(Op, pendingOps(u))  OBVIOUS
    <3>2. pendingOps(u)' = IF u \in Moves THEN Tail(pendingOps(u)) ELSE pendingOps(u)
          BY DEF Effect
    <3>3. QED  BY <1>1, <3>1, <3>2
  <2>2. P' = [u \in Units |-> Map(Op, pendingOps(u)')]  OBVIOUS
  <2> HIDE DEF P
  <2>3. QED  BY <2>1, <2>2
<1>4. ASSUME NEW u \in Units
      PROVE  /\ rest[u] \in Seq(Packets)
             /\ Map(Page, rest[u]) \in Seq({PageOf[pkt] : pkt \in Packets})
             /\ Map(Page, rest[u]) \o <<>> = Map(Page, rest[u])
  <2> DEFINE b == rest[u]
  <2>1. b \in Seq(Packets)  BY DEF Effect
  <2> HIDE DEF b
  <2>2. Map(Page, b) \in Seq({PageOf[pkt] : pkt \in Packets})
        BY <2>1, MapIsMapped, MappedSeq
  <2>3. Map(Page, b) \o <<>> = Map(Page, b)  BY <2>2, ConcatEmptySeq
  <2>4. QED  BY <2>1, <2>2, <2>3 DEF b
<1>5. Q' = [u \in Units |->
              SubSeq(Q[u], n[u] + 1, Len(Q[u]))
              \o (IF u \in F THEN <<[page |-> Head(P[u]).page,
                                     data |-> blocks[u][Head(P[u]).page]]>>
                  ELSE <<>>)]
  <2>1. ASSUME NEW u \in Units
        PROVE  Map(Page, fetchedPages(u)') =
                  SubSeq(Q[u], n[u] + 1, Len(Q[u]))
                  \o (IF u \in F THEN <<[page |-> Head(P[u]).page,
                                         data |-> blocks[u][Head(P[u]).page]]>>
                      ELSE <<>>)
    <3> DEFINE m == Map(Page, rest[u])
    <3>1. SubSeq(Q[u], n[u] + 1, Len(Q[u])) = m  BY <1>2
    <3>2. CASE u \notin F
      <4>1. fetchedPages(u)' = rest[u]  BY <3>2 DEF Effect
      <4>2. m \o <<>> = m  BY <1>4
      <4> HIDE DEF Q, P, n
      <4>3. QED  BY <3>1, <3>2, <4>1, <4>2
    <3>3. CASE u \in F
      <4> DEFINE c == Head(pendingOps(u))
      <4>1. PICK pkt \in Packets : /\ pkt.page = c.page /\ pkt.data = blocks[u][c.page]
                                   /\ fetchedPages(u)' = Append(rest[u], pkt)
            BY <3>3 DEF Effect
      <4>2. Map(Page, Append(rest[u], pkt)) = Append(m, Page(pkt))
            BY <1>4, MapAppend
      <4>3. Head(P[u]) = Op(c) /\ c.type = "READ"  BY <1>1, <3>3
      <4>4. Head(P[u]).page = c.page
        <5> HIDE DEF c, P
        <5>1. QED  BY <4>3, OpIs
      <4>5. Append(m, Page(pkt)) = m \o <<Page(pkt)>>
        <5>1. PageOf[pkt] = Page(pkt)  BY DEF PageOf
        <5>2. Page(pkt) \in {PageOf[p] : p \in Packets}
          <6> HIDE DEF PageOf
          <6>1. QED  BY <5>1
        <5>3. m \in Seq({PageOf[p] : p \in Packets})  BY <1>4
        <5> HIDE DEF m
        <5>4. QED  BY <5>2, <5>3, AppendIsConcat
      <4>6. Page(pkt) = [page |-> Head(P[u]).page, data |-> blocks[u][Head(P[u]).page]]
            BY <4>1, <4>4 DEF Page
      <4> HIDE DEF m, P, Q, c, n
      <4>7. QED  BY <3>1, <3>3, <4>1, <4>2, <4>5, <4>6
    <3>4. QED  BY <3>2, <3>3
  <2>2. Q' = [u \in Units |-> Map(Page, fetchedPages(u)')]  OBVIOUS
  <2> HIDE DEF P, Q, n
  <2>3. QED  BY <2>1, <2>2
<1>6. blocks' = [u \in Units |->
                   IF u \in W THEN [blocks[u] EXCEPT ![Head(P[u]).page] = Head(P[u]).data]
                   ELSE IF u \in E THEN [p \in PageNums |-> NoData] ELSE blocks[u]]
  <2>1. ASSUME NEW u \in W
        PROVE  /\ Head(P[u]).page = Head(pendingOps(u)).page
               /\ Head(P[u]).data = Head(pendingOps(u)).data
    <3> DEFINE c == Head(pendingOps(u))
    <3>1. c.type = "WRITE" /\ Head(P[u]) = Op(c)  BY <1>1
    <3> HIDE DEF c, P
    <3>2. QED  BY <3>1, OpIs DEF c
  <2> HIDE DEF P
  <2>2. QED  BY <2>1 DEF Effect
<1>7. answers' = (UNION {{Store!ReadAnswer(u, Q[u][i]) : i \in 1 .. n[u]} : u \in Units})
                   \cup {Store!WriteAnswer(u, Head(P[u]).page) : u \in W}
  <2>1. ASSUME NEW u \in Units
        PROVE  {Answer(taken[u][i]) : i \in 1 .. Len(taken[u])} =
                 {Store!ReadAnswer(u, Q[u][i]) : i \in 1 .. n[u]}
    <3>1. n[u] = Len(taken[u])  OBVIOUS
    <3>2. ASSUME NEW i \in 1 .. n[u]  PROVE Answer(taken[u][i]) = Store!ReadAnswer(u, Q[u][i])
      <4> DEFINE c == taken[u][i]
      <4>1. c.type = "READ" /\ UnitOf(c) = u  BY <3>1 DEF Effect
      <4>2. Q[u][i] = Page(c)  BY <1>2
      <4> HIDE DEF c, Q, n
      <4>3. Answer(c) = Store!ReadAnswer(u, Page(c))
            BY <4>1 DEF Answer, Page, Store!ReadAnswer
      <4>4. QED  BY <4>2, <4>3 DEF c
    <3> HIDE DEF Q, n
    <3>3. QED  BY <3>1, <3>2
  <2>2. ASSUME NEW u \in W
        PROVE  Answer(Head(pendingOps(u))) = Store!WriteAnswer(u, Head(P[u]).page)
    <3> DEFINE c == Head(pendingOps(u))
    <3>1. UnitOf(c) = u /\ c.type = "WRITE" /\ Head(P[u]) = Op(c)  BY <1>1
    <3> HIDE DEF c
    <3>2. Answer(c) = Store!WriteAnswer(u, Op(c).page)
          BY <3>1 DEF Answer, Op, Store!WriteAnswer
    <3>3. QED  BY <3>1, <3>2 DEF c
  <2> DEFINE T(u) == {Answer(taken[u][i]) : i \in 1 .. Len(taken[u])}
             S(u) == {Store!ReadAnswer(u, Q[u][i]) : i \in 1 .. n[u]}
  <2>3. \A u \in Units : T(u) = S(u)  BY <2>1
  <2>4. answers' = (UNION {T(u) : u \in Units}) \cup {Answer(Head(pendingOps(u))) : u \in W}
        BY DEF Effect
  <2> HIDE DEF P, Q, n, T, S
  <2>5. {T(u) : u \in Units} = {S(u) : u \in Units}  BY <2>3
  <2>6. {Answer(Head(pendingOps(u))) : u \in W} =
          {Store!WriteAnswer(u, Head(P[u]).page) : u \in W}
        BY <2>2
  <2>7. QED  BY <2>4, <2>5, <2>6 DEF S
<1>8. /\ F \in SUBSET Store!NextIs("READ") /\ W \in SUBSET Store!NextIs("WRITE")
      /\ E \in SUBSET Store!NextIs("ERASE")
  <2>1. ASSUME NEW u \in Moves  PROVE Head(P[u]).type = Head(pendingOps(u)).type
    <3> DEFINE c == Head(pendingOps(u))
    <3>1. c.type \in {"READ", "WRITE", "ERASE"} /\ Head(P[u]) = Op(c)  BY <1>1
    <3> HIDE DEF c, P
    <3>2. QED  BY <3>1, OpIs DEF c
  <2>2. Store!NextIs("READ") = {u \in Units : P[u] # <<>> /\ Head(P[u]).type = "READ"}
        BY DEF Store!NextIs
  <2>3. Store!NextIs("WRITE") = {u \in Units : P[u] # <<>> /\ Head(P[u]).type = "WRITE"}
        BY DEF Store!NextIs
  <2>4. Store!NextIs("ERASE") = {u \in Units : P[u] # <<>> /\ Head(P[u]).type = "ERASE"}
        BY DEF Store!NextIs
  <2> HIDE DEF P, Q
  <2>5. QED  BY <1>1, <2>1, <2>2, <2>3, <2>4
<1>9. n \in Store!ReadCounts
  <2>1. \A u \in Units : n[u] \in UNION {0 .. Len(Q[v]) : v \in Units}
    <3> HIDE DEF Q, n
    <3>1. QED  BY <1>2
  <2>2. n \in [Units -> UNION {0 .. Len(Q[v]) : v \in Units}]
    <3>1. n = [u \in Units |-> n[u]]  OBVIOUS
    <3> DEFINE S == UNION {0 .. Len(Q[v]) : v \in Units}
    <3>2. \A u \in Units : n[u] \in S  BY <2>1
    <3> HIDE DEF Q, n, S
    <3>3. n \in [Units -> S]  BY <3>1, <3>2
    <3>4. QED  BY <3>3 DEF S
  <2>3. \A u \in Units : n[u] <= Len(Q[u])
    <3> SUFFICES ASSUME NEW u \in Units  PROVE n[u] <= Len(Q[u])  OBVIOUS
    <3>1. n[u] \in 0 .. Len(Q[u])  BY <1>2
    <3> HIDE DEF Q, n
    <3>2. QED  BY <3>1
  <2>4. Store!ReadCounts = {S \in [Units -> UNION {0 .. Len(Q[u]) : u \in Units}] :
                              \A u \in Units : S[u] <= Len(Q[u])}
        BY DEF Store!ReadCounts
  <2> HIDE DEF Q, n
  <2>5. QED  BY <2>2, <2>3, <2>4
<1>10. Store!Step(F, W, E, n)
  <2>1. [p \in PageNums |-> NoData] = Store!Erased  BY DEF Store!Erased
  <2>2. QED  BY <1>3, <1>5, <1>6, <1>7, <2>1 DEF Store!Step
<1>11. QED  BY <1>8, <1>9, <1>10 DEF Store!Next

(* No read is answered.                                                    *)
NoneTaken == [u \in Units |-> <<>>]
AllRest == [u \in Units |-> fetchedPages(u)]

LEMMA NoneAnswered ==
    ASSUME Shape
    PROVE  /\ \A u \in Units :
                /\ NoneTaken[u] \in Seq(Packets) /\ AllRest[u] \in Seq(Packets)
                /\ AllRest[u] = fetchedPages(u)
                /\ fetchedPages(u) = NoneTaken[u] \o AllRest[u]
                /\ 1 .. Len(NoneTaken[u]) = {}
           /\ UNION {{Answer(NoneTaken[u][i]) : i \in 1 .. Len(NoneTaken[u])} : u \in Units} = {}
<1>1. ASSUME NEW u \in Units
      PROVE  /\ NoneTaken[u] \in Seq(Packets) /\ AllRest[u] \in Seq(Packets)
             /\ AllRest[u] = fetchedPages(u)
             /\ fetchedPages(u) = NoneTaken[u] \o AllRest[u]
             /\ 1 .. Len(NoneTaken[u]) = {}
  <2>1. NoneTaken[u] = <<>> /\ AllRest[u] = fetchedPages(u)  BY DEF NoneTaken, AllRest
  <2>2. fetchedPages(u) \in Seq(Packets) /\ <<>> \in Seq(Packets)  BY OpTypes, NoReads
  <2>3. <<>> \o fetchedPages(u) = fetchedPages(u)  BY <2>2, ConcatEmptySeq
  <2>4. 1 .. Len(<<>>) = {}  OBVIOUS
  <2>5. QED  BY <2>1, <2>2, <2>3, <2>4, Zenon
<1>2. \A u \in Units : {Answer(NoneTaken[u][i]) : i \in 1 .. Len(NoneTaken[u])} = {}
      BY <1>1
<1>3. QED  BY <1>1, <1>2

(* A step in which no plane moves.                                         *)
LEMMA NothingMaps ==
    ASSUME Shape,
           \A u \in Units : /\ pendingOps(u)' = pendingOps(u)
                            /\ fetchedPages(u)' = fetchedPages(u),
           blocks' = blocks, answers' = {}
    PROVE  Store!Next
<1>1. blocks = [u \in Units |-> blocks[u]]  BY DEF Shape, DiesInv, DiesTypeOK
<1>2. Effect({}, {}, {}, NoneTaken, AllRest)  BY <1>1, NoneAnswered DEF Effect
<1>3. QED  BY <1>2, EffectMaps

-----------------------------------------------------------------------------
(* The FTL: a command is accepted, or nothing happens.                     *)
LEMMA WayJoins ==
    ASSUME Shape, NEW d \in Dies, NEW t \in Seq(Packets),
           readQueues' = [readQueues EXCEPT ![d] = @ \o t],
           UNCHANGED <<outgoing, pendingPackets>>
    PROVE  OnTheirWay' = [OnTheirWay EXCEPT ![d] = @ \o t]
<1> DEFINE has == ControllerHas(d)
           q == readQueues[d]
<1>1. \A e \in Dies : ControllerHas(e)' = ControllerHas(e)  BY DEF ControllerHas, OfDie
<1>2. /\ readQueues'[d] = q \o t
      /\ \A e \in Dies : e # d => readQueues'[e] = readQueues[e]
      BY DiesOf
<1>3. has \in Seq(Packets) /\ q \in Seq(Packets) /\ OnTheirWay[d] = has \o q  BY WayTypes
<1>4. ControllerHas(d)' = has  BY <1>1
<1> HIDE DEF has, q
<1>5. (has \o q) \o t = has \o (q \o t)  BY <1>3, ConcatAssociative
<1>6. ControllerHas(d)' \o readQueues'[d] = OnTheirWay[d] \o t  BY <1>2, <1>3, <1>4, <1>5
<1>7. OnTheirWay' = [OnTheirWay EXCEPT ![d] = OnTheirWay[d] \o t]
      BY <1>1, <1>2, <1>6, WayChanges
<1>8. QED  BY <1>7

LEMMA JoinMaps ==
    ASSUME Shape, Shape', NEW u \in Units, NEW pkt \in Packets, UnitOf(pkt) = u,
           pkt.type \in {"READ", "WRITE", "ERASE"}, NEW t \in Seq(Packets),
           \/ t = <<pkt>>
           \/ \E data \in Packets : data.type = "DATA" /\ t = <<data, pkt>>,
           readQueues' = [readQueues EXCEPT ![u[1]] = @ \o t],
           UNCHANGED <<outgoing, pendingPackets, currentCommands>>,
           NEW v \in Units
    PROVE  pendingOps(v)' = IF v = u THEN Append(pendingOps(v), pkt) ELSE pendingOps(v)
<1> DEFINE s == OnTheirWay[v[1]]
           w == Writing(v)
           x == Way(v)
           T == CommandsFor(v)
           new == If(v = u, pkt)
<1>1. /\ u[1] \in Dies /\ v[1] \in Dies /\ OnTheirWay \in [Dies -> Seq(Packets)]
      /\ s \in Seq(Packets) /\ w \in Seq(Packets) /\ x \in Seq(Packets)
      /\ x = Picked(s, T) /\ pendingOps(v) = w \o x
      BY UnitTypes, WayTypes, ShapeSplits DEF Split, Way
<1>2. pendingOps(v)' = Writing(v)' \o Way(v)' /\ Writing(v)' = w
      BY ShapeSplitsNext DEF Split, Writing, Running
<1>3. Way(v)' = Picked(OnTheirWay'[v[1]], T)  BY DEF Way
<1>4. new \in Seq(Packets)  BY SingletonSeq, EmptySeq DEF If
<1>5. If(pkt \in T, pkt) = new
  <2>1. pkt \in T <=> v = u  BY DEF CommandsFor, CommandOf
  <2>2. QED  BY <2>1 DEF If
<1>6. Picked(t, T) = new
  <2>1. CASE t = <<pkt>>  BY <1>5, <2>1, PickedSingle
  <2>2. ASSUME NEW data \in Packets, data.type = "DATA", t = <<data, pkt>>
        PROVE  Picked(t, T) = new
    <3> DEFINE first == <<data>>
    <3>1. first \in Seq(Packets) /\ t = Append(first, pkt)  BY <2>2
    <3>2. Picked(first, T) = <<>>
          BY <2>2, PickedSingle DEF CommandsFor, CommandOf, If
    <3> HIDE DEF first, T, new
    <3>3. Picked(Append(first, pkt), T) = Picked(first, T) \o If(pkt \in T, pkt)
          BY <3>1, PickedAppend
    <3>4. <<>> \o new = new  BY <1>4, ConcatEmptySeq
    <3>5. QED  BY <1>5, <3>1, <3>2, <3>3, <3>4
  <2>3. QED  BY <2>1, <2>2
<1>7. Way(v)' = x \o new
  <2>0. OnTheirWay' = [OnTheirWay EXCEPT ![u[1]] = @ \o t]  BY <1>1, WayJoins
  <2>1. CASE v[1] = u[1]
    <3>1. OnTheirWay'[v[1]] = s \o t  BY <1>1, <2>0, <2>1
    <3>2. PicksJoined(s, t, T)  BY <1>1, PickedJoined, Zenon
    <3> HIDE DEF s, T, x, new
    <3>3. QED  BY <1>1, <1>3, <1>6, <3>1, <3>2, Zenon DEF PicksJoined
  <2>2. CASE v[1] # u[1]
    <3>1. OnTheirWay'[v[1]] = s  BY <1>1, <2>0, <2>2
    <3>2. new = <<>>  BY <2>2 DEF If
    <3> HIDE DEF s, T, x, new
    <3>3. x \o <<>> = x  BY <1>1, ConcatEmptySeq
    <3>4. QED  BY <1>1, <1>3, <3>1, <3>2, <3>3, Zenon
  <2>3. QED  BY <2>1, <2>2
<1>8. new = IF v = u THEN <<pkt>> ELSE <<>>  BY DEF If
<1> HIDE DEF s, w, x, T, new
<1>9. Regroups(w, x, new) /\ w \o x \in Seq(Packets)
      BY <1>1, <1>4, Regrouped, Joined, Zenon
<1>10. pendingOps(v)' = pendingOps(v) \o new
       BY <1>1, <1>2, <1>7, <1>9, Zenon DEF Regroups
<1>11. pendingOps(v) \in Seq(Packets)  BY OpTypes
<1>12. Append(pendingOps(v), pkt) = pendingOps(v) \o <<pkt>>  BY <1>11, AppendIsConcat
<1>13. pendingOps(v) \o <<>> = pendingOps(v)  BY <1>11, ConcatEmptySeq
<1>14. QED  BY <1>8, <1>10, <1>12, <1>13, Zenon

LEMMA PagesSame ==
    ASSUME UNCHANGED <<returnTransaction, pendingDataPackets, returnDataPackets, currentCommands>>,
           NEW u \in Units
    PROVE  fetchedPages(u)' = fetchedPages(u)
BY DEF fetchedPages, Running

LEMMA FtlUpdateMaps == ASSUME HostCommands, Shape, Shape', FtlUpdate  PROVE Store!Next
<1>1. /\ UNCHANGED <<outgoing, pendingPackets, currentCommands, returnTransaction,
                     pendingDataPackets, returnDataPackets, blocks>>
      /\ answers' = {} /\ FtlGives
      BY DEF FtlUpdate, FtlGives, commandVars, planeVars, sendVars, returnVars
<1>2. \A v \in Units : fetchedPages(v)' = fetchedPages(v)  BY <1>1, PagesSame
<1>3. ASSUME NEW u \in Units, NEW p \in PageNums,
             NEW type \in Commands \cap {"READ", "GC_READ", "ERASE"},
             addPacket(Packet(type, u, p, NoData))
      PROVE  Store!Next
  <2> DEFINE c == Packet(type, u, p, NoData)
             t == <<c>>
  <2>1. /\ c \in Packets /\ c.die = u[1] /\ UnitOf(c) = u
        /\ c.type \in {"READ", "ERASE"}
        BY UnitTypes DEF Packet, Packets, HostCommands, UnitOf
  <2>2. readQueues' = [readQueues EXCEPT ![c.die] = Append(@, c)]  BY <1>3 DEF addPacket
  <2> HIDE DEF c
  <2>3. u[1] \in Dies /\ readQueues \in [Dies -> Seq(Packets)]
        BY UnitTypes, DiesOf
  <2>4. t \in Seq(Packets)  BY <2>1
  <2>5. readQueues' = [readQueues EXCEPT ![u[1]] = @ \o t]
    <3> DEFINE d == u[1]
    <3>1. Append(readQueues[d], c) = readQueues[d] \o t  BY <2>1, <2>3, AppendIsConcat
    <3>2. readQueues' = [readQueues EXCEPT ![d] = Append(readQueues[d], c)]  BY <2>1, <2>2
    <3> HIDE DEF d, t
    <3>3. readQueues' = [readQueues EXCEPT ![d] = readQueues[d] \o t]  BY <3>1, <3>2
    <3>4. QED  BY <3>3 DEF d
  <2>6. ASSUME NEW v \in Units
        PROVE  pendingOps(v)' = IF v = u THEN Append(pendingOps(v), c) ELSE pendingOps(v)
        BY <1>1, <2>1, <2>4, <2>5, JoinMaps
  <2>7. QED  BY <1>1, <1>2, <2>1, <2>6, AcceptMaps
<1>4. ASSUME NEW u \in Units, NEW p \in PageNums, NEW x \in Data,
             NEW type \in Commands \cap {"WRITE", "GC_WRITE"}, addWrite(type, u, p, x)
      PROVE  Store!Next
  <2> DEFINE data == Packet("DATA", u, p, x)
             c == Packet(type, u, p, x)
             t == <<data, c>>
  <2>1. /\ data \in Packets /\ data.type = "DATA"
        /\ c \in Packets /\ UnitOf(c) = u /\ c.type = "WRITE" /\ c.data = x
        BY UnitTypes DEF Packet, Packets, HostCommands, UnitOf
  <2>2. readQueues' = [readQueues EXCEPT ![u[1]] = @ \o t]  BY <1>4 DEF addWrite
  <2> HIDE DEF data, c
  <2>3. t \in Seq(Packets)  BY <2>1
  <2>4. ASSUME NEW v \in Units
        PROVE  pendingOps(v)' = IF v = u THEN Append(pendingOps(v), c) ELSE pendingOps(v)
        BY <1>1, <2>1, <2>2, <2>3, JoinMaps
  <2>5. QED  BY <1>1, <1>2, <2>1, <2>4, AcceptMaps
<1>5. CASE UNCHANGED readQueues
  <2>1. \A u \in Units : pendingOps(u)' = pendingOps(u)
        BY <1>1, <1>5 DEF pendingOps, Running, OnTheWay
  <2>2. QED  BY <1>1, <1>2, <2>1, NothingMaps
<1>6. QED  BY <1>1, <1>3, <1>4, <1>5 DEF FtlGives

LEMMA ChannelUpdateMaps == ASSUME Shape, ChannelUpdate  PROVE Store!Next
<1>1. \A u \in Units : /\ pendingOps(u)' = pendingOps(u)
                       /\ fetchedPages(u)' = fetchedPages(u)
      BY ChannelKeeps, PagesSame DEF pendingOps, Running, OnTheWay
<1>2. QED  BY <1>1, ChannelKeeps, NothingMaps

-----------------------------------------------------------------------------
(* The controller answers all reads that have come back; its packets keep  *)
(* their order on the way.                                                 *)
LEMMA PlanesAnswer ==
    ASSUME NEW s \in Seq(ReadPackets)
    PROVE  /\ \A u \in Units : \A i \in 1 .. Len(FromPlane(u, s)) :
                FromPlane(u, s)[i].type = "READ" /\ UnitOf(FromPlane(u, s)[i]) = u
           /\ UNION {{Answer(FromPlane(u, s)[i]) : i \in 1 .. Len(FromPlane(u, s))} : u \in Units}
                = {Answer(s[i]) : i \in DOMAIN s}
<1> DEFINE f(u) == FromPlane(u, s)
<1>1. s \in Seq(Packets) /\ DOMAIN s = 1 .. Len(s)
      /\ \A i \in 1 .. Len(s) : s[i] \in Packets /\ s[i].type = "READ"
  <2>1. ReadPackets \subseteq Packets  BY DEF ReadPackets
  <2>2. \A i \in 1 .. Len(s) : s[i] \in ReadPackets  BY ElementOfSeq
  <2>3. s \in Seq(Packets)  BY <2>1, <2>2, LenProperties
  <2>4. QED  BY <2>2, <2>3, LenProperties DEF ReadPackets
<1>2. ASSUME NEW u \in Units
      PROVE  /\ f(u) \in Seq(Packets) /\ DOMAIN f(u) = 1 .. Len(f(u))
             /\ \A pkt : pkt \in ToSet(f(u)) <=> pkt \in ToSet(s) /\ UnitOf(pkt) = u
  <2>1. f(u) = Picked(s, OfPlane(u))  BY <1>1, PlaneIsPicked
  <2>2. Picked(s, OfPlane(u)) \in Seq(Packets)  BY <1>1, PickedType
  <2>3. ToSet(Picked(s, OfPlane(u))) = ToSet(s) \cap OfPlane(u)  BY <1>1, PickedSet
  <2>4. \A pkt \in ToSet(s) : pkt \in OfPlane(u) <=> UnitOf(pkt) = u
        BY <1>1 DEF ToSet, OfPlane
  <2> HIDE DEF f
  <2>5. f(u) \in Seq(Packets)  BY <2>1, <2>2, Zenon
  <2>6. DOMAIN f(u) = 1 .. Len(f(u))  BY <2>5, LenProperties
  <2>7. ToSet(f(u)) = ToSet(s) \cap OfPlane(u)  BY <2>1, <2>3, Zenon
  <2>8. QED  BY <2>4, <2>5, <2>6, <2>7
<1> HIDE DEF f
<1>3. ASSUME NEW u \in Units, NEW i \in 1 .. Len(f(u))
      PROVE  \E j \in DOMAIN s : f(u)[i] = s[j] /\ UnitOf(s[j]) = u
  <2>1. f(u)[i] \in ToSet(f(u))  BY <1>2 DEF ToSet
  <2>2. f(u)[i] \in ToSet(s) /\ UnitOf(f(u)[i]) = u  BY <1>2, <2>1
  <2>3. QED  BY <2>2 DEF ToSet
<1>4. ASSUME NEW j \in DOMAIN s
      PROVE  \E u \in Units : \E i \in 1 .. Len(f(u)) : f(u)[i] = s[j]
  <2> DEFINE u == UnitOf(s[j])
  <2>1. u \in Units  BY <1>1, PacketTypes
  <2>2. s[j] \in ToSet(s)  BY DEF ToSet
  <2>3. s[j] \in ToSet(f(u))  BY <1>2, <2>1, <2>2
  <2>4. \E i \in 1 .. Len(f(u)) : f(u)[i] = s[j]  BY <1>2, <2>1, <2>3 DEF ToSet
  <2>5. QED  BY <2>1, <2>4
<1>5. UNION {{Answer(f(u)[i]) : i \in 1 .. Len(f(u))} : u \in Units} = {Answer(s[i]) : i \in DOMAIN s}
  <2>1. ASSUME NEW a \in UNION {{Answer(f(u)[i]) : i \in 1 .. Len(f(u))} : u \in Units}
        PROVE  a \in {Answer(s[i]) : i \in DOMAIN s}
    <3>1. PICK u \in Units : \E i \in 1 .. Len(f(u)) : a = Answer(f(u)[i])  OBVIOUS
    <3>2. QED  BY <1>3, <3>1
  <2>2. ASSUME NEW a \in {Answer(s[i]) : i \in DOMAIN s}
        PROVE  a \in UNION {{Answer(f(u)[i]) : i \in 1 .. Len(f(u))} : u \in Units}
    <3>1. PICK j \in DOMAIN s : a = Answer(s[j])  OBVIOUS
    <3>2. PICK u \in Units : \E i \in 1 .. Len(f(u)) : f(u)[i] = s[j]  BY <1>4
    <3>3. QED  BY <3>1, <3>2
  <2>3. QED  BY <2>1, <2>2
<1>6. ASSUME NEW u \in Units, NEW i \in 1 .. Len(f(u))
      PROVE  f(u)[i].type = "READ" /\ UnitOf(f(u)[i]) = u
      BY <1>1, <1>3
<1>7. QED  BY <1>5, <1>6 DEF f

LEMMA ControllerUpdateMaps ==
    ASSUME Shape, Shape', RegisterInv, StoreInv, ControllerUpdate  PROVE Store!Next
<1> DEFINE s == returnTransaction
           F(u) == FromPlane(u, s)
           rest(u) == (Back(u) \o Held(u)) \o Reading(u)
           taken == [u \in Units |-> F(u)]
           left == [u \in Units |-> rest(u)]
<1>1. /\ UNCHANGED <<currentCommands, blocks, pendingDataPackets, returnDataPackets>>
      /\ returnTransaction' = <<>> /\ answers' = {Answer(s[i]) : i \in DOMAIN s}
      /\ OnTheirWay' = OnTheirWay
      BY ControllerKeepsWay
      DEF ControllerUpdate, AnswerReads, commandVars, planeVars, returnVars, RegisterInv,
          PacketsSound
<1>2. ASSUME NEW u \in Units  PROVE pendingOps(u)' = pendingOps(u)
  <2>1. Writing(u)' = Writing(u) /\ Way(u)' = Way(u)  BY <1>1 DEF Writing, Way, Running
  <2>2. QED  BY <2>1, ShapeSplits, ShapeSplitsNext DEF Split
<1>3. ASSUME NEW u \in Units
      PROVE  /\ F(u) \in Seq(Packets) /\ rest(u) \in Seq(Packets)
             /\ fetchedPages(u) = F(u) \o rest(u) /\ fetchedPages(u)' = rest(u)
  <2> DEFINE a == FromPlane(u, s)
             b == Back(u)
             c == Held(u)
             r == Reading(u)
  <2>1. /\ a \in Seq(Packets) /\ b \in Seq(Packets) /\ c \in Seq(Packets)
        /\ r \in Seq(Packets) /\ fetchedPages(u) = ((a \o b) \o c) \o r
        BY StoreTypes, OpTypes
  <2>2. b' = b /\ c' = c /\ r' = r  BY <1>1 DEF Back, Held, Reading, Running
  <2>3. FromPlane(u, returnTransaction') = <<>>
    <3>1. FromPlane(u, <<>>) = Picked(<<>>, OfPlane(u))  BY NoReads, PlaneIsPicked
    <3>2. QED  BY <1>1, <3>1, PickedEmpty, Zenon
  <2>4. fetchedPages(u)' = ((FromPlane(u, returnTransaction') \o b') \o c') \o r'
        BY DEF fetchedPages, Back, Held, Reading
  <2> HIDE DEF a, b, c, r
  <2>5. b \o c \in Seq(Packets) /\ a \o b \in Seq(Packets)  BY <2>1, Joined, Zenon
  <2>6. (b \o c) \o r \in Seq(Packets) /\ (a \o b) \o c \in Seq(Packets)
        BY <2>1, <2>5, Joined, Zenon
  <2>7. Regroups(a, b, c) /\ Regroups(a, b \o c, r)  BY <2>1, <2>5, Regrouped, Zenon
  <2>8. ((a \o b) \o c) \o r = a \o ((b \o c) \o r)  BY <2>7, Zenon DEF Regroups
  <2>9. <<>> \o b = b  BY <2>1, ConcatEmptySeq
  <2>10. fetchedPages(u)' = (b \o c) \o r  BY <2>2, <2>3, <2>4, <2>9, Zenon
  <2>11. QED  BY <2>1, <2>6, <2>8, <2>10 DEF a, b, c, r
<1>4. /\ \A u \in Units : \A i \in 1 .. Len(F(u)) : F(u)[i].type = "READ" /\ UnitOf(F(u)[i]) = u
      /\ UNION {{Answer(F(u)[i]) : i \in 1 .. Len(F(u))} : u \in Units}
           = {Answer(s[i]) : i \in DOMAIN s}
      BY PlanesAnswer DEF StoreInv
<1>5. blocks' = [u \in Units |-> blocks[u]]  BY <1>1 DEF Shape, DiesInv, DiesTypeOK
<1> HIDE DEF F, rest
<1>6. \A u \in Units : taken[u] = F(u) /\ left[u] = rest(u)  OBVIOUS
<1> HIDE DEF taken, left, s
<1>7. UNION {{Answer(taken[u][i]) : i \in 1 .. Len(taken[u])} : u \in Units} = answers'
  <2>1. {{Answer(taken[u][i]) : i \in 1 .. Len(taken[u])} : u \in Units}
          = {{Answer(F(u)[i]) : i \in 1 .. Len(F(u))} : u \in Units}
        BY <1>6
  <2>2. QED  BY <1>1, <1>4, <2>1
<1>8. Effect({}, {}, {}, taken, left)  BY <1>2, <1>3, <1>4, <1>5, <1>6, <1>7 DEF Effect
<1>9. QED  BY <1>8, EffectMaps

-----------------------------------------------------------------------------
(* A die.  The writes that end are stored; a page on its way through the   *)
(* registers to the buffer keeps its place among the reads.                *)
LEMMA DiePending ==
    ASSUME Shape, Shape', StoreInv, NEW d \in Dies, DieUpdate(d), NEW u \in Units
    PROVE  /\ pendingOps(u)' = IF u \in Stored(d) THEN Tail(pendingOps(u)) ELSE pendingOps(u)
           /\ u \in Stored(d) => /\ pendingOps(u) # <<>>
                                 /\ Head(pendingOps(u)) = currentCommands[u]
                                 /\ currentCommands[u].type = "WRITE"
                                 /\ UnitOf(currentCommands[u]) = u
<1> DEFINE w == Writing(u)
           w2 == Writing(u)'
           x == Way(u)
<1>1. /\ currentCommands' = [v \in Units |-> CommandAfter(d, v)]
      /\ UNCHANGED <<readQueues, outgoing, pendingPackets>>
      BY DEF DieUpdate, EndCommands, controllerVars, sendVars
<1>2. currentCommands'[u] = CommandAfter(d, u)  BY <1>1
<1>3. OnTheirWay' = OnTheirWay  BY <1>1, WaySame DEF ControllerHas, OfDie
<1>4. /\ w \in Seq(Packets) /\ x \in Seq(Packets) /\ pendingOps(u) = w \o x
      /\ currentCommands[u] \in MaybePacket
      BY ShapeSplits DEF Split, Shape, DiesInv, DiesTypeOK
<1>5. pendingOps(u)' = w2 \o x
  <2>1. Way(u)' = x  BY <1>3 DEF Way
  <2>2. QED  BY <2>1, ShapeSplitsNext DEF Split
<1>6. CASE u \in Stored(d)
  <2>1. /\ On(d, u) /\ Expired(u) /\ currentCommands[u].type = "WRITE"
        /\ currentCommands[u] # NoPacket
        BY <1>6 DEF Stored, ExpiredIs, Expired
  <2>2. UnitOf(currentCommands[u]) = u  BY <2>1 DEF StoreInv, CommandsKept
  <2>3. currentCommands'[u] = NoPacket  BY <1>2, <2>1 DEF CommandAfter, Ends
  <2> DEFINE e == currentCommands[u]
  <2>4. w = <<e>> /\ w2 = <<>> /\ e \in Packets
        BY <1>4, <2>1, <2>3 DEF Writing, Running, If, MaybePacket
  <2> HIDE DEF w, w2, x, e
  <2>5. <<e>> \o x # <<>> /\ Head(<<e>> \o x) = e /\ Tail(<<e>> \o x) = x
        BY <1>4, <2>4, HeadOfConcat
  <2>6. <<>> \o x = x  BY <1>4, ConcatEmptySeq
  <2>7. QED  BY <1>4, <1>5, <1>6, <2>1, <2>2, <2>4, <2>5, <2>6 DEF e
<1>7. CASE u \notin Stored(d)
  <2>1. ~(On(d, u) /\ ExpiredIs(u, "WRITE"))  BY <1>7 DEF Stored
  <2>2. w2 = w
        BY <1>2, <2>1 DEF Writing, Running, If, CommandAfter, Ends, ExpiredIs
  <2>3. QED  BY <1>4, <1>5, <1>7, <2>2
<1>8. QED  BY <1>6, <1>7

LEMMA DiePages ==
    ASSUME Shape, Shape', RegisterInv, StoreInv, NEW d \in Dies, DieUpdate(d), NEW u \in Units
    PROVE  Back(u)' \o Held(u)' = (Back(u) \o Held(u)) \o If(On(d, u) /\ Fetches(u), dataReg[u])
<1> DEFINE f == If(On(d, u) /\ Fetches(u), dataReg[u])
           T == OfPlane(u)
           t == ToReturn(d)
           p == pendingDataPackets[d]
           b == Back(u)
           c == Held(u)
           b2 == Back(u)'
           c2 == Held(u)'
<1>1. /\ u[1] \in Dies /\ returnDataPackets \in [Dies -> Seq(Packets)]
      /\ pendingDataPackets \in [Dies -> Seq(Packets)]
      /\ p \in Seq(Packets) /\ t \in Seq(Packets) /\ Fetched(d) \in Seq(Packets)
      BY UnitTypes, ToReturnType DEF Shape, ReturnTypes, DiesInv, DiesTypeOK
<1>2. /\ b \in Seq(Packets) /\ c \in Seq(Packets)
      /\ b = Picked(pendingDataPackets[u[1]], T) /\ c = Picked(returnDataPackets[u[1]], T)
      BY ShapeSplits DEF Split
<1>3. b2 = Picked(pendingDataPackets'[u[1]], T) /\ c2 = Picked(returnDataPackets'[u[1]], T)
      BY ShapeSplitsNext DEF Split
<1>4. f \in Seq(Packets)  BY DieReading, StoreInvDies DEF DieUpdate
<1>5. \/ /\ returnDataPackets' = [returnDataPackets EXCEPT ![d] = t]
         /\ pendingDataPackets' = pendingDataPackets
      \/ /\ t # <<>> /\ returnDataPackets' = [returnDataPackets EXCEPT ![d] = Tail(t)]
         /\ pendingDataPackets' = [pendingDataPackets EXCEPT ![d] = Append(p, Head(t))]
      BY DieReturns
<1>6. CASE u[1] = d
  <2>1. Picked(t, T) = c \o f
    <3> DEFINE e == returnDataPackets[d]
               g == Fetched(d)
    <3>1. e \in Seq(Packets) /\ g \in Seq(Packets) /\ t = e \o g  BY <1>1 DEF ToReturn
    <3>2. Picked(g, T) = f
      <4>1. FromPlane(u, Fetched(d)) = f  BY FetchedOf, StoreInvDies
      <4>2. QED  BY <1>1, <4>1, PlaneIsPicked
    <3>3. Picked(e, T) = c  BY <1>2, <1>6
    <3> HIDE DEF t, e, g, T, c, f
    <3>4. PicksJoined(e, g, T)  BY <3>1, PickedJoined, Zenon
    <3>5. QED  BY <3>1, <3>2, <3>3, <3>4, Zenon DEF PicksJoined
  <2>2. b2 \o c2 = b \o Picked(t, T)
    <3>1. CASE /\ returnDataPackets' = [returnDataPackets EXCEPT ![d] = t]
               /\ pendingDataPackets' = pendingDataPackets
      <4>1. returnDataPackets'[u[1]] = t  BY <1>1, <1>6, <3>1
      <4>2. QED  BY <1>2, <1>3, <3>1, <4>1
    <3>2. CASE /\ t # <<>> /\ returnDataPackets' = [returnDataPackets EXCEPT ![d] = Tail(t)]
               /\ pendingDataPackets' = [pendingDataPackets EXCEPT ![d] = Append(p, Head(t))]
      <4>1. returnDataPackets'[u[1]] = Tail(t) /\ pendingDataPackets'[u[1]] = Append(p, Head(t))
            BY <1>1, <1>6, <3>2
      <4>2. b = Picked(p, T)  BY <1>2, <1>6
      <4>3. p \in Seq(Packets) /\ t \in Seq(Packets) /\ t # <<>>  BY <1>1, <3>2
      <4> HIDE DEF p, t, T, b, b2, c2
      <4>4. Picked(Append(p, Head(t)), T) \o Picked(Tail(t), T) = Picked(p, T) \o Picked(t, T)
            BY <4>3, PickedMoves
      <4>5. QED  BY <1>3, <4>1, <4>2, <4>4, Zenon
    <3>3. QED  BY <1>5, <3>1, <3>2
  <2> HIDE DEF b, c, f, b2, c2, t, T
  <2>3. Regroups(b, c, f)  BY <1>2, <1>4, Regrouped, Zenon
  <2>4. b2 \o c2 = (b \o c) \o f  BY <2>1, <2>2, <2>3, Zenon DEF Regroups
  <2>5. QED  BY <2>4, Zenon DEF b, c, f, b2, c2
<1>7. CASE u[1] # d
  <2>1. f = <<>>  BY <1>7 DEF On, If
  <2>2. /\ returnDataPackets'[u[1]] = returnDataPackets[u[1]]
        /\ pendingDataPackets'[u[1]] = pendingDataPackets[u[1]]
        BY <1>1, <1>5, <1>7
  <2>3. b2 = b /\ c2 = c  BY <1>2, <1>3, <2>2
  <2> HIDE DEF b, c, f, b2, c2
  <2>4. b \o c \in Seq(Packets)  BY <1>2, Joined, Zenon
  <2>5. (b \o c) \o <<>> = b \o c  BY <2>4, ConcatEmptySeq
  <2>6. b2 \o c2 = (b \o c) \o f  BY <2>1, <2>3, <2>5, Zenon
  <2>7. QED  BY <2>6, Zenon DEF b, c, f, b2, c2
<1>8. QED  BY <1>6, <1>7

LEMMA DieUpdateMaps ==
    ASSUME Shape, Shape', RegisterInv, StoreInv, NEW d \in Dies, DieUpdate(d)
    PROVE  Store!Next
<1> DEFINE W == Stored(d)
<1>1. ASSUME NEW u \in Units  PROVE fetchedPages(u)' = fetchedPages(u)
  <2> DEFINE a == FromPlane(u, returnTransaction)
             b == Back(u)
             c == Held(u)
             r == Reading(u)
             f == If(On(d, u) /\ Fetches(u), dataReg[u])
             b2 == Back(u)'
             c2 == Held(u)'
             r2 == Reading(u)'
  <2>1. /\ a \in Seq(Packets) /\ b \in Seq(Packets) /\ c \in Seq(Packets)
        /\ fetchedPages(u) = ((a \o b) \o c) \o r
        BY StoreTypes, OpTypes
  <2>2. f \in Seq(Packets) /\ r2 \in Seq(Packets) /\ r = f \o r2
        BY DieReading, StoreInvDies DEF DieUpdate, Reading
  <2>3. b2 \in Seq(Packets) /\ c2 \in Seq(Packets)  BY ShapeSplitsNext DEF Split
  <2>4. b2 \o c2 = (b \o c) \o f  BY DiePages
  <2>5. fetchedPages(u)' = ((a \o b2) \o c2) \o r2
    <3>1. FromPlane(u, returnTransaction)' = a  BY DieReturns
    <3>2. QED  BY <3>1 DEF fetchedPages, Back, Held, Reading
  <2> HIDE DEF a, b, c, r, f, b2, c2, r2
  <2> DEFINE z == b \o c
             y == b2 \o c2
  <2>6. z \in Seq(Packets) /\ y \in Seq(Packets)  BY <2>1, <2>3, Joined, Zenon
  <2>7. /\ Regroups(a, b, c) /\ Regroups(a, b2, c2)  BY <2>1, <2>3, Regrouped, Zenon
  <2>8. (a \o b) \o c = a \o z /\ (a \o b2) \o c2 = a \o y
        BY <2>7, Zenon DEF Regroups
  <2>9. y = z \o f  BY <2>4
  <2> HIDE DEF z, y
  <2>10. /\ Regroups(a, z, r) /\ Regroups(a, y, r2) /\ Regroups(z, f, r2)
    <3>1. r \in Seq(Packets)  BY <2>2, Joined, Zenon
    <3>2. QED  BY <2>1, <2>2, <2>6, <3>1, Regrouped, Zenon
  <2>11. (a \o z) \o r = a \o (z \o r) /\ (a \o y) \o r2 = a \o (y \o r2)
         /\ (z \o f) \o r2 = z \o (f \o r2)
         BY <2>10, Zenon DEF Regroups
  <2>12. QED  BY <2>1, <2>2, <2>5, <2>8, <2>9, <2>11, Zenon
<1>2. answers' = {Answer(Head(pendingOps(u))) : u \in W}
  <2>1. answers' = {Answer(currentCommands[u]) : u \in W}
        BY DEF DieUpdate, EndCommands, Stored
  <2>2. \A u \in W : Head(pendingOps(u)) = currentCommands[u]
        BY DiePending DEF Stored
  <2> HIDE DEF W
  <2>3. QED  BY <2>1, <2>2
<1>3. blocks' = [u \in Units |->
         IF u \in W
         THEN [blocks[u] EXCEPT ![Head(pendingOps(u)).page] = Head(pendingOps(u)).data]
         ELSE blocks[u]]
  <2>1. blocks' = [u \in Units |-> BlockAfter(d, u)]  BY DEF DieUpdate, EndCommands
  <2>2. \A u \in Units : BlockAfter(d, u) =
           IF u \in W
           THEN [blocks[u] EXCEPT ![Head(pendingOps(u)).page] = Head(pendingOps(u)).data]
           ELSE blocks[u]
        BY DiePending, DieBlocks, StoreInvDies
  <2> HIDE DEF W
  <2>3. QED  BY <2>1, <2>2
<1>4. ASSUME NEW u \in Units
      PROVE  /\ pendingOps(u)' = IF u \in W THEN Tail(pendingOps(u)) ELSE pendingOps(u)
             /\ u \in W => /\ pendingOps(u) # <<>>
                           /\ Head(pendingOps(u)).type = "WRITE"
                           /\ UnitOf(Head(pendingOps(u))) = u
      BY DiePending
<1>5. W \in SUBSET Units  BY DEF Stored
<1> HIDE DEF W
<1>6. Effect({}, W, {}, NoneTaken, AllRest)
      BY <1>1, <1>2, <1>3, <1>4, NoneAnswered DEF Effect
<1>7. QED  BY <1>5, <1>6, EffectMaps

-----------------------------------------------------------------------------
(* The buffer.  A page on its way to the controller keeps its place among  *)
(* the reads; the packet that reaches its die is the first one of its      *)
(* plane.                                                                  *)
LEMMA BackPages ==
    ASSUME Shape, Shape', StoreInv, NEW d \in Dies, BufferUpdate(d), NEW u \in Units
    PROVE  FromPlane(u, returnTransaction)' \o Back(u)'
             = FromPlane(u, returnTransaction) \o Back(u)
<1> DEFINE s == returnTransaction
           t == pendingDataPackets[d]
           T == OfPlane(u)
           a == FromPlane(u, returnTransaction)
           b == Back(u)
           a2 == FromPlane(u, returnTransaction)'
           b2 == Back(u)'
<1>1. /\ u[1] \in Dies /\ pendingDataPackets \in [Dies -> Seq(Packets)]
      /\ s \in Seq(Packets) /\ t \in Seq(Packets)
      BY UnitTypes DEF Shape, ReturnTypes, DiesInv, DiesTypeOK
<1>2. a = Picked(s, T) /\ b = Picked(pendingDataPackets[u[1]], T)
      BY ShapeSplits DEF Split
<1>3. a2 = Picked(s', T) /\ b2 = Picked(pendingDataPackets'[u[1]], T)
      BY ShapeSplitsNext DEF Split
<1>4. CASE UNCHANGED <<returnTransaction, pendingDataPackets>>
      BY <1>2, <1>3, <1>4
<1>5. CASE /\ t # <<>> /\ s' = Append(s, Head(t))
           /\ pendingDataPackets' = [pendingDataPackets EXCEPT ![d] = Tail(@)]
  <2>0. t # <<>>  BY <1>5
  <2>1. CASE u[1] = d
    <3>1. pendingDataPackets'[u[1]] = Tail(t) /\ pendingDataPackets[u[1]] = t
          BY <1>1, <1>5, <2>1
    <3> HIDE DEF s, t, T, a, b, a2, b2
    <3>2. Picked(Append(s, Head(t)), T) \o Picked(Tail(t), T) = Picked(s, T) \o Picked(t, T)
          BY <1>1, <2>0, PickedMoves
    <3>3. a2 \o b2 = a \o b  BY <1>2, <1>3, <1>5, <3>1, <3>2, Zenon
    <3>4. QED  BY <3>3, Zenon DEF a, b, a2, b2
  <2>2. CASE u[1] # d
    <3>1. pendingDataPackets'[u[1]] = pendingDataPackets[u[1]]
          BY <1>1, <1>5, <2>2
    <3>2. Head(t) \notin T
      <4>1. t \in Seq(ReadsFrom(d))  BY DEF StoreInv
      <4> HIDE DEF t
      <4>2. Head(t) \in ReadsFrom(d)  BY <2>0, <4>1, HeadTailProperties
      <4>3. Head(t).die = d  BY <4>2 DEF ReadsFrom
      <4>4. UnitOf(Head(t))[1] = d  BY <4>3 DEF UnitOf
      <4>5. QED  BY <2>2, <4>4 DEF OfPlane
    <3> HIDE DEF s, t, T, a, b, a2, b2
    <3>3. Picked(Append(s, Head(t)), T) = Picked(s, T)
          BY <1>1, <2>0, <3>2, PickedMoves
    <3>4. a2 \o b2 = a \o b  BY <1>2, <1>3, <1>5, <3>1, <3>3, Zenon
    <3>5. QED  BY <3>4, Zenon DEF a, b, a2, b2
  <2>3. QED  BY <2>1, <2>2
<1>6. QED  BY <1>4, <1>5, BufferReturns

(* The reads of a plane that have run.                                     *)
PagesOut(u) == (FromPlane(u, returnTransaction) \o Back(u)) \o Held(u)

LEMMA BufferPages ==
    ASSUME Shape, Shape', StoreInv, NEW d \in Dies, BufferUpdate(d), NEW u \in Units
    PROVE  /\ PagesOut(u) \in Seq(Packets) /\ fetchedPages(u) = PagesOut(u) \o Reading(u)
           /\ fetchedPages(u)' = PagesOut(u) \o Reading(u)'
<1> DEFINE a == FromPlane(u, returnTransaction)
           b == Back(u)
           c == Held(u)
           a2 == FromPlane(u, returnTransaction)'
           b2 == Back(u)'
           c2 == Held(u)'
           r2 == Reading(u)'
<1>1. /\ a \in Seq(Packets) /\ b \in Seq(Packets) /\ c \in Seq(Packets)
      BY ShapeSplits DEF Split
<1>2. PagesOut(u) \in Seq(Packets)
  <2> HIDE DEF a, b, c
  <2>1. a \o b \in Seq(Packets)  BY <1>1, Joined, Zenon
  <2>2. (a \o b) \o c \in Seq(Packets)  BY <1>1, <2>1, Joined, Zenon
  <2>3. QED  BY <2>2 DEF PagesOut, a, b, c
<1>3. fetchedPages(u) = PagesOut(u) \o Reading(u)  BY OpTypes DEF PagesOut
<1>4. c2 = c  BY DEF BufferUpdate, Held
<1>5. a2 \o b2 = a \o b  BY BackPages
<1>6. fetchedPages(u)' = ((a2 \o b2) \o c2) \o r2
      BY DEF fetchedPages, Back, Held, Reading
<1> HIDE DEF a, b, c, a2, b2, c2, r2
<1>7. fetchedPages(u)' = ((a \o b) \o c) \o r2  BY <1>4, <1>5, <1>6, Zenon
<1>8. QED  BY <1>2, <1>3, <1>7 DEF PagesOut, a, b, c, r2

LEMMA WayTaken ==
    ASSUME Shape, InInv, RegisterInv, NEW d \in Dies, BufferUpdate(d), InputArrives(d),
           NEW u \in Units, NEW out, out = Head(OnTheirWay[d])
    PROVE  /\ out \in Packets /\ Way(u)' \in Seq(Packets)
           /\ Way(u) = If(CommandOf(u, out), out) \o Way(u)'
<1> DEFINE q == OnTheirWay[d]
           T == CommandsFor(u)
           later == OnTheirWay'
<1>1. /\ u[1] \in Dies /\ OnTheirWay \in [Dies -> Seq(Packets)] /\ q # <<>> /\ out \in Packets
      /\ later = [OnTheirWay EXCEPT ![d] = Tail(q)] /\ later \in [Dies -> Seq(Packets)]
      BY UnitTypes, WayTypes, WayArrives
<1>2. Way(u)' = Picked(later[u[1]], T) /\ Way(u) = Picked(OnTheirWay[u[1]], T)
      BY DEF Way
<1>3. out.die = d
  <2>1. QueuesSound(OnTheirWay)  BY DEF RegisterInv, PacketsSound
  <2>2. QED  BY <1>1, <2>1, HeadSound
<1>4. If(out \in T, out) = If(CommandOf(u, out), out)  BY <1>1 DEF CommandsFor, If
<1> HIDE DEF later
<1>5. later[u[1]] \in Seq(Packets)  BY <1>1
<1>6. Picked(later[u[1]], T) \in Seq(Packets)  BY <1>5, PickedType
<1>7. CASE u[1] = d
  <2>1. later[u[1]] = Tail(q) /\ OnTheirWay[u[1]] = q /\ q \in Seq(Packets)  BY <1>1, <1>7
  <2>2. q # <<>> /\ out = Head(q)  BY <1>1
  <2> HIDE DEF q, T
  <2>3. Picked(q, T) = If(Head(q) \in T, Head(q)) \o Picked(Tail(q), T)
        BY <2>1, <2>2, PickedHead
  <2>4. QED  BY <1>1, <1>2, <1>4, <1>6, <2>1, <2>2, <2>3, Zenon
<1>8. CASE u[1] # d
  <2>1. later[u[1]] = OnTheirWay[u[1]]  BY <1>1, <1>8
  <2>2. ~CommandOf(u, out)  BY <1>3, <1>8 DEF CommandOf, UnitOf
  <2>3. If(CommandOf(u, out), out) = <<>>  BY <2>2 DEF If
  <2> DEFINE x == Picked(later[u[1]], T)
  <2>4. x \in Seq(Packets)  BY <1>6
  <2> HIDE DEF x
  <2>5. <<>> \o x = x  BY <2>4, ConcatEmptySeq
  <2>6. QED  BY <1>1, <1>2, <1>6, <2>1, <2>3, <2>5 DEF x
<1>9. QED  BY <1>7, <1>8

LEMMA ArrivalMaps ==
    ASSUME Shape, Shape', InInv, RegisterInv, StoreInv, NEW d \in Dies, BufferUpdate(d),
           InputArrives(d), NEW out, out = Head(OnTheirWay[d]), NEW result,
           CommandArrived(out, result)
    PROVE  Store!Next
<1> DEFINE v == UnitOf(out)
           F == IF out.type = "READ" THEN {v} ELSE {}
           E == IF out.type = "ERASE" THEN {v} ELSE {}
<1>0. out \in Packets  BY WayArrives
<1>1. /\ v \in Units /\ out # NoPacket /\ result \in Packets /\ result # NoPacket
      /\ currentCommands[v] = NoPacket
      /\ currentCommands' = [currentCommands EXCEPT ![v] = result]
      /\ currentCommands \in [Units -> MaybePacket]
      /\ blocks \in [Units -> [PageNums -> Data \cup {NoData}]]
      BY <1>0, PacketTypes DEF CommandArrived, Shape, DiesInv, DiesTypeOK
<1>2. answers' = {}  BY DEF BufferUpdate
<1>3. \/ /\ out.type = "READ" /\ result.type = "READ" /\ result.page = out.page
         /\ result.data = blocks[v][out.page] /\ blocks' = blocks
      \/ out.type = "WRITE" /\ result = out /\ blocks' = blocks
      \/ /\ out.type = "ERASE" /\ result = out
         /\ blocks' = [blocks EXCEPT ![v] = [p \in PageNums |-> NoData]]
      BY DEF CommandArrived
<1>4. ASSUME NEW u \in Units \ {v}
      PROVE  pendingOps(u)' = pendingOps(u) /\ fetchedPages(u)' = AllRest[u]
  <2>1. currentCommands'[u] = currentCommands[u]  BY <1>1
  <2>2. Writing(u)' = Writing(u) /\ Reading(u)' = Reading(u)
        BY <2>1 DEF Writing, Reading, If, Running
  <2>3. fetchedPages(u)' = fetchedPages(u)  BY <2>2, BufferPages
  <2>4. Way(u) = <<>> \o Way(u)' /\ Way(u)' \in Seq(Packets)
        BY WayTaken DEF CommandOf, If
  <2>5. Way(u)' = Way(u)
    <3> DEFINE x == Way(u)'
    <3>1. x \in Seq(Packets) /\ Way(u) = <<>> \o x  BY <2>4
    <3> HIDE DEF x
    <3>2. <<>> \o x = x  BY <3>1, ConcatEmptySeq
    <3>3. x = Way(u)  BY <3>1, <3>2
    <3>4. QED  BY <3>3 DEF x
  <2>6. pendingOps(u)' = Writing(u)' \o Way(u)' /\ pendingOps(u) = Writing(u) \o Way(u)
        BY ShapeSplits, ShapeSplitsNext DEF Split
  <2>7. AllRest[u] = fetchedPages(u)  BY DEF AllRest
  <2>8. pendingOps(u)' = pendingOps(u)  BY <2>2, <2>5, <2>6, Zenon
  <2>9. QED  BY <2>3, <2>7, <2>8, Zenon
<1>5. /\ pendingOps(v) # <<>> /\ Head(pendingOps(v)) = out
      /\ pendingOps(v)' = IF out.type = "WRITE" THEN pendingOps(v) ELSE Tail(pendingOps(v))
      /\ fetchedPages(v)' = IF out.type = "READ" THEN Append(AllRest[v], result)
                            ELSE AllRest[v]
  <2> DEFINE w == Writing(v)
             r == Reading(v)
             w2 == Writing(v)'
             r2 == Reading(v)'
             x == Way(v)'
             y == PagesOut(v)
  <2>0. currentCommands'[v] = result  BY <1>1
  <2>1. w = <<>> /\ r = <<>>  BY <1>1 DEF Writing, Reading, Running, If
  <2>2. /\ w2 = IF out.type = "WRITE" THEN <<out>> ELSE <<>>
        /\ r2 = IF out.type = "READ" THEN <<result>> ELSE <<>>
        BY <1>1, <1>3, <2>0 DEF Writing, Reading, Running, If
  <2>3. x \in Seq(Packets) /\ Way(v) = <<out>> \o x
    <3>1. CommandOf(v, out)  BY <1>3 DEF CommandOf
    <3>2. If(CommandOf(v, out), out) = <<out>>  BY <3>1 DEF If
    <3>3. QED  BY <1>1, <3>2, WayTaken
  <2>4. pendingOps(v) = w \o (<<out>> \o x) /\ pendingOps(v)' = w2 \o x
        BY <1>1, <2>3, ShapeSplits, ShapeSplitsNext DEF Split
  <2>5. y \in Seq(Packets) /\ fetchedPages(v) = y \o r /\ fetchedPages(v)' = y \o r2
        BY <1>1, BufferPages
  <2>6. AllRest[v] = fetchedPages(v)  BY <1>1 DEF AllRest
  <2> HIDE DEF w, r, w2, r2, x, y, v
  <2>7. /\ <<out>> \o x # <<>> /\ Head(<<out>> \o x) = out
        /\ Tail(<<out>> \o x) = x /\ <<out>> \o x \in Seq(Packets)
        BY <1>0, <2>3, HeadOfConcat
  <2>8. /\ <<>> \o (<<out>> \o x) = <<out>> \o x /\ <<>> \o x = x /\ y \o <<>> = y
        BY <2>3, <2>5, <2>7, ConcatEmptySeq
  <2>9. Append(y, result) = y \o <<result>>  BY <1>1, <2>5, AppendIsConcat
  <2>10. pendingOps(v) = <<out>> \o x  BY <2>1, <2>4, <2>8, Zenon
  <2>11. pendingOps(v)' = IF out.type = "WRITE" THEN <<out>> \o x ELSE x
         BY <2>2, <2>4, <2>8
  <2>12. AllRest[v] = y  BY <2>1, <2>5, <2>6, <2>8, Zenon
  <2>13. fetchedPages(v)' = IF out.type = "READ" THEN Append(y, result) ELSE y
         BY <2>2, <2>5, <2>8, <2>9
  <2>14. QED  BY <2>7, <2>10, <2>11, <2>12, <2>13
<1>6. F \in SUBSET Units /\ E \in SUBSET Units  BY <1>1
<1>7. blocks' = [u \in Units |-> IF u \in E THEN [p \in PageNums |-> NoData] ELSE blocks[u]]
      BY <1>1, <1>3
<1>8. Effect(F, {}, E, NoneTaken, AllRest)
  <2>1. ASSUME NEW u \in Units
        PROVE  /\ u \in F \cup {} \cup E =>
                    /\ pendingOps(u) # <<>>
                    /\ u \in F => Head(pendingOps(u)).type = "READ"
                    /\ u \in E => Head(pendingOps(u)).type = "ERASE"
                    /\ UnitOf(Head(pendingOps(u))) = u
               /\ pendingOps(u)' = IF u \in F \cup {} \cup E THEN Tail(pendingOps(u))
                                   ELSE pendingOps(u)
    <3>1. CASE u = v
      <4>1. pendingOps(u) # <<>> /\ Head(pendingOps(u)) = out  BY <1>5, <3>1
      <4>2. UnitOf(out) = u  BY <3>1
      <4>3. u \in F <=> out.type = "READ"  BY <3>1
      <4>4. u \in E <=> out.type = "ERASE"  BY <3>1
      <4>5. pendingOps(u)' = IF out.type = "WRITE" THEN pendingOps(u)
                             ELSE Tail(pendingOps(u))
            BY <1>5, <3>1
      <4> HIDE DEF F, E, v
      <4>6. QED  BY <1>3, <4>1, <4>2, <4>3, <4>4, <4>5
    <3>2. CASE u # v
      <4>1. u \notin F /\ u \notin E  BY <3>2
      <4>2. u \in Units \ {v}  BY <3>2
      <4>3. pendingOps(u)' = pendingOps(u)  BY <1>4, <4>2
      <4> HIDE DEF F, E, v
      <4>4. QED  BY <4>1, <4>3
    <3>3. QED  BY <3>1, <3>2
  <2>2. ASSUME NEW u \in Units, u \notin F
        PROVE  fetchedPages(u)' = AllRest[u]
    <3>1. CASE u = v
      <4>1. out.type # "READ"  BY <2>2, <3>1
      <4>2. QED  BY <1>5, <3>1, <4>1
    <3>2. CASE u # v
      <4>1. u \in Units \ {v}  BY <3>2
      <4>2. QED  BY <1>4, <4>1
    <3>3. QED  BY <3>1, <3>2
  <2>3. ASSUME NEW u \in F
        PROVE  \E pkt \in Packets :
                  /\ pkt.page = Head(pendingOps(u)).page
                  /\ pkt.data = blocks[u][Head(pendingOps(u)).page]
                  /\ fetchedPages(u)' = Append(AllRest[u], pkt)
    <3>1. u = v /\ out.type = "READ"  OBVIOUS
    <3>2. Head(pendingOps(u)) = out  BY <1>5, <3>1
    <3>3. fetchedPages(u)' = Append(AllRest[u], result)  BY <1>5, <3>1
    <3>4. result.page = out.page /\ result.data = blocks[u][out.page]  BY <1>3, <3>1
    <3>5. QED  BY <1>1, <3>2, <3>3, <3>4
  <2> HIDE DEF F, E
  <2>4. \A u \in Units :
          /\ NoneTaken[u] \in Seq(Packets) /\ AllRest[u] \in Seq(Packets)
          /\ fetchedPages(u) = NoneTaken[u] \o AllRest[u]
          /\ \A i \in 1 .. Len(NoneTaken[u]) :
               NoneTaken[u][i].type = "READ" /\ UnitOf(NoneTaken[u][i]) = u
        BY NoneAnswered
  <2>5. answers' = (UNION {{Answer(NoneTaken[u][i]) : i \in 1 .. Len(NoneTaken[u])} : u \in Units})
                     \cup {Answer(Head(pendingOps(u))) : u \in {}}
        BY <1>2, NoneAnswered
  <2>6. QED  BY <1>7, <2>1, <2>2, <2>3, <2>4, <2>5 DEF Effect
<1>9. {} \in SUBSET Units  OBVIOUS
<1> HIDE DEF F, E
<1>10. QED  BY <1>6, <1>8, <1>9, EffectMaps

LEMMA BufferUpdateMaps ==
    ASSUME Shape, Shape', InInv, RegisterInv, StoreInv, NEW d \in Dies, BufferUpdate(d)
    PROVE  Store!Next
<1>1. TowardsDie(d) /\ UNCHANGED <<readQueues, outgoing>> /\ answers' = {}
      BY DEF BufferUpdate, controllerVars
<1>2. ASSUME UNCHANGED <<currentCommands, blocks>>,
             \A u \in Units : Way(u)' = Way(u)
      PROVE  Store!Next
  <2>1. ASSUME NEW u \in Units
        PROVE  pendingOps(u)' = pendingOps(u) /\ fetchedPages(u)' = fetchedPages(u)
    <3>1. Writing(u)' = Writing(u) /\ Reading(u)' = Reading(u)
          BY <1>2 DEF Writing, Reading, Running
    <3>2. pendingOps(u)' = Writing(u)' \o Way(u)' /\ pendingOps(u) = Writing(u) \o Way(u)
          BY ShapeSplits, ShapeSplitsNext DEF Split
    <3>3. pendingOps(u)' = pendingOps(u)  BY <1>2, <3>1, <3>2
    <3>4. QED  BY <3>1, <3>3, BufferPages
  <2>2. QED  BY <1>1, <1>2, <2>1, NothingMaps
<1>3. CASE InputIdle \/ InputStays(d)
  <2>1. UNCHANGED <<pendingPackets, currentCommands, blocks>>
        BY <1>3 DEF InputIdle, InputStays, commandVars, planeVars
  <2>2. OnTheirWay' = OnTheirWay  BY <1>1, <2>1, WaySame DEF ControllerHas, OfDie
  <2>3. \A u \in Units : Way(u)' = Way(u)  BY <2>2 DEF Way
  <2>4. QED  BY <1>2, <2>1, <2>3
<1>4. CASE InputArrives(d)
  <2> DEFINE out == Head(OnTheirWay[d])
             later == OnTheirWay'
  <2>1. /\ out \in Packets /\ receiveFromBuffer(out)
        /\ PacketsSound(later, out, currentCommands, cacheReg)
        BY <1>4, WayArrives
  <2>2. DiesInv /\ RegistersSound(currentCommands, dataReg)
        BY DEF Shape, RegisterInv
  <2>3. out = Head(OnTheirWay[d])  OBVIOUS
  <2> HIDE DEF out, later
  <2>4. \/ out.type = "DATA" /\ UNCHANGED <<currentCommands, blocks>>
        \/ \E result : CommandArrived(out, result)
        BY <2>1, <2>2, ArriveChanges
  <2>5. CASE out.type = "DATA" /\ UNCHANGED <<currentCommands, blocks>>
    <3>1. ASSUME NEW u \in Units  PROVE Way(u)' = Way(u)
      <4> DEFINE x == Way(u)'
      <4>1. x \in Seq(Packets) /\ Way(u) = <<>> \o x
        <5>1. If(CommandOf(u, out), out) = <<>>  BY <2>5 DEF CommandOf, If
        <5>2. QED  BY <1>4, <2>3, <5>1, WayTaken
      <4> HIDE DEF x
      <4>2. <<>> \o x = x  BY <4>1, ConcatEmptySeq
      <4>3. x = Way(u)  BY <4>1, <4>2
      <4>4. QED  BY <4>3 DEF x
    <3>2. QED  BY <1>2, <2>5, <3>1
  <2>6. ASSUME NEW result, CommandArrived(out, result)  PROVE Store!Next
        BY <1>4, <2>3, <2>6, ArrivalMaps
  <2>7. QED  BY <2>4, <2>5, <2>6
<1>5. QED  BY <1>1, <1>3, <1>4, InputCases

LEMMA InitMaps == Init => Store!Init
<1> SUFFICES ASSUME Init PROVE Store!Init  OBVIOUS
<1>1. ASSUME NEW u \in Units
      PROVE  pendingOps(u) = <<>> /\ fetchedPages(u) = <<>>
  <2>1. /\ u[1] \in Dies /\ readQueues[u[1]] = <<>> /\ returnDataPackets[u[1]] = <<>>
        /\ pendingPackets = <<>> /\ pendingDataPackets[u[1]] = <<>>
        /\ returnTransaction = <<>> /\ outgoing = NoPacket /\ currentCommands[u] = NoPacket
        BY UnitTypes DEF Init, DiesInit
  <2>2. <<>> \in Seq(Packets)  BY EmptySeq
  <2>3. FromPlane(u, <<>>) = <<>> /\ CommandsOf(u, <<>>) = <<>>
        BY <2>2, PlaneIsPicked, PickedEmpty
  <2>4. OnTheWay(u) = <<>> /\ \A type : If(Running(u, type), currentCommands[u]) = <<>>
        BY <2>1 DEF OnTheWay, Running, If
  <2>5. <<>> \o <<>> = <<>>  BY <2>2, ConcatEmptySeq
  <2>6. QED  BY <2>1, <2>3, <2>4, <2>5 DEF pendingOps, fetchedPages
<1>2. \A u \in Units : Map(Op, pendingOps(u)) = <<>> /\ Map(Page, fetchedPages(u)) = <<>>
  <2>1. DOMAIN <<>> = {}
        BY EmptySeq, LenProperties
  <2>2. Map(Op, <<>>) = <<>> /\ Map(Page, <<>>) = <<>>  BY <2>1 DEF Map
  <2>3. QED  BY <1>1, <2>2
<1>3. blocks = [u \in Units |-> [p \in PageNums |-> NoData]] /\ answers = {}
      BY DEF Init, DiesInit
<1> HIDE DEF Map
<1>4. QED  BY <1>2, <1>3 DEF Store!Init, Store!Erased

LEMMA StoreNext ==
    ASSUME HostCommands, Shape, Shape', InInv, RegisterInv, StoreInv, [Next]_vars
    PROVE  [Store!Next]_(Store!vars)
<1>1. CASE FtlUpdate  BY <1>1, FtlUpdateMaps
<1>2. CASE ControllerUpdate  BY <1>2, ControllerUpdateMaps
<1>3. CASE ChannelUpdate  BY <1>3, ChannelUpdateMaps
<1>4. ASSUME NEW d \in Dies, BufferUpdate(d) PROVE Store!Next  BY <1>4, BufferUpdateMaps
<1>5. ASSUME NEW d \in Dies, DieUpdate(d) PROVE Store!Next  BY <1>5, DieUpdateMaps
<1>6. CASE UNCHANGED vars
  <2>1. UNCHANGED <<readQueues, outgoing, pendingPackets, currentCommands, returnTransaction,
                    pendingDataPackets, returnDataPackets, blocks, answers>>
        BY <1>6 DEF vars, diesVars, controllerVars, commandVars, planeVars, sendVars, returnVars
  <2>2. \A u \in Units : /\ pendingOps(u)' = pendingOps(u)
                         /\ fetchedPages(u)' = fetchedPages(u)
        BY <2>1 DEF pendingOps, fetchedPages, Running, OnTheWay
  <2>3. UNCHANGED Store!vars
    <3>1. [u \in Units |-> Map(Op, pendingOps(u))]' = [u \in Units |-> Map(Op, pendingOps(u))]
          BY <2>2
    <3>2. [u \in Units |-> Map(Page, fetchedPages(u))]'
            = [u \in Units |-> Map(Page, fetchedPages(u))]
          BY <2>2
    <3>3. QED  BY <2>1, <3>1, <3>2 DEF Store!vars
  <2>4. QED  BY <2>3
<1>7. QED  BY <1>1, <1>2, <1>3, <1>4, <1>5, <1>6 DEF Next

(* With the buffer, too, a package is a store of planes: though a packet   *)
(* goes to its die in pieces, waits for room and for registers, and is     *)
(* known to the buffer only by its bits, and though pages come back the    *)
(* same way, the commands of a plane take effect in their order, a read is *)
(* answered with the page as the commands before it left it, and every     *)
(* answer is that of exactly one command.                                  *)
THEOREM BufferedIsStore == HostCommands /\ ~GARBAGE_COLLECT => (Spec => ImplementsStore)
<1> SUFFICES ASSUME HostCommands, ~GARBAGE_COLLECT  PROVE Spec => ImplementsStore
    OBVIOUS
<1>1. InAll /\ RegisterInv /\ StoreInv /\ [Next]_vars => InAll' /\ RegisterInv' /\ StoreInv'
      BY InAllNext, RegisterNext, StoreInvNext DEF InAll
<1>2. /\ InAll /\ RegisterInv /\ StoreInv
      /\ InAll' /\ [Next]_vars
      => [Store!Next]_(Store!vars)
      BY StoreNext DEF InAll
<1>3. QED  BY <1>1, <1>2, InAllInit, RegisterInit, StoreInvInit, InitMaps,
              PTL DEF Spec, ImplementsStore, Store!Spec
=============================================================================
