--------------------------- MODULE FrontBufferProofs ---------------------------
(***************************************************************************)
(* Proofs about FrontBuffer, for every set of addresses, every width and   *)
(* size, with and without a request and a command channel.                 *)
(*                                                                         *)
(* Command and data of a transaction are matched by address.  That this is *)
(* right rests on FrontInv: of the two pending lists one is empty, so what *)
(* arrives is the other half of the first part that waits.  The lemma      *)
(* Arrival is the whole argument; the rest shows that every update of a    *)
(* channel is such an arrival or moves nothing.  The last part has the     *)
(* refinement of HostChannel.                                              *)
(***************************************************************************)
EXTENDS FrontBuffer, CountingFacts

-----------------------------------------------------------------------------
(* Facts about sequences.                                                  *)

LEMMA Regroup ==
    ASSUME NEW s \in Seq(Transactions), NEW t \in Seq(Transactions),
           NEW u \in Seq(Transactions)
    PROVE  (s \o t) \o u = s \o (t \o u)
BY ConcatAssociative

LEMMA ConcatAppend ==
    ASSUME NEW s \in Seq(Transactions), NEW r \in Seq(Transactions), NEW t \in Transactions
    PROVE  s \o Append(r, t) = Append(s \o r, t)
<1>1. <<t>> \in Seq(Transactions) /\ s \o r \in Seq(Transactions)
  <2>1. <<>> \in Seq(Transactions)  BY EmptySeq
  <2>2. <<t>> = Append(<<>>, t)  OBVIOUS
  <2>3. QED  BY <2>1, <2>2, AppendProperties, ConcatProperties
<1>2. Append(r, t) = r \o <<t>> /\ Append(s \o r, t) = (s \o r) \o <<t>>
      BY <1>1, AppendIsConcat
<1>3. (s \o r) \o <<t>> = s \o (r \o <<t>>)  BY <1>1, Regroup
<1>4. QED  BY <1>2, <1>3

-----------------------------------------------------------------------------
(* The kinds of transactions are told apart by their type.                 *)

LEMMA Kinds ==
    /\ EMPTY \notin Transactions /\ EMPTY \notin Returns
    /\ \A t \in Transactions : t \notin Returns
BY DEF EMPTY, Transactions, Returns

(* The transactions of a side that are in the channel and behind it.       *)
LEMMA Channelled ==
    ASSUME NEW t \in Transactions
    PROVE  InChannel(EMPTY) = <<>> /\ InChannel(t) = <<t>>
BY Kinds DEF InChannel

LEMMA InChannelType ==
    ASSUME NEW c \in Transactions \cup {EMPTY}
    PROVE  InChannel(c) \in Seq(Transactions)
<1>1. CASE c \in Transactions  BY <1>1, Channelled, SingletonSeq
<1>2. CASE c = EMPTY
  <2>1. InChannel(c) = <<>>  BY <1>2 DEF InChannel
  <2>2. QED  BY <2>1, EmptySeq
<1>3. QED  BY <1>1, <1>2

-----------------------------------------------------------------------------
(* findTransaction.  t is the next of its side, behind add and before      *)
(* rest; the other side is search and other.                               *)

Agree(search, add, rest, other, t) == (add \o <<t>>) \o rest = search \o other

Kept(found, search, add, rest, t) ==
    /\ ~found.sent
    /\ found.search = search
    /\ (found.add \o InChannel(found.left)) \o rest = (add \o <<t>>) \o rest

Given(found, search, add, rest, other, t) ==
    /\ found.sent
    /\ (add \o <<t>>) \o rest # <<>> /\ Head((add \o <<t>>) \o rest) = t
    /\ (found.add \o InChannel(found.left)) \o rest = Tail((add \o <<t>>) \o rest)
    /\ found.search \o other = Tail(search \o other)

Arrived(found, search, add, rest, other, t) ==
    /\ found.search \in Seq(Transactions) /\ found.add \in Seq(Transactions)
    /\ found.left \in {EMPTY, t} /\ found.sent \in BOOLEAN
    /\ found.add = <<>> \/ found.search = <<>>
    /\ \/ Kept(found, search, add, rest, t)
       \/ Given(found, search, add, rest, other, t)

(* When the sides agree and one of the lists is empty, an arrival changes  *)
(* neither side or gives the FTL the first of both, and leaves one of the  *)
(* lists empty (FrontBuffer.cpp:354-409).                                  *)
LEMMA Arrival ==
    ASSUME NEW search \in Seq(Transactions), NEW add \in Seq(Transactions),
           NEW rest \in Seq(Transactions), NEW other \in Seq(Transactions),
           NEW t \in Transactions,
           add = <<>> \/ search = <<>>,
           Agree(search, add, rest, other, t)
    PROVE  Arrived(findTransaction(search, add, t), search, add, rest, other, t)
<1> DEFINE found == findTransaction(search, add, t)
           side == (add \o <<t>>) \o rest
<1>1. <<t>> \in Seq(Transactions) /\ <<t>> # <<>>
      /\ Head(<<t>>) = t /\ Tail(<<t>>) = <<>>
      BY SingletonSeq
<1>2. add \o <<t>> \in Seq(Transactions)  BY <1>1, ConcatProperties
<1>3. DOMAIN search = 1 .. Len(search) /\ Len(search) \in Nat  BY LenProperties
<1>4. ASSUME search # <<>>
      PROVE  /\ add = <<>> /\ add \o <<t>> = <<t>>
             /\ 1 \in Matching(search, t) /\ search[1] = t
             /\ side # <<>> /\ Head(side) = t /\ Tail(side) = rest
             /\ Tail(side) = Tail(search) \o other
             /\ Tail(search) \in Seq(Transactions)
  <2>1. add = <<>>  BY <1>4
  <2>2. add \o <<t>> = <<t>>  BY <1>1, <2>1, ConcatEmptySeq
  <2>3. side # <<>> /\ Head(side) = t /\ Tail(side) = <<>> \o rest
    <3>1. /\ <<t>> \o rest # <<>> /\ Head(<<t>> \o rest) = Head(<<t>>)
          /\ Tail(<<t>> \o rest) = Tail(<<t>>) \o rest
          BY <1>1, HeadTailConcat
    <3>2. side = <<t>> \o rest  BY <2>2
    <3> HIDE DEF side
    <3>3. QED  BY <1>1, <3>1, <3>2
  <2>4. <<>> \o rest = rest  BY ConcatEmptySeq
  <2>5. Head(search \o other) = Head(search) /\ Tail(search \o other) = Tail(search) \o other
        BY <1>4, HeadTailConcat
  <2>6. Head(search) = search[1] /\ Tail(search) \in Seq(Transactions)
        BY <1>4, SplitHead
  <2>7. search[1] = t  BY <2>3, <2>5, <2>6 DEF Agree
  <2>8. 1 \in 1 .. Len(search)
    <3>1. Len(search) \in Nat \ {0}  BY <1>4, EmptySeq
    <3>2. QED  BY <3>1
  <2>9. 1 \in Matching(search, t)  BY <1>3, <2>7, <2>8 DEF Matching
  <2>10. QED  BY <2>1, <2>2, <2>3, <2>4, <2>5, <2>6, <2>7, <2>9 DEF Agree
<1>5. CASE Matching(search, t) = {}
  <2>1. search = <<>>  BY <1>4, <1>5
  <2>2. found = [search |-> search, add |-> Append(add, t), left |-> EMPTY, sent |-> FALSE]
        BY <1>5 DEF findTransaction
  <2>3. Append(add, t) \in Seq(Transactions) /\ Append(add, t) = add \o <<t>>
        BY AppendProperties, AppendIsConcat
  <2>4. (add \o <<t>>) \o <<>> = add \o <<t>>  BY <1>2, ConcatEmptySeq
  <2>5. InChannel(EMPTY) = <<>>  BY Channelled
  <2>6. Kept(found, search, add, rest, t)  BY <2>2, <2>3, <2>4, <2>5 DEF Kept
  <2>7. /\ found.search = search /\ found.add = Append(add, t)
        /\ found.left = EMPTY /\ found.sent = FALSE
        BY <2>2
  <2>8. QED  BY <2>1, <2>3, <2>6, <2>7 DEF Arrived
<1>6. CASE Matching(search, t) # {} /\ ~FtlHasRoom
  <2>1. found = [search |-> search, add |-> add, left |-> t, sent |-> FALSE]
        BY <1>6 DEF findTransaction
  <2>2. /\ found.search = search /\ found.add = add
        /\ found.left = t /\ found.sent = FALSE
        BY <2>1
  <2>3. InChannel(t) = <<t>>  BY Channelled
  <2>4. Kept(found, search, add, rest, t)  BY <2>2, <2>3 DEF Kept
  <2>5. QED  BY <2>2, <2>4 DEF Arrived
<1>7. CASE Matching(search, t) # {} /\ FtlHasRoom
  <2>1. search # <<>>
    <3>1. Matching(search, t) \subseteq 1 .. Len(search)  BY <1>3 DEF Matching
    <3>2. ASSUME search = <<>>  PROVE FALSE
      <4>1. Len(search) = 0  BY <3>2, EmptySeq
      <4>2. QED  BY <1>7, <3>1, <4>1
    <3>3. QED  BY <3>2
  <2>2. FirstMatch(search, t) = 1
    <3>1. \A j \in Matching(search, t) : j \in Nat /\ 1 <= j  BY <1>3 DEF Matching
    <3>2. 1 \in Matching(search, t) /\ \A j \in Matching(search, t) : 1 <= j
          BY <1>4, <2>1, <3>1
    <3>3. FirstMatch(search, t) \in Matching(search, t) /\ FirstMatch(search, t) <= 1
          BY <3>2 DEF FirstMatch
    <3>4. QED  BY <3>1, <3>3
  <2>3. RemoveAt(search, 1) = Tail(search)  BY <2>1, RemoveAtHead
  <2>4. found = [search |-> Tail(search), add |-> add, left |-> EMPTY, sent |-> TRUE]
        BY <1>7, <2>2, <2>3 DEF findTransaction
  <2>5. /\ found.search = Tail(search) /\ found.add = add
        /\ found.left = EMPTY /\ found.sent = TRUE
        BY <2>4
  <2>6. (found.add \o InChannel(found.left)) \o rest = rest
    <3>1. InChannel(EMPTY) = <<>> /\ <<>> \o <<>> = <<>> /\ <<>> \o rest = rest
          BY Channelled, EmptySeq, ConcatEmptySeq
    <3>2. QED  BY <1>4, <2>1, <2>5, <3>1
  <2>7. Tail(search \o other) = Tail(search) \o other  BY <2>1, HeadTailConcat
  <2>8. Given(found, search, add, rest, other, t)
        BY <1>4, <2>1, <2>5, <2>6, <2>7 DEF Given
  <2>9. QED  BY <1>4, <2>1, <2>5, <2>8 DEF Arrived
<1> HIDE DEF found
<1>8. QED  BY <1>5, <1>6, <1>7 DEF found

-----------------------------------------------------------------------------
(* The inductive invariant.                                                *)

ChannelTypes ==
    /\ ENABLE_REQUEST_CHANNEL \in BOOLEAN /\ ENABLE_COMMAND_CHANNEL \in BOOLEAN
    /\ requests \in Seq(Transactions) /\ commands \in Seq(Transactions)
    /\ pendingData \in Seq(Transactions) /\ pendingCommand \in Seq(Transactions)
    /\ responses \in Seq(Returns) /\ returnTransaction \in Seq(Returns)
    /\ requestTrans \in Transactions \cup {EMPTY}
    /\ responseTrans \in Transactions \cup Returns \cup {EMPTY}
    /\ commandTrans \in Transactions \cup {EMPTY}

(* The data of a request uses one channel, and without a command channel   *)
(* nothing waits for the other half.                                       *)
ChannelUse ==
    /\ ENABLE_REQUEST_CHANNEL => responseTrans \notin Transactions
    /\ ~ENABLE_REQUEST_CHANNEL => requestTrans = EMPTY
    /\ ~ENABLE_COMMAND_CHANNEL =>
          /\ pendingData = <<>> /\ pendingCommand = <<>>
          /\ commandTrans = EMPTY /\ commands = <<>>

OneListEmpty == pendingData = <<>> \/ pendingCommand = <<>>

TurnUse == turn = "request" => ENABLE_REQUEST_CHANNEL

FrontInv == TurnUse /\ ChannelTypes /\ ChannelUse /\ OneListEmpty /\ SidesAgree

(* What a cycle of a channel may do to the queue of the FTL: nothing, or   *)
(* give it the oldest request that has not been given.                     *)
GivesOldest ==
    \/ ftlQueue' = ftlQueue /\ DataSide' = DataSide
    \/ /\ DataSide # <<>> /\ DataSide' = Tail(DataSide)
       /\ ftlQueue' = Append(ftlQueue, Head(DataSide))

(* What any step may do to it: a request is accepted behind all others,    *)
(* and the FTL takes the first of its queue (FrontBuffer.cpp:124-409).     *)
GivenInOrder ==
    \/ GivesOldest
    \/ ftlQueue' = ftlQueue /\ \E t \in Transactions : DataSide' = Append(DataSide, t)
    \/ ftlQueue # <<>> /\ ftlQueue' = Tail(ftlQueue) /\ DataSide' = DataSide

(* What the response channel does to the pages: nothing, or it takes the   *)
(* next, and hands on the one that it has.                                 *)
PageMoves ==
    \/ /\ responses # <<>> /\ responses' = Tail(responses) /\ OnItsWayUp = <<>>
       /\ OnItsWayUp' \in {<<>>, <<Head(responses)>>}
    \/ responses' = responses /\ OnItsWayUp' \in {<<>>, OnItsWayUp}

LEMMA SideTypes ==
    ASSUME ChannelTypes
    PROVE  /\ DataChannel \in Transactions \cup {EMPTY}
           /\ InChannel(DataChannel) \in Seq(Transactions)
           /\ InChannel(commandTrans) \in Seq(Transactions)
           /\ InChannel(DataChannel) \o requests \in Seq(Transactions)
           /\ InChannel(commandTrans) \o commands \in Seq(Transactions)
           /\ DataSide \in Seq(Transactions) /\ CommandSide \in Seq(Transactions)
           /\ DataSide = pendingData \o (InChannel(DataChannel) \o requests)
           /\ CommandSide = pendingCommand \o (InChannel(commandTrans) \o commands)
<1>1. DataChannel \in Transactions \cup {EMPTY}  BY DEF ChannelTypes, DataChannel
<1>2. /\ InChannel(DataChannel) \in Seq(Transactions)
      /\ InChannel(commandTrans) \in Seq(Transactions)
      BY <1>1, InChannelType DEF ChannelTypes
<1>3. /\ InChannel(DataChannel) \o requests \in Seq(Transactions)
      /\ InChannel(commandTrans) \o commands \in Seq(Transactions)
      /\ pendingData \o InChannel(DataChannel) \in Seq(Transactions)
      /\ pendingCommand \o InChannel(commandTrans) \in Seq(Transactions)
      BY <1>2, ConcatProperties DEF ChannelTypes
<1>4. DataSide \in Seq(Transactions) /\ CommandSide \in Seq(Transactions)
      BY <1>3, ConcatProperties DEF ChannelTypes, DataSide, CommandSide
<1>5. /\ DataSide = pendingData \o (InChannel(DataChannel) \o requests)
      /\ CommandSide = pendingCommand \o (InChannel(commandTrans) \o commands)
  <2>1. /\ DataSide = (pendingData \o InChannel(DataChannel)) \o requests
        /\ CommandSide = (pendingCommand \o InChannel(commandTrans)) \o commands
        BY DEF DataSide, CommandSide
  <2>2. /\ pendingData \in Seq(Transactions) /\ requests \in Seq(Transactions)
        /\ pendingCommand \in Seq(Transactions) /\ commands \in Seq(Transactions)
        BY DEF ChannelTypes
  <2>3. (pendingData \o InChannel(DataChannel)) \o requests
          = pendingData \o (InChannel(DataChannel) \o requests)
        BY <1>2, <2>2, Regroup, SMTT(30)
  <2>4. (pendingCommand \o InChannel(commandTrans)) \o commands
          = pendingCommand \o (InChannel(commandTrans) \o commands)
        BY <1>2, <2>2, Regroup, SMTT(30)
  <2>5. QED  BY <2>1, <2>3, <2>4
<1>6. QED  BY <1>1, <1>2, <1>3, <1>4, <1>5

(* The next transaction of a side, behind what waits.                      *)
LEMMA NextOfSide ==
    ASSUME NEW pending \in Seq(Transactions), NEW channel \in Seq(Transactions),
           NEW waiting \in Seq(Transactions), NEW rest \in Seq(Transactions),
           NEW t \in Transactions
    PROVE  channel \o waiting = <<t>> \o rest
              => (pending \o channel) \o waiting = (pending \o <<t>>) \o rest
<1>1. <<t>> \in Seq(Transactions)  BY SingletonSeq
<1>2. (pending \o channel) \o waiting = pending \o (channel \o waiting)
      BY Regroup
<1>3. (pending \o <<t>>) \o rest = pending \o (<<t>> \o rest)
      BY <1>1, Regroup
<1>4. QED  BY <1>2, <1>3

-----------------------------------------------------------------------------
(* One cycle of a channel that carries data, with t under way.             *)

LEMMA DataMoves ==
    ASSUME FrontInv, NEW t \in Transactions,
           requests' \in Seq(Transactions),
           DataSide = (pendingData \o <<t>>) \o requests',
           UNCHANGED <<modes, commands, commandTrans>>,
           \/ DataChannel' = t /\ UNCHANGED <<pendingVars, ftlQueue>>
           \/ DataChannel' = DataArrives(t).left /\ DataTaken(t)
    PROVE  /\ pendingData' \in Seq(Transactions) /\ pendingCommand' \in Seq(Transactions)
           /\ ~ENABLE_COMMAND_CHANNEL => pendingData' = <<>> /\ pendingCommand' = <<>>
           /\ DataArrives(t).left \in {EMPTY, t}
           /\ OneListEmpty' /\ SidesAgree' /\ GivesOldest
<1> DEFINE found == DataArrives(t)
           other == InChannel(commandTrans) \o commands
           side == (pendingData \o <<t>>) \o requests'
<1>1. /\ pendingData \in Seq(Transactions) /\ pendingCommand \in Seq(Transactions)
      /\ requests \in Seq(Transactions)
      BY DEF FrontInv, ChannelTypes
<1>2. /\ InChannel(DataChannel) \in Seq(Transactions) /\ other \in Seq(Transactions)
      /\ CommandSide = pendingCommand \o other
      BY SideTypes DEF FrontInv
<1>3. DataSide = side  OBVIOUS
<1>4. DataSide' = (pendingData' \o InChannel(DataChannel')) \o requests'
      BY DEF DataSide
<1>5. /\ found.search \in Seq(Transactions) /\ found.add \in Seq(Transactions)
      /\ found.left \in {EMPTY, t} /\ found.sent \in BOOLEAN
      /\ found.add = <<>> \/ found.search = <<>>
      /\ ~ENABLE_COMMAND_CHANNEL => found.add = <<>> /\ found.search = <<>>
      /\ \/ /\ ~found.sent /\ found.search = pendingCommand
            /\ (found.add \o InChannel(found.left)) \o requests' = side
         \/ /\ found.sent /\ side # <<>> /\ Head(side) = t
            /\ (found.add \o InChannel(found.left)) \o requests' = Tail(side)
            /\ ENABLE_COMMAND_CHANNEL => found.search \o other = Tail(CommandSide)
  <2>1. CASE ENABLE_COMMAND_CHANNEL
    <3>1. found = findTransaction(pendingCommand, pendingData, t)
          BY <2>1 DEF DataArrives
    <3>2. Agree(pendingCommand, pendingData, requests', other, t)
          BY <1>2, <1>3, <2>1 DEF FrontInv, SidesAgree, Agree
    <3>3. pendingData = <<>> \/ pendingCommand = <<>>  BY DEF FrontInv, OneListEmpty
    <3> HIDE DEF found, other
    <3>4. Arrived(found, pendingCommand, pendingData, requests', other, t)
          BY <1>1, <1>2, <3>1, <3>2, <3>3, Arrival
    <3>5. QED  BY <1>2, <2>1, <3>4 DEF Arrived, Kept, Given
  <2>2. CASE ~ENABLE_COMMAND_CHANNEL
    <3>1. pendingData = <<>> /\ pendingCommand = <<>>
          BY <2>2 DEF FrontInv, ChannelUse
    <3>2. found = [search |-> pendingCommand, add |-> pendingData, sent |-> FtlHasRoom,
                   left |-> IF FtlHasRoom THEN EMPTY ELSE t]
          BY <2>2 DEF DataArrives
    <3>3. /\ found.search = <<>> /\ found.add = <<>> /\ found.sent = FtlHasRoom
          /\ found.left = IF FtlHasRoom THEN EMPTY ELSE t
          BY <3>1, <3>2
    <3>4. <<>> \in Seq(Transactions) /\ FtlHasRoom \in BOOLEAN
          BY EmptySeq DEF FtlHasRoom
    <3>5. side = <<t>> \o requests'
      <4>1. <<>> \o <<t>> = <<t>>  BY SingletonSeq, ConcatEmptySeq
      <4>2. QED  BY <3>1, <4>1
    <3>6. /\ <<t>> \o requests' # <<>> /\ Head(<<t>> \o requests') = t
          /\ Tail(<<t>> \o requests') = requests'
      <4>1. /\ <<t>> \in Seq(Transactions) /\ <<t>> # <<>>
            /\ Head(<<t>>) = t /\ Tail(<<t>>) = <<>>
            BY SingletonSeq
      <4>2. /\ <<t>> \o requests' # <<>> /\ Head(<<t>> \o requests') = Head(<<t>>)
            /\ Tail(<<t>> \o requests') = Tail(<<t>>) \o requests'
            BY <4>1, HeadTailConcat
      <4>3. <<>> \o requests' = requests'  BY ConcatEmptySeq
      <4>4. QED  BY <4>1, <4>2, <4>3
    <3>7. CASE FtlHasRoom
      <4>1. <<>> \o InChannel(EMPTY) = <<>>  BY <3>4, Channelled, ConcatEmptySeq
      <4>2. <<>> \o requests' = requests'  BY ConcatEmptySeq
      <4>3. (found.add \o InChannel(found.left)) \o requests' = requests'
            BY <3>3, <3>7, <4>1, <4>2
      <4> HIDE DEF found, side
      <4>4. QED  BY <2>2, <3>3, <3>4, <3>5, <3>6, <3>7, <4>3
    <3>8. CASE ~FtlHasRoom
      <4>1. <<>> \o InChannel(t) = <<t>>  BY Channelled, SingletonSeq, ConcatEmptySeq
      <4>2. (found.add \o InChannel(found.left)) \o requests' = side
            BY <3>3, <3>5, <3>8, <4>1
      <4> HIDE DEF found, side
      <4>3. QED  BY <2>2, <3>1, <3>3, <3>4, <3>8, <4>2
    <3>9. QED  BY <3>7, <3>8
  <2>3. QED  BY <2>1, <2>2 DEF FrontInv, ChannelTypes
<1> HIDE DEF found, side
<1>6. CASE DataChannel' = t /\ UNCHANGED <<pendingVars, ftlQueue>>
  <2>1. /\ pendingData' = pendingData /\ pendingCommand' = pendingCommand
        /\ ftlQueue' = ftlQueue
        BY <1>6 DEF pendingVars
  <2>2. InChannel(t) = <<t>>  BY Channelled
  <2>3. DataSide' = DataSide  BY <1>3, <1>4, <1>6, <2>1, <2>2 DEF side
  <2>4. CommandSide' = CommandSide  BY <2>1 DEF CommandSide
  <2>5. OneListEmpty' /\ SidesAgree'
        BY <2>1, <2>3, <2>4 DEF FrontInv, OneListEmpty, SidesAgree, modes
  <2>6. ~ENABLE_COMMAND_CHANNEL => pendingData' = <<>> /\ pendingCommand' = <<>>
        BY <2>1 DEF FrontInv, ChannelUse
  <2>7. GivesOldest  BY <2>1, <2>3 DEF GivesOldest
  <2>8. QED  BY <1>1, <1>5, <2>1, <2>5, <2>6, <2>7 DEF found
<1>7. CASE DataChannel' = found.left /\ DataTaken(t)
  <2>1. /\ ftlQueue' = IF found.sent THEN Append(ftlQueue, t) ELSE ftlQueue
        /\ pendingCommand' = found.search /\ pendingData' = found.add
        BY <1>7 DEF DataTaken, sendToFTL, found
  <2>2. DataSide' = (found.add \o InChannel(found.left)) \o requests'
        BY <1>4, <1>7, <2>1
  <2>3. CommandSide' = found.search \o other
    <3>1. CommandSide' = (found.search \o InChannel(commandTrans)) \o commands
          BY <2>1 DEF CommandSide
    <3>2. InChannel(commandTrans) \in Seq(Transactions) /\ commands \in Seq(Transactions)
          BY SideTypes DEF FrontInv, ChannelTypes
    <3>3. (found.search \o InChannel(commandTrans)) \o commands = found.search \o other
          BY <1>5, <3>2, Regroup
    <3>4. QED  BY <3>1, <3>3
  <2>4. /\ pendingData' \in Seq(Transactions) /\ pendingCommand' \in Seq(Transactions)
        /\ ~ENABLE_COMMAND_CHANNEL => pendingData' = <<>> /\ pendingCommand' = <<>>
        /\ OneListEmpty'
        BY <1>5, <2>1 DEF OneListEmpty
  <2>5. SidesAgree' /\ GivesOldest
    <3>1. ENABLE_COMMAND_CHANNEL' = ENABLE_COMMAND_CHANNEL  BY DEF modes
    <3>2. ENABLE_COMMAND_CHANNEL => DataSide = CommandSide  BY DEF FrontInv, SidesAgree
    <3> HIDE DEF other
    <3>3. CASE found.sent
      <4>1. /\ DataSide' = Tail(DataSide) /\ DataSide # <<>> /\ Head(DataSide) = t
            /\ ENABLE_COMMAND_CHANNEL => CommandSide' = Tail(CommandSide)
            BY <1>3, <1>5, <2>2, <2>3, <3>3
      <4>2. ftlQueue' = Append(ftlQueue, t)  BY <2>1, <3>3
      <4>3. QED  BY <3>1, <3>2, <4>1, <4>2 DEF SidesAgree, GivesOldest
    <3>4. CASE ~found.sent
      <4>1. DataSide' = DataSide /\ CommandSide' = CommandSide /\ ftlQueue' = ftlQueue
            BY <1>2, <1>3, <1>5, <2>1, <2>2, <2>3, <3>4
      <4>2. QED  BY <3>1, <3>2, <4>1 DEF SidesAgree, GivesOldest
    <3>5. QED  BY <1>5, <3>3, <3>4
  <2>6. QED  BY <1>5, <2>4, <2>5 DEF found
<1>8. QED  BY <1>6, <1>7 DEF found

-----------------------------------------------------------------------------
(* One cycle of the command channel, with t under way.                     *)

LEMMA CommandMoves ==
    ASSUME FrontInv, ENABLE_COMMAND_CHANNEL, NEW t \in Transactions,
           commands' \in Seq(Transactions),
           CommandSide = (pendingCommand \o <<t>>) \o commands',
           UNCHANGED <<modes, requests, DataChannel>>,
           \/ commandTrans' = t /\ UNCHANGED <<pendingVars, ftlQueue>>
           \/ /\ commandTrans' = CommandArrives(t).left
              /\ sendToFTL(t, CommandArrives(t).sent)
              /\ pendingData' = CommandArrives(t).search
              /\ pendingCommand' = CommandArrives(t).add
    PROVE  /\ pendingData' \in Seq(Transactions) /\ pendingCommand' \in Seq(Transactions)
           /\ CommandArrives(t).left \in {EMPTY, t}
           /\ OneListEmpty' /\ SidesAgree' /\ GivesOldest
<1> DEFINE found == CommandArrives(t)
           other == InChannel(DataChannel) \o requests
           side == (pendingCommand \o <<t>>) \o commands'
<1>1. /\ pendingData \in Seq(Transactions) /\ pendingCommand \in Seq(Transactions)
      /\ requests \in Seq(Transactions)
      BY DEF FrontInv, ChannelTypes
<1>2. /\ InChannel(DataChannel) \in Seq(Transactions) /\ other \in Seq(Transactions)
      /\ DataSide = pendingData \o other
      BY SideTypes DEF FrontInv
<1>3. CommandSide = side  OBVIOUS
<1>4. DataSide = CommandSide /\ (pendingData = <<>> \/ pendingCommand = <<>>)
      BY DEF FrontInv, SidesAgree, OneListEmpty
<1>5. Arrived(found, pendingData, pendingCommand, commands', other, t)
  <2>1. found = findTransaction(pendingData, pendingCommand, t)  BY DEF CommandArrives
  <2>2. Agree(pendingData, pendingCommand, commands', other, t)
        BY <1>2, <1>3, <1>4 DEF Agree
  <2> HIDE DEF found, other, side
  <2>3. QED  BY <1>1, <1>2, <1>4, <2>1, <2>2, Arrival
<1>6. CommandSide' = (pendingCommand' \o InChannel(commandTrans')) \o commands'
      BY DEF CommandSide
<1> HIDE DEF found, side
<1>7. CASE commandTrans' = t /\ UNCHANGED <<pendingVars, ftlQueue>>
  <2>1. /\ pendingData' = pendingData /\ pendingCommand' = pendingCommand
        /\ ftlQueue' = ftlQueue
        BY <1>7 DEF pendingVars
  <2>2. InChannel(t) = <<t>>  BY Channelled
  <2>3. CommandSide' = CommandSide  BY <1>3, <1>6, <1>7, <2>1, <2>2 DEF side
  <2>4. DataSide' = DataSide  BY <2>1 DEF DataSide
  <2>5. QED  BY <1>1, <1>4, <1>5, <2>1, <2>3, <2>4
             DEF found, Arrived, OneListEmpty, SidesAgree, GivesOldest
<1>8. CASE /\ commandTrans' = found.left
           /\ sendToFTL(t, found.sent)
           /\ pendingData' = found.search /\ pendingCommand' = found.add
  <2>1. ftlQueue' = IF found.sent THEN Append(ftlQueue, t) ELSE ftlQueue
        BY <1>8 DEF sendToFTL
  <2>2. CommandSide' = (found.add \o InChannel(found.left)) \o commands'
        BY <1>6, <1>8
  <2>3. DataSide' = found.search \o other
    <3>1. DataSide' = (found.search \o InChannel(DataChannel)) \o requests
          BY <1>8 DEF DataSide
    <3>2. found.search \in Seq(Transactions)  BY <1>5 DEF Arrived
    <3>3. (found.search \o InChannel(DataChannel)) \o requests = found.search \o other
          BY <1>1, <1>2, <3>2, Regroup
    <3>4. QED  BY <3>1, <3>3
  <2>4. SidesAgree' /\ GivesOldest
    <3> HIDE DEF other
    <3>1. CASE Kept(found, pendingData, pendingCommand, commands', t)
      <4>1. CommandSide' = CommandSide /\ DataSide' = DataSide /\ ftlQueue' = ftlQueue
            BY <1>2, <1>3, <2>1, <2>2, <2>3, <3>1 DEF Kept, side
      <4>2. QED  BY <1>4, <4>1 DEF SidesAgree, GivesOldest
    <3>2. CASE Given(found, pendingData, pendingCommand, commands', other, t)
      <4>1. /\ CommandSide' = Tail(CommandSide) /\ DataSide' = Tail(DataSide)
            /\ CommandSide # <<>> /\ Head(CommandSide) = t
            /\ ftlQueue' = Append(ftlQueue, t)
            BY <1>2, <1>3, <2>1, <2>2, <2>3, <3>2 DEF Given, side
      <4>2. QED  BY <1>4, <4>1 DEF SidesAgree, GivesOldest
    <3>3. QED  BY <1>5, <3>1, <3>2 DEF Arrived
  <2>5. QED  BY <1>5, <1>8, <2>4 DEF found, Arrived, OneListEmpty
<1>9. QED  BY <1>7, <1>8 DEF found

-----------------------------------------------------------------------------
(* One lemma for every action: the invariant is kept, and what the action  *)
(* does to the requests, to the queue of the FTL and to the pages.         *)

LEMMA TurnKept ==
    ASSUME FrontInv, Next
    PROVE  TurnUse'
<1>1. CASE \E t \in Transactions : HostAdds(t)
      BY <1>1 DEF FrontInv, TurnUse, HostAdds, modes
<1>2. CASE ResponseUpdate
      BY <1>2 DEF TurnUse, ResponseUpdate, AfterResponse, AfterRequest, AfterCommand, modes
<1>3. CASE RequestUpdate
      BY <1>3 DEF TurnUse, RequestUpdate, AfterRequest, AfterCommand, modes
<1>4. CASE CommandUpdate
      BY <1>4 DEF TurnUse, CommandUpdate, AfterCommand, modes
<1>5. CASE \E now \in BOOLEAN : FtlUpdate(now) \/ ControllerUpdate(now)
      BY <1>5 DEF TurnUse, FtlUpdate, ControllerUpdate
<1>6. QED  BY <1>1, <1>2, <1>3, <1>4, <1>5 DEF Next

LEMMA RequestsAdded ==
    ASSUME FrontInv, NEW t \in Transactions, HostAdds(t)
    PROVE  FrontInv' /\ ftlQueue' = ftlQueue /\ DataSide' = Append(DataSide, t)
<1>0. TurnUse'  BY TurnKept DEF Next
<1>1. /\ requests' = Append(requests, t)
      /\ commands' = IF ENABLE_COMMAND_CHANNEL THEN Append(commands, t) ELSE commands
      /\ UNCHANGED <<modes, responseVars, requestChannel, responseChannel,
                     commandChannel, pendingVars, ftlQueue, belowVars>>
      BY DEF HostAdds, addRequest
<1>2. /\ requests \in Seq(Transactions) /\ commands \in Seq(Transactions)
      /\ pendingData \in Seq(Transactions) /\ pendingCommand \in Seq(Transactions)
      BY DEF FrontInv, ChannelTypes
<1>3. Append(requests, t) \in Seq(Transactions) /\ Append(commands, t) \in Seq(Transactions)
      BY <1>2, AppendProperties
<1>4. ChannelTypes' /\ ChannelUse' /\ OneListEmpty'
      BY <1>1, <1>3 DEF FrontInv, ChannelTypes, ChannelUse, OneListEmpty, modes, responseVars,
         requestChannel, responseChannel, commandChannel, pendingVars, belowVars
<1>5. /\ pendingData \o InChannel(DataChannel) \in Seq(Transactions)
      /\ pendingCommand \o InChannel(commandTrans) \in Seq(Transactions)
      BY <1>2, SideTypes, ConcatProperties DEF FrontInv
<1>6. DataSide' = Append(DataSide, t)
  <2>1. DataSide' = (pendingData \o InChannel(DataChannel)) \o Append(requests, t)
        BY <1>1 DEF DataSide, DataChannel, modes, requestChannel, responseChannel, pendingVars
  <2>2. QED  BY <1>2, <1>5, <2>1, ConcatAppend DEF DataSide
<1>7. ENABLE_COMMAND_CHANNEL => CommandSide' = Append(CommandSide, t)
  <2>1. SUFFICES ASSUME ENABLE_COMMAND_CHANNEL  PROVE CommandSide' = Append(CommandSide, t)
        OBVIOUS
  <2>2. CommandSide' = (pendingCommand \o InChannel(commandTrans)) \o Append(commands, t)
        BY <1>1, <2>1 DEF CommandSide, commandChannel, pendingVars
  <2>3. QED  BY <1>2, <1>5, <2>2, ConcatAppend DEF CommandSide
<1>8. SidesAgree'
      BY <1>1, <1>6, <1>7 DEF FrontInv, SidesAgree, modes
<1>9. QED  BY <1>0, <1>1, <1>4, <1>6, <1>8 DEF FrontInv

(* What has begun stays where it is when a side takes its next.            *)
LEMMA NextOfRequests ==
    ASSUME ChannelTypes, DataChannel = EMPTY, requests # <<>>
    PROVE  /\ Head(requests) \in Transactions /\ Tail(requests) \in Seq(Transactions)
           /\ DataSide = (pendingData \o <<Head(requests)>>) \o Tail(requests)
<1>1. /\ requests \in Seq(Transactions) /\ pendingData \in Seq(Transactions)
      BY DEF ChannelTypes
<1>2. /\ Head(requests) \in Transactions /\ Tail(requests) \in Seq(Transactions)
      /\ requests = <<Head(requests)>> \o Tail(requests)
      BY <1>1, SplitHead
<1>3. DataSide = (pendingData \o <<>>) \o requests  BY DEF DataSide, InChannel
<1>4. <<>> \in Seq(Transactions) /\ <<>> \o requests = requests
      BY <1>1, EmptySeq, ConcatEmptySeq
<1>5. <<>> \o requests = <<Head(requests)>> \o Tail(requests)  BY <1>2, <1>4
<1>6. <<>> \o requests = <<Head(requests)>> \o Tail(requests)
         => (pendingData \o <<>>) \o requests
              = (pendingData \o <<Head(requests)>>) \o Tail(requests)
      BY <1>1, <1>2, <1>4, NextOfSide
<1>7. QED  BY <1>2, <1>3, <1>5, <1>6

LEMMA NextOfCommands ==
    ASSUME ChannelTypes, commandTrans = EMPTY, commands # <<>>
    PROVE  /\ Head(commands) \in Transactions /\ Tail(commands) \in Seq(Transactions)
           /\ CommandSide = (pendingCommand \o <<Head(commands)>>) \o Tail(commands)
<1>1. /\ commands \in Seq(Transactions) /\ pendingCommand \in Seq(Transactions)
      BY DEF ChannelTypes
<1>2. /\ Head(commands) \in Transactions /\ Tail(commands) \in Seq(Transactions)
      /\ commands = <<Head(commands)>> \o Tail(commands)
      BY <1>1, SplitHead
<1>3. CommandSide = (pendingCommand \o <<>>) \o commands  BY DEF CommandSide, InChannel
<1>4. <<>> \in Seq(Transactions) /\ <<>> \o commands = commands
      BY <1>1, EmptySeq, ConcatEmptySeq
<1>5. <<>> \o commands = <<Head(commands)>> \o Tail(commands)  BY <1>2, <1>4
<1>6. <<>> \o commands = <<Head(commands)>> \o Tail(commands)
         => (pendingCommand \o <<>>) \o commands
              = (pendingCommand \o <<Head(commands)>>) \o Tail(commands)
      BY <1>1, <1>2, <1>4, NextOfSide
<1>7. QED  BY <1>2, <1>3, <1>5, <1>6

LEMMA RequestUpdated ==
    ASSUME FrontInv, RequestUpdate
    PROVE  FrontInv' /\ GivesOldest
<1>0. TurnUse'  BY TurnKept DEF Next
<1>1. /\ UNCHANGED <<modes, commands, responseVars, responseChannel,
                     commandChannel, belowVars>>
      /\ ChannelTypes /\ ChannelUse /\ ENABLE_REQUEST_CHANNEL
      BY DEF RequestUpdate, FrontInv, TurnUse
<1>2. ASSUME NEW t \in Transactions, requests' \in Seq(Transactions),
             DataSide = (pendingData \o <<t>>) \o requests',
             updateRequest(t)
      PROVE  FrontInv' /\ GivesOldest
  <2>1. DataChannel' = requestTrans'  BY <1>1, <1>2 DEF DataChannel, modes
  <2>2. \/ requestTrans' = t /\ UNCHANGED <<pendingVars, ftlQueue>>
        \/ requestTrans' = DataArrives(t).left /\ DataTaken(t)
        BY <1>2 DEF updateRequest
  <2>3. UNCHANGED <<modes, commands, commandTrans>>  BY <1>1 DEF commandChannel
  <2>4. /\ pendingData' \in Seq(Transactions) /\ pendingCommand' \in Seq(Transactions)
        /\ ~ENABLE_COMMAND_CHANNEL => pendingData' = <<>> /\ pendingCommand' = <<>>
        /\ DataArrives(t).left \in {EMPTY, t}
        /\ OneListEmpty' /\ SidesAgree' /\ GivesOldest
        BY <1>2, <2>1, <2>2, <2>3, DataMoves
  <2>5. ChannelTypes' /\ ChannelUse'
        BY <1>1, <1>2, <2>2, <2>4 DEF ChannelTypes, ChannelUse, modes, responseVars,
           responseChannel, commandChannel, belowVars
  <2>6. QED  BY <1>0, <2>4, <2>5 DEF FrontInv
<1>3. CASE requestTrans # EMPTY /\ updateRequest(requestTrans) /\ requests' = requests
  <2>1. ENABLE_REQUEST_CHANNEL /\ requestTrans \in Transactions
        /\ requests \in Seq(Transactions)
        BY <1>1, <1>3 DEF ChannelTypes, ChannelUse
  <2>2. DataSide = (pendingData \o <<requestTrans>>) \o requests
        BY <2>1, Channelled DEF DataSide, DataChannel
  <2>3. QED  BY <1>2, <1>3, <2>1, <2>2
<1>4. CASE requestTrans = EMPTY /\ requests # <<>> /\ newRequestTrans
           /\ updateRequest(Head(requests))
  <2>1. requests' = Tail(requests)  BY <1>4 DEF newRequestTrans
  <2>2. /\ Head(requests) \in Transactions /\ Tail(requests) \in Seq(Transactions)
        /\ DataSide = (pendingData \o <<Head(requests)>>) \o Tail(requests)
        BY <1>1, <1>4, NextOfRequests DEF DataChannel
  <2>3. QED  BY <1>2, <1>4, <2>1, <2>2
<1>5. CASE UNCHANGED <<requests, requestChannel, pendingVars, ftlQueue>>
  <2>1. FrontInv' /\ DataSide' = DataSide
        BY <1>0, <1>1, <1>5 DEF FrontInv, ChannelTypes, ChannelUse, OneListEmpty, SidesAgree,
           DataSide, CommandSide, DataChannel, modes, responseVars, requestChannel,
           responseChannel, commandChannel, pendingVars, belowVars
  <2>2. QED  BY <1>5, <2>1 DEF GivesOldest
<1>6. QED  BY <1>3, <1>4, <1>5 DEF RequestUpdate

LEMMA ResponseUpdated ==
    ASSUME FrontInv, ResponseUpdate
    PROVE  /\ FrontInv'
           /\ \/ GivesOldest /\ UNCHANGED <<responses, OnItsWayUp>>
              \/ UNCHANGED <<ftlQueue, DataSide>> /\ PageMoves
<1>0. TurnUse'  BY TurnKept DEF Next
<1>1. /\ UNCHANGED <<modes, commands, requestChannel, commandChannel, belowVars>>
      /\ ChannelTypes /\ ChannelUse
      BY DEF ResponseUpdate, FrontInv
<1>2. responses' \in Seq(Returns)
  <2>1. responses \in Seq(Returns)  BY <1>1 DEF ChannelTypes
  <2>2. \/ responses' = responses
        \/ responses # <<>> /\ responses' = Tail(responses)
        BY DEF ResponseUpdate, responseFromQueue, responseVars
  <2>3. QED  BY <2>1, <2>2, HeadTailProperties
\* a request is under way
<1>3. ASSUME NEW t \in Transactions, ~ENABLE_REQUEST_CHANNEL,
             requests' \in Seq(Transactions),
             DataSide = (pendingData \o <<t>>) \o requests',
             updateResponse(t),
             responseTrans \in {EMPTY, t}
      PROVE  FrontInv' /\ GivesOldest /\ UNCHANGED OnItsWayUp
  <2>1. t \notin Returns  BY Kinds
  <2>2. \/ responseTrans' = t /\ UNCHANGED <<pendingVars, ftlQueue>>
        \/ responseTrans' = DataArrives(t).left /\ DataTaken(t)
        BY <1>3, <2>1 DEF updateResponse
  <2>3. UNCHANGED <<modes, commands, commandTrans>>  BY <1>1 DEF commandChannel
  <2>4. DataArrives(t).left \in {EMPTY, t}
    <3>1. CASE ENABLE_COMMAND_CHANNEL
          BY <3>1 DEF DataArrives, findTransaction
    <3>2. CASE ~ENABLE_COMMAND_CHANNEL
          BY <3>2 DEF DataArrives
    <3>3. QED  BY <3>1, <3>2
  <2>5. DataChannel' = responseTrans'
    <3>1. ~ENABLE_REQUEST_CHANNEL'  BY <1>1, <1>3 DEF modes
    <3>2. responseTrans' \in {EMPTY, t}  BY <2>2, <2>4
    <3>3. QED  BY <3>1, <3>2 DEF DataChannel
  <2>6. /\ pendingData' \in Seq(Transactions) /\ pendingCommand' \in Seq(Transactions)
        /\ ~ENABLE_COMMAND_CHANNEL => pendingData' = <<>> /\ pendingCommand' = <<>>
        /\ OneListEmpty' /\ SidesAgree' /\ GivesOldest
        BY <1>3, <2>2, <2>3, <2>5, DataMoves
  <2>7. ChannelTypes' /\ ChannelUse'
        BY <1>1, <1>2, <1>3, <2>2, <2>4, <2>6 DEF ChannelTypes, ChannelUse, modes,
           requestChannel, commandChannel, belowVars
  <2>8. OnItsWayUp = <<>> /\ OnItsWayUp' = <<>>
        BY <1>3, <2>1, <2>2, <2>4, Kinds DEF OnItsWayUp
  <2>9. QED  BY <1>0, <2>6, <2>7, <2>8 DEF FrontInv
\* a page is under way, or nothing: the requests are left alone
<1>4. ASSUME UNCHANGED <<requests, pendingVars, ftlQueue>>,
             responseTrans' \in Returns \cup {EMPTY},
             responseTrans \notin Transactions
      PROVE  FrontInv' /\ UNCHANGED <<ftlQueue, DataSide>>
  <2>1. responseTrans' \notin Transactions  BY <1>4, Kinds
  <2>2. DataChannel' = DataChannel
        BY <1>1, <1>4, <2>1 DEF DataChannel, modes, requestChannel
  <2>3. DataSide' = DataSide /\ CommandSide' = CommandSide
        BY <1>1, <1>4, <2>2 DEF DataSide, CommandSide, commandChannel, pendingVars
  <2>4. ChannelTypes' /\ ChannelUse' /\ OneListEmpty' /\ SidesAgree'
        BY <1>1, <1>2, <1>4, <2>1, <2>3 DEF FrontInv, ChannelTypes, ChannelUse, OneListEmpty,
           SidesAgree, modes, requestChannel, commandChannel, pendingVars, belowVars
  <2>5. QED  BY <1>0, <1>4, <2>3, <2>4 DEF FrontInv
<1>5. CASE responseFromQueue
  <2>1. responseTrans = EMPTY /\ responses # <<>> /\ Head(responses) \in Returns
        /\ ~responseFromRequests
        BY <1>1, <1>5, HeadTailProperties
           DEF responseFromQueue, responseFromRequests, ChannelTypes
  <2>2. OnResponseChannel = Head(responses) /\ Head(responses) # EMPTY
        BY <1>5, <2>1, Kinds DEF OnResponseChannel
  <2>3. /\ UNCHANGED <<requests, pendingVars, ftlQueue>>
        /\ responseTrans' \in {EMPTY, Head(responses)} /\ responses' = Tail(responses)
        BY <1>5, <2>1, <2>2 DEF ResponseUpdate, updateResponse
  <2>4. PageMoves
    <3>1. OnItsWayUp = <<>> /\ OnItsWayUp' \in {<<>>, <<Head(responses)>>}
          BY <2>1, <2>3, Kinds DEF OnItsWayUp
    <3>2. QED  BY <2>1, <2>3, <3>1 DEF PageMoves
  <2>5. QED  BY <1>4, <2>1, <2>3, <2>4, Kinds
<1>6. CASE responseFromRequests
  <2>1. /\ responseTrans = EMPTY /\ ~ENABLE_REQUEST_CHANNEL /\ requests # <<>>
        /\ ~responseFromQueue
        BY <1>6 DEF responseFromRequests, responseFromQueue
  <2>2. DataChannel = EMPTY  BY <2>1, Kinds DEF DataChannel
  <2>3. /\ Head(requests) \in Transactions /\ Tail(requests) \in Seq(Transactions)
        /\ DataSide = (pendingData \o <<Head(requests)>>) \o Tail(requests)
        BY <1>1, <2>1, <2>2, NextOfRequests
  <2>4. OnResponseChannel = Head(requests) /\ Head(requests) # EMPTY
        BY <1>6, <2>1, <2>3, Kinds DEF OnResponseChannel
  <2>5. /\ requests' = Tail(requests) /\ updateResponse(Head(requests))
        /\ responses' = responses
        BY <1>6, <2>1, <2>4 DEF ResponseUpdate, newRequestTrans, responseVars
  <2>6. QED  BY <1>3, <2>1, <2>3, <2>5
<1>7. CASE ~responseFromQueue /\ ~responseFromRequests
  <2>1. OnResponseChannel = responseTrans /\ requests' = requests /\ responses' = responses
        BY <1>7 DEF OnResponseChannel, ResponseUpdate, responseVars
  <2>2. CASE responseTrans \in Transactions
    <3>1. ~ENABLE_REQUEST_CHANNEL /\ requests \in Seq(Transactions)
          BY <1>1, <2>2 DEF ChannelUse, ChannelTypes
    <3>2. updateResponse(responseTrans)
          BY <2>1, <2>2, Kinds DEF ResponseUpdate
    <3>3. DataSide = (pendingData \o <<responseTrans>>) \o requests
          BY <2>2, <3>1, Channelled DEF DataSide, DataChannel
    <3>4. QED  BY <1>3, <2>1, <2>2, <3>1, <3>2, <3>3
  <2>3. CASE responseTrans \in Returns
    <3>1. responseTrans # EMPTY /\ responseTrans \notin Transactions  BY <2>3, Kinds
    <3>2. updateResponse(responseTrans)  BY <2>1, <3>1 DEF ResponseUpdate
    <3>3. UNCHANGED <<pendingVars, ftlQueue>> /\ responseTrans' \in {EMPTY, responseTrans}
          BY <2>3, <3>2 DEF updateResponse
    <3>4. PageMoves  BY <2>1, <2>3, <3>3, Kinds DEF PageMoves, OnItsWayUp
    <3>5. QED  BY <1>4, <2>1, <2>3, <3>1, <3>3, <3>4
  <2>4. CASE responseTrans = EMPTY
    <3>1. UNCHANGED <<responseTrans, pendingVars, ftlQueue>>
          BY <2>1, <2>4 DEF ResponseUpdate, responseChannel
    <3>2. PageMoves  BY <2>1, <3>1 DEF PageMoves, OnItsWayUp
    <3>3. QED  BY <1>4, <2>1, <2>4, <3>1, <3>2, Kinds
  <2>5. QED  BY <1>1, <2>2, <2>3, <2>4 DEF ChannelTypes
<1>8. QED  BY <1>5, <1>6, <1>7

LEMMA CommandUpdated ==
    ASSUME FrontInv, CommandUpdate
    PROVE  FrontInv' /\ GivesOldest
<1>0. TurnUse'  BY TurnKept DEF Next
<1>1. /\ UNCHANGED <<modes, requests, responseVars, requestChannel, responseChannel, belowVars>>
      /\ ChannelTypes /\ ChannelUse
      BY DEF CommandUpdate, FrontInv
<1>2. ASSUME NEW t \in Transactions, ENABLE_COMMAND_CHANNEL,
             commands' \in Seq(Transactions),
             CommandSide = (pendingCommand \o <<t>>) \o commands',
             updateCommand(t)
      PROVE  FrontInv' /\ GivesOldest
  <2>1. DataChannel' = DataChannel
        BY <1>1 DEF DataChannel, modes, requestChannel, responseChannel
  <2>2. \/ commandTrans' = t /\ UNCHANGED <<pendingVars, ftlQueue>>
        \/ /\ commandTrans' = CommandArrives(t).left
           /\ sendToFTL(t, CommandArrives(t).sent)
           /\ pendingData' = CommandArrives(t).search
           /\ pendingCommand' = CommandArrives(t).add
        BY <1>2 DEF updateCommand
  <2>3. UNCHANGED <<modes, requests, DataChannel>>  BY <1>1, <2>1
  <2>4. /\ pendingData' \in Seq(Transactions) /\ pendingCommand' \in Seq(Transactions)
        /\ CommandArrives(t).left \in {EMPTY, t}
        /\ OneListEmpty' /\ SidesAgree' /\ GivesOldest
        BY <1>2, <2>2, <2>3, CommandMoves
  <2>5. ChannelTypes' /\ ChannelUse'
        BY <1>1, <1>2, <2>2, <2>4 DEF ChannelTypes, ChannelUse, modes, responseVars,
           requestChannel, responseChannel, belowVars
  <2>6. QED  BY <1>0, <2>4, <2>5 DEF FrontInv
<1>3. CASE commandTrans # EMPTY /\ updateCommand(commandTrans) /\ commands' = commands
  <2>1. ENABLE_COMMAND_CHANNEL /\ commandTrans \in Transactions
        /\ commands \in Seq(Transactions)
        BY <1>1, <1>3 DEF ChannelTypes, ChannelUse
  <2>2. CommandSide = (pendingCommand \o <<commandTrans>>) \o commands
        BY <2>1, Channelled DEF CommandSide
  <2>3. QED  BY <1>2, <1>3, <2>1, <2>2
<1>4. CASE commandTrans = EMPTY /\ commands # <<>> /\ commands' = Tail(commands)
           /\ updateCommand(Head(commands))
  <2>1. ENABLE_COMMAND_CHANNEL  BY <1>1, <1>4 DEF ChannelTypes, ChannelUse
  <2>2. /\ Head(commands) \in Transactions /\ Tail(commands) \in Seq(Transactions)
        /\ CommandSide = (pendingCommand \o <<Head(commands)>>) \o Tail(commands)
        BY <1>1, <1>4, NextOfCommands
  <2>3. QED  BY <1>2, <1>4, <2>1, <2>2
<1>5. CASE UNCHANGED <<commands, commandChannel, pendingVars, ftlQueue>>
  <2>1. FrontInv' /\ DataSide' = DataSide
        BY <1>0, <1>1, <1>5 DEF FrontInv, ChannelTypes, ChannelUse, OneListEmpty, SidesAgree,
           DataSide, CommandSide, DataChannel, modes, responseVars, requestChannel,
           responseChannel, commandChannel, pendingVars, belowVars
  <2>2. QED  BY <1>5, <2>1 DEF GivesOldest
<1>6. QED  BY <1>3, <1>4, <1>5 DEF CommandUpdate

(* The FTL takes the first of its queue; neither it nor the controller     *)
(* touches what waits for the channels of the requests.                    *)
LEMMA FtlUpdated ==
    ASSUME FrontInv, NEW pops \in BOOLEAN, FtlUpdate(pops)
    PROVE  FrontInv' /\ DataSide' = DataSide
<1>0. TurnUse'  BY TurnKept DEF Next
<1>1. /\ UNCHANGED <<modes, requestVars, responseVars, requestChannel, responseChannel,
                     commandChannel, pendingVars, returnTransaction>>
      /\ \/ ftlQueue' = ftlQueue
         \/ ftlQueue # <<>> /\ ftlQueue' = Tail(ftlQueue)
      BY DEF FtlUpdate, FtlPops
<1>2. FrontInv' /\ DataSide' = DataSide
      BY <1>0, <1>1 DEF FrontInv, ChannelTypes, ChannelUse, OneListEmpty, SidesAgree, DataSide,
         CommandSide, DataChannel, modes, requestVars, responseVars, requestChannel,
         responseChannel, commandChannel, pendingVars
<1>3. QED  BY <1>2

LEMMA OfferTypes ==
    ASSUME NEW pages \in Seq(Returns), responses \in Seq(Returns), Offer(pages)
    PROVE  responses' \in Seq(Returns) /\ returnTransaction' \in Seq(Returns)
<1>1. PICK n \in 0 .. Len(pages) :
        /\ responses' = responses \o [i \in 1 .. n |-> pages[Len(pages) + 1 - i]]
        /\ returnTransaction' = SubSeq(pages, 1, Len(pages) - n)
      BY DEF Offer
<1>2. Len(pages) \in Nat /\ \A i \in 1 .. Len(pages) : pages[i] \in Returns
      BY LenProperties, ElementOfSeq
<1>3. [i \in 1 .. n |-> pages[Len(pages) + 1 - i]] \in Seq(Returns)
  <2>1. [i \in 1 .. n |-> pages[Len(pages) + 1 - i]] \in [1 .. n -> Returns]
        BY <1>2
  <2>2. QED  BY <2>1, SeqDef
<1>4. responses' \in Seq(Returns)  BY <1>1, <1>3, ConcatProperties
<1>5. SubSeq(pages, 1, Len(pages) - n) \in Seq(Returns)
  <2>1. Len(pages) - n \in Int /\ \A i \in 1 .. Len(pages) - n : pages[i] \in Returns
        BY <1>2
  <2>2. QED  BY <2>1, SubSeqProperties
<1>6. QED  BY <1>1, <1>4, <1>5

LEMMA ControllerUpdated ==
    ASSUME FrontInv, NEW comes \in BOOLEAN, ControllerUpdate(comes)
    PROVE  FrontInv' /\ ftlQueue' = ftlQueue /\ DataSide' = DataSide
<1>0. TurnUse'  BY TurnKept DEF Next
<1>1. UNCHANGED <<modes, requestVars, requestChannel, responseChannel,
                  commandChannel, pendingVars, ftlQueue>>
      BY DEF ControllerUpdate
<1>2. responses \in Seq(Returns) /\ returnTransaction \in Seq(Returns)
      BY DEF FrontInv, ChannelTypes
<1>3. responses' \in Seq(Returns) /\ returnTransaction' \in Seq(Returns)
  <2>1. CASE comes
    <3>1. PICK a \in Addr :
            Offer(Append(returnTransaction, [type |-> "RETURN_DATA", address |-> a]))
          BY <2>1 DEF ControllerUpdate
    <3>2. [type |-> "RETURN_DATA", address |-> a] \in Returns  BY DEF Returns
    <3>3. Append(returnTransaction, [type |-> "RETURN_DATA", address |-> a]) \in Seq(Returns)
          BY <1>2, <3>2, AppendProperties
    <3>4. QED  BY <1>2, <3>1, <3>3, OfferTypes
  <2>2. CASE ~comes
    <3>1. Offer(returnTransaction)  BY <2>2 DEF ControllerUpdate
    <3>2. QED  BY <1>2, <3>1, OfferTypes
  <2>3. QED  BY <2>1, <2>2
<1>4. FrontInv' /\ DataSide' = DataSide
      BY <1>0, <1>1, <1>3 DEF FrontInv, ChannelTypes, ChannelUse, OneListEmpty, SidesAgree, DataSide,
         CommandSide, DataChannel, modes, requestVars, requestChannel,
         responseChannel, commandChannel, pendingVars
<1>5. QED  BY <1>1, <1>4

-----------------------------------------------------------------------------
(* The theorems.                                                           *)

LEMMA InitInv == Init => FrontInv
<1>1. SUFFICES ASSUME Init  PROVE FrontInv  OBVIOUS
<1>2. <<>> \in Seq(Transactions) /\ <<>> \in Seq(Returns)  BY EmptySeq
<1>3. DataChannel = EMPTY /\ commandTrans = EMPTY
      BY <1>1, Kinds DEF Init, DataChannel
<1>4. DataSide = CommandSide  BY <1>1, <1>3 DEF Init, DataSide, CommandSide
<1>5. QED  BY <1>1, <1>2, <1>4, Kinds, FrontBufferAssumption
         DEF Init, FrontInv, TurnUse, ChannelTypes, ChannelUse,
              OneListEmpty, SidesAgree

LEMMA NextInv == FrontInv /\ [Next]_vars => FrontInv'
<1>1. SUFFICES ASSUME FrontInv, [Next]_vars  PROVE FrontInv'  OBVIOUS
<1>2. CASE Next
      BY <1>1, <1>2, RequestsAdded, ResponseUpdated, RequestUpdated, CommandUpdated, FtlUpdated,
         ControllerUpdated DEF Next
<1>3. CASE UNCHANGED vars
      BY <1>1, <1>3 DEF FrontInv, TurnUse, ChannelTypes, ChannelUse, OneListEmpty, SidesAgree,
         DataSide, CommandSide, DataChannel, vars, modes, requestVars, responseVars,
         requestChannel, responseChannel, commandChannel, pendingVars, belowVars
<1>4. QED  BY <1>1, <1>2, <1>3

(* Command and data of a transaction always find each other: the halves    *)
(* that have not met are those of the same transactions in the same order  *)
(* (FrontBuffer.cpp:354-403).                                              *)
THEOREM HalvesAgree == Spec => []SidesAgree
<1>1. Init => FrontInv  BY InitInv
<1>2. FrontInv /\ [Next]_vars => FrontInv'  BY NextInv
<1>3. FrontInv => SidesAgree  BY DEF FrontInv
<1>4. QED  BY <1>1, <1>2, <1>3, PTL DEF Spec

(* The FTL is given every request once, in the order of acceptance, and    *)
(* nothing else, however command and data travel and however often a full  *)
(* FTL sends a request back (FrontBuffer.cpp:124-409).                     *)
THEOREM RequestsInOrder == Spec => [][GivenInOrder]_vars
<1>1. FrontInv /\ [Next]_vars => [GivenInOrder]_vars
  <2>1. SUFFICES ASSUME FrontInv, Next  PROVE GivenInOrder  OBVIOUS
  <2>2. CASE \E t \in Transactions : HostAdds(t)
        BY <2>1, <2>2, RequestsAdded DEF GivenInOrder
  <2>3. CASE ResponseUpdate \/ RequestUpdate \/ CommandUpdate
        BY <2>1, <2>3, ResponseUpdated, RequestUpdated, CommandUpdated
           DEF GivenInOrder, GivesOldest
  <2>4. ASSUME NEW pops \in BOOLEAN, FtlUpdate(pops)  PROVE GivenInOrder
    <3>1. \/ ftlQueue' = ftlQueue
          \/ ftlQueue # <<>> /\ ftlQueue' = Tail(ftlQueue)
          BY <2>4 DEF FtlUpdate, FtlPops
    <3>2. QED  BY <2>1, <2>4, <3>1, FtlUpdated DEF GivenInOrder, GivesOldest
  <2>5. ASSUME NEW comes \in BOOLEAN, ControllerUpdate(comes)  PROVE GivenInOrder
        BY <2>1, <2>5, ControllerUpdated DEF GivenInOrder, GivesOldest
  <2>6. QED  BY <2>1, <2>2, <2>3, <2>4, <2>5 DEF Next
<1>2. Init => FrontInv  BY InitInv
<1>3. FrontInv /\ [Next]_vars => FrontInv'  BY NextInv
<1>4. QED  BY <1>1, <1>2, <1>3, PTL DEF Spec

-----------------------------------------------------------------------------
(* The sizes of the front buffer, with the cycles the channels have left.  *)

Turns == {"ftl", "response", "request", "command", "controller"}

SizeTypes ==
    /\ turn \in Turns
    /\ requestsSize \in Nat /\ responsesSize \in Nat
    /\ updates \in Nat /\ (turn = "response" => updates > 0)
    /\ \A left \in {requestCyclesLeft, responseCyclesLeft, commandCyclesLeft} : left \in Nat

SizeInv == SizeTypes /\ SizesSound

LEMMA WritesAreCounted ==
    ASSUME NEW s \in Seq(Transactions)
    PROVE  /\ WritesIn(s) \in Nat /\ Len(s) \in Nat
           /\ \A t \in Transactions : WritesIn(Append(s, t)) =
                 WritesIn(s) + IF t.type = "DATA_WRITE" THEN 1 ELSE 0
           /\ s # <<>> => WritesIn(s) =
                 WritesIn(Tail(s)) + IF Head(s).type = "DATA_WRITE" THEN 1 ELSE 0
<1> DEFINE Writes == {t \in Transactions : t.type = "DATA_WRITE"}
<1>1. ASSUME NEW r \in Seq(Transactions)
      PROVE  WritesIn(r) = CountIn(r, Writes) /\ WritesIn(r) \in Nat
  <2>1. DOMAIN r = 1 .. Len(r) /\ \A i \in 1 .. Len(r) : r[i] \in Transactions
        BY LenProperties, ElementOfSeq
  <2>2. {i \in DOMAIN r : r[i].type = "DATA_WRITE"} = Places(r, Writes)
        BY <2>1 DEF Places
  <2>3. QED  BY <2>2, CountType DEF WritesIn, CountIn
<1>2. ASSUME NEW t \in Transactions
      PROVE  WritesIn(Append(s, t)) = WritesIn(s) + IF t.type = "DATA_WRITE" THEN 1 ELSE 0
  <2>1. Append(s, t) \in Seq(Transactions)  BY AppendProperties
  <2>2. t \in Writes <=> t.type = "DATA_WRITE"  OBVIOUS
  <2> HIDE DEF Writes
  <2>3. CountIn(Append(s, t), Writes) = CountIn(s, Writes) + OneIf(t \in Writes)
        BY CountAppend
  <2>4. QED  BY <1>1, <2>1, <2>2, <2>3 DEF OneIf
<1>3. ASSUME s # <<>>
      PROVE  WritesIn(s) = WritesIn(Tail(s)) + IF Head(s).type = "DATA_WRITE" THEN 1 ELSE 0
  <2>1. Head(s) \in Transactions /\ Tail(s) \in Seq(Transactions)
        BY <1>3, HeadTailProperties
  <2>2. Head(s) \in Writes <=> Head(s).type = "DATA_WRITE"  BY <2>1
  <2> HIDE DEF Writes
  <2>3. CountIn(s, Writes) = OneIf(Head(s) \in Writes) + CountIn(Tail(s), Writes)
        BY <1>3, CountHeadTail
  <2>4. WritesIn(s) = CountIn(s, Writes)  BY <1>1
  <2>5. WritesIn(Tail(s)) = CountIn(Tail(s), Writes) /\ WritesIn(Tail(s)) \in Nat
        BY <1>1, <2>1
  <2>6. CASE Head(s).type = "DATA_WRITE"
        BY <2>2, <2>3, <2>4, <2>5, <2>6 DEF OneIf
  <2>7. CASE Head(s).type # "DATA_WRITE"
        BY <2>2, <2>3, <2>4, <2>5, <2>7 DEF OneIf
  <2>8. QED  BY <2>6, <2>7
<1>4. Len(s) \in Nat  BY LenProperties
<1>5. QED  BY <1>1, <1>2, <1>3, <1>4

(* The bits of so many pages and of so many commands.                      *)
LEMMA BitsOfMore ==
    ASSUME NEW m \in Nat, NEW n \in Nat
    PROVE  /\ m * n \in Nat
           /\ m * (n + 1) = m * n + m
           /\ \A k \in Nat : m * (n + k) = m * n + k * m
OBVIOUS

WaitingBitsOf(writes, waiting) == PAGE_LENGTH * writes + COMMAND_LENGTH * waiting

LEMMA WaitingBitsType ==
    ASSUME ChannelTypes
    PROVE  /\ WaitingBits = WaitingBitsOf(WritesIn(requests),
                                Len(IF ENABLE_COMMAND_CHANNEL THEN commands ELSE requests))
           /\ WaitingBits \in Nat
<1>1. /\ WritesIn(requests) \in Nat /\ Len(requests) \in Nat /\ Len(commands) \in Nat
      BY WritesAreCounted DEF ChannelTypes
<1>2. Len(IF ENABLE_COMMAND_CHANNEL THEN commands ELSE requests) \in Nat  BY <1>1
<1>3. /\ PAGE_LENGTH * WritesIn(requests) \in Nat
      /\ COMMAND_LENGTH * Len(IF ENABLE_COMMAND_CHANNEL THEN commands ELSE requests) \in Nat
      BY <1>1, <1>2, BitsOfMore, FrontBufferAssumption
<1>4. QED  BY <1>3 DEF WaitingBits, WaitingBitsOf

(* What a list that gets longer or shorter by one does to the bits.        *)
LEMMA BitsAdded ==
    ASSUME NEW writes \in Nat, NEW waiting \in Nat
    PROVE  /\ WaitingBitsOf(writes, waiting) \in Nat
           /\ WaitingBitsOf(writes + 1, waiting) = WaitingBitsOf(writes, waiting) + PAGE_LENGTH
           /\ WaitingBitsOf(writes, waiting + 1) = WaitingBitsOf(writes, waiting) + COMMAND_LENGTH
           /\ WaitingBitsOf(writes + 1, waiting + 1)
                 = WaitingBitsOf(writes, waiting) + PAGE_LENGTH + COMMAND_LENGTH
<1>1. /\ PAGE_LENGTH \in Nat /\ COMMAND_LENGTH \in Nat
      /\ PAGE_LENGTH * writes \in Nat /\ COMMAND_LENGTH * waiting \in Nat
      /\ PAGE_LENGTH * (writes + 1) = PAGE_LENGTH * writes + PAGE_LENGTH
      /\ COMMAND_LENGTH * (waiting + 1) = COMMAND_LENGTH * waiting + COMMAND_LENGTH
      BY BitsOfMore, FrontBufferAssumption
<1>2. QED  BY <1>1 DEF WaitingBitsOf

LEMMA RequestsGrow ==
    ASSUME ChannelTypes, SizeInv, NEW t \in Transactions, addRequest(t), UNCHANGED modes
    PROVE  requestsSize' \in Nat /\ requestsSize' <= WaitingBits'
<1>1. /\ requests \in Seq(Transactions) /\ commands \in Seq(Transactions)
      /\ requestsSize \in Nat /\ requestsSize <= WaitingBits
      BY DEF ChannelTypes, SizeInv, SizeTypes, SizesSound
<1>2. /\ requests' = Append(requests, t)
      /\ commands' = IF ENABLE_COMMAND_CHANNEL THEN Append(commands, t) ELSE commands
      /\ requestsSize' = requestsSize + RequestBits(t)
      BY DEF addRequest
<1> DEFINE waiting == IF ENABLE_COMMAND_CHANNEL THEN commands ELSE requests
<1>3. /\ waiting \in Seq(Transactions) /\ waiting' = Append(waiting, t)
      BY <1>1, <1>2 DEF modes
<1> HIDE DEF waiting
<1>4. Len(waiting) \in Nat /\ Len(waiting') = Len(waiting) + 1
      BY <1>3, AppendProperties, LenProperties
<1>5. /\ WritesIn(requests) \in Nat
      /\ WritesIn(requests') = WritesIn(requests) + IF t.type = "DATA_WRITE" THEN 1 ELSE 0
      BY <1>1, <1>2, WritesAreCounted
<1>6. /\ WaitingBits = WaitingBitsOf(WritesIn(requests), Len(waiting))
      /\ WaitingBits' = WaitingBitsOf(WritesIn(requests'), Len(waiting'))
      BY DEF WaitingBits, WaitingBitsOf, waiting
<1>7. WaitingBits \in Nat  BY <1>4, <1>5, <1>6, BitsAdded
<1>8. WaitingBits' = WaitingBits + RequestBits(t) /\ RequestBits(t) \in Nat
  <2>1. COMMAND_LENGTH \in Nat /\ PAGE_LENGTH \in Nat  BY FrontBufferAssumption
  <2>2. CASE t.type = "DATA_WRITE"
    <3>1. RequestBits(t) = COMMAND_LENGTH + PAGE_LENGTH  BY <2>2 DEF RequestBits
    <3>2. WaitingBits' = WaitingBitsOf(WritesIn(requests) + 1, Len(waiting) + 1)
          BY <1>4, <1>5, <1>6, <2>2
    <3>3. WaitingBits' = WaitingBits + PAGE_LENGTH + COMMAND_LENGTH
          BY <1>4, <1>5, <1>6, <3>2, BitsAdded
    <3>4. QED  BY <1>7, <2>1, <3>1, <3>3
  <2>3. CASE t.type # "DATA_WRITE"
    <3>1. RequestBits(t) = COMMAND_LENGTH  BY <2>3 DEF RequestBits, Transactions
    <3>2. WaitingBits' = WaitingBitsOf(WritesIn(requests), Len(waiting) + 1)
          BY <1>4, <1>5, <1>6, <2>3
    <3>3. QED  BY <1>4, <1>5, <1>6, <2>1, <3>1, <3>2, BitsAdded
  <2>4. QED  BY <2>2, <2>3
<1>9. QED  BY <1>1, <1>2, <1>7, <1>8

(* What leaves gives back at least what it counted.                        *)
LEMMA GivenBack ==
    ASSUME NEW size \in Nat, NEW bits \in Nat, NEW left \in Nat, NEW back \in Nat,
           NEW counted \in 0 .. back,
           size <= bits, bits = left + counted
    PROVE  subtract_params(size, back) \in Nat /\ subtract_params(size, back) <= left
BY DEF subtract_params

LEMMA RequestLeaves ==
    ASSUME ChannelTypes, SizeInv, requests # <<>>, newRequestTrans,
           UNCHANGED <<modes, commands>>
    PROVE  requestsSize' \in Nat /\ requestsSize' <= WaitingBits'
<1>1. /\ requests \in Seq(Transactions) /\ commands \in Seq(Transactions)
      /\ requestsSize \in Nat /\ requestsSize <= WaitingBits
      BY DEF ChannelTypes, SizeInv, SizeTypes, SizesSound
<1>2. PAGE_LENGTH \in Nat /\ COMMAND_LENGTH \in Nat  BY FrontBufferAssumption
<1>3. /\ requests' = Tail(requests) /\ requests' \in Seq(Transactions)
      /\ Len(requests) = Len(requests') + 1
      BY <1>1, HeadTailProperties, LenProperties DEF newRequestTrans
<1> DEFINE more == IF Head(requests).type = "DATA_WRITE" THEN 1 ELSE 0
           n == WritesIn(requests')
<1>4. /\ n \in Nat /\ WritesIn(requests) = n + more
      /\ Len(requests') \in Nat /\ Len(commands) \in Nat
      BY <1>1, <1>3, WritesAreCounted
<1>5. more \in {0, 1} /\ WaitingBits \in Nat  BY WaitingBitsType
<1>6. CASE ENABLE_COMMAND_CHANNEL
  <2>1. requestsSize' = subtract_params(requestsSize, PAGE_LENGTH)
    <3>1. PAGE_LENGTH + 0 = PAGE_LENGTH  BY <1>2
    <3>2. QED  BY <1>6, <3>1 DEF newRequestTrans
  <2>2. /\ WaitingBits = WaitingBitsOf(n + more, Len(commands))
        /\ WaitingBits' = WaitingBitsOf(n, Len(commands))
        BY <1>4, <1>6 DEF WaitingBits, WaitingBitsOf, modes
  <2> HIDE DEF more, n
  <2>3. WaitingBits' \in Nat  BY <1>4, <2>2, BitsAdded
  <2>4. CASE more = 0
    <3>1. n + more = n /\ \A k \in Nat : k = k + 0  BY <1>4, <2>4
    <3>2. WaitingBits = WaitingBits'  BY <2>2, <3>1
    <3>3. WaitingBits = WaitingBits' + 0  BY <2>3, <3>1, <3>2, Zenon
    <3>4. 0 \in 0 .. PAGE_LENGTH  BY <1>2
    <3>5. QED  BY <1>1, <1>2, <1>5, <2>1, <2>3, <3>3, <3>4, GivenBack
  <2>5. CASE more = 1
    <3>1. WaitingBits = WaitingBits' + PAGE_LENGTH /\ PAGE_LENGTH \in 0 .. PAGE_LENGTH
          BY <1>2, <1>4, <2>2, <2>5, BitsAdded
    <3>2. QED  BY <1>1, <1>2, <1>5, <2>1, <2>3, <3>1, GivenBack
  <2>6. QED  BY <1>5, <2>4, <2>5
<1>7. CASE ~ENABLE_COMMAND_CHANNEL
  <2>1. requestsSize' = subtract_params(requestsSize, PAGE_LENGTH + COMMAND_LENGTH)
        BY <1>7 DEF newRequestTrans
  <2>2. /\ WaitingBits = WaitingBitsOf(n + more, Len(requests') + 1)
        /\ WaitingBits' = WaitingBitsOf(n, Len(requests'))
        BY <1>3, <1>4, <1>7 DEF WaitingBits, WaitingBitsOf, modes
  <2> HIDE DEF more, n
  <2>3. WaitingBits' \in Nat /\ PAGE_LENGTH + COMMAND_LENGTH \in Nat
        BY <1>2, <1>4, <2>2, BitsAdded
  <2>4. CASE more = 0
    <3>1. n + more = n /\ COMMAND_LENGTH \in 0 .. PAGE_LENGTH + COMMAND_LENGTH
          BY <1>2, <1>4, <2>4
    <3>2. WaitingBits = WaitingBits' + COMMAND_LENGTH  BY <1>4, <2>2, <3>1, BitsAdded
    <3>3. QED  BY <1>1, <1>5, <2>1, <2>3, <3>1, <3>2, GivenBack
  <2>5. CASE more = 1
    <3>1. WaitingBits = WaitingBits' + PAGE_LENGTH + COMMAND_LENGTH
          BY <1>4, <2>2, <2>5, BitsAdded
    <3>2. /\ PAGE_LENGTH + COMMAND_LENGTH \in 0 .. PAGE_LENGTH + COMMAND_LENGTH
          /\ WaitingBits' + PAGE_LENGTH + COMMAND_LENGTH
               = WaitingBits' + (PAGE_LENGTH + COMMAND_LENGTH)
          BY <1>2, <2>3
    <3>3. WaitingBits = WaitingBits' + (PAGE_LENGTH + COMMAND_LENGTH)
          BY <3>1, <3>2, Zenon
    <3>4. QED  BY <1>1, <1>5, <2>1, <2>3, <3>2, <3>3, GivenBack
  <2>6. QED  BY <1>5, <2>4, <2>5
<1>8. QED  BY <1>6, <1>7

LEMMA CommandLeaves ==
    ASSUME ChannelTypes, ChannelUse, SizeInv, commands # <<>>, commands' = Tail(commands),
           requestsSize' = subtract_params(requestsSize, COMMAND_LENGTH),
           UNCHANGED <<modes, requests>>
    PROVE  requestsSize' \in Nat /\ requestsSize' <= WaitingBits'
<1>1. /\ requests \in Seq(Transactions) /\ commands \in Seq(Transactions)
      /\ requestsSize \in Nat /\ requestsSize <= WaitingBits
      BY DEF ChannelTypes, SizeInv, SizeTypes, SizesSound
<1>2. COMMAND_LENGTH \in Nat  BY FrontBufferAssumption
<1>3. ENABLE_COMMAND_CHANNEL  BY DEF ChannelUse, ChannelTypes
<1>4. /\ commands' \in Seq(Transactions) /\ Len(commands) = Len(commands') + 1
      /\ Len(commands') \in Nat
      BY <1>1, HeadTailProperties, LenProperties
<1>5. WritesIn(requests) \in Nat  BY <1>1, WritesAreCounted
<1>6. /\ WaitingBits = WaitingBitsOf(WritesIn(requests), Len(commands') + 1)
      /\ WaitingBits' = WaitingBitsOf(WritesIn(requests), Len(commands'))
      BY <1>3, <1>4 DEF WaitingBits, WaitingBitsOf, modes
<1>7. WaitingBits' \in Nat /\ WaitingBits = WaitingBits' + COMMAND_LENGTH
      BY <1>4, <1>5, <1>6, BitsAdded
<1>8. WaitingBits \in Nat /\ COMMAND_LENGTH \in 0 .. COMMAND_LENGTH
      BY <1>2, WaitingBitsType
<1>9. QED  BY <1>1, <1>2, <1>7, <1>8, GivenBack

LEMMA ResponsesLeave ==
    ASSUME ChannelTypes, SizeInv, responses # <<>>, responses' = Tail(responses),
           responsesSize' = subtract_params(responsesSize, PAGE_LENGTH)
    PROVE  responsesSize' \in Nat /\ responsesSize' = PAGE_LENGTH * Len(responses')
<1>1. responses \in Seq(Returns) /\ PAGE_LENGTH \in Nat
      BY FrontBufferAssumption DEF ChannelTypes
<1>2. Len(responses') \in Nat /\ Len(responses) = Len(responses') + 1
      BY <1>1, HeadTailProperties, LenProperties
<1>3. /\ PAGE_LENGTH * Len(responses') \in Nat
      /\ PAGE_LENGTH * (Len(responses') + 1) = PAGE_LENGTH * Len(responses') + PAGE_LENGTH
      BY <1>1, <1>2, BitsOfMore
<1>4. responsesSize = PAGE_LENGTH * Len(responses') + PAGE_LENGTH
      BY <1>2, <1>3 DEF SizeInv, SizesSound
<1>5. ASSUME NEW m \in Nat, NEW n \in Nat  PROVE subtract_params(m + n, n) = m
      BY <1>5 DEF subtract_params
<1>6. QED  BY <1>1, <1>3, <1>4, <1>5

LEMMA ResponsesGrow ==
    ASSUME ChannelTypes, SizeInv, NEW pages \in Seq(Returns), Offer(pages)
    PROVE  responsesSize' \in Nat /\ responsesSize' = PAGE_LENGTH * Len(responses')
<1>1. responses \in Seq(Returns) /\ PAGE_LENGTH \in Nat
      BY FrontBufferAssumption DEF ChannelTypes
<1>2. PICK n \in 0 .. Len(pages) :
        /\ responses' = responses \o [i \in 1 .. n |-> pages[Len(pages) + 1 - i]]
        /\ responsesSize' = responsesSize + n * PAGE_LENGTH
      BY DEF Offer
<1> DEFINE offered == [i \in 1 .. n |-> pages[Len(pages) + 1 - i]]
<1>3. n \in Nat /\ offered \in Seq(Returns) /\ Len(offered) = n
  <2>1. Len(pages) \in Nat /\ \A i \in 1 .. Len(pages) : pages[i] \in Returns
        BY LenProperties, ElementOfSeq
  <2>2. n \in Nat /\ offered \in [1 .. n -> Returns]  BY <2>1
  <2>3. offered \in Seq(Returns)  BY <2>2, SeqDef
  <2>4. DOMAIN offered = 1 .. n /\ DOMAIN offered = 1 .. Len(offered)
        /\ Len(offered) \in Nat
        BY <2>3, LenProperties
  <2>5. Len(offered) = n  BY <2>2, <2>4
  <2>6. QED  BY <2>2, <2>3, <2>5
<1> HIDE DEF offered
<1>4. Len(responses) \in Nat /\ Len(responses') = Len(responses) + n
  <2>1. responses' = responses \o offered  BY <1>2 DEF offered
  <2>2. QED  BY <1>1, <1>3, <2>1, ConcatProperties, LenProperties
<1>5. /\ PAGE_LENGTH * Len(responses) \in Nat
      /\ PAGE_LENGTH * (Len(responses) + n) = PAGE_LENGTH * Len(responses) + n * PAGE_LENGTH
      /\ PAGE_LENGTH * (Len(responses) + n) \in Nat
  <2>1. Len(responses) + n \in Nat  BY <1>3, <1>4
  <2>2. QED  BY <1>1, <1>3, <1>4, <2>1, BitsOfMore
<1>6. responsesSize = PAGE_LENGTH * Len(responses)  BY DEF SizeInv, SizesSound
<1>7. QED  BY <1>2, <1>4, <1>5, <1>6

LEMMA CyclesType ==
    ASSUME NEW left \in Nat, NEW bits \in Nat, NEW width \in Nat \ {0}
    PROVE  /\ CyclesAfter(left, divide_params_64b(bits, width)) \in Nat
           /\ CyclesAfter(left, 1) \in Nat
<1> DEFINE quotient == (100 * bits + 99 * width) \div (100 * width)
<1>1. quotient \in Nat  BY QuotientType
<1>2. divide_params_64b(bits, width) = IF quotient = 0 THEN 1 ELSE quotient
      BY DEF divide_params_64b
<1> HIDE DEF quotient
<1>3. divide_params_64b(bits, width) \in Nat \ {0}  BY <1>1, <1>2
<1>4. ASSUME NEW cycles \in Nat \ {0}  PROVE CyclesAfter(left, cycles) \in Nat
      BY DEF CyclesAfter
<1>5. QED  BY <1>3, <1>4

LEMMA DataCyclesType ==
    ASSUME NEW left \in Nat, NEW t, NEW width \in Nat \ {0}
    PROVE  CyclesAfter(left, setDataCycles(t, width)) \in Nat
<1>1. /\ COMMAND_LENGTH \in Nat
      /\ PAGE_LENGTH + (IF ENABLE_COMMAND_CHANNEL THEN 0 ELSE COMMAND_LENGTH) \in Nat
      BY FrontBufferAssumption
<1>2. QED  BY <1>1, CyclesType DEF setDataCycles

LEMMA UpdatesNext ==
    ASSUME FrontInv, SizeInv, Next
    PROVE  turn' \in Turns /\ updates' \in Nat /\ (turn' = "response" => updates' > 0)
<1>1. turn \in Turns /\ updates \in Nat /\ (turn = "response" => updates > 0)
      BY DEF SizeInv, SizeTypes
<1>2. CASE \E t \in Transactions : HostAdds(t)  BY <1>1, <1>2 DEF HostAdds, Turns
<1>3. CASE ResponseUpdate
      BY <1>1, <1>3 DEF ResponseUpdate, AfterResponse, AfterRequest, AfterCommand, Turns
<1>4. CASE RequestUpdate
      BY <1>1, <1>4 DEF RequestUpdate, AfterRequest, AfterCommand, Turns
<1>5. CASE CommandUpdate  BY <1>1, <1>5 DEF CommandUpdate, AfterCommand, Turns
<1>6. ASSUME NEW now \in BOOLEAN, FtlUpdate(now)
      PROVE  turn' \in Turns /\ updates' \in Nat /\ (turn' = "response" => updates' > 0)
      BY <1>6, FrontBufferAssumption DEF FtlUpdate, Turns
<1>7. ASSUME NEW now \in BOOLEAN, ControllerUpdate(now)
      PROVE  turn' \in Turns /\ updates' \in Nat /\ (turn' = "response" => updates' > 0)
      BY <1>1, <1>7 DEF ControllerUpdate, Turns
<1>8. QED  BY <1>2, <1>3, <1>4, <1>5, <1>6, <1>7 DEF Next

LEMMA CyclesNext ==
    ASSUME FrontInv, SizeInv, Next
    PROVE  /\ requestCyclesLeft' \in Nat /\ responseCyclesLeft' \in Nat
           /\ commandCyclesLeft' \in Nat
<1>1. /\ requestCyclesLeft \in Nat /\ responseCyclesLeft \in Nat
      /\ commandCyclesLeft \in Nat
      BY DEF SizeInv, SizeTypes
<1>2. /\ CHANNEL_WIDTH \in Nat \ {0} /\ REQUEST_CHANNEL_WIDTH \in Nat \ {0}
      /\ COMMAND_CHANNEL_WIDTH \in Nat \ {0} /\ PAGE_LENGTH \in Nat /\ COMMAND_LENGTH \in Nat
      BY FrontBufferAssumption
<1>3. ASSUME NEW t, updateResponse(t)  PROVE responseCyclesLeft' \in Nat
  <2>1. CASE t \in Returns
        BY <1>1, <1>2, <1>3, <2>1, CyclesType DEF updateResponse
  <2>2. CASE t \notin Returns
        BY <1>1, <1>2, <1>3, <2>2, DataCyclesType DEF updateResponse
  <2>3. QED  BY <2>1, <2>2
<1>4. ASSUME NEW t, updateRequest(t)  PROVE requestCyclesLeft' \in Nat
      BY <1>1, <1>2, <1>4, DataCyclesType DEF updateRequest
<1>5. ASSUME NEW t, updateCommand(t)  PROVE commandCyclesLeft' \in Nat
      BY <1>1, <1>2, <1>5, CyclesType DEF updateCommand
<1>6. CASE ResponseUpdate
      BY <1>1, <1>3, <1>6 DEF ResponseUpdate, responseChannel, requestChannel, commandChannel
<1>7. CASE RequestUpdate
      BY <1>1, <1>4, <1>7 DEF RequestUpdate, responseChannel, requestChannel, commandChannel
<1>8. CASE CommandUpdate
      BY <1>1, <1>5, <1>8 DEF CommandUpdate, responseChannel, requestChannel, commandChannel
<1>9. CASE UNCHANGED <<requestChannel, responseChannel, commandChannel>>
      BY <1>1, <1>9 DEF responseChannel, requestChannel, commandChannel
<1>10. QED  BY <1>6, <1>7, <1>8, <1>9 DEF Next, HostAdds, FtlUpdate, ControllerUpdate

LEMMA RequestsSizeNext ==
    ASSUME FrontInv, SizeInv, Next
    PROVE  requestsSize' \in Nat /\ requestsSize' <= WaitingBits'
<1>1. ChannelTypes /\ ChannelUse  BY DEF FrontInv
<1>2. ASSUME UNCHANGED <<modes, requests, commands, requestsSize>>
      PROVE  requestsSize' \in Nat /\ requestsSize' <= WaitingBits'
      BY <1>2 DEF SizeInv, SizeTypes, SizesSound, WaitingBits, modes
<1>3. CASE \E t \in Transactions : HostAdds(t)
      BY <1>1, <1>3, RequestsGrow DEF HostAdds
<1>4. CASE ResponseUpdate
  <2>1. CASE responseFromRequests
        BY <1>1, <1>4, <2>1, RequestLeaves DEF ResponseUpdate, responseFromRequests
  <2>2. CASE ~responseFromRequests
        BY <1>2, <1>4, <2>2 DEF ResponseUpdate
  <2>3. QED  BY <2>1, <2>2
<1>5. CASE RequestUpdate
  <2>1. CASE newRequestTrans /\ requests # <<>>
        BY <1>1, <1>5, <2>1, RequestLeaves DEF RequestUpdate
  <2>2. CASE UNCHANGED <<requests, requestsSize>>
        BY <1>2, <1>5, <2>2 DEF RequestUpdate
  <2>3. QED  BY <1>5, <2>1, <2>2 DEF RequestUpdate
<1>6. CASE CommandUpdate
  <2>1. CASE /\ commands # <<>> /\ commands' = Tail(commands)
             /\ requestsSize' = subtract_params(requestsSize, COMMAND_LENGTH)
        BY <1>1, <1>6, <2>1, CommandLeaves DEF CommandUpdate
  <2>2. CASE UNCHANGED <<commands, requestsSize>>
        BY <1>2, <1>6, <2>2 DEF CommandUpdate
  <2>3. QED  BY <1>6, <2>1, <2>2 DEF CommandUpdate
<1>7. CASE \E now \in BOOLEAN : FtlUpdate(now) \/ ControllerUpdate(now)
      BY <1>2, <1>7 DEF FtlUpdate, ControllerUpdate, requestVars
<1>8. QED  BY <1>3, <1>4, <1>5, <1>6, <1>7 DEF Next

LEMMA ResponsesSizeNext ==
    ASSUME FrontInv, SizeInv, Next
    PROVE  responsesSize' \in Nat /\ responsesSize' = PAGE_LENGTH * Len(responses')
<1>1. ChannelTypes  BY DEF FrontInv
<1>2. ASSUME UNCHANGED responseVars
      PROVE  responsesSize' \in Nat /\ responsesSize' = PAGE_LENGTH * Len(responses')
      BY <1>2 DEF SizeInv, SizeTypes, SizesSound, responseVars
<1>3. CASE ResponseUpdate
  <2>1. CASE responseFromQueue
        BY <1>1, <1>3, <2>1, ResponsesLeave DEF ResponseUpdate, responseFromQueue
  <2>2. CASE ~responseFromQueue  BY <1>2, <1>3, <2>2 DEF ResponseUpdate
  <2>3. QED  BY <2>1, <2>2
<1>4. CASE (\E t \in Transactions : HostAdds(t)) \/ RequestUpdate \/ CommandUpdate
           \/ \E now \in BOOLEAN : FtlUpdate(now)
      BY <1>2, <1>4 DEF HostAdds, RequestUpdate, CommandUpdate, FtlUpdate
<1>5. ASSUME NEW comes \in BOOLEAN, ControllerUpdate(comes)
      PROVE  responsesSize' \in Nat /\ responsesSize' = PAGE_LENGTH * Len(responses')
  <2>1. returnTransaction \in Seq(Returns)  BY <1>1 DEF ChannelTypes
  <2>2. CASE comes
    <3>1. PICK a \in Addr :
            Offer(Append(returnTransaction, [type |-> "RETURN_DATA", address |-> a]))
          BY <1>5, <2>2 DEF ControllerUpdate
    <3>2. [type |-> "RETURN_DATA", address |-> a] \in Returns  BY DEF Returns
    <3>3. Append(returnTransaction, [type |-> "RETURN_DATA", address |-> a]) \in Seq(Returns)
          BY <2>1, <3>2, AppendProperties
    <3>4. QED  BY <1>1, <3>1, <3>3, ResponsesGrow
  <2>3. CASE ~comes
    <3>1. Offer(returnTransaction)  BY <1>5, <2>3 DEF ControllerUpdate
    <3>2. QED  BY <1>1, <2>1, <3>1, ResponsesGrow
  <2>4. QED  BY <2>2, <2>3
<1>6. QED  BY <1>3, <1>4, <1>5 DEF Next

LEMMA SizeInit == Init => SizeInv
<1>1. SUFFICES ASSUME Init  PROVE SizeInv  OBVIOUS
<1>2. SizeTypes  BY <1>1 DEF Init, SizeTypes, Turns
<1>3. FrontInv  BY <1>1, InitInv
<1>4. requestsSize <= WaitingBits
  <2>1. WaitingBits \in Nat  BY <1>3, WaitingBitsType DEF FrontInv
  <2>2. requestsSize = 0  BY <1>1 DEF Init
  <2>3. QED  BY <2>1, <2>2
<1>5. responsesSize = PAGE_LENGTH * Len(responses)
  <2>1. Len(responses) = 0  BY <1>1 DEF Init
  <2>2. PAGE_LENGTH * 0 = 0  BY FrontBufferAssumption
  <2>3. QED  BY <1>1, <2>1, <2>2 DEF Init
<1>6. QED  BY <1>2, <1>4, <1>5 DEF SizeInv, SizesSound

LEMMA SizeNext == FrontInv /\ SizeInv /\ [Next]_vars => SizeInv'
<1>1. SUFFICES ASSUME FrontInv, SizeInv, [Next]_vars  PROVE SizeInv'  OBVIOUS
<1>2. CASE Next
      BY <1>1, <1>2, UpdatesNext, CyclesNext, RequestsSizeNext, ResponsesSizeNext
         DEF SizeInv, SizeTypes, SizesSound
<1>3. CASE UNCHANGED vars
      BY <1>1, <1>3 DEF SizeInv, SizeTypes, SizesSound, WaitingBits, vars, modes, requestVars,
         responseVars, requestChannel, responseChannel, commandChannel
<1>4. QED  BY <1>1, <1>2, <1>3

(* The front buffer never believes itself fuller than it is: what leaves   *)
(* gives back at least the bits it counted, and the pages for the host are *)
(* counted exactly (FrontBuffer.cpp:85-121, 138, 179, 190-194).             *)
THEOREM SizesAreSound == Spec => []SizesSound
<1>1. Init => FrontInv /\ SizeInv  BY InitInv, SizeInit
<1>2. FrontInv /\ SizeInv /\ [Next]_vars => (FrontInv /\ SizeInv)'
      BY NextInv, SizeNext
<1>3. SizeInv => SizesSound  BY DEF SizeInv
<1>4. QED  BY <1>1, <1>2, <1>3, PTL DEF Spec

-----------------------------------------------------------------------------
(* The refinement of HostChannel.  That requests are handed over in order  *)
(* is RequestsInOrder; what is left is to count the reads below the front  *)
(* buffer.  Pages move from list to list and the controller turns their    *)
(* order round, so the lemmas say what concatenation and reversal do to    *)
(* the number of reads of an address in a list.                            *)
IsRead(t, a) == t.type # "DATA_WRITE" /\ t.address = a
ReadsAt(s, a) == {i \in DOMAIN s : IsRead(s[i], a)}
ReadsFor(S, a) == {t \in S : IsRead(t, a)}

-----------------------------------------------------------------------------
(* Reads in a list.                                                        *)

LEMMA ReadsAreCounted ==
    ASSUME NEW S, NEW s \in Seq(S), NEW a
    PROVE  /\ IsFiniteSet(ReadsAt(s, a))
           /\ ReadsIn(s, a) = Cardinality(ReadsAt(s, a))
           /\ ReadsIn(s, a) = CountIn(s, ReadsFor(S, a))
           /\ ReadsIn(s, a) \in Nat
<1>1. DOMAIN s = 1 .. Len(s) /\ \A i \in 1 .. Len(s) : s[i] \in S
      BY LenProperties, ElementOfSeq
<1>2. ReadsAt(s, a) = Places(s, ReadsFor(S, a))
      BY <1>1 DEF ReadsAt, Places, ReadsFor
<1>3. ReadsIn(s, a) = Cardinality(ReadsAt(s, a))  BY DEF ReadsIn, ReadsAt, IsRead
<1>4. QED  BY <1>2, <1>3, CountType DEF CountIn

LEMMA NoReads == \A a : ReadsIn(<<>>, a) = 0
<1>1. ASSUME NEW a  PROVE ReadsIn(<<>>, a) = 0
  <2>1. {i \in DOMAIN <<>> : <<>>[i].type # "DATA_WRITE" /\ <<>>[i].address = a} = {}
        OBVIOUS
  <2>2. QED  BY <2>1, FS_EmptySet DEF ReadsIn
<1>2. QED  BY <1>1

LEMMA ReadsOfConcat ==
    ASSUME NEW S, NEW s \in Seq(S), NEW r \in Seq(S), NEW a
    PROVE  ReadsIn(s \o r, a) = ReadsIn(s, a) + ReadsIn(r, a)
<1>1. s \o r \in Seq(S)  BY ConcatProperties
<1>2. CountIn(s \o r, ReadsFor(S, a)) = CountIn(s, ReadsFor(S, a)) + CountIn(r, ReadsFor(S, a))
      BY CountConcat
<1>3. QED  BY <1>1, <1>2, ReadsAreCounted

(* The end of a list turned round, and the rest of it.                     *)
LEMMA ReadsOfReversed ==
    ASSUME NEW S, NEW pages \in Seq(S), NEW n \in 0 .. Len(pages), NEW a
    PROVE  LET offered == [i \in 1 .. n |-> pages[Len(pages) + 1 - i]]
           IN  /\ offered \in Seq(S)
               /\ SubSeq(pages, 1, Len(pages) - n) \in Seq(S)
               /\ ReadsIn(pages, a)
                    = ReadsIn(SubSeq(pages, 1, Len(pages) - n), a) + ReadsIn(offered, a)
<1> DEFINE L == Len(pages)
           offered == [i \in 1 .. n |-> pages[L + 1 - i]]
           kept == SubSeq(pages, 1, L - n)
           high == {j \in L - n + 1 .. L : IsRead(pages[j], a)}
           F == [i \in ReadsAt(offered, a) |-> L + 1 - i]
<1>1. /\ L \in Nat /\ n \in Nat /\ n <= L /\ L - n \in Nat /\ DOMAIN pages = 1 .. L
      /\ \A i \in 1 .. L : pages[i] \in S
      BY LenProperties, ElementOfSeq
<1> HIDE DEF L
<1>2. /\ kept \in Seq(S) /\ DOMAIN kept = 1 .. L - n
      /\ \A i \in 1 .. L - n : kept[i] = pages[i]
  <2>1. /\ L - n \in Int /\ 1 \in Int /\ \A i \in 1 .. L - n : pages[i] \in S
        BY <1>1
  <2>2. /\ kept \in Seq(S) /\ Len(kept) = IF 1 <= L - n THEN (L - n) - 1 + 1 ELSE 0
        /\ \A i \in 1 .. (L - n) - 1 + 1 : kept[i] = pages[1 + i - 1]
        BY <2>1, SubSeqProperties
  <2>3. Len(kept) = L - n /\ DOMAIN kept = 1 .. Len(kept)
        BY <1>1, <2>2, LenProperties
  <2> HIDE DEF kept
  <2>4. QED  BY <1>1, <2>2, <2>3
<1>3. offered \in Seq(S) /\ DOMAIN offered = 1 .. n
  <2>1. offered \in [1 .. n -> S]  BY <1>1
  <2>2. QED  BY <1>1, <2>1, SeqDef
<1>4. ReadsAt(pages, a) = ReadsAt(kept, a) \cup high
  <2>1. ReadsAt(kept, a) = {i \in 1 .. L - n : IsRead(pages[i], a)}
        BY <1>2 DEF ReadsAt
  <2>2. ReadsAt(pages, a) = {i \in 1 .. L : IsRead(pages[i], a)}
        BY <1>1 DEF ReadsAt
  <2> HIDE DEF kept
  <2>3. QED  BY <1>1, <2>1, <2>2
<1>5. ReadsAt(kept, a) \cap high = {}
  <2>1. ReadsAt(kept, a) \subseteq 1 .. L - n  BY <1>2 DEF ReadsAt
  <2> HIDE DEF kept
  <2>2. QED  BY <1>1, <2>1
<1>6. IsFiniteSet(high) /\ Cardinality(high) = Cardinality(ReadsAt(offered, a))
  <2>1. ReadsAt(offered, a) = {i \in 1 .. n : IsRead(pages[L + 1 - i], a)}
        BY <1>1, <1>3 DEF ReadsAt
  <2>2. F \in [ReadsAt(offered, a) -> high]
    <3>1. ASSUME NEW i \in ReadsAt(offered, a)  PROVE L + 1 - i \in high
      <4>1. i \in 1 .. n /\ IsRead(pages[L + 1 - i], a)  BY <2>1
      <4>2. L + 1 - i \in L - n + 1 .. L  BY <1>1, <4>1
      <4>3. QED  BY <4>1, <4>2
    <3> HIDE DEF high, offered
    <3>2. QED  BY <3>1
  <2>3. \A i, j \in ReadsAt(offered, a) : F[i] = F[j] => i = j
    <3>1. ReadsAt(offered, a) \subseteq 1 .. n  BY <2>1
    <3> HIDE DEF offered
    <3>2. QED  BY <1>1, <3>1
  <2>4. ASSUME NEW k \in high  PROVE \E i \in ReadsAt(offered, a) : F[i] = k
    <3>1. L + 1 - k \in 1 .. n /\ L + 1 - (L + 1 - k) = k  BY <1>1
    <3>2. L + 1 - k \in ReadsAt(offered, a)  BY <2>1, <3>1
    <3>3. F[L + 1 - k] = k  BY <3>1, <3>2
    <3>4. QED  BY <3>2, <3>3
  <2>5. IsFiniteSet(ReadsAt(offered, a))  BY <1>3, ReadsAreCounted
  <2> HIDE DEF high, F, offered
  <2>6. QED  BY <2>2, <2>3, <2>4, <2>5, Renamed
<1> HIDE DEF high, F, offered, kept
<1>7. ReadsIn(pages, a) = ReadsIn(kept, a) + ReadsIn(offered, a)
  <2>1. IsFiniteSet(ReadsAt(kept, a)) /\ ReadsIn(kept, a) = Cardinality(ReadsAt(kept, a))
        BY <1>2, ReadsAreCounted
  <2>2. ReadsIn(offered, a) = Cardinality(ReadsAt(offered, a))  BY <1>3, ReadsAreCounted
  <2>3. ReadsIn(pages, a) = Cardinality(ReadsAt(pages, a))  BY ReadsAreCounted
  <2>4. Cardinality(ReadsAt(kept, a) \cup high) = Cardinality(ReadsAt(kept, a)) + Cardinality(high)
        BY <1>5, <1>6, <2>1, DisjointUnion
  <2>5. QED  BY <1>4, <1>6, <2>1, <2>2, <2>3, <2>4
<1>8. QED  BY <1>2, <1>3, <1>7 DEF L, offered, kept

LEMMA ReadsOfOne ==
    ASSUME NEW S, NEW t \in S, NEW a
    PROVE  ReadsIn(<<t>>, a) = OneIf(IsRead(t, a))
<1>1. <<t>> \in Seq(S)  BY SingletonSeq
<1>2. CountIn(<<t>>, ReadsFor(S, a)) = OneIf(t \in ReadsFor(S, a))  BY CountOne
<1>3. t \in ReadsFor(S, a) <=> IsRead(t, a)  BY DEF ReadsFor
<1>4. QED  BY <1>1, <1>2, <1>3, ReadsAreCounted DEF OneIf

LEMMA ReadsOfAppend ==
    ASSUME NEW S, NEW s \in Seq(S), NEW t \in S, NEW a
    PROVE  ReadsIn(Append(s, t), a) = ReadsIn(s, a) + OneIf(IsRead(t, a))
<1>1. Append(s, t) \in Seq(S)  BY AppendProperties
<1>2. CountIn(Append(s, t), ReadsFor(S, a))
        = CountIn(s, ReadsFor(S, a)) + OneIf(t \in ReadsFor(S, a))
      BY CountAppend
<1>3. t \in ReadsFor(S, a) <=> IsRead(t, a)  BY DEF ReadsFor
<1>4. QED  BY <1>1, <1>2, <1>3, ReadsAreCounted DEF OneIf

LEMMA ReadsOfTail ==
    ASSUME NEW S, NEW s \in Seq(S), s # <<>>, NEW a
    PROVE  ReadsIn(s, a) = OneIf(IsRead(Head(s), a)) + ReadsIn(Tail(s), a)
<1>1. Head(s) \in S /\ Tail(s) \in Seq(S)  BY HeadTailProperties
<1>2. CountIn(s, ReadsFor(S, a))
        = OneIf(Head(s) \in ReadsFor(S, a)) + CountIn(Tail(s), ReadsFor(S, a))
      BY CountHeadTail
<1>3. Head(s) \in ReadsFor(S, a) <=> IsRead(Head(s), a)  BY <1>1 DEF ReadsFor
<1>4. QED  BY <1>1, <1>2, <1>3, ReadsAreCounted DEF OneIf

-----------------------------------------------------------------------------
(* The invariant, with the types of what is below the front buffer.        *)

BelowTypes == ftlQueue \in Seq(Transactions) /\ reading \in [Addr -> Nat]

HostInv == FrontInv /\ BelowTypes

(* The reads of an address below the front buffer.                         *)
Below(a) ==
    ReadsIn(ftlQueue, a) + reading[a] + ReadsIn(returnTransaction, a)
    + ReadsIn(responses, a) + ReadsIn(OnItsWayUp, a)

LEMMA BelowIsCounted ==
    ASSUME HostInv
    PROVE  /\ OnItsWayUp \in Seq(Returns)
           /\ responses \in Seq(Returns) /\ returnTransaction \in Seq(Returns)
           /\ \A a \in Addr :
                 /\ ReadsIn(ftlQueue, a) \in Nat /\ reading[a] \in Nat
                 /\ ReadsIn(returnTransaction, a) \in Nat
                 /\ ReadsIn(responses, a) \in Nat /\ ReadsIn(OnItsWayUp, a) \in Nat
                 /\ Below(a) \in Nat
           /\ readsBelow = [a \in Addr |-> Below(a)]
<1>1. responses \in Seq(Returns) /\ returnTransaction \in Seq(Returns)
      /\ ftlQueue \in Seq(Transactions) /\ reading \in [Addr -> Nat]
      BY DEF HostInv, BelowTypes, FrontInv, ChannelTypes
<1>2. OnItsWayUp \in Seq(Returns)
  <2>1. CASE responseTrans \in Returns  BY <2>1, SingletonSeq DEF OnItsWayUp
  <2>2. CASE responseTrans \notin Returns  BY <2>2, EmptySeq DEF OnItsWayUp
  <2>3. QED  BY <2>1, <2>2
<1>3. ASSUME NEW a \in Addr
      PROVE  /\ ReadsIn(ftlQueue, a) \in Nat /\ reading[a] \in Nat
             /\ ReadsIn(returnTransaction, a) \in Nat
             /\ ReadsIn(responses, a) \in Nat /\ ReadsIn(OnItsWayUp, a) \in Nat
      BY <1>1, <1>2, ReadsAreCounted
<1>4. \A a \in Addr : Below(a) \in Nat  BY <1>3 DEF Below
<1>5. readsBelow = [a \in Addr |-> Below(a)]  BY DEF readsBelow, Below
<1>6. QED  BY <1>1, <1>2, <1>3, <1>4, <1>5

(* A read more or a read less of one address.                              *)
LEMMA OneAddress ==
    ASSUME HostInv, NEW x \in Addr, NEW k \in Int,
           \A a \in Addr : Below(a)' = Below(a) + (IF a = x THEN k ELSE 0)
    PROVE  readsBelow' = [readsBelow EXCEPT ![x] = @ + k]
<1>1. readsBelow = [a \in Addr |-> Below(a)]  BY BelowIsCounted
<1>2. readsBelow' = [a \in Addr |-> Below(a)']  BY DEF readsBelow, Below
<1>3. \A a \in Addr : Below(a) \in Nat  BY BelowIsCounted
<1>4. QED  BY <1>1, <1>2, <1>3

LEMMA NoAddress ==
    ASSUME HostInv, \A a \in Addr : Below(a)' = Below(a)
    PROVE  readsBelow' = readsBelow
<1>1. readsBelow = [a \in Addr |-> Below(a)]  BY BelowIsCounted
<1>2. readsBelow' = [a \in Addr |-> Below(a)']  BY DEF readsBelow, Below
<1>3. QED  BY <1>1, <1>2

-----------------------------------------------------------------------------
(* One lemma for every kind of step.                                       *)

LEMMA AcceptStep ==
    ASSUME HostInv, NEW t \in Transactions, HostAdds(t)
    PROVE  BelowTypes' /\ Host!Accept(t)
<1>1. UNCHANGED <<modes, responseVars, responseChannel, ftlQueue, belowVars>>
      BY DEF HostAdds
<1>2. BelowTypes' /\ readsBelow' = readsBelow
      BY <1>1 DEF HostInv, BelowTypes, readsBelow, OnItsWayUp, responseVars, responseChannel,
         belowVars
<1>3. DataSide' = Append(DataSide, t)  BY RequestsAdded DEF HostInv
<1>4. QED  BY <1>2, <1>3 DEF Host!Accept

LEMMA DeliverStep ==
    ASSUME HostInv, GivesOldest, UNCHANGED <<reading, returnTransaction, responses, OnItsWayUp>>
    PROVE  BelowTypes' /\ (Host!Deliver \/ UNCHANGED <<DataSide, readsBelow>>)
<1>1. ftlQueue \in Seq(Transactions)  BY DEF HostInv, BelowTypes
<1>2. CASE ftlQueue' = ftlQueue /\ DataSide' = DataSide
      BY <1>2 DEF HostInv, BelowTypes, readsBelow
<1>3. CASE /\ DataSide # <<>> /\ DataSide' = Tail(DataSide)
           /\ ftlQueue' = Append(ftlQueue, Head(DataSide))
  <2> DEFINE t == Head(DataSide)
  <2>1. DataSide \in Seq(Transactions)  BY SideTypes DEF HostInv, FrontInv
  <2>2. t \in Transactions  BY <1>3, <2>1, SplitHead
  <2> HIDE DEF t
  <2>3. ftlQueue' = Append(ftlQueue, t) /\ ftlQueue' \in Seq(Transactions)
        BY <1>1, <1>3, <2>2, AppendProperties DEF t
  <2>4. t.address \in Addr /\ t.type \in {"DATA_READ", "DATA_WRITE"}
        BY <2>2 DEF Transactions
  <2> DEFINE k == IF t.type = "DATA_READ" THEN 1 ELSE 0
  <2>5. ASSUME NEW a \in Addr
        PROVE  Below(a)' = Below(a) + (IF a = t.address THEN k ELSE 0)
    <3>1. ReadsIn(ftlQueue, a)' = ReadsIn(ftlQueue, a) + OneIf(IsRead(t, a))
      <4>1. ReadsIn(Append(ftlQueue, t), a) = ReadsIn(ftlQueue, a) + OneIf(IsRead(t, a))
            BY <1>1, <2>2, ReadsOfAppend
      <4>2. ReadsIn(ftlQueue, a)' = ReadsIn(ftlQueue', a)  BY DEF ReadsIn
      <4>3. QED  BY <2>3, <4>1, <4>2
    <3>2. OneIf(IsRead(t, a)) = IF a = t.address THEN k ELSE 0
          BY <2>4 DEF OneIf, IsRead
    <3>3. /\ ReadsIn(returnTransaction, a)' = ReadsIn(returnTransaction, a)
          /\ ReadsIn(responses, a)' = ReadsIn(responses, a)
          /\ ReadsIn(OnItsWayUp, a)' = ReadsIn(OnItsWayUp, a)
          /\ reading'[a] = reading[a]
          BY DEF ReadsIn
    <3>4. /\ ReadsIn(ftlQueue, a) \in Nat /\ reading[a] \in Nat
          /\ ReadsIn(returnTransaction, a) \in Nat
          /\ ReadsIn(responses, a) \in Nat /\ ReadsIn(OnItsWayUp, a) \in Nat
          BY BelowIsCounted
    <3>5. QED  BY <3>1, <3>2, <3>3, <3>4 DEF Below
  <2>6. k \in Int  OBVIOUS
  <2> HIDE DEF k
  <2>7. readsBelow' = [readsBelow EXCEPT ![t.address] = @ + k]
        BY <2>4, <2>5, <2>6, OneAddress
  <2>8. Host!Deliver  BY <1>3, <2>7 DEF Host!Deliver, t, k
  <2>9. QED  BY <2>3, <2>8 DEF HostInv, BelowTypes
<1>4. QED  BY <1>2, <1>3 DEF GivesOldest

LEMMA Answered ==
    ASSUME HostInv, NEW x \in Addr, DataSide' = DataSide, Below(x) > 0,
           \A a \in Addr : Below(a)' = Below(a) + (IF a = x THEN -1 ELSE 0)
    PROVE  Host!Answer(x)
<1>1. readsBelow' = [readsBelow EXCEPT ![x] = @ + (-1)]  BY -1 \in Int, OneAddress
<1>2. readsBelow = [a \in Addr |-> Below(a)] /\ Below(x) \in Nat  BY BelowIsCounted
<1>3. readsBelow[x] = Below(x)  BY <1>2
<1>4. readsBelow' = [readsBelow EXCEPT ![x] = @ - 1] /\ readsBelow[x] > 0
      BY <1>1, <1>2, <1>3
<1>5. QED  BY <1>4 DEF Host!Answer

(* A page of x is the only read that a return can be.                      *)
LEMMA ReturnIsRead ==
    ASSUME NEW t \in Returns
    PROVE  t.address \in Addr /\ \A a : OneIf(IsRead(t, a)) = IF a = t.address THEN 1 ELSE 0
BY DEF Returns, IsRead, OneIf

LEMMA PageStep ==
    ASSUME HostInv, PageMoves, UNCHANGED <<ftlQueue, DataSide, reading, returnTransaction>>
    PROVE  /\ BelowTypes'
           /\ (\E a \in Addr : Host!Answer(a)) \/ UNCHANGED <<DataSide, readsBelow>>
<1>1. BelowTypes'  BY DEF HostInv, BelowTypes
<1>2. OnItsWayUp \in Seq(Returns) /\ responses \in Seq(Returns)  BY BelowIsCounted
<1>3. ASSUME NEW a \in Addr
      PROVE  /\ Below(a)' = ReadsIn(ftlQueue, a) + reading[a] + ReadsIn(returnTransaction, a)
                            + ReadsIn(responses', a) + ReadsIn(OnItsWayUp', a)
             /\ ReadsIn(ftlQueue, a) \in Nat /\ reading[a] \in Nat
             /\ ReadsIn(returnTransaction, a) \in Nat
             /\ ReadsIn(responses, a) \in Nat /\ ReadsIn(OnItsWayUp, a) \in Nat
             /\ ReadsIn(<<>>, a) = 0
      BY BelowIsCounted, NoReads DEF Below, ReadsIn
<1>4. CASE responses' = responses /\ OnItsWayUp' = OnItsWayUp
  <2>1. ASSUME NEW a \in Addr  PROVE Below(a)' = Below(a)
        BY <1>4 DEF Below, ReadsIn
  <2>2. QED  BY <1>1, <2>1, NoAddress
<1>5. CASE responses' = responses /\ OnItsWayUp' = <<>> /\ OnItsWayUp # <<>>
  <2>1. OnItsWayUp = <<responseTrans>> /\ responseTrans \in Returns
        BY <1>5 DEF OnItsWayUp
  <2> DEFINE x == responseTrans.address
  <2>2. x \in Addr /\ \A a : OneIf(IsRead(responseTrans, a)) = IF a = x THEN 1 ELSE 0
        BY <2>1, ReturnIsRead
  <2> HIDE DEF x
  <2>3. \A a \in Addr : ReadsIn(OnItsWayUp, a) = IF a = x THEN 1 ELSE 0
    <3>1. \A a : ReadsIn(<<responseTrans>>, a) = OneIf(IsRead(responseTrans, a))
          BY <2>1, ReadsOfOne
    <3>2. QED  BY <2>1, <2>2, <3>1
  <2>4. \A a \in Addr : Below(a)' = Below(a) + (IF a = x THEN -1 ELSE 0)
        BY <1>3, <1>5, <2>3 DEF Below
  <2>5. Below(x) > 0  BY <1>3, <2>2, <2>3 DEF Below
  <2>6. QED  BY <1>1, <2>2, <2>4, <2>5, Answered
<1>6. CASE /\ responses # <<>> /\ responses' = Tail(responses) /\ OnItsWayUp = <<>>
           /\ OnItsWayUp' \in {<<>>, <<Head(responses)>>}
  <2> DEFINE t == Head(responses)
             x == t.address
  <2>1. t \in Returns /\ Tail(responses) \in Seq(Returns)  BY <1>2, <1>6, SplitHead
  <2> HIDE DEF t
  <2>2. x \in Addr /\ \A a : OneIf(IsRead(t, a)) = IF a = x THEN 1 ELSE 0
        BY <2>1, ReturnIsRead
  <2> HIDE DEF x
  <2>3. ASSUME NEW a \in Addr
        PROVE  /\ ReadsIn(responses, a) = (IF a = x THEN 1 ELSE 0) + ReadsIn(responses', a)
               /\ ReadsIn(responses', a) \in Nat
               /\ ReadsIn(<<t>>, a) = IF a = x THEN 1 ELSE 0
    <3>1. ReadsIn(responses, a) = OneIf(IsRead(t, a)) + ReadsIn(Tail(responses), a)
          BY <1>2, <1>6, ReadsOfTail DEF t
    <3>2. ReadsIn(<<t>>, a) = OneIf(IsRead(t, a))  BY <2>1, ReadsOfOne
    <3>3. ReadsIn(Tail(responses), a) \in Nat  BY <2>1, ReadsAreCounted
    <3>4. QED  BY <1>6, <2>2, <3>1, <3>2, <3>3
  <2>4. CASE OnItsWayUp' = <<t>>
    <3>1. ASSUME NEW a \in Addr  PROVE Below(a)' = Below(a)
      <4>1. ReadsIn(OnItsWayUp', a) = IF a = x THEN 1 ELSE 0  BY <2>3, <2>4
      <4>2. ReadsIn(OnItsWayUp, a) = 0  BY <1>3, <1>6
      <4>3. ReadsIn(responses, a) = (IF a = x THEN 1 ELSE 0) + ReadsIn(responses', a)
            /\ ReadsIn(responses', a) \in Nat
            BY <2>3
      <4>4. ReadsIn(responses, a) + ReadsIn(OnItsWayUp, a)
              = ReadsIn(responses', a) + ReadsIn(OnItsWayUp', a)
            BY <4>1, <4>2, <4>3
      <4>5. /\ Below(a) = ReadsIn(ftlQueue, a) + reading[a] + ReadsIn(returnTransaction, a)
                          + ReadsIn(responses, a) + ReadsIn(OnItsWayUp, a)
            /\ Below(a)' = ReadsIn(ftlQueue, a) + reading[a] + ReadsIn(returnTransaction, a)
                           + ReadsIn(responses', a) + ReadsIn(OnItsWayUp', a)
            BY <1>3 DEF Below
      <4>6. /\ ReadsIn(responses', a) \in Nat /\ ReadsIn(OnItsWayUp', a) \in Nat
            BY <4>1, <4>3
      <4> DEFINE q == ReadsIn(ftlQueue, a)
                 g == reading[a]
                 v == ReadsIn(returnTransaction, a)
                 p == ReadsIn(responses, a)
                 w == ReadsIn(OnItsWayUp, a)
                 p2 == ReadsIn(responses', a)
                 w2 == ReadsIn(OnItsWayUp', a)
      <4>7. /\ q \in Nat /\ g \in Nat /\ v \in Nat /\ p \in Nat /\ w \in Nat
            /\ p2 \in Nat /\ w2 \in Nat /\ p + w = p2 + w2
            BY <1>3, <4>4, <4>6
      <4> HIDE DEF q, g, v, p, w, p2, w2
      <4>8. q + g + v + p + w = q + g + v + p2 + w2  BY <4>7
      <4>9. QED  BY <4>5, <4>8, Zenon DEF q, g, v, p, w, p2, w2
    <3>2. QED  BY <1>1, <3>1, NoAddress
  <2>5. CASE OnItsWayUp' = <<>>
    <3>1. ASSUME NEW a \in Addr
          PROVE  Below(a)' = Below(a) + (IF a = x THEN -1 ELSE 0)
      <4>1. ReadsIn(OnItsWayUp', a) = 0 /\ ReadsIn(OnItsWayUp, a) = 0
            BY <1>3, <1>6, <2>5
      <4>2. ReadsIn(responses, a) = (IF a = x THEN 1 ELSE 0) + ReadsIn(responses', a)
            /\ ReadsIn(responses', a) \in Nat
            BY <2>3
      <4> DEFINE q == ReadsIn(ftlQueue, a)
                 g == reading[a]
                 v == ReadsIn(returnTransaction, a)
                 p == ReadsIn(responses, a)
                 p2 == ReadsIn(responses', a)
      <4>3. /\ Below(a) = q + g + v + p + 0
            /\ Below(a)' = q + g + v + p2 + 0
        <5>1. Below(a) = q + g + v + p + ReadsIn(OnItsWayUp, a)  BY <1>3 DEF Below
        <5>2. Below(a)' = q + g + v + p2 + ReadsIn(OnItsWayUp', a)  BY <1>3
        <5>3. QED  BY <4>1, <5>1, <5>2, Zenon
      <4>4. /\ q \in Nat /\ g \in Nat /\ v \in Nat /\ p \in Nat /\ p2 \in Nat
            /\ p = (IF a = x THEN 1 ELSE 0) + p2
            BY <1>3, <4>2
      <4> HIDE DEF q, g, v, p, p2
      <4>5. CASE a = x
        <5>1. q + g + v + p2 + 0 = q + g + v + p + 0 + -1  BY <4>4, <4>5
        <5>2. QED  BY <4>3, <4>5, <5>1, Zenon
      <4>6. CASE a # x
        <5>1. q + g + v + p2 + 0 = q + g + v + p + 0 + 0  BY <4>4, <4>6
        <5>2. QED  BY <4>3, <4>6, <5>1, Zenon
      <4>7. QED  BY <4>5, <4>6
    <3>2. Below(x) > 0  BY <1>3, <2>2, <2>3 DEF Below
    <3>3. QED  BY <1>1, <2>2, <3>1, <3>2, Answered
  <2>6. QED  BY <1>6, <2>4, <2>5 DEF t
<1>7. QED  BY <1>4, <1>5, <1>6 DEF PageMoves

LEMMA FtlStep ==
    ASSUME HostInv, NEW pops \in BOOLEAN, FtlUpdate(pops)
    PROVE  /\ BelowTypes'
           /\ (\E a \in Addr : Host!Answer(a)) \/ UNCHANGED <<DataSide, readsBelow>>
<1>1. /\ DataSide' = DataSide
      /\ UNCHANGED <<returnTransaction, responses, OnItsWayUp>>
      BY FtlUpdated DEF HostInv, FtlUpdate, responseVars, responseChannel, OnItsWayUp
<1>2. ftlQueue \in Seq(Transactions) /\ reading \in [Addr -> Nat]
      BY DEF HostInv, BelowTypes
<1>3. ASSUME NEW a \in Addr
      PROVE  /\ Below(a)' = ReadsIn(ftlQueue', a) + reading'[a] + ReadsIn(returnTransaction, a)
                            + ReadsIn(responses, a) + ReadsIn(OnItsWayUp, a)
             /\ ReadsIn(ftlQueue, a) \in Nat /\ reading[a] \in Nat
             /\ ReadsIn(returnTransaction, a) \in Nat
             /\ ReadsIn(responses, a) \in Nat /\ ReadsIn(OnItsWayUp, a) \in Nat
      BY <1>1, BelowIsCounted DEF Below, ReadsIn
<1>4. CASE UNCHANGED <<ftlQueue, reading>>
  <2>1. \A a \in Addr : Below(a)' = Below(a)  BY <1>3, <1>4 DEF Below
  <2>2. QED  BY <1>1, <1>2, <1>4, <2>1, NoAddress DEF BelowTypes
<1>5. CASE FtlPops
  <2> DEFINE t == Head(ftlQueue)
             x == t.address
  <2>1. /\ ftlQueue # <<>> /\ ftlQueue' = Tail(ftlQueue)
        /\ \/ /\ t.type = "DATA_READ"
              /\ reading' = [reading EXCEPT ![x] = @ + 1]
           \/ reading' = reading
        BY <1>5 DEF FtlPops
  <2>2. t \in Transactions /\ Tail(ftlQueue) \in Seq(Transactions)
        BY <1>2, <2>1, SplitHead
  <2>3. \A a \in Addr : ReadsIn(ftlQueue, a) = OneIf(IsRead(t, a)) + ReadsIn(ftlQueue', a)
        BY <1>2, <2>1, ReadsOfTail
  <2>4. \A a \in Addr : ReadsIn(ftlQueue', a) \in Nat  BY <2>1, <2>2, ReadsAreCounted
  <2> HIDE DEF t
  <2>5. x \in Addr /\ t.type \in {"DATA_READ", "DATA_WRITE"}  BY <2>2 DEF Transactions
  <2>6. \A a : OneIf(IsRead(t, a)) = IF a = x /\ t.type = "DATA_READ" THEN 1 ELSE 0
        BY <2>5 DEF OneIf, IsRead
  <2> HIDE DEF x
  <2>7. BelowTypes'  BY <1>2, <2>1, <2>2, <2>5 DEF BelowTypes
  <2>8. CASE t.type = "DATA_READ" /\ reading' = [reading EXCEPT ![x] = @ + 1]
    <3>1. \A a \in Addr : reading'[a] = reading[a] + (IF a = x THEN 1 ELSE 0)
          BY <1>2, <2>8
    <3>2. \A a \in Addr : Below(a)' = Below(a)
          BY <1>3, <2>3, <2>4, <2>6, <2>8, <3>1 DEF Below
    <3>3. QED  BY <1>1, <2>7, <3>2, NoAddress
  <2>9. CASE t.type = "DATA_READ" /\ reading' = reading
    <3>1. \A a \in Addr : Below(a)' = Below(a) + (IF a = x THEN -1 ELSE 0)
          BY <1>3, <2>3, <2>4, <2>6, <2>9 DEF Below
    <3>2. Below(x) > 0  BY <1>3, <2>3, <2>4, <2>5, <2>6, <2>9 DEF Below
    <3>3. QED  BY <1>1, <2>5, <2>7, <3>1, <3>2, Answered
  <2>10. CASE t.type = "DATA_WRITE" /\ reading' = reading
    <3>1. \A a \in Addr : Below(a)' = Below(a)
          BY <1>3, <2>3, <2>4, <2>6, <2>10 DEF Below
    <3>2. QED  BY <1>1, <2>7, <3>1, NoAddress
  <2>11. QED  BY <2>1, <2>5, <2>8, <2>9, <2>10
<1>6. QED  BY <1>4, <1>5 DEF FtlUpdate

(* The pages that the controller hands over and keeps are those it had.    *)
LEMMA OfferCounts ==
    ASSUME NEW pages \in Seq(Returns), responses \in Seq(Returns), Offer(pages), NEW a
    PROVE  ReadsIn(responses', a) + ReadsIn(returnTransaction', a)
             = ReadsIn(responses, a) + ReadsIn(pages, a)
<1>1. PICK n \in 0 .. Len(pages) :
        /\ responses' = responses \o [i \in 1 .. n |-> pages[Len(pages) + 1 - i]]
        /\ returnTransaction' = SubSeq(pages, 1, Len(pages) - n)
      BY DEF Offer
<1> DEFINE offered == [i \in 1 .. n |-> pages[Len(pages) + 1 - i]]
           kept == SubSeq(pages, 1, Len(pages) - n)
<1>2. /\ offered \in Seq(Returns) /\ kept \in Seq(Returns)
      /\ ReadsIn(pages, a) = ReadsIn(kept, a) + ReadsIn(offered, a)
      BY ReadsOfReversed
<1>3. responses' = responses \o offered /\ returnTransaction' = kept  BY <1>1
<1> HIDE DEF offered, kept
<1>4. ReadsIn(responses \o offered, a) = ReadsIn(responses, a) + ReadsIn(offered, a)
      BY <1>2, ReadsOfConcat
<1>5. /\ ReadsIn(responses, a) \in Nat /\ ReadsIn(offered, a) \in Nat
      /\ ReadsIn(kept, a) \in Nat
      BY <1>2, ReadsAreCounted
<1>6. QED  BY <1>2, <1>3, <1>4, <1>5

LEMMA ControllerStep ==
    ASSUME HostInv, NEW comes \in BOOLEAN, ControllerUpdate(comes)
    PROVE  BelowTypes' /\ UNCHANGED <<DataSide, readsBelow>>
<1>1. /\ DataSide' = DataSide /\ ftlQueue' = ftlQueue
      /\ OnItsWayUp' = OnItsWayUp
      BY ControllerUpdated DEF HostInv, ControllerUpdate, responseChannel, OnItsWayUp
<1>2. /\ reading \in [Addr -> Nat] /\ ftlQueue \in Seq(Transactions)
      /\ responses \in Seq(Returns) /\ returnTransaction \in Seq(Returns)
      BY BelowIsCounted DEF HostInv, BelowTypes
<1>3. responses' \in Seq(Returns) /\ returnTransaction' \in Seq(Returns)
      BY ControllerUpdated DEF HostInv, FrontInv, ChannelTypes
<1>4. ASSUME NEW a \in Addr
      PROVE  /\ Below(a)' = ReadsIn(ftlQueue, a) + reading'[a] + ReadsIn(returnTransaction', a)
                            + ReadsIn(responses', a) + ReadsIn(OnItsWayUp, a)
             /\ ReadsIn(ftlQueue, a) \in Nat /\ reading[a] \in Nat
             /\ ReadsIn(returnTransaction, a) \in Nat /\ ReadsIn(returnTransaction', a) \in Nat
             /\ ReadsIn(responses, a) \in Nat /\ ReadsIn(responses', a) \in Nat
             /\ ReadsIn(OnItsWayUp, a) \in Nat
  <2>1. ReadsIn(returnTransaction', a) \in Nat /\ ReadsIn(responses', a) \in Nat
        BY <1>3, ReadsAreCounted
  <2>2. Below(a)' = ReadsIn(ftlQueue, a) + reading'[a] + ReadsIn(returnTransaction', a)
                    + ReadsIn(responses', a) + ReadsIn(OnItsWayUp, a)
        BY <1>1 DEF Below, ReadsIn
  <2>3. QED  BY <2>1, <2>2, BelowIsCounted
<1>5. CASE comes
  <2>1. PICK x \in Addr :
          /\ reading[x] > 0 /\ reading' = [reading EXCEPT ![x] = @ - 1]
          /\ Offer(Append(returnTransaction, [type |-> "RETURN_DATA", address |-> x]))
        BY <1>5 DEF ControllerUpdate
  <2> DEFINE t == [type |-> "RETURN_DATA", address |-> x]
  <2>2. t \in Returns /\ t.address = x  BY DEF Returns
  <2> HIDE DEF t
  <2>3. Append(returnTransaction, t) \in Seq(Returns)  BY <1>2, <2>2, AppendProperties
  <2>4. ASSUME NEW a \in Addr  PROVE Below(a)' = Below(a)
    <3>1. ReadsIn(responses', a) + ReadsIn(returnTransaction', a)
            = ReadsIn(responses, a) + ReadsIn(Append(returnTransaction, t), a)
          BY <1>2, <2>1, <2>3, OfferCounts DEF t
    <3>2. ReadsIn(Append(returnTransaction, t), a)
            = ReadsIn(returnTransaction, a) + OneIf(IsRead(t, a))
          BY <1>2, <2>2, ReadsOfAppend
    <3>3. OneIf(IsRead(t, a)) = IF a = x THEN 1 ELSE 0  BY <2>2, ReturnIsRead
    <3>4. reading'[a] = reading[a] - (IF a = x THEN 1 ELSE 0)  BY <1>2, <2>1
    <3>5. reading[a] \in Nat /\ reading'[a] \in Nat  BY <1>2, <2>1
    <3> DEFINE e == IF a = x THEN 1 ELSE 0
    <3>6. e \in Nat  OBVIOUS
    <3> HIDE DEF e
    <3>7. /\ reading'[a] + e = reading[a]
          /\ ReadsIn(responses', a) + ReadsIn(returnTransaction', a)
               = ReadsIn(responses, a) + (ReadsIn(returnTransaction, a) + e)
          BY <3>1, <3>2, <3>3, <3>4, <3>5, <3>6 DEF e
    <3>8. Below(a)' = ReadsIn(ftlQueue, a) + reading'[a] + ReadsIn(returnTransaction', a)
                      + ReadsIn(responses', a) + ReadsIn(OnItsWayUp, a)
          BY <1>4
    <3>9. QED  BY <1>4, <3>5, <3>6, <3>7, <3>8 DEF Below
  <2>5. reading' \in [Addr -> Nat]  BY <1>2, <2>1
  <2>6. QED  BY <1>1, <1>2, <2>4, <2>5, NoAddress DEF BelowTypes
<1>6. CASE ~comes
  <2>1. Offer(returnTransaction) /\ reading' = reading  BY <1>6 DEF ControllerUpdate
  <2>2. ASSUME NEW a \in Addr  PROVE Below(a)' = Below(a)
    <3>1. ReadsIn(responses', a) + ReadsIn(returnTransaction', a)
            = ReadsIn(responses, a) + ReadsIn(returnTransaction, a)
          BY <1>2, <2>1, OfferCounts
    <3>2. reading'[a] = reading[a]  BY <2>1
    <3>3. QED  BY <1>4, <3>1, <3>2 DEF Below
  <2>3. QED  BY <1>1, <1>2, <2>1, <2>2, NoAddress DEF BelowTypes
<1>7. QED  BY <1>5, <1>6

-----------------------------------------------------------------------------
(* The theorem.                                                            *)

LEMMA HostInit == Init => HostInv /\ Host!Init
<1>1. SUFFICES ASSUME Init  PROVE HostInv /\ Host!Init  OBVIOUS
<1>2. HostInv
  <2>1. <<>> \in Seq(Transactions)  BY EmptySeq
  <2>2. QED  BY <1>1, <2>1, InitInv DEF HostInv, BelowTypes, Init
<1>3. DataChannel = EMPTY /\ OnItsWayUp = <<>>
      BY <1>1, Kinds DEF Init, DataChannel, OnItsWayUp
<1>4. DataSide = <<>>
  <2>1. DataSide = (<<>> \o <<>>) \o <<>>  BY <1>1, <1>3 DEF Init, DataSide, InChannel
  <2>2. <<>> \in Seq(Transactions)  BY EmptySeq
  <2>3. <<>> \o <<>> = <<>>  BY <2>2, ConcatEmptySeq
  <2>4. QED  BY <2>1, <2>3
<1>5. readsBelow = [a \in Addr |-> 0]
  <2>1. \A a \in Addr : ReadsIn(<<>>, a) = 0  BY NoReads
  <2>2. QED  BY <1>1, <1>3, <2>1 DEF Init, readsBelow
<1>6. QED  BY <1>2, <1>4, <1>5 DEF Host!Init

LEMMA HostNext == HostInv /\ [Next]_vars => HostInv' /\ [Host!Next]_(Host!vars)
<1>1. SUFFICES ASSUME HostInv, [Next]_vars
               PROVE  HostInv' /\ [Host!Next]_(Host!vars)
      OBVIOUS
<1>2. FrontInv'  BY <1>1, NextInv DEF HostInv
<1>3. SUFFICES BelowTypes' /\ (Host!Next \/ UNCHANGED <<DataSide, readsBelow>>)
      BY <1>2 DEF HostInv, Host!vars
<1>4. ASSUME NEW t \in Transactions, HostAdds(t)
      PROVE  BelowTypes' /\ Host!Next
  <2>1. t \in Host!Transactions  BY DEF Transactions, Host!Transactions
  <2>2. QED  BY <1>1, <1>4, <2>1, AcceptStep DEF Host!Next
<1>5. CASE ResponseUpdate
  <2>1. UNCHANGED <<reading, returnTransaction>>  BY <1>5 DEF ResponseUpdate, belowVars
  <2>2. CASE GivesOldest /\ UNCHANGED <<responses, OnItsWayUp>>
        BY <1>1, <2>1, <2>2, DeliverStep DEF Host!Next
  <2>3. CASE UNCHANGED <<ftlQueue, DataSide>> /\ PageMoves
        BY <1>1, <2>1, <2>3, PageStep DEF Host!Next
  <2>4. QED  BY <1>1, <1>5, <2>2, <2>3, ResponseUpdated DEF HostInv
<1>6. CASE RequestUpdate
  <2>1. UNCHANGED <<reading, returnTransaction, responses, OnItsWayUp>>
        BY <1>6 DEF RequestUpdate, belowVars, responseVars, responseChannel, OnItsWayUp
  <2>2. GivesOldest  BY <1>1, <1>6, RequestUpdated DEF HostInv
  <2>3. QED  BY <1>1, <2>1, <2>2, DeliverStep DEF Host!Next
<1>7. CASE CommandUpdate
  <2>1. UNCHANGED <<reading, returnTransaction, responses, OnItsWayUp>>
        BY <1>7 DEF CommandUpdate, belowVars, responseVars, responseChannel, OnItsWayUp
  <2>2. GivesOldest  BY <1>1, <1>7, CommandUpdated DEF HostInv
  <2>3. QED  BY <1>1, <2>1, <2>2, DeliverStep DEF Host!Next
<1>8. ASSUME NEW pops \in BOOLEAN, FtlUpdate(pops)
      PROVE  BelowTypes' /\ (Host!Next \/ UNCHANGED <<DataSide, readsBelow>>)
      BY <1>1, <1>8, FtlStep DEF Host!Next
<1>9. ASSUME NEW comes \in BOOLEAN, ControllerUpdate(comes)
      PROVE  BelowTypes' /\ (Host!Next \/ UNCHANGED <<DataSide, readsBelow>>)
      BY <1>1, <1>9, ControllerStep
<1>10. CASE UNCHANGED vars
      BY <1>1, <1>10 DEF HostInv, BelowTypes, vars, modes, requestVars, responseVars,
         requestChannel, responseChannel, commandChannel, pendingVars, belowVars,
         DataSide, DataChannel, readsBelow, OnItsWayUp
<1>11. QED  BY <1>1, <1>4, <1>5, <1>6, <1>7, <1>8, <1>9, <1>10 DEF Next

(* The host channel implements HostChannel: the FTL is given every request *)
(* once and in order, and the host is answered only what it asked for,     *)
(* with every choice of channels (FrontBuffer.cpp:124-409,                 *)
(* Controller.cpp:685-708).                                                *)
THEOREM ChannelImplementsHost == Spec => ImplementsHostChannel
<1>1. Init => HostInv /\ Host!Init  BY HostInit
<1>2. HostInv /\ [Next]_vars => HostInv' /\ [Host!Next]_(Host!vars)  BY HostNext
<1>3. QED  BY <1>1, <1>2, PTL DEF Spec, ImplementsHostChannel, Host!Spec

(* Types; no counter of cycles and no size of a buffer goes below zero     *)
(* (FrontBuffer.cpp:124-345).                                              *)
THEOREM TypeCorrect == Spec => []TypeOK
<1>1. Init => HostInv /\ SizeInv  BY HostInit, SizeInit
<1>2. HostInv /\ SizeInv /\ [Next]_vars => (HostInv /\ SizeInv)'
      BY HostNext, SizeNext DEF HostInv
<1>3. HostInv /\ SizeInv => TypeOK
      BY DEF HostInv, BelowTypes, FrontInv, ChannelTypes, SizeInv, SizeTypes, Turns, TypeOK
<1>4. QED  BY <1>1, <1>2, <1>3, PTL DEF Spec
=============================================================================
