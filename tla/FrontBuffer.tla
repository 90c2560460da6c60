------------------------------ MODULE FrontBuffer ------------------------------
(***************************************************************************)
(* The host channel (FRONT_BUFFER on, BUFFERED off).  Requests wait in the *)
(* front buffer for the request channel, or for the response channel where *)
(* there is no other; with a command channel the command of a request      *)
(* travels apart from its data, and what arrives first waits for the rest. *)
(* Pages that were read wait for the response channel in the front buffer  *)
(* and, when that is full, in the controller.                              *)
(*                                                                         *)
(* turn follows NVDIMM::update.  The FTL is a queue with a limit (the one  *)
(* of SCHEDULE off); the controller and the packages are the reads they    *)
(* have not finished, in no order.                                         *)
(***************************************************************************)
EXTENDS Integers, FiniteSets, SequencesExt, Functions

CONSTANTS
    Addr,
    COMMAND_LENGTH, PAGE_LENGTH,        \* in bits; PAGE_LENGTH is NV_PAGE_SIZE * 8
    CHANNEL_WIDTH, REQUEST_CHANNEL_WIDTH, COMMAND_CHANNEL_WIDTH,
    REQUEST_BUFFER_SIZE, RESPONSE_BUFFER_SIZE,      \* in bits
    FTL_READ_QUEUE_LENGTH,
    RequestChannelModes, CommandChannelModes,   \* ENABLE_..._CHANNEL to be considered
    CHANNEL_UPDATES,                    \* how many updates a cycle may make
    MaxOutstanding                      \* bound: requests on their way and reads

(* At least one update a cycle: CHANNEL_CYCLE is at most CYCLE_TIME.       *)
ASSUME FrontBufferAssumption ==
    /\ COMMAND_LENGTH \in Nat \ {0} /\ PAGE_LENGTH \in Nat \ {0}
    /\ CHANNEL_WIDTH \in Nat \ {0} /\ REQUEST_CHANNEL_WIDTH \in Nat \ {0}
    /\ COMMAND_CHANNEL_WIDTH \in Nat \ {0}
    /\ REQUEST_BUFFER_SIZE \in Nat /\ RESPONSE_BUFFER_SIZE \in Nat
    /\ FTL_READ_QUEUE_LENGTH \in Nat
    /\ RequestChannelModes \subseteq BOOLEAN /\ CommandChannelModes \subseteq BOOLEAN
    /\ CHANNEL_UPDATES \subseteq Nat \ {0}

VARIABLES
    ENABLE_REQUEST_CHANNEL, ENABLE_COMMAND_CHANNEL,     \* parameters of the run
    turn, updates,                          \* NVDIMM: updates left in this cycle
    requests, responses, commands,
    requestsSize, responsesSize,
    requestTrans, responseTrans, commandTrans,
    requestCyclesLeft, responseCyclesLeft, commandCyclesLeft,
    pendingData, pendingCommand,
    ftlQueue,                               \* Ftl: readQueue
    reading,                                \* reads in controller and packages
    returnTransaction                       \* Controller

modes == <<ENABLE_REQUEST_CHANNEL, ENABLE_COMMAND_CHANNEL>>
requestVars == <<requests, commands, requestsSize>>
responseVars == <<responses, responsesSize>>
requestChannel == <<requestTrans, requestCyclesLeft>>
responseChannel == <<responseTrans, responseCyclesLeft>>
commandChannel == <<commandTrans, commandCyclesLeft>>
pendingVars == <<pendingData, pendingCommand>>
belowVars == <<reading, returnTransaction>>
vars == <<modes, turn, updates, requestVars, responseVars, requestChannel,
          responseChannel, commandChannel, pendingVars, ftlQueue, belowVars>>

Transactions == [type : {"DATA_READ", "DATA_WRITE"}, address : Addr]
Returns == [type : {"RETURN_DATA"}, address : Addr]
EMPTY == [type |-> "EMPTY"]

Init ==
    /\ ENABLE_REQUEST_CHANNEL \in RequestChannelModes
    /\ ENABLE_COMMAND_CHANNEL \in CommandChannelModes
    /\ turn = "ftl" /\ updates = 0
    /\ requests = <<>> /\ responses = <<>> /\ commands = <<>>
    /\ requestsSize = 0 /\ responsesSize = 0
    /\ requestTrans = EMPTY /\ responseTrans = EMPTY /\ commandTrans = EMPTY
    /\ requestCyclesLeft = 0 /\ responseCyclesLeft = 0 /\ commandCyclesLeft = 0
    /\ pendingData = <<>> /\ pendingCommand = <<>>
    /\ ftlQueue = <<>> /\ reading = [a \in Addr |-> 0] /\ returnTransaction = <<>>

-----------------------------------------------------------------------------
(* Util: the quotient plus 0.99, cut off, and at least 1.  From 10000 on   *)
(* the text it goes through is rounded, from a million on it has an        *)
(* exponent and only its first digit is read.                              *)
divide_params_64b(num, denom) ==
    LET quotient == (100 * num + 99 * denom) \div (100 * denom)
    IN  IF quotient = 0 THEN 1 ELSE quotient

(* Mutant: the difference below zero wraps to a size that is never left.   *)
SubtractAndWrap(a, b) == IF a < b THEN a - b + 2 ^ 16 ELSE a - b

subtract_params(a, b) == IF a < b THEN 0 ELSE a - b

(* Mutant: the last bits of a buffer are never used.                       *)
HasRoomUnlessLast(size, needed, limit) == limit < needed \/ size < limit - needed

(* The sizes are unsigned: a buffer too small for one transaction takes    *)
(* any number of them.                                                     *)
HasRoom(size, needed, limit) == limit < needed \/ size <= limit - needed

-----------------------------------------------------------------------------
(* addTransaction, by the host between two updates and by the controller.  *)
RequestBits(t) ==
    IF t.type = "DATA_READ" THEN COMMAND_LENGTH ELSE COMMAND_LENGTH + PAGE_LENGTH

addRequest(t) ==
    /\ HasRoom(requestsSize, RequestBits(t), REQUEST_BUFFER_SIZE)
    /\ requests' = Append(requests, t)
    /\ commands' = IF ENABLE_COMMAND_CHANNEL THEN Append(commands, t) ELSE commands
    /\ requestsSize' = requestsSize + RequestBits(t)

ReturnHasRoom(size) == HasRoom(size, PAGE_LENGTH, RESPONSE_BUFFER_SIZE)

ReadsIn(s, a) ==
    Cardinality({i \in DOMAIN s : s[i].type # "DATA_WRITE" /\ s[i].address = a})
InChannel(t) == IF t = EMPTY THEN <<>> ELSE <<t>>

(* What the host has outstanding, for the bounds and the properties.  A    *)
(* request is on its way until its command and its data have arrived.      *)
DataChannel == IF ENABLE_REQUEST_CHANNEL THEN requestTrans
               ELSE IF responseTrans \in Transactions THEN responseTrans ELSE EMPTY
DataSide == pendingData \o InChannel(DataChannel) \o requests
CommandSide == pendingCommand \o InChannel(commandTrans) \o commands

OnItsWayUp == IF responseTrans \in Returns THEN <<responseTrans>> ELSE <<>>
readsBelow ==
    [a \in Addr |-> ReadsIn(ftlQueue, a) + reading[a] + ReadsIn(returnTransaction, a)
                     + ReadsIn(responses, a) + ReadsIn(OnItsWayUp, a)]

HostAdds(t) ==
    /\ turn = "ftl"
    /\ Len(DataSide) + SumFunction(readsBelow) < MaxOutstanding
    /\ addRequest(t)
    /\ UNCHANGED <<modes, turn, updates, responseVars, requestChannel, responseChannel,
                   commandChannel, pendingVars, ftlQueue, belowVars>>

-----------------------------------------------------------------------------
(* What a channel has to do for a transaction: with a command channel the  *)
(* data of a read is nothing, which takes one cycle.                       *)
setDataCycles(t, width) ==
    IF t.type = "DATA_READ"
    THEN IF ENABLE_COMMAND_CHANNEL THEN 1 ELSE divide_params_64b(COMMAND_LENGTH, width)
    ELSE divide_params_64b(PAGE_LENGTH + IF ENABLE_COMMAND_CHANNEL THEN 0 ELSE COMMAND_LENGTH,
                           width)

CyclesAfter(left, cycles) == (IF left = 0 THEN cycles ELSE left) - 1

FtlHasRoom == FTL_READ_QUEUE_LENGTH = 0 \/ Len(ftlQueue) < FTL_READ_QUEUE_LENGTH

Matching(search, t) == {i \in DOMAIN search : search[i].address = t.address}

(* Mutant: the newest part that waits is taken.                            *)
NewestMatch(search, t) ==
    CHOOSE i \in Matching(search, t) : \A j \in Matching(search, t) : j <= i

FirstMatch(search, t) ==
    CHOOSE i \in Matching(search, t) : \A j \in Matching(search, t) : i <= j

(* The first part that waits for the address is the other half of t.  The  *)
(* FTL may have no room: then t stays where it is and travels once more.   *)
findTransaction(search, add, t) ==
    IF Matching(search, t) = {}
    THEN [search |-> search, add |-> Append(add, t), left |-> EMPTY, sent |-> FALSE]
    ELSE IF ~FtlHasRoom
    THEN [search |-> search, add |-> add, left |-> t, sent |-> FALSE]
    ELSE [search |-> RemoveAt(search, FirstMatch(search, t)),
          add |-> add, left |-> EMPTY, sent |-> TRUE]

sendToFTL(t, sent) == ftlQueue' = IF sent THEN Append(ftlQueue, t) ELSE ftlQueue

(* The end of a transfer of t's data, and of its command.                  *)
(* Mutant: data that the FTL refused is not kept.                          *)
DataArrivesOnce(t) ==
    IF ENABLE_COMMAND_CHANNEL THEN findTransaction(pendingCommand, pendingData, t)
    ELSE [search |-> pendingCommand, add |-> pendingData, sent |-> FtlHasRoom, left |-> EMPTY]

DataArrives(t) ==
    IF ENABLE_COMMAND_CHANNEL THEN findTransaction(pendingCommand, pendingData, t)
    ELSE [search |-> pendingCommand, add |-> pendingData, sent |-> FtlHasRoom,
          left |-> IF FtlHasRoom THEN EMPTY ELSE t]
CommandArrives(t) == findTransaction(pendingData, pendingCommand, t)

DataTaken(t) ==
    LET found == DataArrives(t)
    IN  /\ sendToFTL(t, found.sent)
        /\ pendingCommand' = found.search /\ pendingData' = found.add

-----------------------------------------------------------------------------
(* update, channel by channel.                                             *)
AfterCommand(n) == IF n = 0 THEN "controller" ELSE "response"
AfterRequest(n) == IF ENABLE_COMMAND_CHANNEL THEN "command" ELSE AfterCommand(n)
AfterResponse(n) == IF ENABLE_REQUEST_CHANNEL THEN "request" ELSE AfterRequest(n)

newRequestTrans ==
    /\ requests' = Tail(requests)
    /\ requestsSize' = subtract_params(requestsSize,
                          PAGE_LENGTH + IF ENABLE_COMMAND_CHANNEL THEN 0 ELSE COMMAND_LENGTH)

responseFromQueue == responseTrans = EMPTY /\ responses # <<>>
responseFromRequests ==
    /\ responseTrans = EMPTY /\ responses = <<>>
    /\ ~ENABLE_REQUEST_CHANNEL /\ requests # <<>>

(* The transaction that updateResponse works on, EMPTY if there is none.   *)
OnResponseChannel ==
    IF responseFromQueue THEN Head(responses)
    ELSE IF responseFromRequests THEN Head(requests) ELSE responseTrans

updateResponse(t) ==
    LET left == CyclesAfter(responseCyclesLeft,
                            IF t \in Returns THEN divide_params_64b(PAGE_LENGTH, CHANNEL_WIDTH)
                            ELSE setDataCycles(t, CHANNEL_WIDTH))
    IN  /\ responseCyclesLeft' = left
        /\ IF left > 0
           THEN responseTrans' = t /\ UNCHANGED <<pendingVars, ftlQueue>>
           ELSE IF t \in Returns                        \* sendToHybrid
           THEN responseTrans' = EMPTY /\ UNCHANGED <<pendingVars, ftlQueue>>
           ELSE responseTrans' = DataArrives(t).left /\ DataTaken(t)

ResponseUpdate ==
    /\ turn = "response"
    /\ updates' = updates - 1 /\ turn' = AfterResponse(updates - 1)
    /\ IF responseFromQueue
       THEN /\ responses' = Tail(responses)
            /\ responsesSize' = subtract_params(responsesSize, PAGE_LENGTH)
       ELSE UNCHANGED responseVars
    /\ IF responseFromRequests THEN newRequestTrans ELSE UNCHANGED <<requests, requestsSize>>
    /\ IF OnResponseChannel # EMPTY THEN updateResponse(OnResponseChannel)
       ELSE UNCHANGED <<responseChannel, pendingVars, ftlQueue>>
    /\ UNCHANGED <<modes, commands, requestChannel, commandChannel, belowVars>>

updateRequest(t) ==
    LET left == CyclesAfter(requestCyclesLeft, setDataCycles(t, REQUEST_CHANNEL_WIDTH))
    IN  /\ requestCyclesLeft' = left
        /\ IF left > 0
           THEN requestTrans' = t /\ UNCHANGED <<pendingVars, ftlQueue>>
           ELSE requestTrans' = DataArrives(t).left /\ DataTaken(t)

RequestUpdate ==
    /\ turn = "request" /\ turn' = AfterRequest(updates)
    /\ \/ /\ requestTrans # EMPTY
          /\ updateRequest(requestTrans)
          /\ UNCHANGED <<requests, requestsSize>>
       \/ /\ requestTrans = EMPTY /\ requests # <<>>
          /\ newRequestTrans
          /\ updateRequest(Head(requests))
       \/ /\ requestTrans = EMPTY /\ requests = <<>>
          /\ UNCHANGED <<requests, requestsSize, requestChannel, pendingVars, ftlQueue>>
    /\ UNCHANGED <<modes, updates, commands, responseVars, responseChannel,
                   commandChannel, belowVars>>

updateCommand(t) ==
    LET left == CyclesAfter(commandCyclesLeft,
                            divide_params_64b(COMMAND_LENGTH, COMMAND_CHANNEL_WIDTH))
        found == CommandArrives(t)
    IN  /\ commandCyclesLeft' = left
        /\ IF left > 0
           THEN commandTrans' = t /\ UNCHANGED <<pendingVars, ftlQueue>>
           ELSE /\ commandTrans' = found.left
                /\ sendToFTL(t, found.sent)
                /\ pendingData' = found.search /\ pendingCommand' = found.add

CommandUpdate ==
    /\ turn = "command" /\ turn' = AfterCommand(updates)
    /\ \/ /\ commandTrans # EMPTY
          /\ updateCommand(commandTrans)
          /\ UNCHANGED <<commands, requestsSize>>
       \/ /\ commandTrans = EMPTY /\ commands # <<>>
          /\ commands' = Tail(commands)
          /\ requestsSize' = subtract_params(requestsSize, COMMAND_LENGTH)
          /\ updateCommand(Head(commands))
       \/ /\ commandTrans = EMPTY /\ commands = <<>>
          /\ UNCHANGED <<commands, requestsSize, commandChannel, pendingVars, ftlQueue>>
    /\ UNCHANGED <<modes, updates, requests, responseVars, requestChannel,
                   responseChannel, belowVars>>

-----------------------------------------------------------------------------
(* The FTL finishes its first transaction or does not; a read of a page    *)
(* that was never written is answered past the channel.                    *)
FtlPops ==
    /\ ftlQueue # <<>> /\ ftlQueue' = Tail(ftlQueue)
    /\ \/ Head(ftlQueue).type = "DATA_READ"
          /\ reading' = [reading EXCEPT ![Head(ftlQueue).address] = @ + 1]
       \/ UNCHANGED reading

FtlUpdate(pops) ==
    /\ turn = "ftl" /\ turn' = "response"
    /\ updates' \in CHANNEL_UPDATES
    /\ IF pops THEN FtlPops ELSE UNCHANGED <<ftlQueue, reading>>
    /\ UNCHANGED <<modes, requestVars, responseVars, requestChannel, responseChannel,
                   commandChannel, pendingVars, returnTransaction>>

(* Controller::update: a page may have come in, and the pages are offered  *)
(* from the last one on until one is refused.                              *)
Offer(pages) ==
    \E n \in 0 .. Len(pages) :
        LET size(k) == responsesSize + k * PAGE_LENGTH
        IN  /\ \A k \in 0 .. n - 1 : ReturnHasRoom(size(k))
            /\ n = Len(pages) \/ ~ReturnHasRoom(size(n))
            /\ responses' = responses \o [i \in 1 .. n |-> pages[Len(pages) + 1 - i]]
            /\ responsesSize' = size(n)
            /\ returnTransaction' = SubSeq(pages, 1, Len(pages) - n)

ControllerUpdate(comes) ==
    /\ turn = "controller" /\ turn' = "ftl"
    /\ IF comes
       THEN \E a \in Addr :
              /\ reading[a] > 0 /\ reading' = [reading EXCEPT ![a] = @ - 1]
              /\ Offer(Append(returnTransaction, [type |-> "RETURN_DATA", address |-> a]))
       ELSE Offer(returnTransaction) /\ UNCHANGED reading
    /\ UNCHANGED <<modes, updates, requestVars, requestChannel, responseChannel,
                   commandChannel, pendingVars, ftlQueue>>

Next ==
    \/ \E t \in Transactions : HostAdds(t)
    \/ ResponseUpdate \/ RequestUpdate \/ CommandUpdate
    \/ \E now \in BOOLEAN : FtlUpdate(now) \/ ControllerUpdate(now)

Spec == Init /\ [][Next]_vars

(* Updates go on; FTL and packages finish what they have begun.            *)
Update ==
    \/ ResponseUpdate \/ RequestUpdate \/ CommandUpdate
    \/ FtlUpdate(FALSE) \/ ControllerUpdate(FALSE)
FairSpec ==
    /\ Spec /\ WF_vars(Update)
    /\ SF_vars(FtlUpdate(TRUE)) /\ SF_vars(ControllerUpdate(TRUE))

-----------------------------------------------------------------------------
(* Type invariant.                                                         *)
TypeOK ==
    /\ turn \in {"ftl", "response", "request", "command", "controller"}
    /\ updates \in Nat
    /\ requests \in Seq(Transactions) /\ commands \in Seq(Transactions)
    /\ responses \in Seq(Returns) /\ returnTransaction \in Seq(Returns)
    /\ requestsSize \in Nat /\ responsesSize \in Nat
    /\ requestTrans \in Transactions \cup {EMPTY}
    /\ responseTrans \in Transactions \cup Returns \cup {EMPTY}
    /\ commandTrans \in Transactions \cup {EMPTY}
    /\ \A left \in {requestCyclesLeft, responseCyclesLeft, commandCyclesLeft} : left \in Nat
    /\ pendingData \in Seq(Transactions) /\ pendingCommand \in Seq(Transactions)
    /\ ftlQueue \in Seq(Transactions) /\ reading \in [Addr -> Nat]

(* Command and data of a transaction find each other by the address alone; *)
(* yet the two halves are never those of different transactions, for the   *)
(* channels are first in, first out and what waits for the other half is   *)
(* the beginning of what the other side still has (FrontBuffer.cpp:354-403).*)
SidesAgree == ENABLE_COMMAND_CHANNEL => DataSide = CommandSide

(* The sizes that decide whether the front buffer has room.  That of the   *)
(* requests is never more than what waits, so nothing is refused for       *)
(* longer than it must be; it may be less, since a read gives back the     *)
(* bits of a page that it never counted (FrontBuffer.cpp:186-198).         *)
WritesIn(s) == Cardinality({i \in DOMAIN s : s[i].type = "DATA_WRITE"})
WaitingBits ==
    PAGE_LENGTH * WritesIn(requests)
    + COMMAND_LENGTH * Len(IF ENABLE_COMMAND_CHANNEL THEN commands ELSE requests)
SizesSound ==
    /\ requestsSize <= WaitingBits
    /\ responsesSize = PAGE_LENGTH * Len(responses)

-----------------------------------------------------------------------------
(* The host channel implements HostChannel: no transaction is lost, sent   *)
(* twice or overtaken when a full FTL sends it back, when its halves       *)
(* travel apart or when the response channel is shared, and no page is     *)
(* returned that was not asked for (FrontBuffer.cpp:124-409,               *)
(* Controller.cpp:685-708).                                                *)
Host == INSTANCE HostChannel WITH accepted <- DataSide, reads <- readsBelow
ImplementsHostChannel == Host!Spec

(* Liveness, under FairSpec: while a request is on its way the FTL is      *)
(* given requests, although responses go first on a shared channel and a   *)
(* refused transfer starts again; while a read waits some read is          *)
(* first (FrontBuffer.cpp:124-152, Controller.cpp:685-703).                *)
Delivers == Len(ftlQueue') > Len(ftlQueue)
Answers == \E a \in Addr : readsBelow'[a] < readsBelow[a]
HostIsServed ==
    /\ []<>(DataSide = <<>>) \/ []<><<Delivers>>_vars
    /\ []<>(\A a \in Addr : readsBelow[a] = 0) \/ []<><<Answers>>_vars
=============================================================================
