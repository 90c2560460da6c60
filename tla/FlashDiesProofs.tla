---------------------------- MODULE FlashDiesProofs ----------------------------
(***************************************************************************)
(* Lemmas about FlashDies that the proofs about both packages use: the     *)
(* types of what controller and dies do, the pages that a die fetches, the *)
(* packets picked out of a queue, and the ownership of the registers.      *)
(***************************************************************************)
EXTENDS FlashDies, CountingFacts

-----------------------------------------------------------------------------
(* Types.  A command that needs the data register has it.                  *)
RegistersFilled ==
    \A u \in Units : currentCommands[u] # NoPacket /\ currentCommands[u].type # "ERASE"
                        => dataReg[u] \in Packets

DiesInv == DiesTypeOK /\ RegistersFilled

LEMMA PacketTypes ==
    ASSUME NEW pkt \in Packets
    PROVE  /\ pkt # NoPacket /\ UnitOf(pkt) \in Units
           /\ pkt.die \in Dies /\ pkt.plane \in Planes /\ pkt.page \in PageNums
           /\ pkt.data \in Data \cup {NoData}
           /\ pkt.type \in {"DATA", "READ", "WRITE", "GC_READ", "GC_WRITE", "ERASE"}
BY DEF Packets, NoPacket, UnitOf, Units

LEMMA DieTypes == /\ Dies \subseteq Nat /\ Planes \subseteq Nat /\ 0 \in Dies
                  /\ Nobody \notin Dies
BY FlashDiesAssumption DEF Dies, Planes, Nobody

LEMMA UnitTypes ==
    /\ \A u \in Units : u[1] \in Dies /\ u[2] \in Planes /\ u = <<u[1], u[2]>>
    /\ \A d \in Dies, p \in Planes : <<d, p>> \in Units
BY DEF Units

(* What the FTL hands over.                                                *)
LEMMA AddedType ==
    ASSUME DiesInv, FtlGives
    PROVE  readQueues' \in [Dies -> Seq(Packets)]
<1>1. readQueues \in [Dies -> Seq(Packets)]  BY DEF DiesInv, DiesTypeOK
<1>2. ASSUME NEW u \in Units, NEW p \in PageNums, NEW type \in Commands \cap {"READ", "GC_READ", "ERASE"},
             addPacket(Packet(type, u, p, NoData))
      PROVE  readQueues' \in [Dies -> Seq(Packets)]
  <2> DEFINE pkt == Packet(type, u, p, NoData)
  <2>1. pkt \in Packets  BY UnitTypes DEF Packet, Packets
  <2>2. readQueues' = [readQueues EXCEPT ![pkt.die] = Append(@, pkt)]
        BY <1>2 DEF addPacket
  <2> HIDE DEF pkt
  <2>3. QED  BY <1>1, <2>1, <2>2, PacketTypes, AppendProperties
<1>3. ASSUME NEW u \in Units, NEW p \in PageNums, NEW type \in Commands \cap {"WRITE", "GC_WRITE"},
             NEW x \in Data, addWrite(type, u, p, x)
      PROVE  readQueues' \in [Dies -> Seq(Packets)]
  <2> DEFINE pair == <<Packet("DATA", u, p, x), Packet(type, u, p, x)>>
  <2>1. pair \in Seq(Packets)  BY UnitTypes DEF Packet, Packets
  <2>2. readQueues' = [readQueues EXCEPT ![u[1]] = @ \o pair]  BY <1>3 DEF addWrite
  <2> HIDE DEF pair
  <2>3. readQueues[u[1]] \o pair \in Seq(Packets)
        BY <1>1, <2>1, UnitTypes, ConcatProperties
  <2>4. QED  BY <1>1, <2>2, <2>3, UnitTypes
<1>4. QED  BY <1>1, <1>2, <1>3 DEF FtlGives

(* The first waiting die from the pointer on is one that waits.            *)
LEMMA FirstDieIn ==
    ASSUME die_pointer \in Dies, NEW S \in SUBSET Dies, S # {}
    PROVE  FirstDie(S) \in S
<1> DEFINE turns == {k \in Dies : RotatedDie(k) \in S}
<1>1. PICK d \in S : TRUE  OBVIOUS
<1>2. \E k \in Dies : RotatedDie(k) = d
  <2>1. /\ d \in 0 .. DIES_PER_PACKAGE - 1 /\ die_pointer \in 0 .. DIES_PER_PACKAGE - 1
        /\ DIES_PER_PACKAGE \in Nat \ {0}
        BY FlashDiesAssumption DEF Dies
  <2>2. CASE die_pointer <= d
    <3>1. d - die_pointer \in Dies /\ die_pointer + (d - die_pointer) = d
          BY <2>1, <2>2 DEF Dies
    <3>2. d % DIES_PER_PACKAGE = d  BY <2>1, RemainderOfSum
    <3>3. QED  BY <3>1, <3>2 DEF RotatedDie
  <2>3. CASE d < die_pointer
    <3> DEFINE k == d + DIES_PER_PACKAGE - die_pointer
    <3>1. k \in Dies /\ die_pointer + k = d + DIES_PER_PACKAGE
          BY <2>1, <2>3 DEF Dies
    <3>2. (d + DIES_PER_PACKAGE) % DIES_PER_PACKAGE = d  BY <2>1, RemainderOfSum
    <3> HIDE DEF k
    <3>3. QED  BY <3>1, <3>2 DEF RotatedDie
  <2>4. QED  BY <2>1, <2>2, <2>3
<1>3. turns \in SUBSET Nat /\ turns # {}  BY <1>1, <1>2, DieTypes
<1>4. \E k \in turns : \A j \in turns : k <= j
  <2> HIDE DEF turns
  <2>1. QED  BY <1>3, LeastExists
<1> DEFINE first == CHOOSE k \in turns : \A j \in turns : k <= j
<1>5. first \in turns
  <2> HIDE DEF turns
  <2>1. QED  BY <1>4
<1>6. FirstDie(S) = RotatedDie(first)  BY DEF FirstDie
<1>7. QED  BY <1>5, <1>6

(* What the die does with a packet.                                        *)
LEMMA ReceivedType ==
    ASSUME DiesInv, NEW pkt \in Packets, receiveFromBuffer(pkt)
    PROVE  /\ currentCommands' \in [Units -> MaybePacket]
           /\ controlCyclesLeft' \in [Units -> Nat]
           /\ dataReg' \in [Units -> MaybePacket] /\ cacheReg' \in [Units -> MaybePacket]
           /\ blocks' \in [Units -> [PageNums -> Data \cup {NoData}]]
           /\ RegistersFilled'
<1> DEFINE u == UnitOf(pkt)
<1>0. /\ currentCommands \in [Units -> MaybePacket]
      /\ controlCyclesLeft \in [Units -> Nat]
      /\ dataReg \in [Units -> MaybePacket] /\ cacheReg \in [Units -> MaybePacket]
      /\ blocks \in [Units -> [PageNums -> Data \cup {NoData}]]
      /\ RegistersFilled
      BY DEF DiesInv, DiesTypeOK
<1>1. u \in Units /\ pkt \in MaybePacket /\ pkt.page \in PageNums /\ NoPacket \in MaybePacket
      BY PacketTypes DEF MaybePacket
<1>2. READ_CYCLES \in Nat /\ WRITE_CYCLES \in Nat /\ ERASE_CYCLES \in Nat
      BY FlashDiesAssumption
<1>3. CASE UNCHANGED <<commandVars, planeVars>>
      BY <1>0, <1>3 DEF commandVars, planeVars, RegistersFilled
<1>4. CASE /\ UNCHANGED <<commandVars, dataReg, blocks>>
           /\ cacheReg' = [cacheReg EXCEPT ![u] = pkt]
  <2> HIDE DEF u
  <2>1. QED  BY <1>0, <1>1, <1>4 DEF commandVars, RegistersFilled
<1>5. CASE read(pkt) /\ dataReg[u] = NoPacket
  <2> DEFINE result == [pkt EXCEPT !.data = blocks[u][pkt.page]]
  <2>1. blocks[u][pkt.page] \in Data \cup {NoData}  BY <1>0, <1>1
  <2>2. result \in Packets  BY <2>1 DEF Packets
  <2>3. /\ currentCommands' = [currentCommands EXCEPT ![UnitOf(result)] = result]
        /\ controlCyclesLeft' = [controlCyclesLeft EXCEPT ![UnitOf(result)] = READ_CYCLES]
        /\ dataReg' = [dataReg EXCEPT ![u] = result]
        /\ UNCHANGED <<cacheReg, blocks>>
        BY <1>5 DEF read, StartCommand
  <2>4. UnitOf(result) = u  BY DEF UnitOf, Packets
  <2> HIDE DEF result, u
  <2>5. result \in MaybePacket  BY <2>2 DEF MaybePacket
  <2>6. RegistersFilled'
        BY <1>0, <1>1, <2>2, <2>3, <2>4 DEF RegistersFilled
  <2>7. QED  BY <1>0, <1>1, <1>2, <2>3, <2>4, <2>5, <2>6
<1>6. CASE write(pkt) /\ cacheReg[u] # NoPacket
  <2>1. /\ currentCommands' = [currentCommands EXCEPT ![u] = pkt]
        /\ controlCyclesLeft' = [controlCyclesLeft EXCEPT ![u] = WRITE_CYCLES]
        /\ dataReg' = [dataReg EXCEPT ![u] = cacheReg[u]]
        /\ cacheReg' = [cacheReg EXCEPT ![u] = NoPacket]
        /\ UNCHANGED blocks
        BY <1>6 DEF write, StartCommand
  <2> HIDE DEF u
  <2>2. cacheReg[u] \in Packets  BY <1>0, <1>1, <1>6 DEF MaybePacket
  <2>3. RegistersFilled'  BY <1>0, <1>1, <2>1, <2>2 DEF RegistersFilled
  <2>4. QED  BY <1>0, <1>1, <1>2, <2>1, <2>3
<1>7. CASE erase(pkt) /\ pkt.type = "ERASE"
  <2>1. /\ currentCommands' = [currentCommands EXCEPT ![u] = pkt]
        /\ controlCyclesLeft' = [controlCyclesLeft EXCEPT ![u] = ERASE_CYCLES]
        /\ blocks' = [blocks EXCEPT ![u] = [p \in PageNums |-> NoData]]
        /\ UNCHANGED <<dataReg, cacheReg>>
        BY <1>7 DEF erase, StartCommand
  <2> HIDE DEF u
  <2>2. RegistersFilled'  BY <1>0, <1>1, <1>7, <2>1 DEF RegistersFilled
  <2>3. [p \in PageNums |-> NoData] \in [PageNums -> Data \cup {NoData}]  OBVIOUS
  <2>4. QED  BY <1>0, <1>1, <1>2, <2>1, <2>2, <2>3
<1>8. QED
  <2>1. CASE pkt.type = "DATA"
    <3>1. storeInData(pkt)  BY <2>1 DEF receiveFromBuffer
    <3>2. QED  BY <1>3, <1>4, <3>1 DEF storeInData, Abort
  <2>2. CASE pkt.type # "DATA" /\ currentCommands[u] # NoPacket
        BY <1>3, <2>2 DEF receiveFromBuffer, Abort
  <2>3. CASE pkt.type # "DATA" /\ currentCommands[u] = NoPacket
    <3>1. \/ read(pkt)
          \/ write(pkt)
          \/ pkt.type = "ERASE" /\ erase(pkt)
          BY <2>3 DEF receiveFromBuffer
    <3>2. CASE read(pkt)
      <4>1. CASE dataReg[u] = NoPacket  BY <1>5, <3>2, <4>1
      <4>2. CASE dataReg[u] # NoPacket  BY <1>3, <3>2, <4>2 DEF read, Abort
      <4>3. QED  BY <4>1, <4>2
    <3>3. CASE write(pkt)
      <4>1. CASE cacheReg[u] # NoPacket  BY <1>6, <3>3, <4>1
      <4>2. CASE cacheReg[u] = NoPacket  BY <1>3, <3>3, <4>2 DEF write, Abort
      <4>3. QED  BY <4>1, <4>2
    <3>4. QED  BY <1>7, <3>1, <3>2, <3>3
  <2>4. QED  BY <2>1, <2>2, <2>3

(* The end of the commands of a die.                                       *)
LEMMA PlanesFetchingFinite ==
    ASSUME NEW d \in Dies
    PROVE  /\ PlanesFetching(d) \in SUBSET Nat /\ IsFiniteSet(PlanesFetching(d))
           /\ Cardinality(PlanesFetching(d)) \in Nat
<1>1. PlanesFetching(d) \in SUBSET Planes  BY DEF PlanesFetching
<1>2. IsFiniteSet(Planes)  BY FS_Interval, FlashDiesAssumption DEF Planes
<1>3. IsFiniteSet(PlanesFetching(d))  BY <1>1, <1>2, FS_Subset
<1>4. QED  BY <1>1, <1>3, DieTypes, FS_CardinalityType

(* Every plane that fetches has its page at one place, and no other has.   *)
LEMMA FetchedIs ==
    ASSUME NEW d \in Dies
    PROVE  LET n == Cardinality(PlanesFetching(d))
           IN  \E rank \in [PlanesFetching(d) -> 1 .. n] :
                 /\ Fetched(d) = [i \in 1 .. n |-> Fetched(d)[i]]
                 /\ \A p \in PlanesFetching(d) : Fetched(d)[rank[p]] = dataReg[<<d, p>>]
                 /\ \A i \in 1 .. n : \E p \in PlanesFetching(d) : rank[p] = i
                 /\ \A p, q \in PlanesFetching(d) : rank[p] = rank[q] => p = q
<1> DEFINE S == PlanesFetching(d)
           n == Cardinality(S)
           rank == Rank(S)
           Nth(i) == CHOOSE p \in S : Cardinality({q \in S : q <= p}) = i
<1>1. /\ rank \in [S -> 1 .. n]
      /\ \A p, q \in S : rank[p] = rank[q] => p = q
      /\ \A i \in 1 .. n : \E p \in S : rank[p] = i
  <2>1. S \in SUBSET Nat /\ IsFiniteSet(S)  BY PlanesFetchingFinite
  <2> HIDE DEF S
  <2>2. QED  BY <2>1, RankIsBijective
<1>2. Fetched(d) = [i \in 1 .. n |-> dataReg[<<d, Nth(i)>>]]  BY DEF Fetched
<1>3. ASSUME NEW p \in S  PROVE Nth(rank[p]) = p
  <2>1. rank[p] = Cardinality({q \in S : q <= p})  BY DEF Rank
  <2>2. Nth(rank[p]) \in S /\ rank[Nth(rank[p])] = rank[p]
    <3> DEFINE Q(x) == Cardinality({q \in S : q <= x}) = rank[p]
    <3>1. Q(p)  BY <2>1
    <3> DEFINE c == CHOOSE x \in S : Q(x)
    <3>2. c \in S /\ Q(c)
      <4> HIDE DEF Q, S
      <4>1. QED  BY <3>1
    <3>3. Nth(rank[p]) = c  OBVIOUS
    <3>4. rank[c] = Cardinality({q \in S : q <= c})  BY <3>2 DEF Rank
    <3> HIDE DEF Nth, rank, c
    <3>5. QED  BY <3>2, <3>3, <3>4
  <2> HIDE DEF Nth, rank, S
  <2>3. QED  BY <1>1, <2>2
<1>4. ASSUME NEW p \in S  PROVE Fetched(d)[rank[p]] = dataReg[<<d, p>>]
  <2> HIDE DEF Nth, rank, S, n
  <2>1. QED  BY <1>1, <1>2, <1>3
<1>5. Fetched(d) = [i \in 1 .. n |-> Fetched(d)[i]]
  <2> HIDE DEF Nth, n
  <2>1. QED  BY <1>2
<1> HIDE DEF Nth, rank
<1>6. QED  BY <1>1, <1>4, <1>5

LEMMA FetchesHasPage ==
    ASSUME DiesInv, NEW u \in Units, Fetches(u)
    PROVE  dataReg[u] \in Packets
BY DEF DiesInv, RegistersFilled, Fetches, ReadEnds, GCReadEnds, ExpiredIs, Expired

LEMMA ToReturnType ==
    ASSUME DiesInv, NEW d \in Dies
    PROVE  /\ Fetched(d) \in Seq(Packets) /\ Len(Fetched(d)) = Cardinality(PlanesFetching(d))
           /\ ToReturn(d) \in Seq(Packets)
           /\ Len(ToReturn(d)) = Len(returnDataPackets[d]) + Len(Fetched(d))
           /\ returnDataPackets[d] # <<>> => ToReturn(d) # <<>>
<1> DEFINE n == Cardinality(PlanesFetching(d))
<1>1. returnDataPackets[d] \in Seq(Packets)  BY DEF DiesInv, DiesTypeOK
<1>2. PICK rank \in [PlanesFetching(d) -> 1 .. n] :
          /\ Fetched(d) = [i \in 1 .. n |-> Fetched(d)[i]]
          /\ \A p \in PlanesFetching(d) : Fetched(d)[rank[p]] = dataReg[<<d, p>>]
          /\ \A i \in 1 .. n : \E p \in PlanesFetching(d) : rank[p] = i
      BY FetchedIs
<1>3. ASSUME NEW i \in 1 .. n  PROVE Fetched(d)[i] \in Packets
  <2>1. PICK p \in PlanesFetching(d) : rank[p] = i  BY <1>2
  <2>2. <<d, p>> \in Units /\ Fetches(<<d, p>>)  BY <2>1, UnitTypes DEF PlanesFetching
  <2>3. QED  BY <1>2, <2>1, <2>2, FetchesHasPage
<1>4. n \in Nat  BY PlanesFetchingFinite
<1>5. Fetched(d) \in [1 .. n -> Packets]
  <2> HIDE DEF n
  <2>1. QED  BY <1>2, <1>3
<1> HIDE DEF n
<1>6. Fetched(d) \in Seq(Packets) /\ Len(Fetched(d)) = n
  <2> DEFINE s == Fetched(d)
  <2>1. s \in [1 .. n -> Packets]  BY <1>5
  <2> HIDE DEF s
  <2>2. s \in Seq(Packets) /\ Len(s) = n  BY <1>4, <2>1
  <2>3. QED  BY <2>2 DEF s
<1>7. /\ ToReturn(d) \in Seq(Packets)
      /\ Len(ToReturn(d)) = Len(returnDataPackets[d]) + Len(Fetched(d))
  <2> DEFINE s == Fetched(d)
             r == returnDataPackets[d]
  <2>1. ToReturn(d) = r \o s  BY DEF ToReturn
  <2>2. r \in Seq(Packets) /\ s \in Seq(Packets)  BY <1>1, <1>6
  <2> HIDE DEF s, r
  <2>3. r \o s \in Seq(Packets) /\ Len(r \o s) = Len(r) + Len(s)
        BY <2>2, ConcatProperties
  <2>4. QED  BY <2>1, <2>3 DEF s, r
<1>8. ASSUME returnDataPackets[d] # <<>>  PROVE ToReturn(d) # <<>>
  <2>1. Len(returnDataPackets[d]) \in Nat \ {0}  BY <1>1, <1>8, EmptySeq
  <2>2. Len(ToReturn(d)) > 0
    <3>1. Len(Fetched(d)) \in Nat  BY <1>4, <1>6
    <3>2. QED  BY <1>7, <2>1, <3>1
  <2>3. QED  BY <1>7, <2>2, EmptySeq
<1>9. QED  BY <1>6, <1>7, <1>8 DEF n

LEMMA EndedType ==
    ASSUME DiesInv, NEW d \in Dies, EndCommands(d)
    PROVE  /\ currentCommands' \in [Units -> MaybePacket]
           /\ controlCyclesLeft' \in [Units -> Nat]
           /\ dataReg' \in [Units -> MaybePacket]
           /\ blocks' \in [Units -> [PageNums -> Data \cup {NoData}]]
           /\ RegistersFilled'
           /\ \A u \in Units : CacheRegAfter(d, u) \in MaybePacket
<1>0. /\ currentCommands \in [Units -> MaybePacket]
      /\ controlCyclesLeft \in [Units -> Nat]
      /\ dataReg \in [Units -> MaybePacket] /\ cacheReg \in [Units -> MaybePacket]
      /\ blocks \in [Units -> [PageNums -> Data \cup {NoData}]]
      /\ RegistersFilled /\ NoPacket \in MaybePacket
      BY DEF DiesInv, DiesTypeOK, MaybePacket
<1>1. /\ currentCommands' = [u \in Units |-> CommandAfter(d, u)]
      /\ controlCyclesLeft' =
           [u \in Units |-> IF On(d, u) /\ controlCyclesLeft[u] > 0
                            THEN controlCyclesLeft[u] - 1 ELSE controlCyclesLeft[u]]
      /\ dataReg' = [u \in Units |-> DataRegAfter(d, u)]
      /\ blocks' = [u \in Units |-> BlockAfter(d, u)]
      BY DEF EndCommands
<1>2. currentCommands' \in [Units -> MaybePacket]  BY <1>0, <1>1 DEF CommandAfter
<1>3. controlCyclesLeft' \in [Units -> Nat]  BY <1>0, <1>1
<1>4. dataReg' \in [Units -> MaybePacket]  BY <1>0, <1>1 DEF DataRegAfter
<1>5. ASSUME NEW u \in Units
      PROVE  BlockAfter(d, u) \in [PageNums -> Data \cup {NoData}]
  <2>1. CASE On(d, u) /\ ExpiredIs(u, "WRITE")
    <3>1. dataReg[u] \in Packets
          BY <1>0, <2>1 DEF RegistersFilled, ExpiredIs, Expired
    <3>2. dataReg[u].data \in Data \cup {NoData}  BY <3>1, PacketTypes
    <3>3. BlockAfter(d, u) = [blocks[u] EXCEPT ![currentCommands[u].page] = dataReg[u].data]
          BY <2>1 DEF BlockAfter
    <3>4. blocks[u] \in [PageNums -> Data \cup {NoData}]  BY <1>0
    <3> DEFINE b == blocks[u]
               x == dataReg[u].data
               p == currentCommands[u].page
    <3>5. BlockAfter(d, u) = [b EXCEPT ![p] = x]  BY <3>3
    <3> HIDE DEF b, x, p
    <3>6. b \in [PageNums -> Data \cup {NoData}] /\ x \in Data \cup {NoData}
          BY <3>2, <3>4 DEF b, x
    <3>7. QED  BY <3>5, <3>6
  <2>2. CASE ~(On(d, u) /\ ExpiredIs(u, "WRITE"))  BY <1>0, <2>2 DEF BlockAfter
  <2>3. QED  BY <2>1, <2>2
<1>6. blocks' \in [Units -> [PageNums -> Data \cup {NoData}]]  BY <1>1, <1>5
<1>7. ASSUME NEW u \in Units, CommandAfter(d, u) # NoPacket,
             CommandAfter(d, u).type # "ERASE"
      PROVE  DataRegAfter(d, u) \in Packets
  <2>1. /\ CommandAfter(d, u) = currentCommands[u] /\ ~(On(d, u) /\ Ends(u))
        BY <1>7 DEF CommandAfter
  <2>2. dataReg[u] \in Packets  BY <1>0, <1>7, <2>1 DEF RegistersFilled
  <2>3. ~(On(d, u) /\ (Fetches(u) \/ ExpiredIs(u, "WRITE")))
        BY <2>1 DEF Ends, Fetches, ReadEnds, GCReadEnds, ExpiredIs
  <2>4. QED  BY <2>2, <2>3 DEF DataRegAfter
<1>8. RegistersFilled'  BY <1>1, <1>7 DEF RegistersFilled
<1>9. \A u \in Units : CacheRegAfter(d, u) \in MaybePacket  BY <1>0 DEF CacheRegAfter
<1>10. QED  BY <1>2, <1>3, <1>4, <1>6, <1>8, <1>9

-----------------------------------------------------------------------------
(* The packets of a queue that are in a set, in their order.               *)
Portions(s, T) == [i \in DOMAIN s |-> If(s[i] \in T, s[i])]
Picked(s, T) == FlattenSeq(Portions(s, T))

OfPlane(u) == {pkt \in Packets : UnitOf(pkt) = u}
CommandsFor(u) == {pkt \in Packets : CommandOf(u, pkt)}

LEMMA PartsType ==
    ASSUME NEW s \in Seq(Packets), NEW T
    PROVE  /\ Portions(s, T) \in Seq(Seq(Packets)) /\ Len(Portions(s, T)) = Len(s)
           /\ \A i \in 1 .. Len(s) : Portions(s, T)[i] = If(s[i] \in T, s[i])
<1>1. DOMAIN s = 1 .. Len(s) /\ Len(s) \in Nat  BY LenProperties
<1>2. \A i \in 1 .. Len(s) : s[i] \in Packets  BY ElementOfSeq
<1>3. \A i \in 1 .. Len(s) : If(s[i] \in T, s[i]) \in Seq(Packets)  BY <1>2 DEF If
<1> DEFINE n == Len(s)
           F(i) == If(s[i] \in T, s[i])
           p == [i \in 1 .. n |-> F(i)]
<1>4. Portions(s, T) = p  BY <1>1 DEF Portions
<1>5. n \in Nat /\ \A i \in 1 .. n : F(i) \in Seq(Packets)  BY <1>1, <1>3
<1> HIDE DEF n, F
<1>6. p \in Seq(Seq(Packets)) /\ Len(p) = n /\ \A i \in 1 .. n : p[i] = F(i)
  <2>1. p \in [1 .. n -> Seq(Packets)]  BY <1>5
  <2>2. p \in Seq(Seq(Packets))  BY <1>5, <2>1
  <2>3. \A i \in 1 .. n : p[i] = F(i)  OBVIOUS
  <2>4. DOMAIN p = 1 .. n  OBVIOUS
  <2>5. Len(p) = n  BY <1>5, <2>2, <2>4, LenProperties
  <2>6. QED  BY <2>2, <2>3, <2>5
<1>7. QED  BY <1>4, <1>6 DEF n, F

LEMMA PickedType ==
    ASSUME NEW s \in Seq(Packets), NEW T  PROVE Picked(s, T) \in Seq(Packets)
BY PartsType, FlattenType DEF Picked

(* Only the packet at k is picked, or none if k is 0.                      *)
LEMMA PickedOnly ==
    ASSUME NEW s \in Seq(Packets), NEW T, NEW k \in 0 .. Len(s),
           \A i \in 1 .. Len(s) : s[i] \in T <=> i = k
    PROVE  Picked(s, T) = IF k = 0 THEN <<>> ELSE <<s[k]>>
<1> DEFINE p == Portions(s, T)
<1>1. /\ p \in Seq(Seq(Packets)) /\ Len(p) = Len(s) /\ Len(s) \in Nat
      /\ \A i \in 1 .. Len(s) : p[i] = If(s[i] \in T, s[i])
      BY PartsType, LenProperties
<1> HIDE DEF p
<1>2. \A i \in 1 .. Len(s) : i # k => p[i] = <<>>  BY <1>1 DEF If
<1>3. FlattenSeq(p) = IF k = 0 THEN <<>> ELSE p[k]  BY <1>1, <1>2, FlattenOnly
<1>4. k # 0 => p[k] = <<s[k]>>
  <2>1. k # 0 => k \in 1 .. Len(s)  BY <1>1
  <2>2. QED  BY <1>1, <2>1 DEF If
<1>5. QED  BY <1>3, <1>4 DEF Picked, p

LEMMA PickedNone ==
    ASSUME NEW s \in Seq(Packets), NEW T, \A i \in 1 .. Len(s) : s[i] \notin T
    PROVE  Picked(s, T) = <<>>
<1>1. Len(s) \in Nat  BY LenProperties
<1>2. 0 \in 0 .. Len(s) /\ \A i \in 1 .. Len(s) : s[i] \in T <=> i = 0  BY <1>1
<1>3. QED  BY <1>2, PickedOnly

LEMMA PickedEmpty == \A T : Picked(<<>>, T) = <<>>
<1> SUFFICES ASSUME NEW T PROVE Picked(<<>>, T) = <<>>  OBVIOUS
<1>1. <<>> \in Seq(Packets) /\ \A i \in 1 .. Len(<<>>) : <<>>[i] \notin T  BY EmptySeq
<1>2. QED  BY <1>1, PickedNone

LEMMA PickedConcat ==
    ASSUME NEW s \in Seq(Packets), NEW t \in Seq(Packets), NEW T
    PROVE  Picked(s \o t, T) = Picked(s, T) \o Picked(t, T)
<1> DEFINE a == Portions(s, T)
           b == Portions(t, T)
           c == Portions(s \o t, T)
           n == Len(s)
           k == Len(t)
<1>1. /\ s \o t \in Seq(Packets) /\ Len(s \o t) = n + k /\ n \in Nat /\ k \in Nat
      /\ \A i \in 1 .. n + k : (s \o t)[i] = IF i <= n THEN s[i] ELSE t[i - n]
      BY ConcatProperties, LenProperties
<1>2. /\ a \in Seq(Seq(Packets)) /\ Len(a) = n
      /\ \A i \in 1 .. n : a[i] = If(s[i] \in T, s[i])
      BY PartsType
<1>3. /\ b \in Seq(Seq(Packets)) /\ Len(b) = k
      /\ \A i \in 1 .. k : b[i] = If(t[i] \in T, t[i])
      BY PartsType
<1>4. /\ c \in Seq(Seq(Packets)) /\ Len(c) = n + k
      /\ \A i \in 1 .. n + k : c[i] = If((s \o t)[i] \in T, (s \o t)[i])
      BY <1>1, PartsType
<1> HIDE DEF a, b, c, n, k
<1>5. /\ a \o b \in Seq(Seq(Packets)) /\ Len(a \o b) = n + k
      /\ \A i \in 1 .. n + k : (a \o b)[i] = IF i <= n THEN a[i] ELSE b[i - n]
      BY <1>2, <1>3, ConcatProperties
<1>6. ASSUME NEW i \in 1 .. n + k  PROVE c[i] = (a \o b)[i]
  <2>1. CASE i <= n
    <3>1. i \in 1 .. n  BY <1>1, <2>1
    <3>2. QED  BY <1>1, <1>2, <1>4, <1>5, <2>1, <3>1
  <2>2. CASE ~(i <= n)
    <3>1. i - n \in 1 .. k  BY <1>1, <2>2
    <3>2. QED  BY <1>1, <1>3, <1>4, <1>5, <2>2, <3>1
  <2>3. QED  BY <2>1, <2>2
<1>7. c = a \o b  BY <1>4, <1>5, <1>6, SeqEqual
<1>8. QED  BY <1>2, <1>3, <1>7, FlattenConcat DEF Picked, a, b, c

LEMMA PickedSingle ==
    ASSUME NEW pkt \in Packets, NEW T  PROVE Picked(<<pkt>>, T) = If(pkt \in T, pkt)
<1> DEFINE s == <<pkt>>
           k == IF pkt \in T THEN 1 ELSE 0
<1>1. s \in Seq(Packets) /\ Len(s) = 1 /\ s[1] = pkt  OBVIOUS
<1>2. k \in 0 .. 1 /\ (k = 0 <=> pkt \notin T) /\ (k # 0 => k = 1)  OBVIOUS
<1> HIDE DEF s, k
<1>3. \A i \in 1 .. Len(s) : s[i] \in T <=> i = k  BY <1>1, <1>2
<1>4. Picked(s, T) = IF k = 0 THEN <<>> ELSE <<s[k]>>  BY <1>1, <1>2, <1>3, PickedOnly
<1>5. QED  BY <1>1, <1>2, <1>4 DEF s, If

LEMMA PickedAppend ==
    ASSUME NEW s \in Seq(Packets), NEW pkt \in Packets, NEW T
    PROVE  Picked(Append(s, pkt), T) = Picked(s, T) \o If(pkt \in T, pkt)
<1>1. Append(s, pkt) = s \o <<pkt>> /\ <<pkt>> \in Seq(Packets)  BY AppendIsConcat
<1>2. Picked(s \o <<pkt>>, T) = Picked(s, T) \o Picked(<<pkt>>, T)  BY <1>1, PickedConcat
<1>3. QED  BY <1>1, <1>2, PickedSingle

LEMMA PickedHead ==
    ASSUME NEW s \in Seq(Packets), s # <<>>, NEW T
    PROVE  Picked(s, T) = If(Head(s) \in T, Head(s)) \o Picked(Tail(s), T)
<1>1. Head(s) \in Packets /\ Tail(s) \in Seq(Packets)  BY HeadTailProperties
<1>2. s = <<Head(s)>> \o Tail(s)  BY SplitHead
<1>3. <<Head(s)>> \in Seq(Packets)  BY <1>1
<1>4. Picked(<<Head(s)>> \o Tail(s), T) = Picked(<<Head(s)>>, T) \o Picked(Tail(s), T)
      BY <1>1, <1>3, PickedConcat
<1>5. QED  BY <1>1, <1>2, <1>4, PickedSingle

(* A queue is built up packet by packet.                                   *)
LEMMA PrefixGrows ==
    ASSUME NEW s \in Seq(Packets), NEW m \in 1 .. Len(s)
    PROVE  /\ SubSeq(s, 1, m - 1) \in Seq(Packets) /\ s[m] \in Packets
           /\ SubSeq(s, 1, m) = Append(SubSeq(s, 1, m - 1), s[m])
<1>1. Len(s) \in Nat /\ 1 \in 1 .. Len(s) /\ m \in 1 .. Len(s)  BY LenProperties
<1>2. \A i \in 1 .. Len(s) : s[i] \in Packets  BY ElementOfSeq
<1>3. SubSeq(s, 1, m - 1) \in Seq(Packets)  BY <1>1, <1>2, SubSeqProperties
<1>4. SubSeq(s, 1, m) = SubSeq(s, 1, m - 1) \o <<s[m]>>  BY <1>1, SubSeqRecursiveSecond
<1>5. QED  BY <1>2, <1>3, <1>4, AppendIsConcat

(* Picking from what was picked; the packets that are picked.              *)
LEMMA PickedTwice ==
    ASSUME NEW s \in Seq(Packets), NEW S, NEW T, T \subseteq S
    PROVE  Picked(Picked(s, S), T) = Picked(s, T)
<1> DEFINE G == {m \in 0 .. Len(s) :
                   Picked(Picked(SubSeq(s, 1, m), S), T) = Picked(SubSeq(s, 1, m), T)}
<1>1. Len(s) \in Nat /\ SubSeq(s, 1, Len(s)) = s /\ SubSeq(s, 1, 0) = <<>>
      BY LenProperties, SubSeqFull, SubSeqEmpty
<1>2. 0 \in G
  <2>1. Picked(<<>>, S) = <<>> /\ Picked(<<>>, T) = <<>>  BY PickedEmpty
  <2>2. Picked(Picked(SubSeq(s, 1, 0), S), T) = Picked(SubSeq(s, 1, 0), T)
        BY <1>1, <2>1, Zenon
  <2>3. 0 \in 0 .. Len(s)  BY <1>1
  <2>4. QED  BY <2>2, <2>3
<1>3. ASSUME NEW m \in 1 .. Len(s), m - 1 \in G  PROVE m \in G
  <2> DEFINE a == SubSeq(s, 1, m - 1)
             e == s[m]
             b == SubSeq(s, 1, m)
  <2>1. a \in Seq(Packets) /\ e \in Packets /\ b = Append(a, e)  BY PrefixGrows
  <2>2. Picked(Picked(a, S), T) = Picked(a, T)  BY <1>3
  <2> HIDE DEF a, e, b
  <2>3. Picked(b, S) = Picked(a, S) \o If(e \in S, e)  BY <2>1, PickedAppend
  <2>4. Picked(b, T) = Picked(a, T) \o If(e \in T, e)  BY <2>1, PickedAppend
  <2>5. Picked(a, S) \in Seq(Packets) /\ Picked(a, T) \in Seq(Packets)  BY <2>1, PickedType
  <2> DEFINE p == Picked(a, S)
             q == Picked(a, T)
  <2>6. p \in Seq(Packets) /\ q \in Seq(Packets) /\ Picked(p, T) = q  BY <2>2, <2>5
  <2>7. Picked(b, S) = p \o If(e \in S, e) /\ Picked(b, T) = q \o If(e \in T, e)
        BY <2>3, <2>4
  <2> HIDE DEF p, q
  <2>8. CASE e \in S
    <3>1. Picked(b, S) = Append(p, e)  BY <2>1, <2>6, <2>7, <2>8, AppendIsConcat DEF If
    <3>2. Picked(Append(p, e), T) = Picked(p, T) \o If(e \in T, e)
          BY <2>1, <2>6, PickedAppend
    <3>3. Picked(Picked(b, S), T) = Picked(b, T)  BY <2>6, <2>7, <3>1, <3>2
    <3>4. QED  BY <3>3 DEF b
  <2>9. CASE e \notin S
    <3>1. Picked(b, S) = p \o <<>> /\ Picked(b, T) = q \o <<>>  BY <2>7, <2>9 DEF If
    <3>2. p \o <<>> = p /\ q \o <<>> = q  BY <2>6, ConcatEmptySeq
    <3>3. Picked(Picked(b, S), T) = Picked(b, T)  BY <2>6, <3>1, <3>2
    <3>4. QED  BY <3>3 DEF b
  <2>10. QED  BY <2>8, <2>9
<1> HIDE DEF G
<1>4. Len(s) \in G  BY <1>1, <1>2, <1>3, UpToInduction
<1>5. QED  BY <1>1, <1>4 DEF G

LEMMA PickedSet ==
    ASSUME NEW s \in Seq(Packets), NEW T
    PROVE  ToSet(Picked(s, T)) = ToSet(s) \cap T
<1> DEFINE G == {m \in 0 .. Len(s) :
                   ToSet(Picked(SubSeq(s, 1, m), T)) = ToSet(SubSeq(s, 1, m)) \cap T}
<1>1. Len(s) \in Nat /\ SubSeq(s, 1, Len(s)) = s /\ SubSeq(s, 1, 0) = <<>>
      BY LenProperties, SubSeqFull, SubSeqEmpty
<1>2. 0 \in G
  <2>1. Picked(<<>>, T) = <<>>  BY PickedEmpty
  <2>2. ToSet(<<>>) = {}  BY DEF ToSet
  <2>3. ToSet(Picked(SubSeq(s, 1, 0), T)) = ToSet(SubSeq(s, 1, 0)) \cap T
    <3>1. ToSet(Picked(SubSeq(s, 1, 0), T)) = {} /\ ToSet(SubSeq(s, 1, 0)) = {}
          BY <1>1, <2>1, <2>2, Zenon
    <3>2. QED  BY <3>1
  <2>4. 0 \in 0 .. Len(s)  BY <1>1
  <2>5. QED  BY <2>3, <2>4
<1>3. ASSUME NEW m \in 1 .. Len(s), m - 1 \in G  PROVE m \in G
  <2> DEFINE a == SubSeq(s, 1, m - 1)
             e == s[m]
             b == SubSeq(s, 1, m)
             p == Picked(a, T)
  <2>1. a \in Seq(Packets) /\ e \in Packets /\ b = Append(a, e)  BY PrefixGrows
  <2>2. ToSet(p) = ToSet(a) \cap T  BY <1>3
  <2> HIDE DEF a, e, b
  <2>3. Picked(b, T) = p \o If(e \in T, e)  BY <2>1, PickedAppend
  <2>4. p \in Seq(Packets)  BY <2>1, PickedType
  <2>5. ASSUME NEW r \in Seq(Packets)  PROVE ToSet(Append(r, e)) = ToSet(r) \cup {e}
    <3>1. /\ DOMAIN r = 1 .. Len(r) /\ Len(r) \in Nat
          /\ DOMAIN Append(r, e) = 1 .. Len(r) + 1 /\ Append(r, e)[Len(r) + 1] = e
          /\ \A i \in 1 .. Len(r) : Append(r, e)[i] = r[i]
          BY <2>1, AppendProperties, LenProperties
    <3>2. 1 .. Len(r) + 1 = (1 .. Len(r)) \cup {Len(r) + 1}  BY <3>1
    <3>3. QED  BY <3>1, <3>2 DEF ToSet
  <2> HIDE DEF p
  <2>6. ToSet(b) = ToSet(a) \cup {e}  BY <2>1, <2>5
  <2>7. ToSet(Picked(b, T)) = ToSet(b) \cap T
    <3>1. CASE e \in T
      <4>1. Picked(b, T) = Append(p, e)  BY <2>1, <2>3, <2>4, <3>1, AppendIsConcat DEF If
      <4>2. QED  BY <2>2, <2>4, <2>5, <2>6, <3>1, <4>1
    <3>2. CASE e \notin T
      <4>1. Picked(b, T) = p  BY <2>3, <2>4, <3>2, ConcatEmptySeq DEF If
      <4>2. QED  BY <2>2, <2>6, <3>2, <4>1
    <3>3. QED  BY <3>1, <3>2
  <2>8. QED  BY <2>7 DEF b
<1> HIDE DEF G
<1>4. Len(s) \in G  BY <1>1, <1>2, <1>3, UpToInduction
<1>5. QED  BY <1>1, <1>4 DEF G

(* The first packet of a queue joins another queue before it.              *)
LEMMA PickedMoves ==
    ASSUME NEW s \in Seq(Packets), NEW t \in Seq(Packets), t # <<>>, NEW T
    PROVE  /\ Append(s, Head(t)) \in Seq(Packets) /\ Tail(t) \in Seq(Packets)
           /\ Picked(Append(s, Head(t)), T) \o Picked(Tail(t), T) = Picked(s, T) \o Picked(t, T)
           /\ Head(t) \notin T => /\ Picked(Append(s, Head(t)), T) = Picked(s, T)
                                  /\ Picked(Tail(t), T) = Picked(t, T)
<1> DEFINE h == Head(t)
           e == If(h \in T, h)
           a == Picked(s, T)
           b == Picked(Tail(t), T)
<1>1. h \in Packets /\ Tail(t) \in Seq(Packets)  BY HeadTailProperties
<1> HIDE DEF h
<1>2. Append(s, h) \in Seq(Packets)  BY <1>1, AppendProperties
<1>3. Picked(Append(s, h), T) = a \o e  BY <1>1, PickedAppend
<1>4. Picked(t, T) = e \o b  BY PickedHead DEF h
<1>5. a \in Seq(Packets) /\ b \in Seq(Packets)  BY <1>1, PickedType
<1>6. e \in Seq(Packets)  BY <1>1, SingletonSeq, EmptySeq DEF If
<1>7. h \notin T => e = <<>>  BY DEF If
<1> HIDE DEF e, a, b
<1>8. (a \o e) \o b = a \o (e \o b)
  <2>1. a \in Seq(Packets) /\ e \in Seq(Packets) /\ b \in Seq(Packets)  BY <1>5, <1>6
  <2>2. \A x, y, z \in Seq(Packets) : (x \o y) \o z = x \o (y \o z)
        BY ConcatAssociative
  <2>3. QED  BY <2>1, <2>2
<1>9. a \o <<>> = a /\ <<>> \o b = b  BY <1>5, ConcatEmptySeq
<1>10. QED  BY <1>1, <1>2, <1>3, <1>4, <1>7, <1>8, <1>9 DEF h, a, b

LEMMA PlaneIsPicked ==
    ASSUME NEW s \in Seq(Packets), NEW u
    PROVE  /\ FromPlane(u, s) = Picked(s, OfPlane(u))
           /\ CommandsOf(u, s) = Picked(s, CommandsFor(u))
<1>1. \A i \in DOMAIN s : s[i] \in Packets  BY LenProperties, ElementOfSeq
<1>2. \A i \in DOMAIN s : /\ s[i] \in OfPlane(u) <=> UnitOf(s[i]) = u
                          /\ s[i] \in CommandsFor(u) <=> CommandOf(u, s[i])
      BY <1>1 DEF OfPlane, CommandsFor
<1>3. Portions(s, OfPlane(u)) = [i \in DOMAIN s |-> If(UnitOf(s[i]) = u, s[i])]
      BY <1>2 DEF Portions, If
<1>4. Portions(s, CommandsFor(u)) = [i \in DOMAIN s |-> If(CommandOf(u, s[i]), s[i])]
      BY <1>2 DEF Portions, If
<1>5. QED  BY <1>3, <1>4 DEF FromPlane, CommandsOf, Picked

-----------------------------------------------------------------------------
(* A queue seen through a function of its packets.                         *)
Mapped(f, s) == [i \in DOMAIN s |-> f[s[i]]]
OpOf == [pkt \in Packets |-> Op(pkt)]
PageOf == [pkt \in Packets |-> Page(pkt)]

LEMMA MappedSeq ==
    ASSUME NEW s \in Seq(Packets), NEW f
    PROVE  /\ Mapped(f, s) \in Seq({f[pkt] : pkt \in Packets}) /\ Len(Mapped(f, s)) = Len(s)
           /\ \A i \in 1 .. Len(s) : Mapped(f, s)[i] = f[s[i]]
<1> DEFINE n == Len(s)
           R == {f[pkt] : pkt \in Packets}
           m == Mapped(f, s)
<1>1. DOMAIN s = 1 .. n /\ n \in Nat  BY LenProperties
<1>2. \A i \in 1 .. n : f[s[i]] \in R  BY ElementOfSeq
<1>3. m = [i \in 1 .. n |-> f[s[i]]]  BY <1>1 DEF Mapped
<1> HIDE DEF m, R, n
<1>4. m \in [1 .. n -> R]  BY <1>2, <1>3
<1>5. m \in Seq(R) /\ DOMAIN m = 1 .. n  BY <1>1, <1>4
<1>6. Len(m) = n  BY <1>1, <1>5, LenProperties
<1>7. \A i \in 1 .. n : m[i] = f[s[i]]  BY <1>3
<1>8. QED  BY <1>5, <1>6, <1>7 DEF m, R, n

LEMMA MappedAppend ==
    ASSUME NEW s \in Seq(Packets), NEW pkt \in Packets, NEW f
    PROVE  Mapped(f, Append(s, pkt)) = Append(Mapped(f, s), f[pkt])
<1> DEFINE n == Len(s)
           R == {f[p] : p \in Packets}
           t == Append(s, pkt)
           m == Mapped(f, s)
           k == Mapped(f, t)
<1>1. /\ t \in Seq(Packets) /\ Len(t) = n + 1 /\ n \in Nat
      /\ \A i \in 1 .. n : t[i] = s[i]
      /\ t[n + 1] = pkt
      BY AppendProperties, LenProperties
<1>2. /\ m \in Seq(R) /\ Len(m) = n /\ \A i \in 1 .. n : m[i] = f[s[i]]
      BY MappedSeq
<1>3. /\ k \in Seq(R) /\ Len(k) = n + 1 /\ \A i \in 1 .. n + 1 : k[i] = f[t[i]]
  <2>1. /\ k \in Seq(R) /\ Len(k) = Len(t) /\ \A i \in 1 .. Len(t) : k[i] = f[t[i]]
    <3> HIDE DEF t
    <3>1. t \in Seq(Packets)  BY <1>1
    <3>2. QED  BY <3>1, MappedSeq
  <2>2. QED  BY <1>1, <2>1
<1>4. f[pkt] \in R  OBVIOUS
<1> HIDE DEF n, R, t, m, k
<1>5. /\ Append(m, f[pkt]) \in Seq(R) /\ Len(Append(m, f[pkt])) = n + 1
      /\ \A i \in 1 .. n : Append(m, f[pkt])[i] = m[i]
      /\ Append(m, f[pkt])[n + 1] = f[pkt]
      BY <1>2, <1>4, AppendProperties
<1>6. \A i \in 1 .. n + 1 : i \in 1 .. n \/ i = n + 1  BY <1>1
<1>7. \A i \in 1 .. n + 1 : k[i] = Append(m, f[pkt])[i]
      BY <1>1, <1>2, <1>3, <1>5, <1>6
<1>8. k = Append(m, f[pkt])  BY <1>3, <1>5, <1>7, SeqEqual
<1>9. QED  BY <1>8 DEF k, m, t

LEMMA MappedHeadTail ==
    ASSUME NEW s \in Seq(Packets), s # <<>>, NEW f
    PROVE  /\ Mapped(f, s) # <<>> /\ Head(Mapped(f, s)) = f[Head(s)]
           /\ Tail(Mapped(f, s)) = Mapped(f, Tail(s))
<1> DEFINE n == Len(s)
           R == {f[p] : p \in Packets}
           t == Tail(s)
           m == Mapped(f, s)
           k == Mapped(f, t)
<1>1. /\ n \in Nat \ {0} /\ Head(s) = s[1] /\ t \in Seq(Packets) /\ Len(t) = n - 1
      BY EmptySeq, LenProperties
<1>2. \A i \in 1 .. n - 1 : t[i] = s[i + 1]  BY <1>1, HeadTailProperties
<1>3. /\ m \in Seq(R) /\ Len(m) = n /\ \A i \in 1 .. n : m[i] = f[s[i]]
      BY MappedSeq
<1>4. /\ k \in Seq(R) /\ Len(k) = n - 1 /\ \A i \in 1 .. n - 1 : k[i] = f[t[i]]
  <2>1. /\ k \in Seq(R) /\ Len(k) = Len(t) /\ \A i \in 1 .. Len(t) : k[i] = f[t[i]]
    <3> HIDE DEF t
    <3>1. t \in Seq(Packets)  BY <1>1
    <3>2. QED  BY <3>1, MappedSeq
  <2>2. QED  BY <1>1, <2>1
<1> HIDE DEF n, R, t, m, k
<1>5. m # <<>>  BY <1>1, <1>3, EmptySeq
<1>6. /\ Head(m) = m[1] /\ Tail(m) \in Seq(R) /\ Len(Tail(m)) = n - 1
      /\ \A i \in 1 .. n - 1 : Tail(m)[i] = m[i + 1]
  <2>1. Head(m) = m[1] /\ Tail(m) \in Seq(R) /\ Len(Tail(m)) = n - 1
        BY <1>1, <1>3, <1>5
  <2>2. QED  BY <1>3, <1>5, <2>1, HeadTailProperties
<1>7. \A i \in 1 .. n - 1 : Tail(m)[i] = k[i]
  <2> SUFFICES ASSUME NEW i \in 1 .. n - 1  PROVE Tail(m)[i] = k[i]
      OBVIOUS
  <2>1. i + 1 \in 1 .. n  BY <1>1
  <2>2. m[i + 1] = f[s[i + 1]]  BY <1>3, <2>1, Zenon
  <2>3. Tail(m)[i] = m[i + 1]  BY <1>6, Zenon
  <2>4. k[i] = f[t[i]]  BY <1>4, Zenon
  <2>5. t[i] = s[i + 1]  BY <1>2, Zenon
  <2>6. QED  BY <2>2, <2>3, <2>4, <2>5, Zenon
<1>8. Tail(m) = k  BY <1>4, <1>6, <1>7, SeqEqual
<1>9. 1 \in 1 .. n  BY <1>1
<1>10. Head(m) = f[Head(s)]  BY <1>1, <1>3, <1>6, <1>9
<1>11. QED  BY <1>5, <1>8, <1>10 DEF m, k, t

LEMMA MapIsMapped ==
    ASSUME NEW s \in Seq(Packets)
    PROVE  Map(Op, s) = Mapped(OpOf, s) /\ Map(Page, s) = Mapped(PageOf, s)
<1>1. \A i \in DOMAIN s : s[i] \in Packets  BY LenProperties, ElementOfSeq
<1>2. \A i \in DOMAIN s : OpOf[s[i]] = Op(s[i]) /\ PageOf[s[i]] = Page(s[i])
      BY <1>1 DEF OpOf, PageOf
<1> HIDE DEF Op, Page, OpOf, PageOf
<1>3. QED  BY <1>2 DEF Map, Mapped

LEMMA MapAppend ==
    ASSUME NEW s \in Seq(Packets), NEW pkt \in Packets
    PROVE  /\ Map(Op, Append(s, pkt)) = Append(Map(Op, s), Op(pkt))
           /\ Map(Page, Append(s, pkt)) = Append(Map(Page, s), Page(pkt))
<1>1. Append(s, pkt) \in Seq(Packets)  BY AppendProperties
<1>2. OpOf[pkt] = Op(pkt) /\ PageOf[pkt] = Page(pkt)  BY DEF OpOf, PageOf
<1>3. /\ Mapped(OpOf, Append(s, pkt)) = Append(Mapped(OpOf, s), OpOf[pkt])
      /\ Mapped(PageOf, Append(s, pkt)) = Append(Mapped(PageOf, s), PageOf[pkt])
      BY MappedAppend
<1>4. /\ Map(Op, Append(s, pkt)) = Mapped(OpOf, Append(s, pkt))
      /\ Map(Page, Append(s, pkt)) = Mapped(PageOf, Append(s, pkt))
      BY <1>1, MapIsMapped
<1>5. Map(Op, s) = Mapped(OpOf, s) /\ Map(Page, s) = Mapped(PageOf, s)  BY MapIsMapped
<1>6. QED  BY <1>2, <1>3, <1>4, <1>5

LEMMA MapHeadTail ==
    ASSUME NEW s \in Seq(Packets), s # <<>>
    PROVE  /\ Map(Op, s) # <<>> /\ Head(Map(Op, s)) = Op(Head(s))
           /\ Tail(Map(Op, s)) = Map(Op, Tail(s))
           /\ Map(Page, s) # <<>> /\ Head(Map(Page, s)) = Page(Head(s))
           /\ Tail(Map(Page, s)) = Map(Page, Tail(s))
<1>1. Head(s) \in Packets /\ Tail(s) \in Seq(Packets)  BY HeadTailProperties
<1>2. OpOf[Head(s)] = Op(Head(s)) /\ PageOf[Head(s)] = Page(Head(s))
      BY <1>1 DEF OpOf, PageOf
<1>3. /\ Mapped(OpOf, s) # <<>> /\ Head(Mapped(OpOf, s)) = OpOf[Head(s)]
      /\ Tail(Mapped(OpOf, s)) = Mapped(OpOf, Tail(s))
      BY MappedHeadTail
<1>4. /\ Mapped(PageOf, s) # <<>> /\ Head(Mapped(PageOf, s)) = PageOf[Head(s)]
      /\ Tail(Mapped(PageOf, s)) = Mapped(PageOf, Tail(s))
      BY MappedHeadTail
<1>5. /\ Map(Op, s) = Mapped(OpOf, s) /\ Map(Page, s) = Mapped(PageOf, s)
      /\ Map(Op, Tail(s)) = Mapped(OpOf, Tail(s)) /\ Map(Page, Tail(s)) = Mapped(PageOf, Tail(s))
      BY <1>1, MapIsMapped
<1>6. QED  BY <1>2, <1>3, <1>4, <1>5

-----------------------------------------------------------------------------
(* The registers.  Without garbage collection the FTL gives only READ,     *)
(* WRITE and ERASE.  queues are the packets of each die that have not      *)
(* reached it, the oldest first, and out is the one on the channel; where  *)
(* they are kept is the business of the package.                           *)
HostCommands == Commands \subseteq {"READ", "WRITE", "ERASE"}
WriteOf(pkt) == [pkt EXCEPT !.type = "WRITE"]

(* In a queue every DATA is followed by its WRITE.                         *)
Paired(q) ==
    /\ \A i \in 1 .. Len(q) :
         q[i].type = "DATA" => i < Len(q) /\ q[i + 1] = WriteOf(q[i])
    /\ \A i \in 2 .. Len(q) : q[i].type = "WRITE" => q[i - 1].type = "DATA"
QueuesSound(queues) ==
    \A d \in Dies :
        /\ Paired(queues[d])
        /\ \A i \in 1 .. Len(queues[d]) :
             /\ queues[d][i].die = d
             /\ queues[d][i].type \in {"DATA", "READ", "WRITE", "ERASE"}

(* And so it is on the way: a WRITE is the next command of a die exactly   *)
(* when its data is in the register.                                       *)
NextOf(queues, out, d) ==
    IF out # NoPacket /\ out.die = d THEN out
    ELSE IF queues[d] # <<>> THEN Head(queues[d]) ELSE NoPacket
Holds(regs, u, type) == regs[u] # NoPacket /\ regs[u].type = type
DataArrives(queues, out) ==
    out # NoPacket =>
        IF out.type = "DATA"
        THEN queues[out.die] # <<>> /\ Head(queues[out.die]) = WriteOf(out)
        ELSE queues[out.die] # <<>> => Head(queues[out.die]).type # "WRITE"
DataAwaitsWrite(queues, out, cache) ==
    /\ \A u \in Units : Holds(cache, u, "DATA") =>
            UnitOf(cache[u]) = u /\ NextOf(queues, out, u[1]) = WriteOf(cache[u])
    /\ \A d \in Dies : NextOf(queues, out, d).type = "WRITE" =>
            Holds(cache, UnitOf(NextOf(queues, out, d)), "DATA")

(* What the die said before the packet was sent is still so.               *)
ArrivalSound(out, commands, cache) ==
    out # NoPacket =>
        LET u == UnitOf(out)
        IN  /\ out.type \in {"DATA", "READ", "WRITE", "ERASE"}
            /\ IF out.type = "DATA"
               THEN /\ cache[u] = NoPacket
                    /\ commands[u] = NoPacket \/ commands[u].type = "WRITE"
               ELSE commands[u] = NoPacket

(* The data register belongs to the command the plane runs.                *)
RegistersSound(commands, data) ==
    \A u \in Units :
        /\ commands[u] # NoPacket => commands[u].type \in {"READ", "WRITE", "ERASE"}
        /\ data[u] # NoPacket <=> commands[u] # NoPacket /\ commands[u].type # "ERASE"
        /\ Holds(commands, u, "READ") => data[u].type = "READ" /\ UnitOf(data[u]) = u

(* The pages of a die that wait to be returned are those in its cache      *)
(* registers, one for each register.                                       *)
PagesSound(pages, d, cache) ==
    /\ \A i \in 1 .. Len(pages) :
         /\ pages[i].die = d /\ pages[i].type # "DATA"
         /\ cache[UnitOf(pages[i])] = pages[i]
    /\ \A i, j \in 1 .. Len(pages) : UnitOf(pages[i]) = UnitOf(pages[j]) => i = j
    /\ \A u \in Units : u[1] = d /\ cache[u] # NoPacket /\ ~Holds(cache, u, "DATA") =>
         \E i \in 1 .. Len(pages) : UnitOf(pages[i]) = u

PacketsSound(queues, out, commands, cache) ==
    /\ QueuesSound(queues)
    /\ DataArrives(queues, out)
    /\ DataAwaitsWrite(queues, out, cache)
    /\ ArrivalSound(out, commands, cache)

LEMMA FirstOfTwo ==
    ASSUME NEW t \in Seq(Packets), Len(t) = 2  PROVE t[1] \in Packets
<1>1. 1 \in 1 .. Len(t)  OBVIOUS
<1>2. QED  BY <1>1, ElementOfSeq

LEMMA WriteOfType ==
    ASSUME NEW pkt \in Packets
    PROVE  /\ WriteOf(pkt) \in Packets /\ WriteOf(pkt).type = "WRITE"
           /\ UnitOf(WriteOf(pkt)) = UnitOf(pkt) /\ WriteOf(pkt).die = pkt.die
BY DEF WriteOf, Packets, UnitOf

(* What the FTL gives at once: a command, or data and its write.           *)
Batch(d, t) ==
    /\ \/ Len(t) = 1 /\ t[1].type \in {"READ", "ERASE"}
       \/ Len(t) = 2 /\ t[1].type = "DATA" /\ t[2] = WriteOf(t[1])
    /\ \A i \in 1 .. Len(t) : t[i].die = d

LEMMA GivenBatch ==
    ASSUME HostCommands, DiesInv, FtlGives
    PROVE  \/ UNCHANGED readQueues
           \/ \E d \in Dies, t \in Seq(Packets) :
                Batch(d, t) /\ readQueues' = [readQueues EXCEPT ![d] = @ \o t]
<1> DEFINE Given == \E d \in Dies, t \in Seq(Packets) :
                      Batch(d, t) /\ readQueues' = [readQueues EXCEPT ![d] = @ \o t]
<1>1. ASSUME NEW u \in Units, NEW p \in PageNums,
             NEW type \in Commands \cap {"READ", "GC_READ", "ERASE"},
             addPacket(Packet(type, u, p, NoData))
      PROVE  Given
  <2> DEFINE c == Packet(type, u, p, NoData)
             t == <<c>>
  <2>1. c \in Packets /\ c.die = u[1] /\ c.type \in {"READ", "ERASE"}
        BY UnitTypes DEF Packet, Packets, HostCommands
  <2>2. readQueues' = [readQueues EXCEPT ![c.die] = Append(@, c)]
        BY <1>1 DEF addPacket
  <2> HIDE DEF c
  <2>3. u[1] \in Dies /\ readQueues[u[1]] \in Seq(Packets) /\ readQueues \in [Dies -> Seq(Packets)]
        BY UnitTypes DEF DiesInv, DiesTypeOK
  <2>4. Append(readQueues[u[1]], c) = readQueues[u[1]] \o t
        BY <2>1, <2>3, AppendIsConcat
  <2>5. t \in Seq(Packets) /\ Len(t) = 1 /\ t[1] = c  BY <2>1
  <2> HIDE DEF t
  <2>6. readQueues' = [readQueues EXCEPT ![u[1]] = @ \o t]
    <3> DEFINE d == u[1]
    <3>1. d \in Dies /\ Append(readQueues[d], c) = readQueues[d] \o t  BY <2>3, <2>4
    <3>2. readQueues' = [readQueues EXCEPT ![d] = Append(readQueues[d], c)]  BY <2>1, <2>2
    <3> HIDE DEF d
    <3>3. readQueues' = [readQueues EXCEPT ![d] = readQueues[d] \o t]  BY <3>1, <3>2
    <3>4. QED  BY <3>3 DEF d
  <2>7. /\ t[1].type \in {"READ", "ERASE"}
        /\ \A i \in 1 .. Len(t) : t[i].die = u[1]
        BY <2>1, <2>5
  <2>8. QED  BY <2>3, <2>5, <2>6, <2>7 DEF Batch
<1>2. ASSUME NEW u \in Units, NEW p \in PageNums, NEW x \in Data,
             NEW type \in Commands \cap {"WRITE", "GC_WRITE"},
             addWrite(type, u, p, x)
      PROVE  Given
  <2> DEFINE c == Packet("DATA", u, p, x)
             w == Packet(type, u, p, x)
             t == <<c, w>>
  <2>1. /\ c \in Packets /\ c.die = u[1] /\ c.type = "DATA"
        /\ w \in Packets /\ w.die = u[1]
        BY UnitTypes DEF Packet, Packets
  <2>2. w = WriteOf(c)  BY DEF Packet, WriteOf, HostCommands
  <2>3. readQueues' = [readQueues EXCEPT ![u[1]] = @ \o t]  BY <1>2 DEF addWrite
  <2> HIDE DEF c, w
  <2>4. t \in Seq(Packets) /\ Len(t) = 2 /\ t[1] = c /\ t[2] = w  BY <2>1
  <2>5. u[1] \in Dies  BY UnitTypes
  <2> HIDE DEF t
  <2>6. \A i \in 1 .. Len(t) : t[i].die = u[1]  BY <2>1, <2>4
  <2>7. QED  BY <2>1, <2>2, <2>3, <2>4, <2>5, <2>6 DEF Batch
<1>3. QED  BY <1>1, <1>2 DEF FtlGives

(* A command, or data and its write, joins a queue.                        *)
LEMMA JoinedQueueSound ==
    ASSUME NEW s \in Seq(Packets), Paired(s), NEW t \in Seq(Packets),
           \/ Len(t) = 1 /\ t[1].type \in {"READ", "ERASE"}
           \/ Len(t) = 2 /\ t[1].type = "DATA" /\ t[2] = WriteOf(t[1])
    PROVE  /\ Paired(s \o t)
           /\ s \o t # <<>>
           /\ s # <<>> => Head(s \o t) = Head(s)
           /\ s = <<>> => Head(s \o t).type # "WRITE"
<1> DEFINE r == s \o t
<1>1. /\ Len(r) = Len(s) + Len(t) /\ Len(s) \in Nat /\ r \in Seq(Packets)
      /\ \A i \in 1 .. Len(s) : r[i] = s[i]
      /\ \A i \in 1 .. Len(t) : r[Len(s) + i] = t[i]
  <2>1. /\ Len(r) = Len(s) + Len(t) /\ r \in Seq(Packets)
        /\ \A i \in 1 .. Len(s) + Len(t) :
             r[i] = IF i <= Len(s) THEN s[i] ELSE t[i - Len(s)]
        BY ConcatProperties
  <2>2. Len(s) \in Nat /\ Len(t) \in Nat  OBVIOUS
  <2> HIDE DEF r
  <2>3. ASSUME NEW i \in 1 .. Len(s)  PROVE r[i] = s[i]
    <3>1. i \in 1 .. Len(s) + Len(t) /\ i <= Len(s)  BY <2>2
    <3>2. QED  BY <2>1, <3>1, Zenon
  <2>4. ASSUME NEW i \in 1 .. Len(t)  PROVE r[Len(s) + i] = t[i]
    <3> DEFINE k == Len(s) + i
    <3>1. k \in 1 .. Len(s) + Len(t) /\ ~ (k <= Len(s)) /\ k - Len(s) = i  BY <2>2
    <3> HIDE DEF k
    <3>2. r[k] = t[k - Len(s)]  BY <2>1, <3>1, Zenon
    <3>3. QED  BY <3>1, <3>2, Zenon DEF k
  <2>5. QED  BY <2>1, <2>2, <2>3, <2>4
<1>2. Len(t) = 2 => t[2].type = "WRITE"
  <2> SUFFICES ASSUME Len(t) = 2  PROVE t[2].type = "WRITE"  OBVIOUS
  <2>1. t[1] \in Packets  BY FirstOfTwo
  <2>2. WriteOf(t[1]).type = "WRITE"  BY <2>1, WriteOfType
  <2>3. t[2] = WriteOf(t[1])  OBVIOUS
  <2>4. QED  BY <2>2, <2>3, Zenon
<1> HIDE DEF r
<1>3. ASSUME NEW i \in 1 .. Len(r), r[i].type = "DATA"
      PROVE  i < Len(r) /\ r[i + 1] = WriteOf(r[i])
  <2>1. CASE i <= Len(s)
    <3>1. i < Len(s) /\ s[i + 1] = WriteOf(s[i])
          BY <1>1, <1>3, <2>1 DEF Paired
    <3>2. i + 1 \in 1 .. Len(s)  BY <1>1, <2>1, <3>1
    <3>3. QED  BY <1>1, <2>1, <3>1, <3>2
  <2>2. CASE i > Len(s)
    <3>1. i = Len(s) + (i - Len(s)) /\ i - Len(s) \in 1 .. Len(t)  BY <1>1, <2>2
    <3>2. t[i - Len(s)].type = "DATA"  BY <1>1, <1>3, <3>1
    <3>3. Len(t) = 2 /\ i - Len(s) = 1
      <4> DEFINE k == i - Len(s)
      <4>1. k \in 1 .. Len(t) /\ t[k].type = "DATA"  BY <3>1, <3>2
      <4> HIDE DEF k
      <4>2. k = 1 \/ (Len(t) = 2 /\ k = 2)  BY <4>1
      <4>3. k = 1 /\ Len(t) = 2  BY <1>2, <4>1, <4>2
      <4>4. QED  BY <4>3 DEF k
    <3>4. r[Len(s) + 1] = t[1] /\ r[Len(s) + 2] = t[2]  BY <1>1, <3>3
    <3>5. i = Len(s) + 1 /\ i + 1 = Len(s) + 2  BY <1>1, <3>3
    <3>6. QED  BY <1>1, <3>3, <3>4, <3>5
  <2>3. QED  BY <1>1, <2>1, <2>2
<1>4. ASSUME NEW i \in 2 .. Len(r), r[i].type = "WRITE"
      PROVE  r[i - 1].type = "DATA"
  <2>1. CASE i <= Len(s)
    <3>1. i \in 2 .. Len(s) /\ i - 1 \in 1 .. Len(s)  BY <1>1, <2>1
    <3>2. QED  BY <1>1, <1>4, <3>1 DEF Paired
  <2>2. CASE i > Len(s)
    <3>1. i = Len(s) + (i - Len(s)) /\ i - Len(s) \in 1 .. Len(t)  BY <1>1, <2>2
    <3>2. t[i - Len(s)].type = "WRITE"  BY <1>1, <1>4, <3>1
    <3>3. Len(t) = 2 /\ i - Len(s) = 2  BY <1>1, <3>1, <3>2
    <3>4. i - 1 = Len(s) + 1 /\ r[Len(s) + 1] = t[1]  BY <1>1, <3>3
    <3>5. QED  BY <3>3, <3>4
  <2>3. QED  BY <1>1, <2>1, <2>2
<1>5. Paired(r)  BY <1>3, <1>4 DEF Paired
<1>6. r # <<>> /\ Head(r) = r[1]  BY <1>1, EmptySeq
<1>7. s # <<>> => Head(r) = Head(s)
  <2>1. s # <<>> => 1 \in 1 .. Len(s) /\ Head(s) = s[1]  BY <1>1
  <2>2. QED  BY <1>1, <1>6, <2>1
<1>8. s = <<>> => r[1] = t[1]
  <2>1. s = <<>> => Len(s) = 0  BY EmptySeq
  <2>2. 1 \in 1 .. Len(t)  OBVIOUS
  <2>3. Len(s) = 0 => r[0 + 1] = t[1]  BY <1>1, <2>2
  <2>4. QED  BY <2>1, <2>3
<1>9. QED  BY <1>5, <1>6, <1>7, <1>8 DEF r

LEMMA JoinSound ==
    ASSUME DiesInv, NEW q \in [Dies -> Seq(Packets)], NEW out \in MaybePacket,
           PacketsSound(q, out, currentCommands, cacheReg),
           NEW d \in Dies, NEW t \in Seq(Packets), Batch(d, t),
           NEW later, later = [q EXCEPT ![d] = @ \o t]
    PROVE  PacketsSound(later, out, currentCommands, cacheReg)
<1> DEFINE s == q[d]
           r == s \o t
<1>0. /\ q \in [Dies -> Seq(Packets)] /\ s \in Seq(Packets)
      /\ PacketsSound(q, out, currentCommands, cacheReg)
      OBVIOUS
<1>1. /\ Paired(r) /\ r # <<>>
      /\ s # <<>> => Head(r) = Head(s)
      /\ s = <<>> => Head(r).type # "WRITE"
  <2>1. Paired(s)  BY <1>0 DEF PacketsSound, QueuesSound
  <2>2. \/ Len(t) = 1 /\ t[1].type \in {"READ", "ERASE"}
        \/ Len(t) = 2 /\ t[1].type = "DATA" /\ t[2] = WriteOf(t[1])
        BY DEF Batch
  <2> HIDE DEF s
  <2>3. QED  BY <1>0, <2>1, <2>2, JoinedQueueSound
<1>2. later[d] = r /\ \A e \in Dies \ {d} : later[e] = q[e]
      BY <1>0
<1>3. QueuesSound(later)
  <2>1. ASSUME NEW i \in 1 .. Len(r)
        PROVE  r[i].die = d /\ r[i].type \in {"DATA", "READ", "WRITE", "ERASE"}
    <3>1. /\ Len(r) = Len(s) + Len(t)
          /\ \A j \in 1 .. Len(s) + Len(t) :
               r[j] = IF j <= Len(s) THEN s[j] ELSE t[j - Len(s)]
          BY <1>0, ConcatProperties
    <3>2. Len(s) \in Nat /\ Len(t) \in Nat  BY <1>0
    <3>3. \A j \in 1 .. Len(s) :
             s[j].die = d /\ s[j].type \in {"DATA", "READ", "WRITE", "ERASE"}
          BY <1>0 DEF PacketsSound, QueuesSound
    <3>4. \A j \in 1 .. Len(t) :
             t[j].die = d /\ t[j].type \in {"DATA", "READ", "WRITE", "ERASE"}
      <4>1. Len(t) = 2 => t[1] \in Packets  BY FirstOfTwo
      <4>2. /\ t[1].type \in {"DATA", "READ", "ERASE"}
            /\ Len(t) = 2 => t[2].type = "WRITE"
            /\ Len(t) = 1 \/ Len(t) = 2
            /\ \A j \in 1 .. Len(t) : t[j].die = d
            BY <4>1, WriteOfType DEF Batch
      <4> DEFINE n == Len(t)
      <4>3. n = 1 \/ n = 2  BY <4>2
      <4> HIDE DEF n
      <4>4. \A j \in 1 .. n : j = 1 \/ (j = 2 /\ n = 2)  BY <4>3
      <4>5. QED  BY <4>2, <4>4, Zenon DEF n
    <3> HIDE DEF s, r
    <3>5. i \in 1 .. Len(s) + Len(t)  BY <3>1
    <3>6. CASE i <= Len(s)
      <4>1. i \in 1 .. Len(s)  BY <3>2, <3>5, <3>6
      <4>2. r[i] = s[i]  BY <3>1, <3>5, <3>6
      <4>3. QED  BY <3>3, <4>1, <4>2
    <3>7. CASE ~ (i <= Len(s))
      <4>1. i - Len(s) \in 1 .. Len(t)  BY <3>2, <3>5, <3>7
      <4>2. r[i] = t[i - Len(s)]  BY <3>1, <3>5, <3>7
      <4>3. QED  BY <3>4, <4>1, <4>2
    <3>8. QED  BY <3>6, <3>7
  <2>2. QueuesSound(q)  BY <1>0 DEF PacketsSound
  <2> DEFINE Good(e, line) ==
        /\ Paired(line)
        /\ \A i \in 1 .. Len(line) :
             line[i].die = e /\ line[i].type \in {"DATA", "READ", "WRITE", "ERASE"}
  <2>3. \A e \in Dies : Good(e, q[e])  BY <2>2 DEF QueuesSound
  <2>4. Good(d, r)  BY <1>1, <2>1
  <2> HIDE DEF r, Good
  <2>5. \A e \in Dies : Good(e, later[e])  BY <1>2, <2>3, <2>4
  <2>6. QED  BY <2>5 DEF Good, QueuesSound
<1> HIDE DEF r
<1>4. ASSUME NEW e \in Dies
      PROVE  \/ NextOf(later, out, e) = NextOf(q, out, e)
             \/ /\ NextOf(q, out, e) = NoPacket
                /\ NextOf(later, out, e).type # "WRITE"
      BY <1>1, <1>2 DEF NextOf
<1>5. DataAwaitsWrite(later, out, cacheReg)
  <2>1. ASSUME NEW u \in Units, Holds(cacheReg, u, "DATA")
        PROVE  /\ UnitOf(cacheReg[u]) = u
               /\ NextOf(later, out, u[1]) = WriteOf(cacheReg[u])
    <3>1. /\ UnitOf(cacheReg[u]) = u
          /\ NextOf(q, out, u[1]) = WriteOf(cacheReg[u])
          BY <1>0, <2>1 DEF PacketsSound, DataAwaitsWrite
    <3>2. cacheReg[u] \in Packets
          BY <2>1 DEF Holds, DiesInv, DiesTypeOK, MaybePacket
    <3>3. WriteOf(cacheReg[u]) # NoPacket  BY <3>2, WriteOfType, PacketTypes
    <3>4. QED  BY <1>4, <3>1, <3>3, UnitTypes
  <2>2. ASSUME NEW e \in Dies, NextOf(later, out, e).type = "WRITE"
        PROVE  Holds(cacheReg, UnitOf(NextOf(later, out, e)), "DATA")
        BY <1>0, <1>4, <2>2 DEF PacketsSound, DataAwaitsWrite
  <2>3. QED  BY <2>1, <2>2 DEF DataAwaitsWrite
<1>6. DataArrives(later, out)
  <2>1. out # NoPacket => out.die \in Dies
        BY PacketTypes DEF MaybePacket
  <2>2. QED  BY <1>0, <1>1, <1>2, <2>1 DEF PacketsSound, DataArrives
<1>7. QED  BY <1>0, <1>3, <1>5, <1>6 DEF PacketsSound

(* The oldest packet of a die, and what remains without it.                *)
LEMMA HeadSound ==
    ASSUME NEW queues \in [Dies -> Seq(Packets)], NEW d \in Dies, QueuesSound(queues),
           queues[d] # <<>>
    PROVE  /\ Head(queues[d]) \in Packets /\ Head(queues[d]).die = d
           /\ Head(queues[d]).type \in {"DATA", "READ", "WRITE", "ERASE"}
           /\ UnitOf(Head(queues[d])) \in Units
<1> DEFINE q == queues[d]
<1>1. q \in Seq(Packets) /\ q # <<>>  OBVIOUS
<1>2. \A i \in 1 .. Len(q) : q[i].die = d /\ q[i].type \in {"DATA", "READ", "WRITE", "ERASE"}
      BY DEF QueuesSound
<1> HIDE DEF q
<1>3. Head(q) \in Packets /\ Head(q) = q[1] /\ 1 \in 1 .. Len(q)
      BY <1>1, HeadTailProperties
<1>4. UnitOf(Head(q)) \in Units  BY <1>3, PacketTypes
<1>5. QED  BY <1>2, <1>3, <1>4 DEF q

LEMMA HeadTaken ==
    ASSUME NEW queues \in [Dies -> Seq(Packets)], NEW d \in Dies, queues[d] # <<>>,
           NEW commands, NEW cache, PacketsSound(queues, NoPacket, commands, cache),
           NEW out, out = Head(queues[d]), ArrivalSound(out, commands, cache),
           NEW later, later = [queues EXCEPT ![d] = Tail(@)]
    PROVE  PacketsSound(later, out, commands, cache)
<1> DEFINE q == queues[d]
<1>1. d \in Dies /\ q # <<>> /\ out = Head(q)  OBVIOUS
<1>2. later = [queues EXCEPT ![d] = Tail(@)]  OBVIOUS
<1>3. /\ queues \in [Dies -> Seq(Packets)]
      /\ PacketsSound(queues, NoPacket, commands, cache)
      OBVIOUS
<1>10. /\ out # NoPacket /\ out \in Packets /\ out.die = d
       /\ out.type \in {"DATA", "READ", "WRITE", "ERASE"}
       BY HeadSound, PacketTypes DEF PacketsSound
<1>4. q \in Seq(Packets)  BY <1>1, <1>3
<1>5. later[d] = Tail(q) /\ \A e \in Dies \ {d} : later[e] = queues[e]
      BY <1>1, <1>2, <1>3
<1>6. /\ Paired(q)
      /\ \A i \in 1 .. Len(q) :
           q[i].die = d /\ q[i].type \in {"DATA", "READ", "WRITE", "ERASE"}
      BY <1>1, <1>3 DEF PacketsSound, QueuesSound
<1> HIDE DEF q
<1>7. /\ Len(q) \in Nat \ {0} /\ out = q[1] /\ Len(Tail(q)) = Len(q) - 1
      /\ Tail(q) \in Seq(Packets)
      /\ \A i \in 1 .. Len(q) - 1 : Tail(q)[i] = q[i + 1]
      /\ Tail(q) # <<>> => 2 <= Len(q) /\ Head(Tail(q)) = q[2]
      /\ 2 <= Len(q) => Tail(q) # <<>>
  <2>1. /\ Len(q) \in Nat \ {0} /\ out = q[1]
        /\ Len(Tail(q)) = Len(q) - 1 /\ Tail(q) \in Seq(Packets)
        BY <1>1, <1>4
  <2>2. \A i \in 1 .. Len(q) - 1 : Tail(q)[i] = q[i + 1]
        BY <1>1, <1>4, <2>1, HeadTailProperties
  <2>3. Tail(q) # <<>> => 2 <= Len(q) /\ Head(Tail(q)) = Tail(q)[1]
    <3> DEFINE t == Tail(q)
    <3>1. t \in Seq(Packets) /\ Len(t) = Len(q) - 1  BY <2>1
    <3> HIDE DEF t
    <3>2. t # <<>> => Len(t) # 0  BY <3>1, EmptySeq
    <3>3. t # <<>> => Head(t) = t[1]  BY <3>1, HeadTailProperties
    <3>4. QED  BY <2>1, <3>1, <3>2, <3>3 DEF t
  <2>4. 2 <= Len(q) => Tail(q) # <<>>
    <3>1. Tail(q) = <<>> => Len(Tail(q)) = 0  BY EmptySeq
    <3>2. QED  BY <2>1, <3>1
  <2>5. 2 <= Len(q) => Tail(q)[1] = q[2]
    <3>1. 2 <= Len(q) => 1 \in 1 .. Len(q) - 1  BY <2>1
    <3>2. 1 + 1 = 2  OBVIOUS
    <3>3. QED  BY <2>2, <3>1, <3>2
  <2>6. QED  BY <2>1, <2>2, <2>3, <2>4, <2>5
<1>8. Paired(Tail(q))
  <2> DEFINE t == Tail(q)
             n == Len(q)
  <2>0. /\ n \in Nat /\ Len(t) = n - 1 /\ \A i \in 1 .. n - 1 : t[i] = q[i + 1]
        BY <1>7
  <2>1. /\ \A i \in 1 .. n : q[i].type = "DATA" => i < n /\ q[i + 1] = WriteOf(q[i])
        /\ \A i \in 2 .. n : q[i].type = "WRITE" => q[i - 1].type = "DATA"
        BY <1>6 DEF Paired
  <2> HIDE DEF t, n
  <2>2. ASSUME NEW i \in 1 .. n - 1, t[i].type = "DATA"
        PROVE  i < n - 1 /\ t[i + 1] = WriteOf(t[i])
    <3>1. i + 1 \in 1 .. n /\ t[i] = q[i + 1]  BY <2>0
    <3>2. i + 1 < n /\ q[i + 1 + 1] = WriteOf(q[i + 1])  BY <2>1, <2>2, <3>1
    <3>3. i + 1 \in 1 .. n - 1  BY <2>0, <3>2
    <3>4. t[i + 1] = q[i + 1 + 1]  BY <2>0, <3>3
    <3>5. i < n - 1  BY <2>0, <3>2
    <3>6. QED  BY <3>1, <3>2, <3>4, <3>5
  <2>3. ASSUME NEW i \in 2 .. n - 1, t[i].type = "WRITE"
        PROVE  t[i - 1].type = "DATA"
    <3>1. i + 1 \in 2 .. n /\ i \in 1 .. n - 1 /\ i - 1 \in 1 .. n - 1  BY <2>0
    <3>2. t[i] = q[i + 1] /\ t[i - 1] = q[i - 1 + 1]  BY <2>0, <3>1
    <3>3. i - 1 + 1 = i /\ i + 1 - 1 = i  OBVIOUS
    <3>4. q[i + 1 - 1].type = "DATA"  BY <2>1, <2>3, <3>1, <3>2
    <3>5. QED  BY <3>2, <3>3, <3>4
  <2>4. QED  BY <2>0, <2>2, <2>3 DEF Paired, t
<1>9. QueuesSound(later)
  <2> DEFINE Good(e, s) ==
        /\ Paired(s)
        /\ \A i \in 1 .. Len(s) :
             s[i].die = e /\ s[i].type \in {"DATA", "READ", "WRITE", "ERASE"}
  <2>1. \A e \in Dies : Good(e, queues[e])
        BY <1>3 DEF PacketsSound, QueuesSound
  <2>2. Good(d, Tail(q))
    <3>1. ASSUME NEW i \in 1 .. Len(Tail(q))
          PROVE  /\ Tail(q)[i].die = d
                 /\ Tail(q)[i].type \in {"DATA", "READ", "WRITE", "ERASE"}
      <4>1. i \in 1 .. Len(q) - 1 /\ i + 1 \in 1 .. Len(q)  BY <1>7
      <4>2. QED  BY <1>6, <1>7, <4>1
    <3>2. QED  BY <1>8, <3>1
  <2> HIDE DEF Good
  <2>3. \A e \in Dies : Good(e, later[e])  BY <1>5, <2>1, <2>2
  <2>4. QED  BY <2>3 DEF Good, QueuesSound
<1>11. \A e \in Dies : NextOf(later, out, e) = NextOf(queues, NoPacket, e)
       BY <1>1, <1>5, <1>10 DEF NextOf, q
<1>12. DataArrives(later, out)
  <2>1. CASE out.type = "DATA"
    <3>1. 1 \in 1 .. Len(q) /\ 1 + 1 = 2  BY <1>7
    <3>2. 1 < Len(q) /\ q[2] = WriteOf(q[1])  BY <1>6, <1>7, <2>1, <3>1 DEF Paired
    <3>3. 2 <= Len(q)  BY <1>7, <3>2
    <3>4. QED  BY <1>5, <1>7, <1>10, <2>1, <3>2, <3>3 DEF DataArrives
  <2>2. CASE out.type # "DATA"
    <3>1. ASSUME Tail(q) # <<>>, q[2].type = "WRITE"  PROVE FALSE
      <4>1. 2 \in 2 .. Len(q) /\ 2 - 1 = 1  BY <1>7, <3>1
      <4>2. q[1].type = "DATA"  BY <1>6, <3>1, <4>1 DEF Paired
      <4>3. QED  BY <1>7, <2>2, <4>2
    <3>2. QED  BY <1>5, <1>7, <1>10, <2>2, <3>1 DEF DataArrives
  <2>3. QED  BY <2>1, <2>2
<1>13. DataAwaitsWrite(later, out, cache)
  <2>1. DataAwaitsWrite(queues, NoPacket, cache)  BY <1>3 DEF PacketsSound
  <2>2. QED  BY <1>11, <2>1, UnitTypes DEF DataAwaitsWrite
<1>14. QED  BY <1>9, <1>12, <1>13 DEF PacketsSound

(* Only what is not a page changes in the cache registers.                 *)
PageFree(cache, u) == cache[u] = NoPacket \/ cache[u].type = "DATA"

LEMMA SamePages ==
    ASSUME NEW pages \in Seq(Packets), NEW d \in Dies, NEW cache, NEW later,
           PagesSound(pages, d, cache),
           \A u \in Units : u[1] = d =>
                later[u] = cache[u] \/ (PageFree(cache, u) /\ PageFree(later, u))
    PROVE  PagesSound(pages, d, later)
<1>1. ASSUME NEW i \in 1 .. Len(pages)
      PROVE  pages[i].die = d /\ pages[i].type # "DATA" /\ later[UnitOf(pages[i])] = pages[i]
  <2>1. pages[i] \in Packets  OBVIOUS
  <2>2. pages[i] # NoPacket /\ UnitOf(pages[i]) \in Units  BY <2>1, PacketTypes
  <2>3. pages[i].type # "DATA" /\ cache[UnitOf(pages[i])] = pages[i] /\ pages[i].die = d
        BY DEF PagesSound
  <2>4. UnitOf(pages[i])[1] = d  BY <2>3 DEF UnitOf
  <2>5. QED  BY <2>2, <2>3, <2>4 DEF PageFree
<1>2. ASSUME NEW u \in Units, u[1] = d, later[u] # NoPacket, ~Holds(later, u, "DATA")
      PROVE  \E i \in 1 .. Len(pages) : UnitOf(pages[i]) = u
      BY <1>2 DEF PagesSound, PageFree, Holds
<1>3. QED  BY <1>1, <1>2 DEF PagesSound

(* The packet on the channel reaches its die.                              *)
LEMMA ArriveSound ==
    ASSUME DiesInv, RegistersSound(currentCommands, dataReg),
           \A d \in Dies : PagesSound(returnDataPackets[d], d, cacheReg),
           NEW q \in [Dies -> Seq(Packets)], NEW out \in Packets,
           PacketsSound(q, out, currentCommands, cacheReg), receiveFromBuffer(out)
    PROVE  /\ PacketsSound(q, NoPacket, currentCommands', cacheReg')
           /\ RegistersSound(currentCommands', dataReg')
           /\ \A d \in Dies : PagesSound(returnDataPackets[d], d, cacheReg')
           /\ UNCHANGED failed
<1> DEFINE u == UnitOf(out)
           e == out.die
<1>0. /\ currentCommands \in [Units -> MaybePacket]
      /\ dataReg \in [Units -> MaybePacket] /\ cacheReg \in [Units -> MaybePacket]
      /\ returnDataPackets \in [Dies -> Seq(Packets)]
      /\ blocks \in [Units -> [PageNums -> Data \cup {NoData}]]
      BY DEF DiesInv, DiesTypeOK
<1>1. /\ u \in Units /\ u[1] = e /\ e \in Dies /\ out # NoPacket
      /\ out.type \in {"DATA", "READ", "WRITE", "ERASE"} /\ out.page \in PageNums
  <2>1. u[1] = e  BY DEF UnitOf
  <2>2. QED  BY <2>1, PacketTypes DEF PacketsSound, ArrivalSound
<1>2. /\ QueuesSound(q) /\ DataArrives(q, out) /\ DataAwaitsWrite(q, out, cacheReg)
      /\ ArrivalSound(out, currentCommands, cacheReg)
      BY DEF PacketsSound
<1>3. /\ NextOf(q, out, e) = out
      /\ \A d \in Dies \ {e} : NextOf(q, NoPacket, d) = NextOf(q, out, d)
      /\ NextOf(q, NoPacket, e) = IF q[e] # <<>> THEN Head(q[e]) ELSE NoPacket
      BY <1>1 DEF NextOf
<1>4. \A c \in Units : Holds(cacheReg, c, "DATA") =>
          /\ cacheReg[c] \in Packets /\ UnitOf(cacheReg[c]) = c
          /\ NextOf(q, out, c[1]) = WriteOf(cacheReg[c])
          /\ c[1] = e => out.type = "WRITE" /\ u = c
  <2> SUFFICES ASSUME NEW c \in Units, Holds(cacheReg, c, "DATA")
               PROVE  /\ cacheReg[c] \in Packets /\ UnitOf(cacheReg[c]) = c
                      /\ NextOf(q, out, c[1]) = WriteOf(cacheReg[c])
                      /\ c[1] = e => out.type = "WRITE" /\ u = c
      OBVIOUS
  <2>1. cacheReg[c] \in Packets  BY <1>0 DEF Holds, MaybePacket
  <2>2. UnitOf(cacheReg[c]) = c /\ NextOf(q, out, c[1]) = WriteOf(cacheReg[c])
        BY <1>2 DEF DataAwaitsWrite
  <2>3. QED  BY <1>3, <2>1, <2>2, WriteOfType
<1>5. QueuesSound(q) /\ DataArrives(q, NoPacket)
      /\ \A commands, cache : ArrivalSound(NoPacket, commands, cache)
      BY <1>2 DEF DataArrives, ArrivalSound
<1>6. NoPacket.type = "none"  BY DEF NoPacket
<1>7. CASE out.type = "DATA"
  <2>1. cacheReg[u] = NoPacket  BY <1>1, <1>2, <1>7 DEF ArrivalSound
  <2>2. /\ cacheReg' = [cacheReg EXCEPT ![u] = out]
        /\ UNCHANGED <<currentCommands, dataReg, failed>>
        BY <1>7, <2>1 DEF receiveFromBuffer, storeInData, commandVars
  <2> HIDE DEF u
  <2>3. cacheReg'[u] = out /\ \A c \in Units \ {u} : cacheReg'[c] = cacheReg[c]
        BY <1>0, <1>1, <2>2
  <2>4. NextOf(q, NoPacket, e) = WriteOf(out)
        BY <1>1, <1>2, <1>3, <1>7 DEF DataArrives
  <2>5. DataAwaitsWrite(q, NoPacket, cacheReg')
    <3>1. ASSUME NEW c \in Units, Holds(cacheReg', c, "DATA")
          PROVE  /\ UnitOf(cacheReg'[c]) = c
                 /\ NextOf(q, NoPacket, c[1]) = WriteOf(cacheReg'[c])
      <4>1. CASE c = u  BY <1>1, <2>3, <2>4, <4>1 DEF u
      <4>2. CASE c # u
        <5>1. Holds(cacheReg, c, "DATA") /\ cacheReg'[c] = cacheReg[c]
              BY <2>3, <3>1, <4>2 DEF Holds
        <5>2. c[1] # e /\ c[1] \in Dies  BY <1>4, <1>7, <5>1, UnitTypes
        <5>3. QED  BY <1>3, <1>4, <5>1, <5>2
      <4>3. QED  BY <4>1, <4>2
    <3>2. ASSUME NEW d \in Dies, NextOf(q, NoPacket, d).type = "WRITE"
          PROVE  Holds(cacheReg', UnitOf(NextOf(q, NoPacket, d)), "DATA")
      <4>1. CASE d = e
        <5>1. UnitOf(NextOf(q, NoPacket, d)) = u  BY <2>4, <4>1, WriteOfType DEF u
        <5>2. QED  BY <1>1, <1>7, <2>3, <5>1 DEF Holds
      <4>2. CASE d # e
        <5>1. Holds(cacheReg, UnitOf(NextOf(q, NoPacket, d)), "DATA")
              BY <1>2, <1>3, <3>2, <4>2 DEF DataAwaitsWrite
        <5>2. UnitOf(NextOf(q, NoPacket, d)) # u  BY <2>1, <5>1 DEF Holds
        <5>3. NextOf(q, NoPacket, d) \in Packets
          <6>1. NextOf(q, NoPacket, d) # NoPacket  BY <1>6, <3>2
          <6>2. QED  BY <6>1, HeadTailProperties DEF NextOf
        <5>4. UnitOf(NextOf(q, NoPacket, d)) \in Units  BY <5>3, PacketTypes
        <5>5. QED  BY <2>3, <5>1, <5>2, <5>4 DEF Holds
      <4>3. QED  BY <4>1, <4>2
    <3>3. QED  BY <3>1, <3>2 DEF DataAwaitsWrite
  <2>6. ASSUME NEW d \in Dies  PROVE PagesSound(returnDataPackets[d], d, cacheReg')
    <3>1. \A c \in Units : \/ cacheReg'[c] = cacheReg[c]
                           \/ PageFree(cacheReg, c) /\ PageFree(cacheReg', c)
          BY <1>7, <2>1, <2>3 DEF PageFree
    <3>2. QED  BY <1>0, <3>1, SamePages
  <2>7. QED  BY <1>5, <2>2, <2>5, <2>6 DEF PacketsSound
<1>8. CASE out.type # "DATA"
  <2>1. currentCommands[u] = NoPacket  BY <1>1, <1>2, <1>8 DEF ArrivalSound
  <2>2. \/ out.type = "READ" /\ read(out)
        \/ out.type = "WRITE" /\ write(out)
        \/ out.type = "ERASE" /\ erase(out)
        BY <1>1, <1>8, <2>1 DEF receiveFromBuffer
  <2>3. dataReg[u] = NoPacket  BY <1>1, <2>1 DEF RegistersSound
  <2>4. NextOf(q, NoPacket, e).type # "WRITE"
        BY <1>1, <1>2, <1>3, <1>6, <1>8 DEF DataArrives
  <2>5. CASE out.type \in {"READ", "ERASE"}
    <3>1. UNCHANGED <<cacheReg, failed>>
          BY <2>2, <2>3, <2>5 DEF read, erase
    <3>2. DataAwaitsWrite(q, NoPacket, cacheReg)
      <4>1. ASSUME NEW c \in Units, Holds(cacheReg, c, "DATA")
            PROVE  /\ UnitOf(cacheReg[c]) = c
                   /\ NextOf(q, NoPacket, c[1]) = WriteOf(cacheReg[c])
        <5>1. c[1] # e /\ c[1] \in Dies  BY <1>4, <2>5, <4>1, UnitTypes
        <5>2. QED  BY <1>3, <1>4, <4>1, <5>1
      <4>2. ASSUME NEW d \in Dies, NextOf(q, NoPacket, d).type = "WRITE"
            PROVE  Holds(cacheReg, UnitOf(NextOf(q, NoPacket, d)), "DATA")
        <5>1. d # e  BY <2>4, <4>2
        <5>2. QED  BY <1>2, <1>3, <4>2, <5>1 DEF DataAwaitsWrite
      <4>3. QED  BY <4>1, <4>2 DEF DataAwaitsWrite
    <3>3. RegistersSound(currentCommands', dataReg')
      <4>1. CASE out.type = "READ"
        <5> DEFINE result == [out EXCEPT !.data = blocks[u][out.page]]
        <5>1. /\ currentCommands' = [currentCommands EXCEPT ![UnitOf(result)] = result]
              /\ dataReg' = [dataReg EXCEPT ![u] = result]
              BY <2>2, <2>3, <4>1 DEF read, StartCommand
        <5>2. result.type = "READ" /\ UnitOf(result) = u
              BY <4>1 DEF Packets, UnitOf
        <5>3. result # NoPacket  BY <1>6, <5>2
        <5> HIDE DEF result, u
        <5>4. /\ currentCommands'[u] = result /\ dataReg'[u] = result
              /\ \A c \in Units \ {u} : /\ currentCommands'[c] = currentCommands[c]
                                        /\ dataReg'[c] = dataReg[c]
              BY <1>0, <1>1, <5>1, <5>2
        <5>5. QED  BY <5>2, <5>3, <5>4 DEF RegistersSound, Holds
      <4>2. CASE out.type = "ERASE"
        <5>1. /\ currentCommands' = [currentCommands EXCEPT ![u] = out]
              /\ dataReg' = dataReg
              BY <2>2, <4>2 DEF erase, StartCommand
        <5> HIDE DEF u
        <5>2. /\ currentCommands'[u] = out
              /\ \A c \in Units \ {u} : currentCommands'[c] = currentCommands[c]
              BY <1>0, <1>1, <5>1
        <5>3. QED  BY <1>1, <2>3, <4>2, <5>1, <5>2 DEF RegistersSound, Holds
      <4>3. QED  BY <2>5, <4>1, <4>2
    <3>4. QED  BY <1>5, <3>1, <3>2, <3>3 DEF PacketsSound
  <2>6. CASE out.type = "WRITE"
    <3>1. Holds(cacheReg, u, "DATA")
          BY <1>1, <1>2, <1>3, <2>6 DEF DataAwaitsWrite
    <3>2. /\ currentCommands' = [currentCommands EXCEPT ![u] = out]
          /\ dataReg' = [dataReg EXCEPT ![u] = cacheReg[u]]
          /\ cacheReg' = [cacheReg EXCEPT ![u] = NoPacket]
          /\ UNCHANGED failed
          BY <2>2, <2>6, <3>1 DEF write, StartCommand, Holds
    <3> HIDE DEF u
    <3>3. /\ currentCommands'[u] = out /\ dataReg'[u] = cacheReg[u]
          /\ cacheReg'[u] = NoPacket
          /\ \A c \in Units \ {u} : /\ currentCommands'[c] = currentCommands[c]
                                    /\ dataReg'[c] = dataReg[c]
                                    /\ cacheReg'[c] = cacheReg[c]
          BY <1>0, <1>1, <3>2
    <3>4. RegistersSound(currentCommands', dataReg')
      <4>1. cacheReg[u] # NoPacket  BY <3>1 DEF Holds
      <4>2. QED  BY <1>1, <2>6, <3>3, <4>1 DEF RegistersSound, Holds
    <3>5. DataAwaitsWrite(q, NoPacket, cacheReg')
      <4>1. ASSUME NEW c \in Units, Holds(cacheReg', c, "DATA")
            PROVE  /\ UnitOf(cacheReg'[c]) = c
                   /\ NextOf(q, NoPacket, c[1]) = WriteOf(cacheReg'[c])
        <5>1. c # u /\ cacheReg'[c] = cacheReg[c] /\ Holds(cacheReg, c, "DATA")
              BY <3>3, <4>1 DEF Holds
        <5>2. c[1] # e /\ c[1] \in Dies  BY <1>4, <5>1, UnitTypes
        <5>3. QED  BY <1>3, <1>4, <5>1, <5>2
      <4>2. ASSUME NEW d \in Dies, NextOf(q, NoPacket, d).type = "WRITE"
            PROVE  Holds(cacheReg', UnitOf(NextOf(q, NoPacket, d)), "DATA")
        <5> DEFINE next == NextOf(q, NoPacket, d)
        <5>1. d # e  BY <2>4, <4>2
        <5>2. Holds(cacheReg, UnitOf(next), "DATA")
              BY <1>2, <1>3, <4>2, <5>1 DEF DataAwaitsWrite
        <5>3. next \in Packets /\ next.die = d
          <6>1. q[d] # <<>> /\ next = Head(q[d]) /\ q[d] \in Seq(Packets)
                BY <1>6, <4>2 DEF NextOf
          <6>2. next = q[d][1] /\ 1 \in 1 .. Len(q[d])  BY <6>1
          <6>3. q[d][1].die = d  BY <1>2, <6>2 DEF QueuesSound
          <6>4. QED  BY <6>1, <6>2, <6>3
        <5>4. UnitOf(next) \in Units /\ UnitOf(next)[1] = d
              BY <5>3, PacketTypes DEF UnitOf
        <5>5. UnitOf(next) # u  BY <1>1, <5>1, <5>4 DEF u
        <5>6. QED  BY <3>3, <5>2, <5>4, <5>5 DEF Holds
      <4>3. QED  BY <4>1, <4>2 DEF DataAwaitsWrite
    <3>6. ASSUME NEW d \in Dies  PROVE PagesSound(returnDataPackets[d], d, cacheReg')
      <4>1. \A c \in Units : \/ cacheReg'[c] = cacheReg[c]
                             \/ PageFree(cacheReg, c) /\ PageFree(cacheReg', c)
            BY <3>1, <3>3 DEF PageFree, Holds
      <4>2. QED  BY <1>0, <4>1, SamePages
    <3>7. QED  BY <1>5, <3>2, <3>4, <3>5, <3>6 DEF PacketsSound
  <2>7. QED  BY <2>2, <2>5, <2>6
<1>9. QED  BY <1>7, <1>8

(* The pages that join the list, and the one that leaves it.               *)
LEMMA FetchSound ==
    ASSUME DiesInv, NEW d \in Dies, RegistersSound(currentCommands, dataReg),
           PagesSound(returnDataPackets[d], d, cacheReg), NEW cache, cache = [u \in Units |-> CacheRegAfter(d, u)]
    PROVE  PagesSound(ToReturn(d), d, cache)
<1> DEFINE s == returnDataPackets[d]
           f == Fetched(d)
           r == ToReturn(d)
           n == Cardinality(PlanesFetching(d))
<1>0. /\ s \in Seq(Packets) /\ f \in Seq(Packets) /\ Len(f) = n /\ r = s \o f
      /\ n \in Nat /\ Len(s) \in Nat
      BY ToReturnType, PlanesFetchingFinite DEF DiesInv, DiesTypeOK, ToReturn
<1>1. PICK rank \in [PlanesFetching(d) -> 1 .. n] :
        /\ \A p \in PlanesFetching(d) : f[rank[p]] = dataReg[<<d, p>>]
        /\ \A i \in 1 .. n : \E p \in PlanesFetching(d) : rank[p] = i
      BY FetchedIs
<1>2. /\ PagesSound(s, d, cacheReg) /\ RegistersSound(currentCommands, dataReg)
      OBVIOUS
<1>3. ASSUME NEW u \in Units, Fetches(u)
      PROVE  /\ cacheReg[u] = NoPacket /\ dataReg[u] # NoPacket
             /\ dataReg[u].type = "READ" /\ UnitOf(dataReg[u]) = u
  <2>1. ReadEnds(u)
        BY <1>2, <1>3
        DEF Fetches, GCReadEnds, ExpiredIs, Expired, RegistersSound
  <2>2. Holds(currentCommands, u, "READ") /\ cacheReg[u] = NoPacket
        BY <2>1 DEF ReadEnds, ExpiredIs, Expired, Holds
  <2>3. QED  BY <1>2, <2>2 DEF RegistersSound, Holds
<1>4. /\ Len(r) = Len(s) + n
      /\ \A i \in 1 .. Len(s) : r[i] = s[i]
      /\ \A i \in 1 .. n : r[Len(s) + i] = f[i]
  <2>1. /\ Len(s \o f) = Len(s) + Len(f)
        /\ \A i \in 1 .. Len(s) + Len(f) :
             (s \o f)[i] = IF i <= Len(s) THEN s[i] ELSE f[i - Len(s)]
        BY <1>0, ConcatProperties
  <2> HIDE DEF s, f, r, n
  <2>2. QED  BY <1>0, <2>1
<1>5. ASSUME NEW i \in 1 .. Len(s)
      PROVE  /\ UnitOf(s[i]) \in Units /\ s[i].die = d /\ s[i].type # "DATA"
             /\ cacheReg[UnitOf(s[i])] = s[i] /\ s[i] # NoPacket
             /\ cache[UnitOf(s[i])] = s[i]
  <2>1. s[i] \in Packets  BY <1>0
  <2>2. UnitOf(s[i]) \in Units /\ s[i] # NoPacket  BY <2>1, PacketTypes
  <2>3. s[i].die = d /\ s[i].type # "DATA" /\ cacheReg[UnitOf(s[i])] = s[i]
        BY <1>2 DEF PagesSound
  <2>4. ~Fetches(UnitOf(s[i]))  BY <1>3, <2>2, <2>3
  <2>5. cache[UnitOf(s[i])] = s[i]  BY <2>2, <2>3, <2>4 DEF CacheRegAfter
  <2>6. QED  BY <2>2, <2>3, <2>5
<1>6. ASSUME NEW i \in 1 .. n
      PROVE  \E p \in PlanesFetching(d) :
                /\ rank[p] = i /\ f[i] = dataReg[<<d, p>>] /\ <<d, p>> \in Units
                /\ Fetches(<<d, p>>) /\ UnitOf(f[i]) = <<d, p>>
                /\ f[i].die = d /\ f[i].type = "READ" /\ cache[<<d, p>>] = f[i]
  <2>1. PICK p \in PlanesFetching(d) : rank[p] = i  BY <1>1
  <2>2. f[i] = dataReg[<<d, p>>] /\ <<d, p>> \in Units /\ Fetches(<<d, p>>)
        BY <1>1, <2>1, UnitTypes DEF PlanesFetching
  <2>3. UnitOf(f[i]) = <<d, p>> /\ f[i].type = "READ"  BY <1>3, <2>2
  <2>4. f[i].die = d  BY <2>3 DEF UnitOf
  <2>5. cache[<<d, p>>] = dataReg[<<d, p>>]  BY <2>2 DEF CacheRegAfter, On
  <2>6. QED  BY <2>1, <2>2, <2>3, <2>4, <2>5
<1>7. ASSUME NEW i \in 1 .. Len(r)
      PROVE  \/ i \in 1 .. Len(s) /\ r[i] = s[i]
             \/ i - Len(s) \in 1 .. n /\ r[i] = f[i - Len(s)]
  <2>1. i > Len(s) => i - Len(s) \in 1 .. n /\ i = Len(s) + (i - Len(s))
        BY <1>0, <1>4
  <2> HIDE DEF r, s, f, n
  <2>2. CASE i <= Len(s)  BY <1>0, <1>4, <2>2
  <2>3. CASE i > Len(s)  BY <1>4, <2>1, <2>3
  <2>4. QED  BY <1>0, <2>2, <2>3
<1> HIDE DEF r, s, f, n
<1>8. ASSUME NEW i \in 1 .. Len(r)
      PROVE  r[i].die = d /\ r[i].type # "DATA" /\ cache[UnitOf(r[i])] = r[i]
  <2>1. CASE i \in 1 .. Len(s) /\ r[i] = s[i]  BY <1>5, <2>1
  <2>2. CASE i - Len(s) \in 1 .. n /\ r[i] = f[i - Len(s)]
    <3> DEFINE k == i - Len(s)
    <3>1. k \in 1 .. n /\ r[i] = f[k]  BY <2>2
    <3> HIDE DEF k
    <3>2. PICK p \in PlanesFetching(d) :
              /\ UnitOf(f[k]) = <<d, p>> /\ f[k].die = d /\ f[k].type = "READ"
              /\ cache[<<d, p>>] = f[k]
          BY <1>6, <3>1
    <3>3. QED  BY <3>1, <3>2
  <2>3. QED  BY <1>7, <2>1, <2>2
<1>9. ASSUME NEW i \in 1 .. Len(r), NEW j \in 1 .. Len(r), UnitOf(r[i]) = UnitOf(r[j])
      PROVE  i = j
  <2>1. ASSUME NEW k \in 1 .. Len(s), NEW m \in 1 .. n  PROVE UnitOf(s[k]) # UnitOf(f[m])
    <3>1. cacheReg[UnitOf(s[k])] # NoPacket  BY <1>5
    <3>2. UnitOf(f[m]) \in Units /\ Fetches(UnitOf(f[m]))  BY <1>6
    <3>3. QED  BY <1>3, <3>1, <3>2
  <2>2. ASSUME NEW k \in 1 .. n, NEW m \in 1 .. n, UnitOf(f[k]) = UnitOf(f[m])
        PROVE  k = m
    <3>1. PICK p \in PlanesFetching(d) : rank[p] = k /\ UnitOf(f[k]) = <<d, p>>  BY <1>6
    <3>2. PICK o \in PlanesFetching(d) : rank[o] = m /\ UnitOf(f[m]) = <<d, o>>  BY <1>6
    <3>3. p = o
      <4>1. <<d, p>> = <<d, o>>  BY <2>2, <3>1, <3>2, Zenon
      <4>2. QED  BY <4>1
    <3>4. QED  BY <3>1, <3>2, <3>3
  <2>3. CASE i \in 1 .. Len(s) /\ r[i] = s[i] /\ j \in 1 .. Len(s) /\ r[j] = s[j]
        BY <1>2, <1>9, <2>3 DEF PagesSound
  <2>4. CASE i - Len(s) \in 1 .. n /\ r[i] = f[i - Len(s)]
             /\ j - Len(s) \in 1 .. n /\ r[j] = f[j - Len(s)]
    <3>1. i - Len(s) = j - Len(s)  BY <1>9, <2>2, <2>4
    <3>2. QED  BY <1>0, <3>1
  <2>5. QED  BY <1>7, <1>9, <2>1, <2>3, <2>4
<1>10. ASSUME NEW u \in Units, u[1] = d, cache[u] # NoPacket, ~Holds(cache, u, "DATA")
       PROVE  \E i \in 1 .. Len(r) : UnitOf(r[i]) = u
  <2>1. CASE Fetches(u)
    <3>1. u = <<d, u[2]>> /\ u[2] \in PlanesFetching(d)
          BY <1>10, <2>1, UnitTypes DEF PlanesFetching
    <3>2. rank[u[2]] \in 1 .. n /\ f[rank[u[2]]] = dataReg[u]  BY <1>1, <3>1
    <3>3. UnitOf(f[rank[u[2]]]) = u  BY <1>3, <2>1, <3>2
    <3>4. Len(s) + rank[u[2]] \in 1 .. Len(r)  BY <1>0, <1>4, <3>2
    <3>5. r[Len(s) + rank[u[2]]] = f[rank[u[2]]]  BY <1>4, <3>2
    <3>6. QED  BY <3>3, <3>4, <3>5
  <2>2. CASE ~Fetches(u)
    <3>1. cache[u] = cacheReg[u]  BY <2>2 DEF CacheRegAfter
    <3>2. PICK i \in 1 .. Len(s) : UnitOf(s[i]) = u
          BY <1>2, <1>10, <3>1 DEF PagesSound, Holds
    <3>3. i \in 1 .. Len(r)  BY <1>0, <1>4, <3>2
    <3>4. QED  BY <1>4, <3>2, <3>3
  <2>3. QED  BY <2>1, <2>2
<1>11. QED  BY <1>8, <1>9, <1>10 DEF PagesSound, r

LEMMA ReleaseSound ==
    ASSUME NEW s \in Seq(Packets), s # <<>>, NEW d \in Dies, NEW cache, NEW later,
           PagesSound(s, d, cache),
           \A u \in Units : later[u] = IF u = UnitOf(Head(s)) THEN NoPacket ELSE cache[u]
    PROVE  PagesSound(Tail(s), d, later)
<1> DEFINE t == Tail(s)
           n == Len(s)
<1>1. /\ n \in Nat \ {0} /\ Head(s) = s[1] /\ Len(t) = n - 1
      /\ \A i \in 1 .. n - 1 : t[i] = s[i + 1]
  <2>1. n \in Nat \ {0} /\ Head(s) = s[1] /\ Len(t) = n - 1  BY EmptySeq
  <2>2. QED  BY <2>1, HeadTailProperties
<1>2. \A i \in 1 .. n : s[i] \in Packets /\ UnitOf(s[i]) \in Units
      BY PacketTypes
<1>3. /\ \A i \in 1 .. n : /\ s[i].die = d /\ s[i].type # "DATA"
                           /\ cache[UnitOf(s[i])] = s[i]
      /\ \A i, j \in 1 .. n : UnitOf(s[i]) = UnitOf(s[j]) => i = j
      /\ \A u \in Units : u[1] = d /\ cache[u] # NoPacket /\ ~Holds(cache, u, "DATA") =>
            \E i \in 1 .. n : UnitOf(s[i]) = u
      BY DEF PagesSound
<1> HIDE DEF t, n
<1>4. ASSUME NEW i \in 1 .. n - 1
      PROVE  t[i].die = d /\ t[i].type # "DATA" /\ later[UnitOf(t[i])] = t[i]
  <2>1. i + 1 \in 1 .. n /\ 1 \in 1 .. n /\ i + 1 # 1  BY <1>1
  <2>2. UnitOf(s[i + 1]) # UnitOf(s[1])  BY <1>3, <2>1
  <2>3. QED  BY <1>1, <1>2, <1>3, <2>1, <2>2
<1>5. ASSUME NEW i \in 1 .. n - 1, NEW j \in 1 .. n - 1, UnitOf(t[i]) = UnitOf(t[j])
      PROVE  i = j
  <2>1. i + 1 \in 1 .. n /\ j + 1 \in 1 .. n  BY <1>1
  <2>2. i + 1 = j + 1  BY <1>1, <1>3, <1>5, <2>1
  <2>3. QED  BY <2>2
<1>6. ASSUME NEW u \in Units, u[1] = d, later[u] # NoPacket, ~Holds(later, u, "DATA")
      PROVE  \E i \in 1 .. n - 1 : UnitOf(t[i]) = u
  <2>1. u # UnitOf(s[1]) /\ later[u] = cache[u]  BY <1>1, <1>6
  <2>2. PICK k \in 1 .. n : UnitOf(s[k]) = u  BY <1>3, <1>6, <2>1 DEF Holds
  <2>3. k # 1  BY <2>1, <2>2
  <2>4. k - 1 \in 1 .. n - 1 /\ k - 1 + 1 = k  BY <1>1, <2>3
  <2>5. t[k - 1] = s[k]  BY <1>1, <2>4
  <2>6. QED  BY <2>2, <2>4, <2>5
<1>7. QED  BY <1>1, <1>4, <1>5, <1>6 DEF PagesSound, t

(* Commands end; the pages of the other dies are left alone.               *)
LEMMA EndCommandsSound ==
    ASSUME ~GARBAGE_COLLECT, RegistersSound(currentCommands, dataReg),
           NEW d \in Dies, EndCommands(d)
    PROVE  /\ RegistersSound(currentCommands', dataReg')
           /\ failed' = "no"
           /\ \A u \in Units : /\ Fetches(u) => /\ cacheReg[u] = NoPacket
                                                /\ Holds(currentCommands, u, "READ")
                                                /\ dataReg[u].type = "READ"
                               /\ \/ currentCommands'[u] = currentCommands[u]
                                  \/ currentCommands'[u] = NoPacket
<1>1. RegistersSound(currentCommands, dataReg)  OBVIOUS
<1>2. /\ currentCommands' = [u \in Units |-> CommandAfter(d, u)]
      /\ dataReg' = [u \in Units |-> DataRegAfter(d, u)]
      BY DEF EndCommands
<1>3. \A u \in Units : ~GCReadEnds(u)
      BY <1>1 DEF GCReadEnds, ExpiredIs, Expired, RegistersSound
<1>4. ASSUME NEW u \in Units, Fetches(u)
      PROVE  /\ cacheReg[u] = NoPacket /\ Holds(currentCommands, u, "READ")
             /\ dataReg[u].type = "READ" /\ Ends(u)
  <2>1. ReadEnds(u)  BY <1>3, <1>4 DEF Fetches
  <2>2. cacheReg[u] = NoPacket /\ Holds(currentCommands, u, "READ") /\ Ends(u)
        BY <2>1 DEF ReadEnds, ExpiredIs, Expired, Holds, Ends
  <2>3. QED  BY <1>1, <2>2 DEF RegistersSound
<1>5. ASSUME NEW u \in Units
      PROVE  /\ CommandAfter(d, u) # NoPacket =>
                  CommandAfter(d, u).type \in {"READ", "WRITE", "ERASE"}
             /\ DataRegAfter(d, u) # NoPacket <=>
                  CommandAfter(d, u) # NoPacket /\ CommandAfter(d, u).type # "ERASE"
             /\ CommandAfter(d, u) # NoPacket /\ CommandAfter(d, u).type = "READ" =>
                  DataRegAfter(d, u).type = "READ" /\ UnitOf(DataRegAfter(d, u)) = u
  <2>1. CASE On(d, u) /\ Ends(u)
    <3>1. CommandAfter(d, u) = NoPacket  BY <2>1 DEF CommandAfter
    <3>2. CASE currentCommands[u].type = "ERASE"
      <4>1. dataReg[u] = NoPacket  BY <1>1, <2>1, <3>2 DEF RegistersSound
      <4>2. QED  BY <3>1, <4>1 DEF DataRegAfter
    <3>3. CASE currentCommands[u].type # "ERASE"
      <4>1. currentCommands[u] # NoPacket  BY <2>1 DEF Ends, Expired
      <4>2. currentCommands[u].type \in {"READ", "WRITE"}
            BY <1>1, <3>3, <4>1 DEF RegistersSound
      <4>3. Fetches(u) \/ ExpiredIs(u, "WRITE")
            BY <2>1, <4>2 DEF Ends, Fetches, ExpiredIs
      <4>4. DataRegAfter(d, u) = NoPacket  BY <2>1, <4>3 DEF DataRegAfter
      <4>5. QED  BY <3>1, <4>4
    <3>4. QED  BY <3>2, <3>3
  <2>2. CASE ~(On(d, u) /\ Ends(u))
    <3>1. CommandAfter(d, u) = currentCommands[u]  BY <2>2 DEF CommandAfter
    <3>2. ~(On(d, u) /\ (Fetches(u) \/ ExpiredIs(u, "WRITE")))
          BY <1>4, <2>2 DEF Ends, ExpiredIs
    <3>3. DataRegAfter(d, u) = dataReg[u]  BY <3>2 DEF DataRegAfter
    <3>4. QED  BY <1>1, <3>1, <3>3 DEF RegistersSound, Holds
  <2>3. QED  BY <2>1, <2>2
<1>6. RegistersSound(currentCommands', dataReg')
      BY <1>2, <1>5 DEF RegistersSound, Holds
<1>7. failed' = "no"  BY <1>3 DEF EndCommands, NoPageToMove, WrittenTwice
<1>8. QED  BY <1>2, <1>4, <1>6, <1>7 DEF CommandAfter

(* What is true of a packet under way stays true as long as no data leaves *)
(* a cache register and no page enters one that is promised.               *)
LEMMA PacketsStaySound ==
    ASSUME NEW q \in [Dies -> Seq(Packets)], NEW out \in MaybePacket,
           PacketsSound(q, out, currentCommands, cacheReg),
           \A u \in Units :
             /\ \/ currentCommands'[u] = currentCommands[u]
                \/ currentCommands'[u] = NoPacket
             /\ Holds(cacheReg, u, "DATA") \/ Holds(cacheReg', u, "DATA")
                  => cacheReg'[u] = cacheReg[u]
             /\ cacheReg[u] = NoPacket /\ ~Holds(currentCommands, u, "READ")
                  => cacheReg'[u] = NoPacket
    PROVE  PacketsSound(q, out, currentCommands', cacheReg')
<1>1. /\ QueuesSound(q) /\ DataArrives(q, out)
      /\ DataAwaitsWrite(q, out, cacheReg)
      /\ ArrivalSound(out, currentCommands, cacheReg)
      BY DEF PacketsSound
<1>2. \A u \in Units : /\ Holds(cacheReg', u, "DATA") <=> Holds(cacheReg, u, "DATA")
                       /\ Holds(cacheReg, u, "DATA") => cacheReg'[u] = cacheReg[u]
      BY DEF Holds
<1>3. DataAwaitsWrite(q, out, cacheReg')
  <2>1. ASSUME NEW e \in Dies, NextOf(q, out, e).type = "WRITE"
        PROVE  UnitOf(NextOf(q, out, e)) \in Units
    <3>1. NextOf(q, out, e) \in MaybePacket
          BY HeadTailProperties DEF NextOf, MaybePacket
    <3>2. NextOf(q, out, e) \in Packets
          BY <2>1, <3>1 DEF MaybePacket, NoPacket
    <3>3. QED  BY <3>2, PacketTypes
  <2>2. QED  BY <1>1, <1>2, <2>1 DEF DataAwaitsWrite
<1>4. ArrivalSound(out, currentCommands', cacheReg')
  <2>1. SUFFICES ASSUME out # NoPacket
                 PROVE  ArrivalSound(out, currentCommands', cacheReg')
        BY DEF ArrivalSound
  <2>2. UnitOf(out) \in Units
        BY <2>1, PacketTypes DEF MaybePacket
  <2>3. QED  BY <1>1, <2>1, <2>2 DEF ArrivalSound, Holds
<1>5. QED  BY <1>1, <1>3, <1>4 DEF PacketsSound

(* A die ends its commands and returns a page, or none.                    *)
LEMMA DieSound ==
    ASSUME ~GARBAGE_COLLECT, DiesInv,
           NEW q \in [Dies -> Seq(Packets)], NEW out \in MaybePacket,
           PacketsSound(q, out, currentCommands, cacheReg),
           RegistersSound(currentCommands, dataReg),
           \A e \in Dies : PagesSound(returnDataPackets[e], e, cacheReg),
           NEW d \in Dies, EndCommands(d),
           KeepPages(d) \/ (ToReturn(d) # <<>> /\ ReleaseFirstPage(d))
    PROVE  /\ PacketsSound(q, out, currentCommands', cacheReg')
           /\ RegistersSound(currentCommands', dataReg')
           /\ \A e \in Dies : PagesSound(returnDataPackets'[e], e, cacheReg')
           /\ failed' = "no"
<1> DEFINE cache == [u \in Units |-> CacheRegAfter(d, u)]
           s == ToReturn(d)
<1>2. /\ RegistersSound(currentCommands', dataReg') /\ failed' = "no"
      /\ \A u \in Units : /\ Fetches(u) => /\ cacheReg[u] = NoPacket
                                           /\ Holds(currentCommands, u, "READ")
                                           /\ dataReg[u].type = "READ"
                          /\ \/ currentCommands'[u] = currentCommands[u]
                             \/ currentCommands'[u] = NoPacket
      BY EndCommandsSound
<1>3. PagesSound(s, d, cache) /\ s \in Seq(Packets)  BY FetchSound, ToReturnType
<1>4. \A u \in Units : \/ cache[u] = cacheReg[u]
                       \/ /\ Fetches(u) /\ u[1] = d /\ cacheReg[u] = NoPacket
                          /\ cache[u].type = "READ"
      BY <1>2 DEF CacheRegAfter, On
<1>5. \/ /\ returnDataPackets' = [returnDataPackets EXCEPT ![d] = s]
         /\ cacheReg' = cache
      \/ /\ s # <<>> /\ returnDataPackets' = [returnDataPackets EXCEPT ![d] = Tail(s)]
         /\ cacheReg' = [u \in Units |-> IF u = UnitOf(Head(s)) THEN NoPacket
                                         ELSE CacheRegAfter(d, u)]
      BY DEF KeepPages, ReleaseFirstPage
<1> HIDE DEF s
<1>6. returnDataPackets \in [Dies -> Seq(Packets)]  BY DEF DiesInv, DiesTypeOK
<1>7. /\ PagesSound(returnDataPackets'[d], d, cacheReg')
      /\ \A u \in Units : \/ cacheReg'[u] = cache[u]
                          \/ /\ cacheReg'[u] = NoPacket /\ u[1] = d
                             /\ cache[u] # NoPacket /\ cache[u].type # "DATA"
  <2>1. CASE /\ returnDataPackets' = [returnDataPackets EXCEPT ![d] = s]
             /\ cacheReg' = cache
        BY <1>3, <1>6, <2>1
  <2>2. CASE /\ s # <<>> /\ returnDataPackets' = [returnDataPackets EXCEPT ![d] = Tail(s)]
             /\ cacheReg' = [u \in Units |-> IF u = UnitOf(Head(s)) THEN NoPacket
                                             ELSE CacheRegAfter(d, u)]
    <3>1. \A u \in Units : cacheReg'[u] = IF u = UnitOf(Head(s)) THEN NoPacket
                                          ELSE cache[u]
          BY <2>2
    <3> HIDE DEF cache
    <3>2. PagesSound(Tail(s), d, cacheReg')  BY <1>3, <2>2, <3>1, ReleaseSound
    <3>3. returnDataPackets'[d] = Tail(s)  BY <1>6, <2>2
    <3>4. /\ Head(s) \in Packets /\ Head(s).die = d /\ Head(s).type # "DATA"
          /\ cache[UnitOf(Head(s))] = Head(s)
      <4>1. Head(s) = s[1] /\ 1 \in 1 .. Len(s)  BY <1>3, <2>2
      <4>2. QED  BY <1>3, <4>1 DEF PagesSound
    <3>5. Head(s) # NoPacket /\ UnitOf(Head(s))[1] = d
          BY <3>4, PacketTypes DEF UnitOf
    <3>6. QED  BY <3>1, <3>2, <3>3, <3>4, <3>5
  <2>3. QED  BY <1>5, <2>1, <2>2
<1> HIDE DEF cache
<1>8. ASSUME NEW e \in Dies  PROVE PagesSound(returnDataPackets'[e], e, cacheReg')
  <2>1. CASE e = d  BY <1>7, <2>1
  <2>2. CASE e # d
    <3>1. returnDataPackets'[e] = returnDataPackets[e]  BY <1>5, <1>6, <2>2
    <3>2. \A u \in Units : u[1] = e => cacheReg'[u] = cacheReg[u]
          BY <1>4, <1>7, <2>2
    <3>3. PagesSound(returnDataPackets[e], e, cacheReg)  OBVIOUS
    <3>4. QED  BY <1>6, <3>1, <3>2, <3>3, SamePages
  <2>3. QED  BY <2>1, <2>2
<1>9. PacketsSound(q, out, currentCommands', cacheReg')
  <2>1. ASSUME NEW u \in Units
        PROVE  /\ Holds(cacheReg, u, "DATA") \/ Holds(cacheReg', u, "DATA")
                    => cacheReg'[u] = cacheReg[u]
               /\ cacheReg[u] = NoPacket /\ ~Holds(currentCommands, u, "READ")
                    => cacheReg'[u] = NoPacket
    <3>1. NoPacket.type = "none"  BY DEF NoPacket
    <3>2. \/ cache[u] = cacheReg[u]
          \/ /\ Fetches(u) /\ cacheReg[u] = NoPacket /\ cache[u].type = "READ"
             /\ Holds(currentCommands, u, "READ")
          BY <1>2, <1>4
    <3>3. \/ cacheReg'[u] = cache[u]
          \/ /\ cacheReg'[u] = NoPacket
             /\ cache[u] # NoPacket /\ cache[u].type # "DATA"
          BY <1>7
    <3>4. QED  BY <3>1, <3>2, <3>3 DEF Holds
  <2>2. QED  BY <1>2, <2>1, PacketsStaySound
<1>10. QED  BY <1>2, <1>8, <1>9

-----------------------------------------------------------------------------
(* What a command does and leaves.  A command that runs has what it needs  *)
(* in the data register, and only pages of reads are returned.             *)
CommandsKept(commands, data) ==
    \A u \in Units :
        /\ commands[u] # NoPacket => UnitOf(commands[u]) = u
        /\ Holds(commands, u, "READ") => data[u] = commands[u]
        /\ Holds(commands, u, "WRITE") => WriteOf(data[u]) = commands[u]
PagesRead ==
    \A d \in Dies : \A i \in 1 .. Len(returnDataPackets[d]) :
        returnDataPackets[d][i].type = "READ"
DiesKept ==
    /\ DiesInv /\ PagesRead
    /\ RegistersSound(currentCommands, dataReg) /\ CommandsKept(currentCommands, dataReg)
    /\ \A d \in Dies : PagesSound(returnDataPackets[d], d, cacheReg)

LEMMA ArriveKept ==
    ASSUME DiesInv, RegistersSound(currentCommands, dataReg),
           CommandsKept(currentCommands, dataReg),
           NEW q, NEW out \in Packets,
           PacketsSound(q, out, currentCommands, cacheReg), receiveFromBuffer(out)
    PROVE  CommandsKept(currentCommands', dataReg')
<1> DEFINE u == UnitOf(out)
<1>0. /\ currentCommands \in [Units -> MaybePacket] /\ dataReg \in [Units -> MaybePacket]
      /\ cacheReg \in [Units -> MaybePacket]
      /\ u \in Units /\ u[1] = out.die /\ out.die \in Dies /\ out # NoPacket
      /\ out.type \in {"DATA", "READ", "WRITE", "ERASE"}
  <2>1. u[1] = out.die  BY DEF UnitOf
  <2>2. QED  BY <2>1, PacketTypes DEF DiesInv, DiesTypeOK, PacketsSound, ArrivalSound
<1>1. DataAwaitsWrite(q, out, cacheReg) /\ ArrivalSound(out, currentCommands, cacheReg)
      BY DEF PacketsSound
<1>2. CASE out.type = "DATA"
  <2>1. UNCHANGED <<currentCommands, dataReg>>
        BY <1>0, <1>1, <1>2 DEF ArrivalSound, receiveFromBuffer, storeInData, commandVars
  <2>2. QED  BY <2>1
<1>3. CASE out.type # "DATA"
  <2>1. currentCommands[u] = NoPacket  BY <1>0, <1>1, <1>3 DEF ArrivalSound
  <2>2. \/ out.type = "READ" /\ read(out)
        \/ out.type = "WRITE" /\ write(out)
        \/ out.type = "ERASE" /\ erase(out)
        BY <1>0, <1>3, <2>1 DEF receiveFromBuffer
  <2>3. dataReg[u] = NoPacket  BY <1>0, <2>1 DEF RegistersSound
  <2>4. CASE out.type = "READ"
    <3> DEFINE result == [out EXCEPT !.data = blocks[u][out.page]]
    <3>1. /\ currentCommands' = [currentCommands EXCEPT ![UnitOf(result)] = result]
          /\ dataReg' = [dataReg EXCEPT ![u] = result]
          BY <2>2, <2>3, <2>4 DEF read, StartCommand
    <3>2. result.type = "READ" /\ UnitOf(result) = u  BY <2>4 DEF Packets, UnitOf
    <3> HIDE DEF result, u
    <3>3. /\ currentCommands'[u] = result /\ dataReg'[u] = result
          /\ \A c \in Units \ {u} : /\ currentCommands'[c] = currentCommands[c]
                                    /\ dataReg'[c] = dataReg[c]
          BY <1>0, <3>1, <3>2
    <3>4. QED  BY <3>2, <3>3 DEF CommandsKept, Holds
  <2>5. CASE out.type = "ERASE"
    <3>1. currentCommands' = [currentCommands EXCEPT ![u] = out] /\ dataReg' = dataReg
          BY <2>2, <2>5 DEF erase, StartCommand
    <3>2. UnitOf(out) = u  OBVIOUS
    <3> HIDE DEF u
    <3>3. /\ currentCommands'[u] = out
          /\ \A c \in Units \ {u} : currentCommands'[c] = currentCommands[c]
          BY <1>0, <3>1
    <3>4. QED  BY <2>5, <3>1, <3>2, <3>3 DEF CommandsKept, Holds
  <2>6. CASE out.type = "WRITE"
    <3>1. NextOf(q, out, out.die) = out  BY <1>0 DEF NextOf
    <3>2. Holds(cacheReg, u, "DATA")  BY <1>0, <1>1, <2>6, <3>1 DEF DataAwaitsWrite
    <3>3. WriteOf(cacheReg[u]) = out
      <4>1. NextOf(q, out, u[1]) = WriteOf(cacheReg[u])
            BY <1>0, <1>1, <3>2 DEF DataAwaitsWrite
      <4>2. QED  BY <1>0, <3>1, <4>1
    <3>4. /\ currentCommands' = [currentCommands EXCEPT ![u] = out]
          /\ dataReg' = [dataReg EXCEPT ![u] = cacheReg[u]]
          BY <2>2, <2>6, <3>2 DEF write, StartCommand, Holds
    <3>5. UnitOf(out) = u  OBVIOUS
    <3> HIDE DEF u
    <3>6. /\ currentCommands'[u] = out /\ dataReg'[u] = cacheReg[u]
          /\ \A c \in Units \ {u} : /\ currentCommands'[c] = currentCommands[c]
                                    /\ dataReg'[c] = dataReg[c]
          BY <1>0, <3>4
    <3>7. QED  BY <2>6, <3>3, <3>5, <3>6 DEF CommandsKept, Holds
  <2>7. QED  BY <2>2, <2>4, <2>5, <2>6
<1>4. QED  BY <1>2, <1>3

(* What the packet that reaches its die changes.                           *)
CommandArrived(out, result) ==
    LET u == UnitOf(out)
    IN  /\ currentCommands[u] = NoPacket
        /\ currentCommands' = [currentCommands EXCEPT ![u] = result]
        /\ result \in Packets
        /\ \/ /\ out.type = "READ" /\ result = [out EXCEPT !.data = blocks[u][out.page]]
              /\ result.type = "READ" /\ result.page = out.page
              /\ result.data = blocks[u][out.page]
              /\ blocks' = blocks
           \/ out.type = "WRITE" /\ result = out /\ blocks' = blocks
           \/ /\ out.type = "ERASE" /\ result = out
              /\ blocks' = [blocks EXCEPT ![u] = [p \in PageNums |-> NoData]]

LEMMA ArriveChanges ==
    ASSUME DiesInv, RegistersSound(currentCommands, dataReg), NEW q, NEW out \in Packets,
           PacketsSound(q, out, currentCommands, cacheReg), receiveFromBuffer(out)
    PROVE  \/ out.type = "DATA" /\ UNCHANGED <<currentCommands, blocks>>
           \/ \E result : CommandArrived(out, result)
<1> DEFINE u == UnitOf(out)
<1>0. /\ currentCommands \in [Units -> MaybePacket]
      /\ blocks \in [Units -> [PageNums -> Data \cup {NoData}]]
      /\ u \in Units /\ u[1] = out.die /\ out.die \in Dies /\ out # NoPacket
      /\ out.page \in PageNums
      /\ out.type \in {"DATA", "READ", "WRITE", "ERASE"}
  <2>1. u[1] = out.die  BY DEF UnitOf
  <2>2. QED  BY <2>1, PacketTypes DEF DiesInv, DiesTypeOK, PacketsSound, ArrivalSound
<1>1. DataAwaitsWrite(q, out, cacheReg) /\ ArrivalSound(out, currentCommands, cacheReg)
      BY DEF PacketsSound
<1>2. CASE out.type = "DATA"
  <2>1. UNCHANGED <<currentCommands, blocks>>
        BY <1>0, <1>1, <1>2 DEF ArrivalSound, receiveFromBuffer, storeInData, commandVars
  <2>2. QED  BY <1>2, <2>1
<1>3. CASE out.type # "DATA"
  <2>1. currentCommands[u] = NoPacket  BY <1>0, <1>1, <1>3 DEF ArrivalSound
  <2>2. \/ out.type = "READ" /\ read(out)
        \/ out.type = "WRITE" /\ write(out)
        \/ out.type = "ERASE" /\ erase(out)
        BY <1>0, <1>3, <2>1 DEF receiveFromBuffer
  <2>3. dataReg[u] = NoPacket  BY <1>0, <2>1 DEF RegistersSound
  <2>4. CASE out.type = "READ"
    <3> DEFINE x == blocks[u][out.page]
               result == [out EXCEPT !.data = x]
    <3>1. /\ currentCommands' = [currentCommands EXCEPT ![UnitOf(result)] = result]
          /\ blocks' = blocks
          BY <2>2, <2>3, <2>4 DEF read, StartCommand
    <3>2. x \in Data \cup {NoData}  BY <1>0
    <3> HIDE DEF x
    <3>3. /\ result.type = "READ" /\ UnitOf(result) = u /\ result \in Packets
          /\ result.page = out.page /\ result.data = x
          BY <2>4, <3>2 DEF Packets, UnitOf
    <3>4. CommandArrived(out, result)  BY <2>1, <2>4, <3>1, <3>3 DEF CommandArrived, x
    <3>5. QED  BY <3>4
  <2>5. CASE out.type = "ERASE"
    <3>1. /\ currentCommands' = [currentCommands EXCEPT ![u] = out]
          /\ blocks' = [blocks EXCEPT ![u] = [p \in PageNums |-> NoData]]
          BY <2>2, <2>5 DEF erase, StartCommand
    <3>2. CommandArrived(out, out)  BY <2>1, <2>5, <3>1 DEF CommandArrived
    <3>3. QED  BY <3>2
  <2>6. CASE out.type = "WRITE"
    <3>1. NextOf(q, out, out.die) = out  BY <1>0 DEF NextOf
    <3>2. Holds(cacheReg, u, "DATA")  BY <1>0, <1>1, <2>6, <3>1 DEF DataAwaitsWrite
    <3>3. currentCommands' = [currentCommands EXCEPT ![u] = out] /\ blocks' = blocks
          BY <2>2, <2>6, <3>2 DEF write, StartCommand, Holds
    <3>4. CommandArrived(out, out)  BY <2>1, <2>6, <3>3 DEF CommandArrived
    <3>5. QED  BY <3>4
  <2>7. QED  BY <2>2, <2>4, <2>5, <2>6
<1>4. QED  BY <1>2, <1>3

(* What a die does to the pages.                                           *)
LEMMA FetchIsRead ==
    ASSUME DiesKept, NEW u \in Units, Fetches(u)
    PROVE  /\ ReadEnds(u) /\ Ends(u) /\ Holds(currentCommands, u, "READ")
           /\ dataReg[u] = currentCommands[u] /\ dataReg[u] \in Packets
           /\ dataReg[u].type = "READ" /\ UnitOf(dataReg[u]) = u /\ dataReg[u].die = u[1]
<1>1. ReadEnds(u)
      BY DEF DiesKept, RegistersSound, Fetches, GCReadEnds, ExpiredIs, Expired
<1>2. Holds(currentCommands, u, "READ") /\ Ends(u)
      BY <1>1 DEF ReadEnds, ExpiredIs, Expired, Holds, Ends
<1>3. dataReg[u] = currentCommands[u] /\ UnitOf(currentCommands[u]) = u
      BY <1>2 DEF DiesKept, CommandsKept, Holds
<1>4. dataReg[u] \in Packets  BY FetchesHasPage DEF DiesKept
<1>5. UnitOf(dataReg[u])[1] = dataReg[u].die  BY DEF UnitOf
<1>6. QED  BY <1>1, <1>2, <1>3, <1>4, <1>5 DEF Holds

LEMMA FetchedOf ==
    ASSUME DiesKept, NEW d \in Dies
    PROVE  /\ \A i \in 1 .. Len(Fetched(d)) : Fetched(d)[i].type = "READ" /\ Fetched(d)[i].die = d
           /\ \A u \in Units : FromPlane(u, Fetched(d)) = If(On(d, u) /\ Fetches(u), dataReg[u])
<1> DEFINE f == Fetched(d)
           n == Cardinality(PlanesFetching(d))
<1>0. f \in Seq(Packets) /\ Len(f) = n /\ n \in Nat
      BY ToReturnType, PlanesFetchingFinite DEF DiesKept
<1>1. PICK rank \in [PlanesFetching(d) -> 1 .. n] :
        /\ \A p \in PlanesFetching(d) : f[rank[p]] = dataReg[<<d, p>>]
        /\ \A i \in 1 .. n : \E p \in PlanesFetching(d) : rank[p] = i
        /\ \A p, q \in PlanesFetching(d) : rank[p] = rank[q] => p = q
      BY FetchedIs
<1> HIDE DEF f, n
<1>2. ASSUME NEW i \in 1 .. n
      PROVE  \E p \in PlanesFetching(d) :
                /\ rank[p] = i /\ f[i] = dataReg[<<d, p>>] /\ <<d, p>> \in Units
                /\ f[i].type = "READ" /\ f[i].die = d /\ UnitOf(f[i]) = <<d, p>>
  <2>1. PICK p \in PlanesFetching(d) : rank[p] = i  BY <1>1
  <2>2. <<d, p>> \in Units /\ Fetches(<<d, p>>) /\ f[i] = dataReg[<<d, p>>] /\ <<d, p>>[1] = d
        BY <1>1, <2>1, UnitTypes DEF PlanesFetching
  <2>3. QED  BY <2>1, <2>2, FetchIsRead
<1>3. ASSUME NEW i \in 1 .. Len(f)  PROVE f[i].type = "READ" /\ f[i].die = d
      BY <1>0, <1>2
<1>4. ASSUME NEW u \in Units
      PROVE  FromPlane(u, f) = If(On(d, u) /\ Fetches(u), dataReg[u])
  <2>1. FromPlane(u, f) = Picked(f, OfPlane(u))  BY <1>0, PlaneIsPicked
  <2>2. \A i \in 1 .. n : f[i] \in Packets  BY <1>0
  <2>3. CASE On(d, u) /\ Fetches(u)
    <3> DEFINE p == u[2]
               k == rank[p]
    <3>1. u = <<d, p>> /\ p \in PlanesFetching(d)
          BY <2>3, UnitTypes DEF On, PlanesFetching
    <3>2. k \in 1 .. n /\ f[k] = dataReg[u]  BY <1>1, <3>1
    <3>3. ASSUME NEW i \in 1 .. n  PROVE f[i] \in OfPlane(u) <=> i = k
      <4>1. PICK q \in PlanesFetching(d) : rank[q] = i /\ UnitOf(f[i]) = <<d, q>>  BY <1>2
      <4>2. UnitOf(f[i]) = u <=> q = p
        <5>1. <<d, q>> = u <=> q = p  BY <3>1
        <5>2. QED  BY <4>1, <5>1
      <4>3. q = p <=> i = k  BY <1>1, <3>1, <4>1
      <4>4. QED  BY <2>2, <4>2, <4>3 DEF OfPlane
    <3> HIDE DEF k, p
    <3>4. k \in 0 .. Len(f) /\ k # 0 /\ \A i \in 1 .. Len(f) : f[i] \in OfPlane(u) <=> i = k
          BY <1>0, <3>2, <3>3
    <3>5. Picked(f, OfPlane(u)) = <<f[k]>>  BY <1>0, <3>4, PickedOnly
    <3>6. QED  BY <2>1, <2>3, <3>2, <3>5 DEF If
  <2>4. CASE ~(On(d, u) /\ Fetches(u))
    <3>1. ASSUME NEW i \in 1 .. Len(f), f[i] \in OfPlane(u)  PROVE FALSE
      <4>1. PICK q \in PlanesFetching(d) : UnitOf(f[i]) = <<d, q>>  BY <1>0, <1>2
      <4>2. u = <<d, q>>  BY <3>1, <4>1 DEF OfPlane
      <4>3. On(d, u) /\ Fetches(u)  BY <4>2 DEF On, PlanesFetching
      <4>4. QED  BY <2>4, <4>3
    <3>2. Picked(f, OfPlane(u)) = <<>>  BY <1>0, <3>1, PickedNone
    <3>3. QED  BY <2>1, <2>4, <3>2 DEF If
  <2>5. QED  BY <2>3, <2>4
<1>5. QED  BY <1>3, <1>4 DEF f

LEMMA ToReturnRead ==
    ASSUME DiesKept, NEW d \in Dies, NEW i \in 1 .. Len(ToReturn(d))
    PROVE  ToReturn(d)[i].type = "READ" /\ ToReturn(d)[i].die = d
<1> DEFINE s == returnDataPackets[d]
           f == Fetched(d)
           r == ToReturn(d)
<1>1. s \in Seq(Packets) /\ f \in Seq(Packets) /\ r = s \o f
      BY ToReturnType DEF DiesKept, DiesInv, DiesTypeOK, ToReturn
<1>2. \A j \in 1 .. Len(s) : s[j].type = "READ" /\ s[j].die = d
      BY DEF DiesKept, PagesRead, PagesSound
<1>3. \A j \in 1 .. Len(f) : f[j].type = "READ" /\ f[j].die = d  BY FetchedOf
<1>4. i \in 1 .. Len(r)  OBVIOUS
<1> HIDE DEF s, f, r
<1>5. /\ Len(r) = Len(s) + Len(f) /\ Len(s) \in Nat /\ Len(f) \in Nat
      /\ \A j \in 1 .. Len(s) + Len(f) : r[j] = IF j <= Len(s) THEN s[j] ELSE f[j - Len(s)]
      BY <1>1, ConcatProperties, LenProperties
<1>6. CASE i <= Len(s)
  <2>1. i \in 1 .. Len(s) /\ r[i] = s[i]  BY <1>4, <1>5, <1>6
  <2>2. QED  BY <1>2, <2>1 DEF r
<1>7. CASE ~(i <= Len(s))
  <2> DEFINE j == i - Len(s)
  <2>1. j \in 1 .. Len(f) /\ r[i] = f[j]  BY <1>4, <1>5, <1>7
  <2> HIDE DEF j
  <2>2. QED  BY <1>3, <2>1 DEF r
<1>8. QED  BY <1>6, <1>7

(* What the end of the commands leaves.                                    *)
LEMMA EndsKept ==
    ASSUME DiesKept, NEW d \in Dies, EndCommands(d)
    PROVE  CommandsKept(currentCommands', dataReg')
<1>1. /\ currentCommands' = [u \in Units |-> CommandAfter(d, u)]
      /\ dataReg' = [u \in Units |-> DataRegAfter(d, u)]
      BY DEF EndCommands
<1>2. ASSUME NEW u \in Units, currentCommands'[u] # NoPacket
      PROVE  currentCommands'[u] = currentCommands[u] /\ dataReg'[u] = dataReg[u]
  <2>1. ~(On(d, u) /\ Ends(u)) /\ currentCommands'[u] = currentCommands[u]
        BY <1>1, <1>2 DEF CommandAfter
  <2>2. Fetches(u) => Ends(u)  BY FetchIsRead
  <2>3. ExpiredIs(u, "WRITE") => Ends(u)  BY DEF ExpiredIs, Ends
  <2>4. QED  BY <1>1, <2>1, <2>2, <2>3 DEF DataRegAfter
<1>3. QED  BY <1>2 DEF DiesKept, CommandsKept, Holds

LEMMA ToReturnPages ==
    ASSUME DiesKept, NEW d \in Dies
    PROVE  LET r == ToReturn(d)
           IN  /\ r \in Seq(Packets)
               /\ r # <<>> =>
                    /\ Head(r) \in Packets /\ Head(r).type = "READ" /\ Head(r).die = d
                    /\ Tail(r) \in Seq(Packets)
                    /\ \A i \in 1 .. Len(Tail(r)) : Tail(r)[i].type = "READ"
<1> DEFINE r == ToReturn(d)
<1>1. r \in Seq(Packets)  BY ToReturnType DEF DiesKept
<1>2. \A i \in 1 .. Len(r) : r[i].type = "READ" /\ r[i].die = d  BY ToReturnRead
<1> HIDE DEF r
<1>3. ASSUME r # <<>>
      PROVE  /\ Head(r) \in Packets /\ Head(r).type = "READ" /\ Head(r).die = d
             /\ Tail(r) \in Seq(Packets)
             /\ \A i \in 1 .. Len(Tail(r)) : Tail(r)[i].type = "READ"
  <2>1. /\ Len(r) \in Nat \ {0} /\ Head(r) = r[1] /\ 1 \in 1 .. Len(r)
        /\ Len(Tail(r)) = Len(r) - 1 /\ Tail(r) \in Seq(Packets)
        BY <1>1, <1>3, EmptySeq
  <2>2. \A i \in 1 .. Len(r) - 1 : Tail(r)[i] = r[i + 1] /\ i + 1 \in 1 .. Len(r)
        BY <1>1, <2>1, HeadTailProperties
  <2>3. Head(r) \in Packets  BY <1>1, <2>1
  <2>4. QED  BY <1>2, <2>1, <2>2, <2>3
<1>4. QED  BY <1>1, <1>3 DEF r

LEMMA PagesStayReads ==
    ASSUME DiesKept, NEW d \in Dies,
           \/ returnDataPackets' = [returnDataPackets EXCEPT ![d] = ToReturn(d)]
           \/ /\ ToReturn(d) # <<>>
              /\ returnDataPackets' = [returnDataPackets EXCEPT ![d] = Tail(ToReturn(d))]
    PROVE  PagesRead'
<1>1. returnDataPackets \in [Dies -> Seq(Packets)]  BY DEF DiesKept, DiesInv, DiesTypeOK
<1>2. ASSUME NEW e \in Dies, NEW i \in 1 .. Len(returnDataPackets'[e])
      PROVE  returnDataPackets'[e][i].type = "READ"
  <2>1. CASE e # d
    <3>1. returnDataPackets'[e] = returnDataPackets[e]  BY <1>1, <2>1
    <3>2. QED  BY <1>2, <3>1 DEF DiesKept, PagesRead
  <2>2. CASE e = d
    <3>1. \/ returnDataPackets'[e] = ToReturn(d)
          \/ ToReturn(d) # <<>> /\ returnDataPackets'[e] = Tail(ToReturn(d))
          BY <1>1, <2>2
    <3>2. CASE returnDataPackets'[e] = ToReturn(d)
      <4>1. i \in 1 .. Len(ToReturn(d))  BY <1>2, <3>2
      <4>2. QED  BY <3>2, <4>1, ToReturnRead
    <3>3. CASE ToReturn(d) # <<>> /\ returnDataPackets'[e] = Tail(ToReturn(d))
      <4>1. i \in 1 .. Len(Tail(ToReturn(d)))  BY <1>2, <3>3
      <4>2. \A j \in 1 .. Len(Tail(ToReturn(d))) : Tail(ToReturn(d))[j].type = "READ"
            BY <3>3, ToReturnPages
      <4>3. QED  BY <3>3, <4>1, <4>2
    <3>4. QED  BY <3>1, <3>2, <3>3
  <2>3. QED  BY <2>1, <2>2
<1>3. QED  BY <1>2 DEF PagesRead

(* The writes of a die that end are stored.                                *)
Stored(d) == {u \in Units : On(d, u) /\ ExpiredIs(u, "WRITE")}

LEMMA DieBlocks ==
    ASSUME DiesKept, NEW d \in Dies, NEW u \in Units
    PROVE  BlockAfter(d, u) =
             IF u \in Stored(d)
             THEN [blocks[u] EXCEPT ![currentCommands[u].page] = currentCommands[u].data]
             ELSE blocks[u]
<1>1. CASE u \in Stored(d)
  <2>1. On(d, u) /\ ExpiredIs(u, "WRITE")  BY <1>1 DEF Stored
  <2>2. Holds(currentCommands, u, "WRITE")  BY <2>1 DEF ExpiredIs, Expired, Holds
  <2>3. WriteOf(dataReg[u]) = currentCommands[u]  BY <2>2 DEF DiesKept, CommandsKept
  <2>4. dataReg[u] \in Packets  BY <2>2 DEF Holds, DiesKept, DiesInv, RegistersFilled
  <2>5. currentCommands[u].data = dataReg[u].data  BY <2>3, <2>4 DEF WriteOf, Packets
  <2>6. QED  BY <1>1, <2>1, <2>5 DEF BlockAfter
<1>2. CASE u \notin Stored(d)  BY <1>2 DEF Stored, BlockAfter
<1>3. QED  BY <1>1, <1>2

(* The page that a plane reads, and the command it leaves it.              *)
LEMMA DieReading ==
    ASSUME DiesKept, NEW d \in Dies, EndCommands(d), NEW u \in Units
    PROVE  LET f == If(On(d, u) /\ Fetches(u), dataReg[u])
               r == If(Running(u, "READ"), currentCommands[u])'
           IN  /\ f \in Seq(Packets) /\ r \in Seq(Packets)
               /\ If(Running(u, "READ"), currentCommands[u]) = f \o r
<1> DEFINE f == If(On(d, u) /\ Fetches(u), dataReg[u])
           r == If(Running(u, "READ"), currentCommands[u])
           r2 == If(Running(u, "READ"), currentCommands[u])'
<1>1. currentCommands'[u] = CommandAfter(d, u)  BY DEF EndCommands
<1>2. r \in Seq(Packets) /\ <<>> \in Seq(Packets)
  <2>1. Running(u, "READ") => currentCommands[u] \in Packets
        BY DEF DiesKept, DiesInv, DiesTypeOK, MaybePacket, Running
  <2>2. QED  BY <2>1, EmptySeq, SingletonSeq DEF If
<1>3. CASE On(d, u) /\ Fetches(u)
  <2>1. /\ Ends(u) /\ Holds(currentCommands, u, "READ") /\ dataReg[u] = currentCommands[u]
        /\ dataReg[u] \in Packets
        BY <1>3, FetchIsRead
  <2>2. currentCommands'[u] = NoPacket  BY <1>1, <1>3, <2>1 DEF CommandAfter
  <2>3. f = <<dataReg[u]>> /\ r = <<dataReg[u]>> /\ r2 = <<>>
        BY <1>3, <2>1, <2>2 DEF If, Running, Holds
  <2> HIDE DEF f, r, r2
  <2>4. r \o <<>> = r  BY <1>2, ConcatEmptySeq
  <2>5. QED  BY <1>2, <2>3, <2>4 DEF f, r, r2
<1>4. CASE ~(On(d, u) /\ Fetches(u))
  <2>1. f = <<>>  BY <1>4 DEF If
  <2>2. r2 = r
    <3>1. On(d, u) /\ Ends(u) => currentCommands[u].type # "READ"
          BY <1>4 DEF Ends, Fetches
    <3>2. QED  BY <1>1, <3>1 DEF CommandAfter, Running, If
  <2> HIDE DEF f, r, r2
  <2>3. <<>> \o r = r  BY <1>2, ConcatEmptySeq
  <2>4. QED  BY <1>2, <2>1, <2>2, <2>3 DEF f, r, r2
<1>5. QED  BY <1>3, <1>4
=============================================================================
