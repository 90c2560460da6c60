--------------------------- MODULE FlashGeometry ---------------------------
(***************************************************************************)
(* The shape of the flash device and the arithmetic the FTL does on it:    *)
(* what FlashConfiguration.h derives from the ini parameters, the physical *)
(* address translation of Ftl::translate, the write pointer and the search *)
(* for a free page that the write and disk-read handlers share.            *)
(*                                                                         *)
(* A physical address is kept in units of NV_PAGE_SIZE: page number n      *)
(* stands for pAddr = n * NV_PAGE_SIZE, so that used[b][p] of the source   *)
(* is "b * PAGES_PER_BLOCK + p \in used" here.                             *)
(***************************************************************************)
EXTENDS Integers

CONSTANTS
    NUM_PACKAGES, DIES_PER_PACKAGE, PLANES_PER_DIE,
    BLOCKS_PER_PLANE, PAGES_PER_BLOCK,
    NV_PAGE_SIZE            \* in KB, only BLOCK_SIZE depends on it

ASSUME GeometryAssumption ==
    /\ NUM_PACKAGES \in Nat \ {0}
    /\ DIES_PER_PACKAGE \in Nat \ {0}
    /\ PLANES_PER_DIE \in Nat \ {0}
    /\ BLOCKS_PER_PLANE \in Nat \ {0}
    /\ PAGES_PER_BLOCK \in Nat \ {0}
    /\ NV_PAGE_SIZE \in Nat \ {0}

NumBlocks == NUM_PACKAGES * DIES_PER_PACKAGE * PLANES_PER_DIE * BLOCKS_PER_PLANE
NumPages == NumBlocks * PAGES_PER_BLOCK
BLOCK_SIZE == NV_PAGE_SIZE * PAGES_PER_BLOCK

Pages == 0 .. NumPages - 1
NoPage == NumPages                      \* "no free page", "not in the map"

Packages == 0 .. NUM_PACKAGES - 1
Dies == Packages \X (0 .. DIES_PER_PACKAGE - 1)
Planes == 0 .. PLANES_PER_DIE - 1

-----------------------------------------------------------------------------
(* Ftl::translate: peel page, block, plane, die and package off a page     *)
(* number, the least significant first.                                    *)
BlockOf(p) == p \div PAGES_PER_BLOCK
PlaneNumber(p) == BlockOf(p) \div BLOCKS_PER_PLANE
DieNumber(p) == PlaneNumber(p) \div PLANES_PER_DIE

translate(p) ==
    [page    |-> p % PAGES_PER_BLOCK,
     block   |-> BlockOf(p) % BLOCKS_PER_PLANE,
     plane   |-> PlaneNumber(p) % PLANES_PER_DIE,
     die     |-> DieNumber(p) % DIES_PER_PACKAGE,
     package |-> (DieNumber(p) \div DIES_PER_PACKAGE) % NUM_PACKAGES]

(* The die whose controller queue a packet for page p joins.               *)
DieOf(p) == <<translate(p).package, translate(p).die>>

-----------------------------------------------------------------------------
(* The write pointer (members channel, die and plane of Ftl) and the step  *)
(* that stripes consecutive writes over packages, then dies, then planes.  *)
Pointers == [channel : Packages, die : 0 .. DIES_PER_PACKAGE - 1, plane : Planes]

(* Mutant: the channel is compared with the number of packages before it   *)
(* is stepped, so it runs one past the last.                               *)
AdvanceLate(ptr) ==
    LET c == IF ptr.channel = NUM_PACKAGES THEN 0 ELSE ptr.channel + 1
    IN  [ptr EXCEPT !.channel = c]

Advance(ptr) ==
    LET c == (ptr.channel + 1) % NUM_PACKAGES
        d == IF c = 0 THEN (ptr.die + 1) % DIES_PER_PACKAGE ELSE ptr.die
        pl == IF c = 0 /\ d = 0 THEN (ptr.plane + 1) % PLANES_PER_DIE
              ELSE ptr.plane
    IN  [channel |-> c, die |-> d, plane |-> pl]

(* The first block of the plane the write pointer is at.                   *)
StartBlock(ptr) ==
    BLOCKS_PER_PLANE *
        (ptr.plane + PLANES_PER_DIE * (ptr.die + DIES_PER_PACKAGE * ptr.channel))

-----------------------------------------------------------------------------
(* The search for a free page: block by block from the write pointer to    *)
(* the end of the flash, then the blocks below start / BLOCK_SIZE.  "start"*)
(* is a block number, so the quotient is not the write pointer: it is 0    *)
(* whenever a block has at least as many KB as the flash has blocks.       *)
FreeIn(used, first, last) ==
    {p \in Pages \ used : first <= BlockOf(p) /\ BlockOf(p) < last}

Least(S) == CHOOSE m \in S : \A n \in S : m <= n

SecondScanEnd(ptr) == StartBlock(ptr) \div BLOCK_SIZE

FindFree(used, ptr) ==
    LET ahead == FreeIn(used, StartBlock(ptr), NumBlocks)
        below == FreeIn(used, 0, SecondScanEnd(ptr))
    IN  IF ahead # {} THEN Least(ahead)
        ELSE IF below # {} THEN Least(below)
        ELSE NoPage
=============================================================================
