------------------------------ MODULE HostChannel ------------------------------
(***************************************************************************)
(* What the front buffer promises, whatever channels it has and however    *)
(* the parts of a transaction travel: the FTL is given every transaction   *)
(* that was accepted, once and in the order of acceptance, and the host is *)
(* answered a read only for one that the FTL was given.                    *)
(***************************************************************************)
EXTENDS Integers, Sequences

CONSTANT Addr

VARIABLES
    accepted,   \* taken from the host, not yet given to the FTL, in order
    reads       \* how many reads of every address wait for their answer

vars == <<accepted, reads>>

Transactions == [type : {"DATA_READ", "DATA_WRITE"}, address : Addr]

Init == accepted = <<>> /\ reads = [a \in Addr |-> 0]

Accept(t) == accepted' = Append(accepted, t) /\ UNCHANGED reads

Deliver ==
    /\ accepted # <<>>
    /\ accepted' = Tail(accepted)
    /\ LET t == Head(accepted)
       IN  reads' = [reads EXCEPT ![t.address] = @ + IF t.type = "DATA_READ" THEN 1 ELSE 0]

Answer(a) ==
    /\ reads[a] > 0
    /\ reads' = [reads EXCEPT ![a] = @ - 1]
    /\ UNCHANGED accepted

Next == Deliver \/ (\E t \in Transactions : Accept(t)) \/ (\E a \in Addr : Answer(a))

Spec == Init /\ [][Next]_vars
=============================================================================
