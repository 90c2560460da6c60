------------------------------ MODULE FlashStore ------------------------------
(***************************************************************************)
(* What a package of flash dies promises the layer above it, whatever the  *)
(* controller queues, the channel, the buffers and the registers do in     *)
(* between: every plane is a memory that takes the commands it is given in *)
(* their order; a write is answered in the step that stores it, a read is  *)
(* answered with the page as the commands before it left it, and the reads *)
(* of one plane are answered in order.  Planes are independent.            *)
(***************************************************************************)
EXTENDS Integers, Sequences

CONSTANTS Units,        \* the planes of the package
          PageNums, Data, NoData

VARIABLES
    mem,        \* the pages of every plane
    pending,    \* accepted commands that have not taken effect
    fetched,    \* reads that have taken effect and are not answered
    answers     \* the callbacks of the last step

vars == <<mem, pending, fetched, answers>>

Ops == [type : {"READ"}, page : PageNums] \cup [type : {"ERASE"}]
         \cup [type : {"WRITE"}, page : PageNums, data : Data]

ReadAnswer(u, r) == [type |-> "READ", unit |-> u, page |-> r.page, data |-> r.data]
WriteAnswer(u, p) == [type |-> "WRITE", unit |-> u, page |-> p]

Erased == [p \in PageNums |-> NoData]

Init ==
    /\ mem = [u \in Units |-> Erased]
    /\ pending = [u \in Units |-> <<>>]
    /\ fetched = [u \in Units |-> <<>>]
    /\ answers = {}

Accept(u, op) ==
    /\ pending' = [pending EXCEPT ![u] = Append(@, op)]
    /\ answers' = {}
    /\ UNCHANGED <<mem, fetched>>

NextIs(type) == {u \in Units : pending[u] # <<>> /\ Head(pending[u]).type = type}

ReadCounts == {R \in [Units -> UNION {0 .. Len(fetched[u]) : u \in Units}] :
                 \A u \in Units : R[u] <= Len(fetched[u])}

(* The planes of F read, those of W store, those of E forget their pages;  *)
(* every plane u answers its R[u] oldest reads.  With a buffer a channel   *)
(* that is updated often returns several pages of one plane before the     *)
(* controller's next update answers them.                                  *)
Step(F, W, E, R) ==
    /\ pending' = [u \in Units |-> IF u \in F \cup W \cup E THEN Tail(pending[u])
                                   ELSE pending[u]]
    /\ mem' = [u \in Units |->
                 IF u \in W
                 THEN [mem[u] EXCEPT ![Head(pending[u]).page] = Head(pending[u]).data]
                 ELSE IF u \in E THEN Erased ELSE mem[u]]
    /\ fetched' = [u \in Units |->
                     SubSeq(fetched[u], R[u] + 1, Len(fetched[u]))
                     \o (IF u \in F
                         THEN <<[page |-> Head(pending[u]).page,
                                 data |-> mem[u][Head(pending[u]).page]]>>
                         ELSE <<>>)]
    /\ answers' = (UNION {{ReadAnswer(u, fetched[u][i]) : i \in 1 .. R[u]} : u \in Units})
                    \cup {WriteAnswer(u, Head(pending[u]).page) : u \in W}

Next ==
    \/ \E u \in Units, op \in Ops : Accept(u, op)
    \/ \E F \in SUBSET NextIs("READ"), W \in SUBSET NextIs("WRITE"),
          E \in SUBSET NextIs("ERASE"),
          R \in ReadCounts : Step(F, W, E, R)

Spec == Init /\ [][Next]_vars
=============================================================================
