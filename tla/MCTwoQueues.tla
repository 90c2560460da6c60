----------------------------- MODULE MCTwoQueues -----------------------------
(* The FTL with two transaction queues under both options that have them:  *)
(* SCHEDULE, and PERFECT_SCHEDULE with IDLE_WRITE and DELAY_WRITE.  The    *)
(* options are read once, before the first step.                           *)
EXTENDS Ftl

VARIABLE perfect

Perfect == INSTANCE Ftl WITH SCHEDULE <- FALSE, PERFECT_SCHEDULE <- TRUE,
                             IDLE_WRITE <- TRUE, DELAY_WRITE <- TRUE

MCInit == Init /\ perfect \in BOOLEAN

PerfectStep == perfect /\ Perfect!Next /\ UNCHANGED perfect
ScheduledStep == ~perfect /\ Next /\ UNCHANGED perfect

MCNext == PerfectStep \/ ScheduledStep

MCUpdate == (perfect /\ Perfect!Update) \/ (~perfect /\ Update)

MCSpec ==
    /\ MCInit /\ [][MCNext]_<<vars, perfect>>
    /\ WF_vars(MCUpdate) /\ \A d \in Dies : WF_vars(Pop(d))
=============================================================================
