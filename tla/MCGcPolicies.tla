---------------------------- MODULE MCGcPolicies ----------------------------
(* The collector under SCHEDULE and under PERFECT_SCHEDULE; the option is  *)
(* read once, before the first step.                                       *)
EXTENDS MCGcRestart

VARIABLE perfect

Perfect == INSTANCE GcRestart WITH SCHEDULE <- FALSE, PERFECT_SCHEDULE <- TRUE

(* Bound: PERFECT_SCHEDULE answers the host for writes of the collector,   *)
(* which nobody waits for.                                                 *)
MaxUnasked == 2

MCInit == GcNvInit /\ perfect \in BOOLEAN

Bounded == \A a \in Addr : owed'["DATA_WRITE"][a] >= -MaxUnasked

PerfectStep == perfect /\ Perfect!GcNvNext /\ Bounded /\ UNCHANGED perfect
ScheduledStep == ~perfect /\ GcNvNext /\ UNCHANGED perfect

MCNext == PerfectStep \/ ScheduledStep

MCSpec == MCInit /\ [][MCNext]_<<allVars, nvVars, perfect>>
=============================================================================
