----------------------------- MODULE MCEpochLog -----------------------------
(* Instance of EpochLog for TLC.                                           *)
EXTENDS EpochLog, TLC

Current5 == [READ |-> 1, WRITE |-> 2, ERASE |-> 3, GC_READ |-> 1, GC_WRITE |-> 2]
Config(k, rw, ops) == [kind |-> k, runtime_write |-> rw, ops |-> ops]
FourLoggers ==
    {Config("Logger", TRUE, {"READ", "WRITE"}),
     Config("P8PLogger", FALSE, {"WRITE"}),
     Config("GCLogger", FALSE, {"READ", "ERASE"}),
     Config("P8PGCLogger", TRUE, {"GC_READ", "GC_WRITE"})}

LogSymmetry == Permutations(LogAddr)
=============================================================================
