\* Each logger with some of its operations and both ways of writing epochs, two
\* accesses of one page, epochs of two cycles.
SPECIFICATION Spec
CONSTANTS
    LogAddr = {a1, a2}
    LogPage = {p1}
    Configurations <- FourLoggers
    EPOCH_CYCLES = 1
    OpCurrent <- Current5
    Stale = Stale
    MaxCycles = 6
    MaxAccesses = 2
    SaveCycles = {2, 6}
SYMMETRY LogSymmetry
CHECK_DEADLOCK FALSE
INVARIANTS MaxIsMaxOfEpochs EpochFile LittlesLaw
PROPERTIES EpochsAddUp
