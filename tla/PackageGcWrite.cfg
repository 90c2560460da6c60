\* A GC_WRITE, then a READ, on one plane.
SPECIFICATION Spec
CONSTANTS
    DIES_PER_PACKAGE = 1
    PLANES_PER_DIE = 1
    PageNums = {p1}
    Data = {x1}
    NoData = NoData
    CTRL_READ_QUEUE_LENGTH = 3
    COMMAND_BEATS = 1
    DATA_BEATS = 2
    READ_CYCLES = 1
    WRITE_CYCLES = 2
    ERASE_CYCLES = 3
    RETURN_CYCLES = 1
    GARBAGE_COLLECT = TRUE
    Commands = {"READ", "GC_WRITE"}
INVARIANTS ReadFindsRegister
CHECK_DEADLOCK FALSE
