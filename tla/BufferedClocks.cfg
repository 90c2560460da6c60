\* One plane; the channel is updated twice per cycle or not at all, commands are
\* looked up, pages are stored first or cut through.
SPECIFICATION Spec
CONSTANTS
    DIES_PER_PACKAGE = 1
    PLANES_PER_DIE = 1
    PageNums = {p1}
    Data = {x1}
    NoData = NoData
    CTRL_READ_QUEUE_LENGTH = 2
    READ_CYCLES = 1
    WRITE_CYCLES = 2
    ERASE_CYCLES = 3
    GARBAGE_COLLECT = FALSE
    Commands = {"READ", "WRITE"}
    CHANNEL_WIDTH = 1
    DEVICE_WIDTH = 1
    COMMAND_LENGTH = 1
    PAGE_LENGTH = 2
    IN_BUFFER_SIZE = 3
    OUT_BUFFER_SIZE = 2
    BUFFER_LOOKUP_CYCLES = 1
    DEVICE_CYCLES = 3
    CHANNEL_UPDATES = {0, 2}
    CutThroughModes = {TRUE, FALSE}
INVARIANTS TypeOK NeverAborts SizesExact BufferMatchesController
PROPERTIES ImplementsStore
