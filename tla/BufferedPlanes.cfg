\* Two planes behind one buffer that holds just a page in each direction, with
\* cut-through: packets pause halfway and pages wait for the channel.
SPECIFICATION FairSpec
CONSTANTS
    DIES_PER_PACKAGE = 1
    PLANES_PER_DIE = 2
    PageNums = {p1}
    Data = {x1}
    NoData = NoData
    CTRL_READ_QUEUE_LENGTH = 2
    READ_CYCLES = 1
    WRITE_CYCLES = 2
    ERASE_CYCLES = 3
    GARBAGE_COLLECT = FALSE
    Commands = {"READ", "WRITE"}
    CHANNEL_WIDTH = 1
    DEVICE_WIDTH = 1
    COMMAND_LENGTH = 1
    PAGE_LENGTH = 2
    IN_BUFFER_SIZE = 2
    OUT_BUFFER_SIZE = 2
    BUFFER_LOOKUP_CYCLES = 0
    DEVICE_CYCLES = 2
    CHANNEL_UPDATES = {1}
    CutThroughModes = {TRUE}
INVARIANTS BufferMatchesDie ChannelOwned
PROPERTIES EveryCommandAnswered
