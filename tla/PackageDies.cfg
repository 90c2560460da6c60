\* Two dies of one plane on one channel, queues of two packets, with writes,
\* reads and erases of one page.
SPECIFICATION FairSpec
CONSTANTS
    DIES_PER_PACKAGE = 2
    PLANES_PER_DIE = 1
    PageNums = {p1}
    Data = {x1}
    NoData = NoData
    CTRL_READ_QUEUE_LENGTH = 2
    COMMAND_BEATS = 1
    DATA_BEATS = 2
    READ_CYCLES = 1
    WRITE_CYCLES = 2
    ERASE_CYCLES = 3
    RETURN_CYCLES = 1
    GARBAGE_COLLECT = FALSE
    Commands = {"READ", "WRITE", "ERASE"}
INVARIANTS NeverAborts ChannelOwned CacheRegOwned
PROPERTIES ImplementsStore EveryCommandAnswered
