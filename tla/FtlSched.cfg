\* Two queues on one die of three pages, with DISK_READ, under SCHEDULE and under
\* PERFECT_SCHEDULE with IDLE_WRITE and DELAY_WRITE (MCTwoQueues): queued writes
\* are replaced, reads overtake writes and are served from the write queue,
\* refused reads give way to the next one, unmapped reads write their page past
\* the controller, writes leave when one is queued or are answered at once.
SPECIFICATION MCSpec
CONSTANTS
    NUM_PACKAGES = 1
    DIES_PER_PACKAGE = 1
    PLANES_PER_DIE = 1
    BLOCKS_PER_PLANE = 1
    PAGES_PER_BLOCK = 3
    NV_PAGE_SIZE = 4
    Addr = {a1, a2}
    SCHEDULE = TRUE
    PERFECT_SCHEDULE = FALSE
    WRITE_ON_QUEUE_SIZE = TRUE
    IDLE_WRITE = FALSE
    DELAY_WRITE = FALSE
    DISK_READ = TRUE
    FTL_READ_QUEUE_LENGTH = 2
    FTL_WRITE_QUEUE_LENGTH = 2
    WRITE_QUEUE_LIMIT = 1
    CTRL_READ_QUEUE_LENGTH = 2
    LOOKUP_CYCLES = 1
    QUEUE_ACCESS_CYCLES = 1
    DELAY_WRITE_CYCLES = 1
    DEADLOCK_TIME = 2
INVARIANTS CurrentIsQueued EveryRequestAccounted MappedPagesUsed RetriesInStep MapInjective
PROPERTIES SomethingMoves
