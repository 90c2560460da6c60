\* One transaction queue (SCHEDULE = 0) over one die of three pages, two host
\* addresses, a controller queue that takes two DATA and WRITE pairs; one save
\* and one restart at any moment.
SPECIFICATION FairNvSpec
CONSTANTS
    NUM_PACKAGES = 1
    DIES_PER_PACKAGE = 1
    PLANES_PER_DIE = 1
    BLOCKS_PER_PLANE = 1
    PAGES_PER_BLOCK = 3
    NV_PAGE_SIZE = 4
    Addr = {a1, a2}
    SCHEDULE = FALSE
    PERFECT_SCHEDULE = FALSE
    WRITE_ON_QUEUE_SIZE = FALSE
    IDLE_WRITE = FALSE
    DELAY_WRITE = FALSE
    DISK_READ = FALSE
    FTL_READ_QUEUE_LENGTH = 2
    FTL_WRITE_QUEUE_LENGTH = 2
    WRITE_QUEUE_LIMIT = 2
    CTRL_READ_QUEUE_LENGTH = 4
    LOOKUP_CYCLES = 1
    QUEUE_ACCESS_CYCLES = 1
    DELAY_WRITE_CYCLES = 0
    DEADLOCK_TIME = 2
    MaxRestarts = 1
    NoSave = NoSave
    Nobody = Nobody
    Addr0 = Addr0
INVARIANTS TypeOK NoLostWakeup MappedPageHoldsData ReadsFindData UsedPagesAreMapped
PROPERTIES ReadQueueMoves
