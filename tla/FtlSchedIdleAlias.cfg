\* Two queues with IDLE_WRITE: a refused write can be overtaken.
SPECIFICATION Spec
CONSTANTS
    NUM_PACKAGES = 2
    DIES_PER_PACKAGE = 1
    PLANES_PER_DIE = 1
    BLOCKS_PER_PLANE = 1
    PAGES_PER_BLOCK = 2
    NV_PAGE_SIZE = 4
    Addr = {a1, a2}
    SCHEDULE = TRUE
    PERFECT_SCHEDULE = FALSE
    WRITE_ON_QUEUE_SIZE = TRUE
    IDLE_WRITE = TRUE
    DELAY_WRITE = FALSE
    DISK_READ = FALSE
    FTL_READ_QUEUE_LENGTH = 2
    FTL_WRITE_QUEUE_LENGTH = 2
    WRITE_QUEUE_LIMIT = 2
    CTRL_READ_QUEUE_LENGTH = 2
    LOOKUP_CYCLES = 1
    QUEUE_ACCESS_CYCLES = 1
    DELAY_WRITE_CYCLES = 0
    DEADLOCK_TIME = 2
SYMMETRY AddrSymmetry
INVARIANTS MapInjective
