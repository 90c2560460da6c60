\* A collection next to host writes, one process: is every request kept?
SPECIFICATION GcNvSpec
CONSTANTS
    NUM_PACKAGES = 1
    DIES_PER_PACKAGE = 1
    PLANES_PER_DIE = 1
    BLOCKS_PER_PLANE = 2
    PAGES_PER_BLOCK = 2
    NV_PAGE_SIZE = 4
    Addr = {a1, a2}
    SCHEDULE = FALSE
    PERFECT_SCHEDULE = FALSE
    WRITE_ON_QUEUE_SIZE = FALSE
    IDLE_WRITE = FALSE
    DELAY_WRITE = FALSE
    DISK_READ = FALSE
    FTL_READ_QUEUE_LENGTH = 1
    FTL_WRITE_QUEUE_LENGTH = 2
    WRITE_QUEUE_LIMIT = 2
    CTRL_READ_QUEUE_LENGTH = 2
    LOOKUP_CYCLES = 1
    QUEUE_ACCESS_CYCLES = 1
    DELAY_WRITE_CYCLES = 0
    DEADLOCK_TIME = 2
    VirtualPages = 2
    ForcePages = 2
    IdlePages = 0
    MaxDirtyCount = 3
    CounterRange = 16
    MaxRestarts = 0
    NoSave = NoSave
SYMMETRY AddrSymmetry
INVARIANTS EveryRequestAccounted
CHECK_DEADLOCK FALSE
