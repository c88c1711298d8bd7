SPECIFICATION FairSpec
CONSTANTS
    NFRAMES = 44
    PAGE_SIZE = 44
    ENTRIES = 6
    NTABLES = 6
    HEAP_FIRST = 16
    HEAP_INITIAL = 2
    HEAP_MIN = 2
    HEAP_MAX = 3
    STACK_TOP = 30
    STACK_PAGES = 2
    PLACEMENT = 50
    STALE <- NoStale
    MAX_DIRS = 3
PROPERTY CloneComplete
