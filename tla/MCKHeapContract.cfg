SPECIFICATION Spec
CONSTANTS
    PAGE = 32
    KHEAP_START = 32
    HEAP_INDEX_SIZE = 16
    HEAP_MIN_SIZE = 224
    HEAP_MAGIC = 4660
    WRAP <- MCWrap
    Garbage = {0}
    Data = {7}
    Scenarios <- AboveMinimum
INVARIANT LiveBelowEnd
CHECK_DEADLOCK FALSE
