SPECIFICATION Spec
CONSTANTS
    initial_esp = 20
    NEW_START = 60
    SIZE = 13
    Labels <- MCLabels
    MAX_TASKS = 3
INVARIANTS TypeOK FramesIntact QueueWhole ReadyToRun
PROPERTIES CallsReturn
CHECK_DEADLOCK FALSE
