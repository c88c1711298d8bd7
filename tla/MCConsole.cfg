SPECIFICATION FairSpec
CONSTANTS
    COLUMNS = 5
    ROWS = 1
    BYTE = 4
    WORD = 16
    Welcome <- MCWelcome
    DIVISOR = 1
    LIMIT <- MCLimit
    Texts <- MCTexts
    Pressable <- MCPressable
    MAX_CALLS = 2
    MAX_KEYS = 2
    MAX_TICKS = 1
INVARIANTS TypeOK CursorShown KeyboardTracks SerialInOrder
PROPERTIES TimerHarmless KeysServed CallsReturn
