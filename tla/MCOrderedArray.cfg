SPECIFICATION FairSpec
CONSTANTS
    Items = {a, b, c}
    NULL = NULL
    MaxSize = 3
    Keys <- MCKeys
INVARIANTS LoopInv
PROPERTIES ImplementsCalls OnlyRekeyUnsorts StaysInside CallsReturn
