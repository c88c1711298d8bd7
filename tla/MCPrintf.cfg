SPECIFICATION Spec
CONSTANTS
    WORD = 256
    BUF = 5
    Formats <- MCFormats
    Args <- MCArgs
    Strings <- MCStrings
    Char <- MCChar
INVARIANTS TypeOK FormatInside FieldsExact TextsInOrder
CHECK_DEADLOCK FALSE
