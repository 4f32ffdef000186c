CONSTANTS
    Chars <- MCChars
    MaxLen = 5
    Width = 4
INIT Init
NEXT Parse
INVARIANTS TypeOK ParsesWellFormed
CHECK_DEADLOCK FALSE
