CONSTANTS
    Chars <- MCChars
    MaxLen = 3
    Width = 4
INIT Init
NEXT Parse
INVARIANTS AcceptsNonEmptyRange
CHECK_DEADLOCK FALSE
