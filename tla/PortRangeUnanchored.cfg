CONSTANTS
    Chars <- MCChars
    MaxLen = 4
    Width = 4
INIT Init
NEXT Parse
INVARIANTS AcceptsOnlyWellFormed
CHECK_DEADLOCK FALSE
