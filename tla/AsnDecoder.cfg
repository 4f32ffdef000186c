CONSTANTS
    Tags <- MCAllTags
    MaxLen = 9
INIT Init
NEXT Decode
INVARIANTS TagsAndErrors
CHECK_DEADLOCK FALSE
