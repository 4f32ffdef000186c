CONSTANTS
    Tags <- MCIntegerTags
    MaxLen = 9
INIT Init
NEXT Decode
INVARIANTS DecodesSupported
CHECK_DEADLOCK FALSE
