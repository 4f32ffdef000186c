CONSTANTS
    Tags <- MCStringTags
    MaxLen = 1
INIT Init
NEXT Decode
INVARIANTS DecodesSupported
CHECK_DEADLOCK FALSE
