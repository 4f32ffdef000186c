CONSTANTS
    Tags <- MCRelativeOidTags
    MaxLen = 1
INIT Init
NEXT Decode
INVARIANTS DecodesSupported
CHECK_DEADLOCK FALSE
