SPECIFICATION Spec
CONSTANTS
    LEN_BYTES = 3
    INT_BYTES = 3
    KEY_LEN = 2
    SIG_LEN = 3
    CaDetails <- MCCaDetails
    CaKey <- MCCaKey
    CaSignature <- MCCaSignature
    Requests <- MCRequests
    Foreign <- MCForeign
    Times = {126, 127, 128, 129, 32768, 32769}
    NewBytes = {1, 128, 129, 255}
    from_utf8 <- MCFromUtf8
INVARIANT AcceptedAsIssued
INVARIANT UnchangedIsExact
INVARIANT CutIsRejected
CHECK_DEADLOCK FALSE
