SPECIFICATION LockSpec
CONSTANTS
    LockNodes = {"n1"}
    LockOps = {"upload1", "upload2", "scan1", "scan2"}
    NodeOf <- InOneProcess
    Within <- ScansWithin
    NestingsOf <- UploadKeys
    LockPoolSize = 1
    LockFaults = 0
INVARIANT NobodyStuck
CHECK_DEADLOCK FALSE
