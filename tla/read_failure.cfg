\* A read of a descriptor that is not open.
CONSTANTS
    Strings <- MCStrings
    Unterminated = Unterminated
    IntMax = 7
    Sessions = {s1}
    BufCap = 2
    Dirs <- MCDirs
    Inodes = {1}
    MaxFd = 5
    Inherited = {0, 1, 2, 4}
    MaxOffset = 1
    Uids <- MCUids
    Root = 0
    RealUid = 0
    Allowed <- MCAllowed
    InitialDir <- MCInitialDir
    NameOf <- MCNameOf
    UidOf <- MCUidOf
    HashOf <- MCHashOf
    NoHash = NoHash
    FSPrefix <- MCFSPrefix
    MaxDescriptor = 1
    MaxAlloc = 2
    ClientMessages <- LibraryMessages
    MaxProcs = 2
    SyscallsFail = FALSE
    Clients = {c1}
    ConnectArgs <- Alice
    Calls <- ReadCalls
    Reconnects = FALSE
    SignalsHandled = FALSE
    ClientsCrash = FALSE
SPECIFICATION Spec
INVARIANTS
    ReadFailsLikeRead
CHECK_DEADLOCK FALSE
