\* A position that does not fit an int.
CONSTANTS
    Strings <- MCStrings
    Unterminated = Unterminated
    IntMax = 1
    Sessions = {s1}
    BufCap = 2
    Dirs <- MCDirs
    Inodes = {1}
    MaxFd = 5
    Inherited = {0, 1, 2, 4}
    MaxOffset = 4
    Uids <- MCUids
    Root = 0
    RealUid = 0
    Allowed <- MCAllowed
    InitialDir <- MCInitialDir
    NameOf <- MCNameOf
    UidOf <- MCUidOf
    HashOf <- MCHashOf
    NoHash = NoHash
    FSPrefix <- MCFSPrefix
    MaxDescriptor = 1
    MaxAlloc = 2
    ClientMessages <- LibraryMessages
    MaxProcs = 2
    SyscallsFail = FALSE
    Clients = {c1}
    ConnectArgs <- Alice
    Calls <- SeekCalls
    Reconnects = FALSE
    SignalsHandled = FALSE
    ClientsCrash = FALSE
SPECIFICATION Spec
INVARIANTS
    FailuresHaveErrno
CHECK_DEADLOCK FALSE
