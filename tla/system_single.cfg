\* One client, with right and wrong passwords, and every operation: what it sees is a local process.
CONSTANTS
    Strings <- MCStrings
    Unterminated = Unterminated
    IntMax = 7
    Sessions = {s1}
    BufCap = 2
    Dirs <- MCDirs
    Inodes = {1, 2}
    MaxFd = 5
    Inherited = {0, 1, 2, 4}
    MaxOffset = 1
    Uids <- MCUids
    Root = 0
    RealUid = 0
    Allowed <- MCAllowed
    InitialDir <- MCInitialDir
    NameOf <- MCNameOf
    UidOf <- MCUidOf
    HashOf <- MCHashOf
    NoHash = NoHash
    FSPrefix <- MCFSPrefix
    MaxDescriptor = 2
    MaxAlloc = 2
    ClientMessages <- LibraryMessages
    MaxProcs = 2
    SyscallsFail = FALSE
    Clients = {c1}
    ConnectArgs <- Logins
    Calls <- AllCalls
    Reconnects = FALSE
    SignalsHandled = FALSE
    ClientsCrash = FALSE
SPECIFICATION Spec
INVARIANTS
    TypeOK
    AccessMeansAuthenticated
PROPERTIES
    ImplementsRemoteFiles
CHECK_DEADLOCK FALSE
