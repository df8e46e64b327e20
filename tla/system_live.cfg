\* A client with a right and a wrong password that is interrupted, connects again and may die at any point, a listener that may fail and room for one worker: what the client waits for comes, and what it leaves is released.
CONSTANTS
    Strings <- MCStrings
    Unterminated = Unterminated
    IntMax = 7
    Sessions = {s1, s2}
    BufCap = 2
    Dirs <- MCDirs
    Inodes = {1}
    MaxFd = 5
    Inherited = {0, 1, 2, 4}
    MaxOffset = 1
    Uids <- MCUids
    Root = 0
    RealUid = 0
    Allowed <- MCAllowed
    InitialDir <- MCInitialDir
    NameOf <- MCNameOf
    UidOf <- MCUidOf
    HashOf <- MCHashOf
    NoHash = NoHash
    FSPrefix <- MCFSPrefix
    MaxDescriptor = 1
    MaxAlloc = 2
    ClientMessages <- LibraryMessages
    MaxProcs = 1
    SyscallsFail = TRUE
    Clients = {c1}
    ConnectArgs <- RightOrWrong
    Calls <- OneCall
    Reconnects = TRUE
    SignalsHandled = TRUE
    ClientsCrash = TRUE
SPECIFICATION FairSpec
PROPERTIES
    ImplementsServer
    CallsReturn
    FilesReleased
CHECK_DEADLOCK FALSE
