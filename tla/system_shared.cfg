\* Two clients that write and lock the same file.
CONSTANTS
    Strings <- MCStrings
    Unterminated = Unterminated
    IntMax = 7
    Sessions = {s1, s2}
    BufCap = 2
    Dirs <- MCDirs
    Inodes = {1}
    MaxFd = 5
    Inherited = {0, 1, 2, 4}
    MaxOffset = 1
    Uids <- MCUids
    Root = 0
    RealUid = 0
    Allowed <- MCAllowed
    InitialDir <- MCInitialDir
    NameOf <- MCNameOf
    UidOf <- MCUidOf
    HashOf <- MCHashOf
    NoHash = NoHash
    FSPrefix <- MCFSPrefix
    MaxDescriptor = 1
    MaxAlloc = 2
    ClientMessages <- LibraryMessages
    MaxProcs = 2
    SyscallsFail = FALSE
    Clients = {c1, c2}
    ConnectArgs <- Alice
    Calls <- SharedCalls
    Reconnects = FALSE
    SignalsHandled = FALSE
    ClientsCrash = FALSE
SPECIFICATION Spec
INVARIANTS
    OneMessageAtATime
    AnswersMatchCalls
    OnlyCorrectCommunication
    LocksExclude
    OpenReturnsDescriptor
PROPERTIES
    ImplementsRemoteFiles
SYMMETRY Symmetry
CHECK_DEADLOCK FALSE
