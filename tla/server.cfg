\* One worker of a setuid-root server that bob has started, and a client that logs in right and wrong and sends anything.
CONSTANTS
    Strings <- MCStrings
    Unterminated = Unterminated
    IntMax = 7
    Sessions = {s1}
    BufCap = 1
    Dirs <- MCDirs
    Inodes = {1, 2}
    MaxFd = 5
    Inherited = {0, 1, 2, 4}
    MaxOffset = 1
    Uids <- MCUids
    Root = 0
    RealUid = 2
    Allowed <- MCAllowed
    InitialDir <- MCInitialDir
    NameOf <- MCNameOf
    UidOf <- MCUidOf
    HashOf <- MCHashOf
    NoHash = NoHash
    FSPrefix <- MCFSPrefix
    MaxDescriptor = 2
    MaxAlloc = 2
    ClientMessages <- ServerMessages
    MaxProcs = 1
    SyscallsFail = TRUE
    Words <- MCWords
    NumberOf <- MCNumberOf
    RestOf <- MCRestOf
    Directories <- MCDirs
SPECIFICATION ServerSpec
INVARIANTS
    ServerTypeOK
    IInv
    FilesOpenedAsUser
    DescriptorMapSound
    NoDescriptorLeak
    FailuresHaveErrno
    ConfigurationIsLoaded
PROPERTIES
    FilesChangeAsUser
    DescriptorsKeepTheirFile
CHECK_DEADLOCK FALSE
