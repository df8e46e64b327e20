\* A user at work next to a copy program, or the two clients of the acceptance test.
CONSTANTS
    Strings <- MCStrings
    Unterminated = Unterminated
    IntMax = 7
    Sessions = {c1, c2}
    c1 = c1
    c2 = c2
    Dirs <- MCDirs
    Inodes = {1, 2}
    MaxFd = 2
    Inherited = {}
    MaxOffset = 3
    Uids <- MCUids
    Root = 0
    RealUid = 0
    Allowed <- MCAllowed
    InitialDir <- MCInitialDir
    NameOf <- MCNameOf
    Users <- MCUsers
    Calls = {}
    Scenarios <- MCScenarios
    MaxTasks = 2
SPECIFICATION ApplicationsSpec
INVARIANTS
    ApplicationsTypeOK
    DownloadIsComplete
    SentBytesAreStored
    LockedWritesStayTogether
    TestFailsOnlyAtTheRace
CHECK_DEADLOCK FALSE
