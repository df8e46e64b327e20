\* One direction of a connection: every message, partial transfers, signals and ends that die.
CONSTANTS
    Sessions = {}
    Strings = {}
    Unterminated = Unterminated
    IntMax = 127
    Base = 32
    HalfWord = 2
    Order = "little"
    Messages <- MCMessages
    WireCap = 3
    MaxAlloc = 12
    Signals = TRUE
SPECIFICATION FairTransfer
INVARIANTS
    TransferTypeOK
    RoundTrip
    NetworkOrder
PROPERTIES
    ImplementsChannel
    SendsReturn
    HandedOverArrives
CHECK_DEADLOCK FALSE
