CONSTANTS
    FaultCases <- AnyFaults
    DiskSize = 4
    BlockSize = 2
    Buffer = 4
    StreamModes = {"direct", "relay"}
    ExpectedSizes <- SizesGiven
    StreamFaults = {"read", "write", "unzip", "zip", "net", "slow"}
    Guests <- TwoGuests
    Scripts <- ThreeScripts
    GuestOf <- FirstTwice
    Layouts <- BothLayouts
    EditFaultCases <- EditFaults
    g1 = g1
    g2 = g2
    None = None
    EditModes = {"nbd", "local"}

SPECIFICATION WorkSpec
INVARIANTS
    LeftoverExplained
    SuccessIsComplete
    CopyTrue
    EditsTrue
PROPERTIES
    ReturnsOnceStarted
    CopyEnds
CHECK_DEADLOCK FALSE
