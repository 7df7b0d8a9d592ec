CONSTANTS
    a = a
    b = b
    None = None
    Guests = {a}
    Faults = {"late"}
    MaxVms = 3
    MaxRuns = 3
    MaxPower = 5

SPECIFICATION FairSpec
INVARIANTS
    RunningDiskNotOverwritten
PROPERTIES
    BootsFaithfulCopy
    RunEnds
CHECK_DEADLOCK FALSE
