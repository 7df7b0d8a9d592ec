CONSTANTS
    a = a
    b = b
    None = None
    Guests = {a}
    Faults = {"late", "crash", "cleanup", "stray", "handmade", "rerun"}
    MaxVms = 3
    MaxRuns = 2
    MaxPower = 3

SPECIFICATION Spec
INVARIANTS
    NoTwoNics
    CopiesPoweredOffSource
PROPERTIES
    TornExplained
CHECK_DEADLOCK FALSE
