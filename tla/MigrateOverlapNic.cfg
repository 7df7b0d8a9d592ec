CONSTANTS
    a = a
    b = b
    None = None
    Guests = {a, b}
    Faults = {"overlap"}
    MaxVms = 2
    MaxRuns = 1
    MaxPower = 2

SPECIFICATION Spec
INVARIANTS
    NoTwoNics
CHECK_DEADLOCK FALSE
