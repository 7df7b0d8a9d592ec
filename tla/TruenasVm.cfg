CONSTANTS
    zv = zv
    mac = mac
    n1 = n1
    n2 = n2
    a = a
    b = b
    Zvols = {zv}
    Macs = {mac}
    Names = {n1, n2}
    Sizes = {1, 2}
    Unsized = Unsized
    Callers = {a, b}
    FaultCases <- MCFaultCases
    MaxCalls <- MCMaxCalls
    MaxIds = 5

SYMMETRY CallersAlike
SPECIFICATION Spec
INVARIANTS
    NoTwins
    AnswersTrue
PROPERTIES
    SparesUnmanaged
CHECK_DEADLOCK FALSE
