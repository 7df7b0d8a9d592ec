CONSTANTS
    a = a
    b = b
    Keys = {"host", "*.host"}
    Types = {"A", "AAAA"}
    Names <- MCNames
    Instance <- Sanitized
    Values = {v1, v2}
    Callers = {a, b}
    FaultCases <- MCFaultCases
    MaxCalls <- MCMaxCalls
    MaxEdits = 1

SYMMETRY CallersAlike
SPECIFICATION Spec
INVARIANTS
    OneRecordPerName
    ListsTrue
PROPERTIES
    TwinsRaced
    ImplementsRecordMap
CHECK_DEADLOCK FALSE
