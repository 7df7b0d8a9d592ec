CONSTANTS
    a = a
    b = b
    None = None
    Null = Null
    Guests = {a, b}
    Faults = {"late"}
    MaxVms = 2
    MaxRuns = 1
    MaxPower = 2

SPECIFICATION ReportSpec
PROPERTIES
    ImplementsCutover
    KeepsItsDisks
    CleanReportTrue
CHECK_DEADLOCK FALSE
