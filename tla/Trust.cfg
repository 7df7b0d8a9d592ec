CONSTANTS
    Null = Null
    r1 = r1
    r2 = r2
    r3 = r3
    Runs = {r1, r2, r3}
    Inputs <- MCInputs
    Thresholds <- MCThresholds
    Percent <- MCPercent
    MaxUnreadable <- MCMaxUnreadable
    sanitizeInstanceName <- MCSanitize
    Group <- MCGroup
    FaultCases <- MCFaultCases
    Orgs <- MCOrgs
    Projects <- MCProjects
    Accounts <- MCAccounts
    Repos <- MCRepos
    ScanItems <- MCItems
    StoredAs <- MCStoredAs
    GateRuns <- MCRuns
    GateFailures <- MCFailures
    GateChanges <- MCChanges

SPECIFICATION TrustSpec
INVARIANTS
    RisksCounted
    EdgesStored
    ReportAgrees
    EndpointsKnown
    GateExplained
    ScansTrue
CHECK_DEADLOCK FALSE
