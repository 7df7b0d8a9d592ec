CONSTANTS
    Null = Null
    Parts = {"health", "zfs"}
    Names = {"rpool/zones", "rpool/zones/web"}
    Parent <- MCParent
    Tags = {"today"}
    Zones = {"web"}
    Quotas = {"10G"}
    MaxCalls = 3
    MaxLost = 1
    MaxOthers = 1
    Hosts <- MCHosts
    MaxChecks = 1
    MaxChanges = 1
    MaxFailures = 1

SPECIFICATION HostSpec
INVARIANTS
    HealthTrue
    DatasetsTrue
PROPERTIES
    EverythingEnds
CHECK_DEADLOCK FALSE
