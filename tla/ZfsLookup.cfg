CONSTANTS
    Null = Null
    Parts = {"zfs"}
    Names = {"rpool/zones", "rpool/zones/web"}
    Parent <- MCParent
    Tags = {"today"}
    Zones = {"web"}
    Quotas = {"10G"}
    MaxCalls = 2
    MaxLost = 0
    MaxOthers = 0
    Hosts <- MCHosts
    MaxChecks = 1
    MaxChanges = 0
    MaxFailures = 0

SPECIFICATION HostSpec
INVARIANTS
    LookupTellsZoned
CHECK_DEADLOCK FALSE
