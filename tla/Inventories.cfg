CONSTANTS
    Null = Null
    Parts = {"zones", "fleet", "omni", "json", "truenas"}
    za = za
    zb = zb
    net = net
    Zones = {za, zb}
    Links = {net}
    FaultCases <- ZoneFaultCases
    MaxCalls <- ZoneCalls
    MaxFailures <- ZoneFailures
    MaxRuns = 2
    MaxChanges = 1
    MaxErrors = 1
    Setups <- MCSetups
    FleetMoves <- MCMoves
    Kept = 2
    Machines = {"m1", "m2"}
    Clusters = {"Prod", "prod"}
    Slug <- ClusterSlug
    OmniFleets <- MCOmniFleets
    MaxOmniChanges = 2
    Objects <- Printable
    Separator <- Between
    MaxObjects = 3
    Hosts <- MCHosts
    GuestMoves <- MCGuestMoves
    IdSlug <- Same
    NoId = 0
    Endpoint = "endpoint"

SPECIFICATION InventoriesSpec
INVARIANTS
    ZonesProtected
    FleetTrue
    OmniTrue
    TruenasTrue
PROPERTIES
    RecordsTrue
CHECK_DEADLOCK FALSE
