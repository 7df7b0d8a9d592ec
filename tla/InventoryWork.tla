---------------------------- MODULE InventoryWork ----------------------------
(***************************************************************************)
(* What is recorded of hosts and guests.  A behaviour exercises one model, *)
(* part; the others stay in an initial state:                              *)
(*   "zones"    the zones and VNICs of an illumos host                     *)
(*   "fleet"    discoveries side by side and the report of what they wrote *)
(*   "omni"     the discovery of an Omni fleet                             *)
(*   "json"     what omnictl prints, split into its resources              *)
(*   "truenas"  the discovery of a TrueNAS host's guests                   *)
(***************************************************************************)
EXTENDS HeliosZone, Integers, FiniteSets

CONSTANTS
    Null,
    Parts,
    MaxRuns, MaxChanges, MaxErrors,
    Setups, FleetMoves, Kept,                                   \* of FleetReport
    Machines, Clusters, Slug, OmniFleets, MaxOmniChanges,       \* of OmniInventory
    Objects, Separator, MaxObjects,                             \* of OmnictlJson
    Hosts, GuestMoves, IdSlug, NoId, Endpoint                   \* of TruenasInventory

VARIABLES
    part,
    runs, changes, phase,
    setup, fleet, status, writing, handles, store, report, seen, lasting, others,
    omni, answers, merged, toWrite, nodes, clusters, omniSummary, registered, still,
    printed, text, pos, depth, start, inString, escaped, objects, parsing,
    backend, guests, raw, info, unwritten, vms, rollUp, outcome, queried

fleetVars == <<setup, fleet, status, writing, handles, store, report, seen, lasting, others>>
omniVars == <<omni, answers, merged, toWrite, nodes, clusters, omniSummary, registered, still>>
jsonVars == <<printed, text, pos, depth, start, inString, escaped, objects, parsing>>
truenasVars == <<backend, guests, raw, info, unwritten, vms, rollUp, outcome, queried>>
zoneVars == <<faults, host, method, data, ready, gaveUp, calls>>
shared == <<runs, changes, phase>>
workVars == <<part, vars, shared, fleetVars, omniVars, jsonVars, truenasVars>>

Fleet == INSTANCE FleetReport WITH
    Moves <- FleetMoves, MaxFailures <- MaxErrors, left <- writing

Omni == INSTANCE OmniInventory WITH
    Fleets <- OmniFleets, MaxChanges <- MaxOmniChanges, MaxFailures <- MaxErrors,
    got <- answers, left <- toWrite, summary <- omniSummary, lasting <- registered

Json == INSTANCE OmnictlJson WITH i <- pos, status <- parsing

Truenas == INSTANCE TruenasInventory WITH
    Moves <- GuestMoves, Slug <- IdSlug, Unknown <- NoId, MaxFailures <- MaxErrors,
    left <- unwritten, summary <- rollUp

ASSUME FleetAssumption == Fleet!Assumptions
ASSUME OmniAssumption == Omni!Assumptions /\ Json!Assumptions
ASSUME TruenasAssumption == Truenas!Assumptions

-----------------------------------------------------------------------------
\* One of the initial states, for a model that stays in it.
ZonesParked == faults = CHOOSE f \in FaultCases : TRUE
FleetParked == setup = (CHOOSE u \in Setups : TRUE) /\ fleet = CHOOSE f \in setup.fleets : TRUE
OmniParked == omni = CHOOSE o \in OmniFleets : TRUE
JsonParked == printed = << >>
TruenasParked == LET first == CHOOSE h \in Hosts : TRUE IN backend = first.backend /\ guests = first.guests

InventoriesInit ==
    /\ part \in Parts
    /\ (part # "zones" => ZonesParked) /\ Init
    /\ (part # "fleet" => FleetParked) /\ Fleet!Init
    /\ (part # "omni" => OmniParked) /\ Omni!Init
    /\ (part # "json" => JsonParked) /\ Json!Init
    /\ (part # "truenas" => TruenasParked) /\ Truenas!Init

InventoriesNext ==
    \/ part = "zones" /\ Next /\ UNCHANGED <<part, shared, fleetVars, omniVars, jsonVars, truenasVars>>
    \/ part = "fleet" /\ Fleet!Next /\ UNCHANGED <<part, zoneVars, phase, omniVars, jsonVars, truenasVars>>
    \/ part = "omni" /\ Omni!Next /\ UNCHANGED <<part, zoneVars, fleetVars, jsonVars, truenasVars>>
    \/ part = "json" /\ Json!Next /\ UNCHANGED <<part, zoneVars, failures, shared, fleetVars, omniVars, truenasVars>>
    \/ part = "truenas" /\ Truenas!Next /\ UNCHANGED <<part, zoneVars, fleetVars, omniVars, jsonVars>>

InventoriesSpec == InventoriesInit /\ [][InventoriesNext]_workVars

-----------------------------------------------------------------------------
\* The report of the fleet drops no guest untold and has no row that is made up or
\* old; it has one row per name, the one that tells most (report, dedupeRows).
FleetTrue ==
    part = "fleet" =>
       Fleet!TypeOK /\ Fleet!ShownAll /\ Fleet!RowsExplained /\ Fleet!OneRichRow

\* An Omni inventory that completes has every machine that stayed, a summary of records
\* that are there, counts that add up and notes of what does not fit (discover), and what
\* omnictl prints is parsed whole or not at all (parseOmnictlJson).
OmniTrue ==
    /\ part = "omni" =>
          /\ Omni!TypeOK /\ Omni!DiscoveredAll /\ Omni!SummaryLast /\ Omni!CountsAgree
          /\ Omni!NotesExplained
    /\ part = "json" => Json!TypeOK /\ Json!ParsedWhole

\* A TrueNAS inventory that completes has one record for each VM; its roll-up stands
\* for records that are there; pinned CPUs are counted right (discover, parseCpuCount).
TruenasTrue ==
    part = "truenas" =>
       /\ Truenas!TypeOK /\ Truenas!DiscoveredAll /\ Truenas!SummaryTrue
       /\ Truenas!CpusCounted
=============================================================================
