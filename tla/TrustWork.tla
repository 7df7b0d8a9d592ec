------------------------------ MODULE TrustWork ------------------------------
(***************************************************************************)
(* The trust workflows.  A behaviour exercises one of these, part:         *)
(*   a group   runs of the build, the report and the gate, over what the   *)
(*             scans stored, all at once                                   *)
(*   "gate"    whole runs of the workflows, the scans included             *)
(* The other of the two models stays in one of its initial states.         *)
(***************************************************************************)
EXTENDS TrustGraph

CONSTANTS
    Group,      \* the runs at work together, by the name of the group
    FaultCases, Orgs, Projects, Accounts, Repos, ScanItems, StoredAs,   \* of TrustGate
    GateRuns, GateFailures, GateChanges

VARIABLES
    part,
    faults, world, stored, posture, running, scan, todo, notes, build, verdict,
    given, quiet, runs, failures, changes

gateVars == <<faults, world, stored, posture, running, scan, todo, notes, build, verdict,
              given, quiet, runs, failures, changes>>
workVars == <<part, vars, gateVars>>

Gate == INSTANCE TrustGate WITH
    Items <- ScanItems, Instance <- StoredAs,
    MaxRuns <- GateRuns, MaxFailures <- GateFailures, MaxChanges <- GateChanges,
    store <- stored, inventory <- posture, gate <- verdict, inputs <- given

ASSUME GateAssumption == Gate!Assumptions
ASSUME GroupAssumption == "gate" \notin DOMAIN Group /\ \A g \in DOMAIN Group : Group[g] \subseteq Runs

GateParked ==
    /\ faults = CHOOSE f \in FaultCases : TRUE
    /\ \A i \in ScanItems : world[i] = "absent"

TrustInit ==
    /\ part \in DOMAIN Group \cup {"gate"}
    /\ Init /\ Gate!Init
    /\ part # "gate" => GateParked

TrustNext ==
    \/ part # "gate" /\ (\E r \in Group[part] : Moves(r)) /\ UNCHANGED <<part, gateVars>>
    \/ part = "gate" /\ Gate!Next /\ UNCHANGED <<part, vars>>

TrustSpec == TrustInit /\ [][TrustNext]_workVars

-----------------------------------------------------------------------------
\* A scan that succeeds has stored or noted everything it was to read, and a gate that
\* passes after scans without notes has left no critical or high finding unseen.
ScansTrue == Gate!TypeOK /\ Gate!MissesNoted /\ Gate!GateSound
=============================================================================
