------------------------------ MODULE HostWork -------------------------------
(***************************************************************************)
(* An illumos host: its diagnosis, or its datasets.  A behaviour exercises *)
(* one of the two models, part; the other stays in an initial state.       *)
(***************************************************************************)
EXTENDS HeliosZfs

CONSTANTS Parts, Hosts, MaxChecks, MaxChanges, MaxFailures

VARIABLES
    part,
    on, check, at, todo, readings, failed, seen, unopened, master, lingering, tempDirs,
    resources, about, checks, changes, failures

healthVars == <<on, check, at, todo, readings, failed, seen, unopened, master, lingering,
                tempDirs, resources, about, checks, changes, failures>>

Health == INSTANCE HostHealth WITH
    MaxCalls <- MaxChecks,
    host <- on, req <- check, phase <- at, got <- readings, calls <- checks

ASSUME HealthAssumption == Health!BoundsAssumption /\ Health!HostsAssumption

HostInit ==
    /\ part \in Parts
    /\ Init /\ Health!Init
    /\ part = "zfs" => on = CHOOSE h \in Hosts : TRUE

HostNext ==
    \/ part = "health" /\ Health!Next /\ UNCHANGED <<part, vars>>
    \/ part = "zfs" /\ Next /\ UNCHANGED <<part, healthVars>>

\* Every ssh ends, at its timeout if not before, and so does a master without
\* clients (ControlPersist=60s).  That a late command is carried out is not assumed.
HostSpec ==
    /\ HostInit /\ [][HostNext]_<<part, vars, healthVars>>
    /\ WF_healthVars(part = "health" /\ Health!Works)
    /\ WF_healthVars(part = "health" /\ Health!MasterEnds)
    /\ WF_vars(part = "zfs" /\ Steps)

-----------------------------------------------------------------------------
\* The verdict of an audit was so at some moment of the check, and passes over only
\* what is looked at later or could not be read; what lookup stores was so during its
\* run; between methods there is no session (health_check, deriveVerdict, lookup).
HealthTrue ==
    Health!TypeOK /\ Health!VerdictExplained /\ Health!InfoExplained /\ Health!SessionClosed

\* A dataset that dataset_create made is there until its destruction was asked for;
\* a recorded delegation is so; dataset_list leaves nothing out.
DatasetsTrue == TypeOK /\ GoneExplained /\ DelegationTrue /\ ListedAll

\* Every method comes to its end, and every master of a session with it or after it.
AtWork == phase # "idle" \/ at # "idle" \/ lingering > 0
EverythingEnds == AtWork ~> ~AtWork
=============================================================================
