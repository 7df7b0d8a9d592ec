--------------------------- MODULE HostWorkProofs ---------------------------
(***************************************************************************)
(* Proofs about the models of an illumos host: of its datasets             *)
(* (DatasetsAreTrue), and of the diagnostics (VerdictsAreTrue), for which  *)
(* it is shown what the library's sum of a function gives.                 *)
(***************************************************************************)
EXTENDS HostWork, FiniteSetTheorems, SequenceTheorems, WellFoundedInduction, TLAPS

-----------------------------------------------------------------------------
(* Datasets: the commands, and what they do to the host.                   *)

Dataset == [type : Types, quota : Quotas \cup {Null}, zone : Zones \cup {Null}, used : Sizes]
Commands ==
    [cmd : {"create"}, d : Names, quota : Quotas \cup {Null}]
      \cup [cmd : {"destroy"}, d : Names, recursive : BOOLEAN]
      \cup [cmd : {"destroySnapshot"}, d : Names, tag : Tags]
      \cup [cmd : {"snapshot"}, d : Names, tag : Tags, recursive : BOOLEAN]
      \cup [cmd : {"zone"}, d : Names, zone : Zones]
      \cup [cmd : {"scrub"}]
Commanding ==
    {"dataset_create", "dataset_destroy", "snapshot_create", "snapshot_destroy", "delegate", "pool_scrub"}

HostTypes ==
    /\ DOMAIN datasets \subseteq Names
    /\ datasets \in [DOMAIN datasets -> Dataset]
    /\ \A n \in DOMAIN datasets : Parent[n] = Null \/ Parent[n] \in DOMAIN datasets
    /\ \A x \in snapshots : x[1] \in DOMAIN datasets /\ x[2] \in Tags

\* What a request asks for is a command.
LEMMA CommandTyped ==
    ASSUME NEW r \in Requests, r.op \in Commanding
    PROVE  Command(r) \in Commands
<1> USE DEF Requests, Commanding, Commands
<1>1. CASE r.op = "dataset_create"
    <2>1. Command(r) = [cmd |-> "create", d |-> r.d, quota |-> r.quota]
        BY <1>1 DEF Command
    <2>2. r.d \in Names /\ r.quota \in Quotas \cup {Null}
        BY <1>1
    <2> QED BY <2>1, <2>2
<1>2. CASE r.op = "dataset_destroy"
    <2>1. Command(r) = [cmd |-> "destroy", d |-> r.d, recursive |-> r.recursive]
        BY <1>2 DEF Command, destroy
    <2>2. r.d \in Names /\ r.recursive \in BOOLEAN
        BY <1>2
    <2> QED BY <2>1, <2>2
<1>3. CASE r.op = "snapshot_create"
    <2>1. Command(r) = [cmd |-> "snapshot", d |-> r.d, tag |-> r.tag, recursive |-> r.recursive]
        BY <1>3 DEF Command
    <2>2. r.d \in Names /\ r.tag \in Tags /\ r.recursive \in BOOLEAN
        BY <1>3
    <2> QED BY <2>1, <2>2
<1>4. CASE r.op = "snapshot_destroy"
    <2>1. r.d \in Names /\ r.tag \in Tags \cup {Null}
        BY <1>4
    <2>2. CASE r.tag = Null
        <3>1. Command(r) = [cmd |-> "destroy", d |-> r.d, recursive |-> FALSE]
            BY <1>4, <2>2 DEF Command
        <3> QED BY <2>1, <3>1
    <2>3. CASE r.tag # Null
        <3>1. Command(r) = [cmd |-> "destroySnapshot", d |-> r.d, tag |-> r.tag]
            BY <1>4, <2>3 DEF Command
        <3> QED BY <2>1, <2>3, <3>1
    <2> QED BY <2>2, <2>3
<1>5. CASE r.op = "delegate"
    <2>1. Command(r) = [cmd |-> "zone", d |-> r.d, zone |-> r.zone]
        BY <1>5 DEF Command
    <2>2. r.d \in Names /\ r.zone \in Zones
        BY <1>5
    <2> QED BY <2>1, <2>2
<1>6. CASE r.op = "pool_scrub"
    BY <1>6 DEF Command
<1> QED BY <1>1, <1>2, <1>3, <1>4, <1>5, <1>6

\* A dataset is below itself, and what lies in one that is below is below.
LEMMA UnderSteps ==
    ASSUME NEW d \in Names
    PROVE  /\ Under(d, d)
           /\ \A n \in Names : Under(Parent[n], d) => Under(n, d)
BY DEF Under, Closed

\* The zone of a dataset.
Zoned(d, z) == d \in DOMAIN datasets /\ datasets[d].zone = z

\* What every step does to the host: nothing goes but what is destroyed, and no
\* delegation is taken back.
HostMoves ==
    /\ HostTypes'
    /\ destroyed \subseteq destroyed' /\ lasting' \subseteq lasting
    /\ lasting' \subseteq DOMAIN datasets'
    /\ \A d \in DOMAIN datasets : d \in DOMAIN datasets' \/ d \in destroyed'
    /\ \A d, z : z # Null /\ Zoned(d, z) => (Zoned(d, z)' \/ d \in destroyed')

LEMMA CreateMoves ==
    ASSUME HostTypes, lasting \subseteq DOMAIN datasets, NEW d \in Names, NEW type \in Types,
           NEW quota \in Quotas \cup {Null}, d \notin DOMAIN datasets,
           Parent[d] = Null \/ Parent[d] \in DOMAIN datasets,
           datasets' = Created(d, type, quota), snapshots' = snapshots,
           destroyed' = destroyed, lasting' = lasting
    PROVE  HostMoves /\ d \in DOMAIN datasets' /\ DOMAIN datasets \subseteq DOMAIN datasets'
<1> DEFINE new == [type |-> type, quota |-> quota, zone |-> Null, used |-> "24K"]
<1>1. new \in Dataset
    BY DEF Dataset, Sizes
<1>2. datasets' = [m \in DOMAIN datasets \cup {d} |-> IF m = d THEN new ELSE datasets[m]]
    BY DEF Created, Put
<1> HIDE DEF new
<1>3. DOMAIN datasets' = DOMAIN datasets \cup {d} /\ \A m \in DOMAIN datasets : datasets'[m] = datasets[m]
    BY <1>2
<1>4. datasets' \in [DOMAIN datasets' -> Dataset]
    BY <1>1, <1>2 DEF HostTypes
<1> QED BY <1>3, <1>4 DEF HostTypes, HostMoves, Zoned

LEMMA DestroyMoves ==
    ASSUME HostTypes, lasting \subseteq DOMAIN datasets, NEW c, c.cmd = "destroy", c.d \in Names,
           c.recursive \in BOOLEAN, Works(c), Effect(c)
    PROVE  HostMoves /\ DOMAIN datasets' = DOMAIN datasets \ Victims(c)
<1> DEFINE V == Victims(c)
<1>1. /\ datasets' = [n \in DOMAIN datasets \ V |-> datasets[n]]
      /\ snapshots' = snapshots \ SnapshotsOf(V)
      /\ destroyed' = destroyed \cup V /\ lasting' = lasting \ V
    BY DEF Effect, Takes
<1>2. ASSUME NEW n \in DOMAIN datasets, Parent[n] \in V PROVE n \in V
    <2>1. c.d \in DOMAIN datasets /\ (~c.recursive => Below(c.d) = {c.d})
        BY DEF Works
    <2>2. V = Below(c.d)
        <3>1. CASE c.recursive
            BY <3>1 DEF Victims
        <3>2. CASE ~c.recursive
            BY <3>2, <2>1 DEF Victims
        <3> QED BY <3>1, <3>2
    <2>3. Under(Parent[n], c.d) /\ n \in Names
        BY <1>2, <2>2 DEF Below, HostTypes
    <2> QED BY <2>2, <2>3, UnderSteps DEF Below
<1> HIDE DEF V
<1>3. DOMAIN datasets' = DOMAIN datasets \ V /\ \A n \in DOMAIN datasets' : datasets'[n] = datasets[n]
    BY <1>1
<1>4. datasets' \in [DOMAIN datasets' -> Dataset]
    BY <1>1, <1>3 DEF HostTypes
<1>5. \A n \in DOMAIN datasets' : Parent[n] = Null \/ Parent[n] \in DOMAIN datasets'
    BY <1>2, <1>3 DEF HostTypes
<1>6. \A x \in snapshots' : x[1] \in DOMAIN datasets' /\ x[2] \in Tags
    BY <1>1, <1>3 DEF HostTypes, SnapshotsOf
<1>7. HostTypes'
    BY <1>3, <1>4, <1>5, <1>6 DEF HostTypes
<1> QED BY <1>1, <1>3, <1>7 DEF HostMoves, Zoned, V

LEMMA ZoneMoves ==
    ASSUME HostTypes, lasting \subseteq DOMAIN datasets, NEW c, c.cmd = "zone", c.zone \in Zones,
           Works(c), Effect(c)
    PROVE  HostMoves /\ Zoned(c.d, c.zone)' /\ DOMAIN datasets' = DOMAIN datasets
<1>1. /\ datasets' = [datasets EXCEPT ![c.d].zone = c.zone]
      /\ snapshots' = snapshots /\ destroyed' = destroyed /\ lasting' = lasting
    BY DEF Effect, Takes
<1>2. c.d \in DOMAIN datasets /\ datasets[c.d].zone = Null
    BY DEF Works
<1>3. datasets[c.d] \in Dataset
    BY <1>2 DEF HostTypes
<1>4. [datasets[c.d] EXCEPT !.zone = c.zone] \in Dataset /\ [datasets[c.d] EXCEPT !.zone = c.zone].zone = c.zone
    BY <1>3 DEF Dataset
<1>5. /\ DOMAIN datasets' = DOMAIN datasets
      /\ datasets'[c.d] = [datasets[c.d] EXCEPT !.zone = c.zone]
      /\ \A n \in DOMAIN datasets : n # c.d => datasets'[n] = datasets[n]
    BY <1>1, <1>2
<1>6. datasets' \in [DOMAIN datasets' -> Dataset]
    <2>1. \A n \in DOMAIN datasets' : datasets'[n] \in Dataset
        BY <1>4, <1>5 DEF HostTypes
    <2>2. datasets' = [n \in DOMAIN datasets' |-> datasets'[n]]
        BY <1>1 DEF HostTypes
    <2> QED BY <2>1, <2>2
<1> QED BY <1>1, <1>2, <1>4, <1>5, <1>6 DEF HostTypes, HostMoves, Zoned

LEMMA OtherMoves ==
    ASSUME HostTypes, lasting \subseteq DOMAIN datasets, NEW c \in Commands,
           c.cmd \in {"destroySnapshot", "snapshot", "scrub"}, Works(c), Effect(c)
    PROVE  HostMoves /\ datasets' = datasets
<1>1. datasets' = datasets /\ destroyed' = destroyed /\ lasting' = lasting
    BY DEF Effect, Takes
<1>2. \A x \in snapshots' : x[1] \in DOMAIN datasets /\ x[2] \in Tags
    <2>1. CASE c.cmd = "destroySnapshot"
        <3>1. snapshots' = snapshots \ {<<c.d, c.tag>>}
            BY <2>1 DEF Effect
        <3> QED BY <3>1 DEF HostTypes
    <2>2. CASE c.cmd = "snapshot"
        <3>1. snapshots' = snapshots \cup {<<n, c.tag>> : n \in Victims(c)}
            BY <2>2 DEF Effect
        <3>2. c.d \in DOMAIN datasets /\ c.tag \in Tags
            BY <2>2 DEF Works, Commands
        <3>3. Victims(c) \subseteq DOMAIN datasets
            BY <3>2 DEF Victims, Below
        <3> QED BY <3>1, <3>2, <3>3 DEF HostTypes
    <2>3. CASE c.cmd = "scrub"
        <3>1. snapshots' = snapshots
            BY <2>3 DEF Effect
        <3> QED BY <3>1 DEF HostTypes
    <2> QED BY <2>1, <2>2, <2>3
<1> QED BY <1>1, <1>2 DEF HostTypes, HostMoves, Zoned

\* A command that works.
LEMMA EffectMoves ==
    ASSUME HostTypes, lasting \subseteq DOMAIN datasets, NEW c \in Commands, Works(c), Effect(c)
    PROVE  /\ HostMoves
           /\ \A d \in DOMAIN datasets \ Takes(c) : d \in DOMAIN datasets'
           /\ c.cmd = "create" => c.d \in DOMAIN datasets'
           /\ c.cmd = "zone" => Zoned(c.d, c.zone)'
<1>1. CASE c.cmd = "create"
    <2>1. c.d \in Names /\ c.quota \in Quotas \cup {Null} /\ "filesystem" \in Types
        BY <1>1 DEF Commands, Types
    <2>2. /\ datasets' = Created(c.d, "filesystem", c.quota) /\ snapshots' = snapshots
          /\ destroyed' = destroyed /\ lasting' = lasting
        BY <1>1 DEF Effect, Takes
    <2>3. c.d \notin DOMAIN datasets /\ (Parent[c.d] = Null \/ Parent[c.d] \in DOMAIN datasets)
        BY <1>1 DEF Works
    <2> QED BY <1>1, <2>1, <2>2, <2>3, CreateMoves
<1>2. CASE c.cmd = "destroy"
    <2>1. c.d \in Names /\ c.recursive \in BOOLEAN
        BY <1>2 DEF Commands
    <2>2. Takes(c) = Victims(c)
        BY <1>2 DEF Takes
    <2> QED BY <1>2, <2>1, <2>2, DestroyMoves
<1>3. CASE c.cmd = "zone"
    <2>1. c.zone \in Zones
        BY <1>3 DEF Commands
    <2> QED BY <1>3, <2>1, ZoneMoves
<1>4. CASE c.cmd \in {"destroySnapshot", "snapshot", "scrub"}
    BY <1>4, OtherMoves
<1> QED BY <1>1, <1>2, <1>3, <1>4 DEF Commands


-----------------------------------------------------------------------------
(* Datasets: the inductive invariant.                                      *)

ReadOps == {"dataset_list", "dataset_lookup", "pool_status", "dataset_create", "snapshot_create", "delegate"}
DatasetOps == {"dataset_list", "dataset_lookup", "dataset_create", "delegate"}

\* A method is at a step that its code has, and what is late was asked for.
StepTypes ==
    /\ req \in Requests \cup {NoCall}
    /\ outcome \in {"none", "running", "ok", "failed", "refused"}
    /\ (phase = "idle") <=> (outcome # "running")
    /\ \/ phase = "idle"
       \/ phase = "probe" /\ req \in Requests /\ req.op = "dataset_destroy"
       \/ phase = "command" /\ req \in Requests /\ req.op \in Commanding
       \/ phase = "read" /\ req \in Requests /\ req.op \in ReadOps
       \/ phase = "status" /\ req \in Requests /\ req.op = "pool_status"
       \/ phase = "write" /\ req \in Requests /\ req.op \in ReadOps
    /\ phase = "write" /\ req.op \in DatasetOps => DOMAIN got \subseteq Names
    /\ DOMAIN records = {"dataset", "snapshot", "pool"}
    /\ DOMAIN records.dataset \subseteq Names
LateTypes ==
    late \subseteq Commands /\ IsFiniteSet(late) /\ lost \in Nat /\ Cardinality(late) <= lost

\* No destruction is under way that was not asked for.
MadeInv ==
    /\ GoneExplained
    /\ (phase \in {"probe", "command"} /\ req.op = "dataset_destroy") => made \cap Asked(req) = {}

\* A delegation is so when it is read back, when it is to be written, and when it is recorded.
True(d, z) == z # Null => Zoned(d, z) \/ d \in destroyed
DelegInv ==
    /\ \A d \in DOMAIN records.dataset : True(d, records.dataset[d].delegatedTo)
    /\ (phase = "write" /\ req.op \in DatasetOps) => \A d \in DOMAIN got : True(d, got[d].delegatedTo)
    /\ (phase = "read" /\ req.op = "delegate") => True(req.d, req.zone)

\* What has been there since a listing began is in its answer, until it has its record.
ByList(d) == d \in DOMAIN records.dataset /\ records.dataset[d].by = "list"
ListInv ==
    /\ lasting \subseteq DOMAIN datasets
    /\ (phase = "write" /\ req.op = "dataset_list") =>
          /\ \A d \in DOMAIN got : got[d].by = "list"
          /\ \A d \in lasting : d \in DOMAIN got \/ ByList(d)
    /\ ListedAll

ZfsInv == HostTypes /\ StepTypes /\ LateTypes /\ MadeInv /\ DelegInv /\ ListInv

LEMMA ZfsInvInit == ASSUME Init PROVE ZfsInv
<1> USE DEF Init
<1>1. PICK S \in SUBSET Names :
         /\ \A n \in S : Parent[n] = Null
         /\ datasets \in [S -> [type : {"filesystem"}, quota : {Null}, zone : {Null}, used : {"24K"}]]
    <2> DEFINE S == {n \in Names : Parent[n] = Null}
    <2>1. S \in SUBSET Names /\ \A n \in S : Parent[n] = Null
        OBVIOUS
    <2> QED BY <2>1
<1>2. HostTypes
    BY <1>1 DEF HostTypes, Dataset, Types, Sizes
<1>3. StepTypes
    BY DEF StepTypes, Empty
<1>4. LateTypes
    BY FS_EmptySet, BoundsAssumption DEF LateTypes
<1>5. MadeInv /\ ListInv
    BY DEF MadeInv, ListInv, GoneExplained, ListedAll
<1>6. DelegInv
    BY DEF DelegInv, Empty
<1> QED BY <1>2, <1>3, <1>4, <1>5, <1>6 DEF ZfsInv

\* Where the host is left alone.
LEMMA HostStays ==
    ASSUME HostTypes, lasting \subseteq DOMAIN datasets, UNCHANGED host,
           destroyed' = destroyed, lasting' = lasting
    PROVE  HostMoves /\ datasets' = datasets
BY DEF HostMoves, HostTypes, Zoned, host

\* What is recorded of delegations stays so.
LEMMA TrueKept ==
    ASSUME HostMoves, NEW d, NEW z, True(d, z)
    PROVE  True(d, z)'
BY DEF HostMoves, True

\* The answer that was given up on.
LEMMA LateGrows ==
    ASSUME LateTypes, NEW c \in Commands
    PROVE  /\ IsFiniteSet(late \cup {c}) /\ Cardinality(late \cup {c}) <= lost + 1
           /\ IsFiniteSet(late \ {c}) /\ Cardinality(late \ {c}) <= lost
<1> USE DEF LateTypes
<1>1. Cardinality(late) \in Nat
    BY FS_CardinalityType
<1>2. IsFiniteSet(late \cup {c}) /\ Cardinality(late \cup {c}) <= Cardinality(late) + 1
    <2>1. /\ IsFiniteSet(late \cup {c})
          /\ Cardinality(late \cup {c}) = IF c \in late THEN Cardinality(late) ELSE Cardinality(late) + 1
        BY FS_AddElement
    <2> QED BY <2>1, <1>1
<1>3. Cardinality(late \cup {c}) \in Nat
    BY <1>2, FS_CardinalityType
<1>4. late \ {c} \subseteq late
    OBVIOUS
<1>5. IsFiniteSet(late \ {c}) /\ Cardinality(late \ {c}) <= Cardinality(late)
    BY <1>4, FS_Subset
<1>6. Cardinality(late \ {c}) \in Nat
    BY <1>5, FS_CardinalityType
<1> QED BY <1>1, <1>2, <1>3, <1>5, <1>6

-----------------------------------------------------------------------------
(* Datasets: the steps.                                                    *)

LEMMA CallKept == ASSUME ZfsInv, NEW r \in Requests, Call(r) PROVE ZfsInv'
<1> USE DEF ZfsInv
<1>1. /\ phase = "idle" /\ req' = r /\ made' = made \ Asked(r) /\ lasting' = DOMAIN datasets
      /\ UNCHANGED <<host, late, records, struck, destroyed, lost, others>>
      /\ got' = Empty
    BY DEF Call
<1>2. HostTypes' /\ LateTypes'
    BY <1>1 DEF HostTypes, LateTypes, host
<1>3. \/ phase' = "idle" /\ outcome' = "failed"
      \/ phase' = First(r.op) /\ outcome' = "running"
    BY DEF Call
<1>4. /\ (r.op \in {"dataset_list", "dataset_lookup", "pool_status"}) => First(r.op) = "read"
      /\ (r.op = "dataset_destroy") => First(r.op) = "probe"
      /\ (r.op \in Commanding \ {"dataset_destroy"}) => First(r.op) = "command"
    BY DEF First, Commanding
<1>5. r.op \in {"dataset_list", "dataset_lookup", "pool_status"} \cup Commanding
    BY DEF Requests, Commanding
<1>6. StepTypes'
    BY <1>1, <1>3, <1>4, <1>5 DEF StepTypes, Commanding, ReadOps, Empty
<1>7. MadeInv'
    BY <1>1 DEF MadeInv, GoneExplained, host, Asked
<1>8. phase' # "write" /\ (phase' = "read" => r.op # "delegate") /\ outcome' # "ok"
    BY <1>3, <1>4, <1>5 DEF Commanding
<1>9. DelegInv'
    <2>1. UNCHANGED <<datasets, destroyed, records>>
        BY <1>1 DEF host
    <2> QED BY <1>1, <1>8, <2>1 DEF DelegInv, True, Zoned
<1>10. ListInv'
    BY <1>1, <1>8 DEF ListInv, ListedAll, host
<1> QED BY <1>2, <1>6, <1>7, <1>9, <1>10

\* A step after which the method is at another point, and all else is as it was.
LEMMA OnlyTheStep ==
    ASSUME ZfsInv, UNCHANGED <<host, req, late, records, history>>, lost' \in {lost, lost + 1},
           StepTypes', phase' # "write", phase' # "read",
           (phase' \in {"probe", "command"} /\ req.op = "dataset_destroy") => phase \in {"probe", "command"},
           outcome' = "ok" => req.op # "dataset_list" \/ outcome = "ok"
    PROVE  ZfsInv'
<1> USE DEF ZfsInv, host, history
<1>1. HostTypes'
    BY DEF HostTypes
<1>2. LateTypes'
    <2>1. Cardinality(late) \in Nat
        BY FS_CardinalityType DEF LateTypes
    <2>2. Cardinality(late) <= lost'
        BY <2>1 DEF LateTypes
    <2> QED BY <2>2 DEF LateTypes
<1>3. MadeInv'
    BY DEF MadeInv, GoneExplained, Asked
<1>4. DelegInv'
    BY DEF DelegInv, True, Zoned
<1>5. ListInv'
    BY DEF ListInv, ListedAll
<1> QED BY <1>1, <1>2, <1>3, <1>4, <1>5

LEMMA ProbeKept == ASSUME ZfsInv, ProbeAnswers \/ ProbeFails PROVE ZfsInv'
<1>1. /\ phase = "probe" /\ req \in Requests /\ req.op = "dataset_destroy" /\ outcome = "running"
      /\ UNCHANGED <<host, req, got, late, records, history>> /\ lost' \in {lost, lost + 1}
      /\ \/ phase' = "command" /\ outcome' = outcome
         \/ phase' = "idle" /\ outcome' = "refused"
    BY DEF ProbeAnswers, ProbeFails, Leaves, counters, ZfsInv, StepTypes
<1>2. StepTypes'
    BY <1>1 DEF ZfsInv, StepTypes, Commanding
<1> QED BY <1>1, <1>2, OnlyTheStep

LEMMA RefusedKept == ASSUME ZfsInv, CommandRefused \/ ReadFails PROVE ZfsInv'
<1>1. /\ phase' = "idle" /\ outcome' = "failed" /\ lost' \in {lost, lost + 1}
      /\ UNCHANGED <<host, req, got, late, records, history>>
    BY DEF CommandRefused, ReadFails, Throws, Leaves, counters
<1>2. StepTypes'
    BY <1>1 DEF ZfsInv, StepTypes
<1> QED BY <1>1, <1>2, OnlyTheStep

LEMMA LostKept == ASSUME ZfsInv, CommandLost PROVE ZfsInv'
<1> USE DEF ZfsInv
<1>1. /\ phase' = "idle" /\ outcome' = "failed" /\ lost' = lost + 1 /\ late' = late \cup {Command(req)}
      /\ UNCHANGED <<host, req, got, records, history>>
    BY DEF CommandLost, Leaves
<1>2. Command(req) \in Commands
    BY CommandTyped DEF CommandLost, StepTypes
<1>3. LateTypes'
    <2>1. LateTypes
        OBVIOUS
    <2>2. IsFiniteSet(late') /\ Cardinality(late') <= lost + 1
        BY <2>1, <1>1, <1>2, LateGrows
    <2> QED BY <2>1, <2>2, <1>1, <1>2 DEF LateTypes
<1>4. StepTypes'
    BY <1>1 DEF StepTypes
<1>5. HostTypes' /\ MadeInv' /\ DelegInv' /\ ListInv'
    BY <1>1 DEF HostTypes, MadeInv, GoneExplained, DelegInv, True, Zoned, ListInv, ListedAll, host, history
<1> QED BY <1>3, <1>4, <1>5

LEMMA CommandKept == ASSUME ZfsInv, CommandWorks PROVE ZfsInv'
<1> USE DEF ZfsInv
<1> PICK c : c = Command(req)
    OBVIOUS
<1>1. phase = "command" /\ req \in Requests /\ req.op \in Commanding /\ outcome = "running"
    BY DEF CommandWorks, StepTypes
<1>2. c \in Commands
    BY <1>1, CommandTyped
<1>3. /\ Works(c) /\ Effect(c)
      /\ UNCHANGED <<req, got, late, records, lost>>
      /\ made' = (IF req.op = "dataset_create" THEN made \cup {req.d} ELSE made)
      /\ struck' = struck \cup (IF req.op = "snapshot_destroy" THEN Takes(c) ELSE {})
      /\ \/ req.op \in ReadsBack /\ phase' = "read" /\ outcome' = outcome
         \/ req.op \notin ReadsBack /\ phase' = "idle" /\ outcome' = "ok"
    BY DEF CommandWorks, AfterCommand, Leaves, counters
<1>4. /\ (req.op = "dataset_create") => c.cmd = "create" /\ c.d = req.d
      /\ (req.op = "delegate") => c.cmd = "zone" /\ c.d = req.d /\ c.zone = req.zone
      /\ (req.op = "dataset_destroy") => c = [cmd |-> "destroy", d |-> req.d, recursive |-> req.recursive]
      /\ (req.op \in {"snapshot_create", "pool_scrub"}) => c.cmd \in {"snapshot", "scrub"}
    BY DEF Command, destroy
<1>5. /\ HostMoves
      /\ \A d \in DOMAIN datasets \ Takes(c) : d \in DOMAIN datasets'
      /\ c.cmd = "create" => c.d \in DOMAIN datasets'
      /\ c.cmd = "zone" => Zoned(c.d, c.zone)'
    BY <1>2, <1>3, EffectMoves DEF ListInv
<1>6. HostTypes' /\ LateTypes'
    BY <1>3, <1>5 DEF HostMoves, LateTypes
<1>7. StepTypes'
    BY <1>1, <1>3 DEF StepTypes, ReadsBack, ReadOps
<1>8. MadeInv'
    <2>1. (req.op \notin {"dataset_destroy", "snapshot_destroy"}) => Takes(c) = {}
        <3> SUFFICES ASSUME req.op \notin {"dataset_destroy", "snapshot_destroy"} PROVE c.cmd # "destroy"
            BY DEF Takes
        <3> QED BY <1>1, <1>4 DEF Commanding
    <2>2. (req.op = "dataset_destroy") => made \cap Takes(c) = {}
        <3> SUFFICES ASSUME req.op = "dataset_destroy" PROVE Takes(c) \subseteq Asked(req)
            BY <1>1 DEF MadeInv
        <3>1. Takes(c) = Victims(c) /\ c.recursive = req.recursive /\ c.d = req.d
            BY <1>4 DEF Takes
        <3>2. CASE req.recursive
            <4>1. Takes(c) = Below(req.d) /\ Asked(req) = {n \in Names : Under(n, req.d)}
                BY <3>1, <3>2 DEF Victims, Asked
            <4> QED BY <4>1 DEF Below, HostTypes
        <3>3. CASE ~req.recursive
            BY <3>1, <3>3 DEF Victims, Asked
        <3> QED BY <3>2, <3>3
    <2>3. ASSUME NEW d \in made' \ struck' PROVE d \in DOMAIN datasets'
        <3>1. CASE req.op = "dataset_create" /\ d = req.d
            BY <3>1, <1>4, <1>5
        <3>2. CASE ~(req.op = "dataset_create" /\ d = req.d)
            <4>1. d \in made \ struck /\ d \in DOMAIN datasets
                BY <3>2, <2>3, <1>3 DEF MadeInv, GoneExplained
            <4>2. d \notin Takes(c)
                BY <4>1, <2>1, <2>2, <2>3, <1>3
            <4> QED BY <4>1, <4>2, <1>5
        <3> QED BY <3>1, <3>2
    <2>4. phase' \notin {"probe", "command"}
        BY <1>3
    <2> QED BY <2>3, <2>4 DEF MadeInv, GoneExplained
<1>9. DelegInv'
    <2>1. \A d \in DOMAIN records.dataset : True(d, records.dataset[d].delegatedTo)'
        BY <1>3, <1>5, TrueKept DEF DelegInv
    <2>2. req.op = "delegate" => True(req.d, req.zone)'
        <3> SUFFICES ASSUME req.op = "delegate" PROVE True(req.d, req.zone)'
            OBVIOUS
        <3>1. Zoned(c.d, c.zone)' /\ c.d = req.d /\ c.zone = req.zone /\ req' = req
            BY <1>3, <1>4, <1>5
        <3> QED BY <3>1 DEF True, Zoned
    <2> QED BY <2>1, <2>2, <1>3 DEF DelegInv
<1>10. ListInv'
    <2>1. req.op # "dataset_list"
        BY <1>1 DEF Commanding
    <2> QED BY <2>1, <1>3, <1>5 DEF ListInv, ListedAll, HostMoves
<1> QED BY <1>6, <1>7, <1>8, <1>9, <1>10


LEMMA LateKept == ASSUME ZfsInv, NEW c \in late, Late(c) PROVE ZfsInv'
<1> USE DEF ZfsInv
<1>1. /\ c \in Commands /\ Works(c) /\ Effect(c) /\ late' = late \ {c} /\ struck' = struck \cup Takes(c)
      /\ UNCHANGED <<req, phase, got, outcome, records, made, lost>>
    BY DEF Late, LateTypes, method, counters
<1>2. HostMoves /\ \A d \in DOMAIN datasets \ Takes(c) : d \in DOMAIN datasets'
    BY <1>1, EffectMoves DEF ListInv
<1>3. HostTypes' /\ StepTypes'
    BY <1>1, <1>2 DEF HostMoves, StepTypes
<1>4. LateTypes'
    <2>1. LateTypes
        OBVIOUS
    <2>2. IsFiniteSet(late') /\ Cardinality(late') <= lost
        BY <2>1, <1>1, LateGrows
    <2> QED BY <2>1, <2>2, <1>1 DEF LateTypes
<1>5. MadeInv'
    <2>1. \A d \in made' \ struck' : d \in DOMAIN datasets'
        BY <1>1, <1>2 DEF MadeInv, GoneExplained
    <2> QED BY <2>1, <1>1 DEF MadeInv, GoneExplained, Asked
<1>6. DelegInv'
    <2>1. \A d \in DOMAIN records.dataset : True(d, records.dataset[d].delegatedTo)'
        BY <1>1, <1>2, TrueKept DEF DelegInv
    <2>2. (phase = "write" /\ req.op \in DatasetOps) => \A d \in DOMAIN got : True(d, got[d].delegatedTo)'
        BY <1>1, <1>2, TrueKept DEF DelegInv
    <2>3. (phase = "read" /\ req.op = "delegate") => True(req.d, req.zone)'
        BY <1>1, <1>2, TrueKept DEF DelegInv
    <2> QED BY <2>1, <2>2, <2>3, <1>1 DEF DelegInv
<1>7. ListInv'
    BY <1>1, <1>2 DEF ListInv, ListedAll, HostMoves, ByList
<1> QED BY <1>3, <1>4, <1>5, <1>6, <1>7

LEMMA OthersKept == ASSUME ZfsInv, Others PROVE ZfsInv'
<1> USE DEF ZfsInv
<1>1. UNCHANGED <<req, phase, got, outcome, late, records, made, struck, destroyed, lasting, lost>>
    BY DEF Others, method, history
<1>2. HostMoves /\ DOMAIN datasets \subseteq DOMAIN datasets'
    <2>1. ASSUME NEW n \in Names, Works([cmd |-> "create", d |-> n]),
                 datasets' = Created(n, "volume", Null), UNCHANGED <<snapshots, pool>>
          PROVE  HostMoves /\ DOMAIN datasets \subseteq DOMAIN datasets'
        <3>1. n \notin DOMAIN datasets /\ (Parent[n] = Null \/ Parent[n] \in DOMAIN datasets)
            BY <2>1 DEF Works
        <3>2. "volume" \in Types /\ Null \in Quotas \cup {Null}
            BY DEF Types
        <3> QED BY <1>1, <2>1, <3>1, <3>2, CreateMoves DEF ListInv
    <2>2. ASSUME NEW n \in DOMAIN datasets, datasets' = [datasets EXCEPT ![n].used = "1M"],
                 UNCHANGED <<snapshots, pool>>
          PROVE  HostMoves /\ DOMAIN datasets \subseteq DOMAIN datasets'
        <3>1. datasets[n] \in Dataset
            BY DEF HostTypes
        <3>2. /\ [datasets[n] EXCEPT !.used = "1M"] \in Dataset
              /\ [datasets[n] EXCEPT !.used = "1M"].zone = datasets[n].zone
            BY <3>1 DEF Dataset, Sizes
        <3>3. /\ DOMAIN datasets' = DOMAIN datasets
              /\ datasets'[n] = [datasets[n] EXCEPT !.used = "1M"]
              /\ \A m \in DOMAIN datasets : m # n => datasets'[m] = datasets[m]
            BY <2>2
        <3>4. datasets' \in [DOMAIN datasets' -> Dataset]
            <4>1. \A m \in DOMAIN datasets' : datasets'[m] \in Dataset
                BY <3>2, <3>3 DEF HostTypes
            <4>2. datasets' = [m \in DOMAIN datasets' |-> datasets'[m]]
                BY <2>2 DEF HostTypes
            <4> QED BY <4>1, <4>2
        <3>5. HostTypes'
            BY <2>2, <3>3, <3>4 DEF HostTypes
        <3>6. \A d, z : Zoned(d, z) => Zoned(d, z)'
            BY <3>2, <3>3 DEF Zoned
        <3> QED BY <1>1, <3>3, <3>5, <3>6 DEF HostMoves, ListInv
    <2>3. ASSUME UNCHANGED <<datasets, snapshots>>
          PROVE  HostMoves /\ DOMAIN datasets \subseteq DOMAIN datasets'
        BY <1>1, <2>3 DEF HostMoves, HostTypes, Zoned, ListInv
    <2> QED BY <2>1, <2>2, <2>3 DEF Others
<1>3. HostTypes' /\ StepTypes' /\ LateTypes'
    BY <1>1, <1>2 DEF HostMoves, StepTypes, LateTypes
<1>4. MadeInv'
    BY <1>1, <1>2 DEF MadeInv, GoneExplained, Asked
<1>5. DelegInv'
    <2>1. \A d \in DOMAIN records.dataset : True(d, records.dataset[d].delegatedTo)'
        BY <1>1, <1>2, TrueKept DEF DelegInv
    <2>2. (phase = "write" /\ req.op \in DatasetOps) => \A d \in DOMAIN got : True(d, got[d].delegatedTo)'
        BY <1>1, <1>2, TrueKept DEF DelegInv
    <2>3. (phase = "read" /\ req.op = "delegate") => True(req.d, req.zone)'
        BY <1>1, <1>2, TrueKept DEF DelegInv
    <2> QED BY <2>1, <2>2, <2>3, <1>1 DEF DelegInv
<1>6. ListInv'
    BY <1>1, <1>2 DEF ListInv, ListedAll, HostMoves, ByList
<1> QED BY <1>3, <1>4, <1>5, <1>6

LEMMA ReadsKept == ASSUME ZfsInv, Reads PROVE ZfsInv'
<1> USE DEF ZfsInv
<1>1. /\ UNCHANGED <<host, req, outcome, late, records, history, lost>>
      /\ phase = "read" /\ req \in Requests /\ outcome = "running"
    BY DEF Reads, counters, StepTypes
<1>2. HostTypes' /\ LateTypes' /\ GoneExplained'
    BY <1>1 DEF HostTypes, LateTypes, host, history, MadeInv, GoneExplained
<1>3. \A d \in DOMAIN records.dataset : True(d, records.dataset[d].delegatedTo)'
    BY <1>1 DEF DelegInv, True, Zoned, host, history
<1>4. /\ phase' \in {"write", "status"}
      /\ phase' = "status" => req.op = "pool_status"
      /\ (phase' = "write" /\ req.op \in DatasetOps) =>
            /\ DOMAIN got' \subseteq Names
            /\ \A d \in DOMAIN got' : got'[d].delegatedTo # Null => True(d, got'[d].delegatedTo)
            /\ req.op = "dataset_list" =>
                  DOMAIN got' = DOMAIN datasets /\ \A d \in DOMAIN got' : got'[d].by = "list"
    <2>1. CASE req.op = "dataset_list" /\ got' = dataset_list /\ phase' = "write"
        <3>1. DOMAIN got' = DOMAIN datasets /\ \A d \in DOMAIN got' : got'[d].delegatedTo = Null /\ got'[d].by = "list"
            BY <2>1 DEF dataset_list, Listed
        <3> QED BY <2>1, <3>1 DEF HostTypes
    <2>2. ASSUME req.op \in {"dataset_lookup", "dataset_create", "delegate"}, req.d \in DOMAIN datasets,
                 NEW ds, ds = parseDatasetGet(Printed(datasets[req.d])), phase' = "write",
                 got' = [n \in {req.d} |-> IF req.op = "delegate" THEN [ds EXCEPT !.delegatedTo = req.zone] ELSE ds]
          PROVE  /\ phase' = "write" /\ req.op # "dataset_list" /\ DOMAIN got' \subseteq Names
                 /\ \A d \in DOMAIN got' : got'[d].delegatedTo # Null => True(d, got'[d].delegatedTo)
        <3>1. DOMAIN got' = {req.d}
            BY <2>2
        <3>2. CASE req.op = "delegate"
            <4>1. got'[req.d] = [ds EXCEPT !.delegatedTo = req.zone]
                BY <2>2, <3>2
            <4>2. [ds EXCEPT !.delegatedTo = req.zone].delegatedTo = req.zone
                BY <2>2 DEF parseDatasetGet
            <4>3. True(req.d, req.zone)
                BY <1>1, <3>2 DEF DelegInv
            <4> QED BY <2>2, <3>1, <4>1, <4>2, <4>3 DEF HostTypes
        <3>3. CASE req.op # "delegate"
            <4>1. got'[req.d] = ds
                BY <2>2, <3>3
            <4>2. ds.delegatedTo = Null
                BY <2>2 DEF parseDatasetGet
            <4> QED BY <2>2, <3>1, <4>1, <4>2 DEF HostTypes
        <3> QED BY <3>2, <3>3
    <2>3. CASE req.op = "snapshot_create" /\ phase' = "write"
        BY <2>3 DEF DatasetOps
    <2>4. CASE req.op = "pool_status" /\ phase' = "status"
        BY <2>4
    <2> QED BY <2>1, <2>2, <2>3, <2>4 DEF Reads
<1>5. StepTypes'
    BY <1>1, <1>4 DEF StepTypes
<1>6. MadeInv'
    BY <1>2, <1>4 DEF MadeInv
<1>7. DelegInv'
    <2>1. UNCHANGED <<datasets, destroyed, records, req>>
        BY <1>1 DEF host, history
    <2>2. ASSUME NEW d \in DOMAIN got', NEW z, z = got'[d].delegatedTo, phase' = "write", req.op \in DatasetOps
          PROVE  True(d, z)
        <3>1. z # Null => True(d, z)
            BY <1>4, <2>2
        <3> QED BY <3>1 DEF True
    <2>3. phase' # "read"
        BY <1>4
    <2> QED BY <1>3, <2>1, <2>2, <2>3 DEF DelegInv, True, Zoned
<1>8. ListInv'
    <2>1. (phase' = "write" /\ req'.op = "dataset_list") =>
             /\ \A d \in DOMAIN got' : got'[d].by = "list"
             /\ \A d \in lasting' : d \in DOMAIN got'
        BY <1>1, <1>4 DEF ListInv, history, DatasetOps
    <2> QED BY <2>1, <1>1 DEF ListInv, ListedAll, host, history
<1> QED BY <1>2, <1>5, <1>6, <1>7, <1>8

LEMMA StatusKept == ASSUME ZfsInv, ReadsStatus PROVE ZfsInv'
<1> USE DEF ZfsInv
<1>1. /\ UNCHANGED <<host, req, outcome, late, records, history, lost>>
      /\ phase = "status" /\ phase' = "write" /\ req \in Requests /\ req.op = "pool_status" /\ outcome = "running"
    BY DEF ReadsStatus, counters, StepTypes
<1>2. HostTypes' /\ LateTypes' /\ MadeInv'
    BY <1>1 DEF HostTypes, LateTypes, host, history, MadeInv, GoneExplained
<1>3. StepTypes'
    BY <1>1 DEF StepTypes, ReadOps, DatasetOps
<1>4. DelegInv'
    BY <1>1 DEF DelegInv, True, Zoned, host, history, DatasetOps
<1>5. ListInv'
    BY <1>1 DEF ListInv, ListedAll, host, history
<1> QED BY <1>2, <1>3, <1>4, <1>5

LEMMA WritesKept == ASSUME ZfsInv, Writes PROVE ZfsInv'
<1> USE DEF ZfsInv
<1>1. /\ UNCHANGED <<host, req, late, history, lost>>
      /\ phase = "write" /\ req \in Requests /\ req.op \in ReadOps /\ outcome = "running"
    BY DEF Writes, counters, StepTypes
<1>2. HostTypes' /\ LateTypes' /\ GoneExplained'
    BY <1>1 DEF HostTypes, LateTypes, host, history, MadeInv, GoneExplained
<1>3. CASE req.op \in {"pool_status", "snapshot_create"}
    <2>1. /\ phase' = "idle" /\ outcome' = "ok"
          /\ records'.dataset = records.dataset /\ DOMAIN records' = DOMAIN records
        <3>1. \/ records' = [records EXCEPT !.pool = got]
              \/ records' = [records EXCEPT !.snapshot = @ \cup {<<req.d, req.tag>>}]
            BY <1>3 DEF Writes
        <3>2. phase' = "idle" /\ outcome' = "ok"
            BY <1>3 DEF Writes, Leaves
        <3> QED BY <3>1, <3>2 DEF StepTypes
    <2>2. StepTypes'
        BY <1>1, <2>1 DEF StepTypes
    <2>3. MadeInv'
        BY <1>2, <2>1 DEF MadeInv
    <2>4. DelegInv'
        BY <1>1, <2>1 DEF DelegInv, True, Zoned, host, history
    <2>5. ListInv'
        BY <1>1, <1>3, <2>1 DEF ListInv, ListedAll, host, history
    <2> QED BY <1>2, <2>2, <2>3, <2>4, <2>5
<1>4. CASE req.op \notin {"pool_status", "snapshot_create"} /\ DOMAIN got = {}
    <2>1. /\ phase' = "idle" /\ outcome' = "ok" /\ got' = got /\ records' = records
        BY <1>4 DEF Writes, Leaves
    <2>2. StepTypes'
        BY <1>1, <2>1 DEF StepTypes
    <2>3. MadeInv'
        BY <1>2, <2>1 DEF MadeInv
    <2>4. DelegInv'
        BY <1>1, <2>1 DEF DelegInv, True, Zoned, host, history
    <2>5. ListInv'
        BY <1>1, <1>4, <2>1 DEF ListInv, ListedAll, ByList, host, history
    <2> QED BY <1>2, <2>2, <2>3, <2>4, <2>5
<1>5. CASE req.op \notin {"pool_status", "snapshot_create"} /\ DOMAIN got # {}
    <2>1. req.op \in DatasetOps
        BY <1>1, <1>5 DEF ReadOps, DatasetOps
    <2>2. PICK n \in DOMAIN got :
             /\ records' = [records EXCEPT !.dataset = Put(@, n, got[n])]
             /\ got' = [m \in DOMAIN got \ {n} |-> got[m]]
        BY <1>5 DEF Writes
    <2>3. phase' = phase /\ outcome' = outcome
        BY <1>5 DEF Writes
    <2>4. /\ DOMAIN records' = DOMAIN records
          /\ DOMAIN records'.dataset = DOMAIN records.dataset \cup {n}
          /\ records'.dataset[n] = got[n]
          /\ \A d \in DOMAIN records.dataset : d # n => records'.dataset[d] = records.dataset[d]
        BY <2>2 DEF Put, StepTypes
    <2>5. DOMAIN got' = DOMAIN got \ {n} /\ \A d \in DOMAIN got' : got'[d] = got[d]
        BY <2>2
    <2>6. StepTypes'
        BY <1>1, <2>1, <2>3, <2>4, <2>5 DEF StepTypes
    <2>7. MadeInv'
        BY <1>1, <1>2, <2>3 DEF MadeInv
    <2>8. DelegInv'
        <3>1. UNCHANGED <<datasets, destroyed>> /\ phase = "write"
            BY <1>1 DEF host, history
        <3>2. ASSUME NEW d \in DOMAIN records'.dataset, NEW z, z = records'.dataset[d].delegatedTo
              PROVE  True(d, z)
            BY <2>1, <2>4, <3>1, <3>2 DEF DelegInv
        <3>3. ASSUME NEW d \in DOMAIN got', NEW z, z = got'[d].delegatedTo
              PROVE  True(d, z)
            BY <2>1, <2>5, <3>1, <3>3 DEF DelegInv
        <3> QED BY <3>1, <3>2, <3>3, <1>1, <2>3 DEF DelegInv, True, Zoned
    <2>9. ListInv'
        <3>1. UNCHANGED <<datasets, lasting, req>> /\ outcome' # "ok"
            BY <1>1, <2>3 DEF host, history
        <3>2. req.op = "dataset_list" =>
                 /\ \A d \in DOMAIN got' : got'[d].by = "list"
                 /\ \A d \in lasting : d \in DOMAIN got' \/ ByList(d)'
            BY <1>1, <2>4, <2>5 DEF ListInv, ByList
        <3> QED BY <3>1, <3>2 DEF ListInv, ListedAll
    <2> QED BY <1>2, <2>6, <2>7, <2>8, <2>9
<1> QED BY <1>3, <1>4, <1>5

LEMMA ZfsInvKept == ASSUME ZfsInv, Next PROVE ZfsInv'
BY CallKept, ProbeKept, RefusedKept, LostKept, CommandKept, LateKept, OthersKept, ReadsKept,
   StatusKept, WritesKept DEF Next, Steps

LEMMA ZfsTold == ASSUME ZfsInv PROVE DatasetsTrue
<1> USE DEF ZfsInv
<1>1. TypeOK
    <2>1. \A n \in DOMAIN datasets :
             datasets[n] \in [type : Types, quota : Quotas \cup {Null}, zone : Zones \cup {Null}, used : Sizes]
        BY DEF HostTypes, Dataset
    <2> QED BY <2>1 DEF TypeOK, HostTypes, StepTypes, LateTypes
<1>2. DelegationTrue
    BY DEF DelegInv, DelegationTrue, True, Zoned
<1> QED BY <1>1, <1>2 DEF DatasetsTrue, MadeInv, ListInv

\* A dataset that dataset_create made is there until its destruction was asked for, a
\* recorded delegation is so and a listing leaves nothing out: for any tree of datasets,
\* any calls, lost answers and others at work on the host.
THEOREM DatasetsAreTrue == HostSpec => []DatasetsTrue
<1>1. HostInit => ZfsInv
    BY ZfsInvInit DEF HostInit
<1>2. ZfsInv /\ [HostNext]_<<part, vars, healthVars>> => ZfsInv'
    <2> SUFFICES ASSUME ZfsInv, [HostNext]_<<part, vars, healthVars>> PROVE ZfsInv'
        OBVIOUS
    <2>1. CASE Next
        BY <2>1, ZfsInvKept
    <2>2. CASE UNCHANGED vars
        BY <2>2 DEF vars, host, method, history, counters, ZfsInv, HostTypes, StepTypes, LateTypes, MadeInv,
                    GoneExplained, Asked, DelegInv, True, Zoned, ListInv, ListedAll, ByList
    <2> QED BY <2>1, <2>2 DEF HostNext
<1>3. ZfsInv => DatasetsTrue
    BY ZfsTold
<1> QED BY <1>1, <1>2, <1>3, PTL DEF HostSpec
-----------------------------------------------------------------------------
(* Sums.                                                                   *)

LEMMA Least ==
    ASSUME NEW T, T \subseteq Nat, T # {}
    PROVE  \E m \in T : \A n \in T : m <= n
<1> DEFINE R == OpToRel(<, Nat)
<1>1. IsWellFoundedOn(R, Nat)
    BY NatLessThanWellFounded
<1>2. PICK x \in T : \A y \in T : <<y, x>> \notin R
    <2> HIDE DEF R
    <2> QED BY <1>1, WFMin
<1>3. \A y \in T : ~(y < x)
    BY <1>2 DEF OpToRel
<1> QED BY <1>3

LEMMA SameCounts ==
    /\ \A S : Health!IsFiniteSet(S) <=> IsFiniteSet(S)
    /\ \A S : Health!Cardinality(S) = Cardinality(S)
BY DEF Health!IsFiniteSet, IsFiniteSet, Health!Cardinality, Cardinality

Pick(s) == CHOOSE x \in s : TRUE
Less(s) == s \ {Pick(s)}

LEMMA LessCounts ==
    ASSUME NEW D, IsFiniteSet(D), NEW s \in SUBSET D
    PROVE  /\ Cardinality(s) \in Nat /\ (Cardinality(s) = 0 <=> s = {})
           /\ Less(s) \in SUBSET D
           /\ s # {} => Pick(s) \in s /\ Cardinality(Less(s)) = Cardinality(s) - 1
<1>1. IsFiniteSet(s)
    BY FS_Subset
<1>2. s # {} => Pick(s) \in s
    BY DEF Pick
<1>3. Cardinality(s) \in Nat /\ (Cardinality(s) = 0 <=> s = {})
    BY <1>1, FS_CardinalityType, FS_EmptySet
<1>4. s # {} => Cardinality(s \ {Pick(s)}) = Cardinality(s) - 1
    BY <1>1, <1>2, FS_RemoveElement
<1> QED BY <1>2, <1>3, <1>4 DEF Less

\* it gives the sum of g over any part of D.
Sum(it, g, s) == IF s = {} THEN 0 ELSE g[Pick(s)] + it[Less(s)]
Adds(it, g, D) == it = [s \in SUBSET D |-> Sum(it, g, s)]
\* The library's sum of the values of a function.
Total(f) == Health!FoldFunction(+, 0, f)

LEMMA FoldAdds ==
    ASSUME NEW D, NEW g, DOMAIN g = D, NEW some, Adds(some, g, D)
    PROVE  \E it : Adds(it, g, D) /\ Total(g) = it[D]
<1> DEFINE it == CHOOSE i : Adds(i, g, D)
<1>1. Adds(it, g, D)
    OBVIOUS
<1>2. Total(g) = it[D]
    BY DEF Total, Adds, Sum, Pick, Less, Health!FoldFunction, Health!FoldFunctionOnSet, Health!MapThenFoldSet
<1> QED BY <1>1, <1>2

Small(D, n) == {s \in SUBSET D : Cardinality(s) <= n}
AddsSmall(it, g, D, n) == it \in [Small(D, n) -> Int] /\ \A s \in Small(D, n) : it[s] = Sum(it, g, s)

LEMMA AddsGrow ==
    ASSUME NEW D, IsFiniteSet(D), NEW g \in [D -> Int], NEW n \in Nat, NEW h, AddsSmall(h, g, D, n)
    PROVE  \E it : AddsSmall(it, g, D, n + 1)
<1> DEFINE it == [s \in Small(D, n + 1) |-> IF s \in Small(D, n) THEN h[s] ELSE Sum(h, g, s)]
<1>1. ASSUME NEW s \in Small(D, n + 1)
      PROVE  /\ s \in SUBSET D /\ (s # {} => Less(s) \in Small(D, n) /\ Less(s) \in Small(D, n + 1) /\ Pick(s) \in D)
             /\ h[Less(s)] \in Int \/ s = {}
             /\ Sum(h, g, s) \in Int
    <2>1. s \in SUBSET D /\ Cardinality(s) <= n + 1
        BY DEF Small
    <2>2. s # {} => Less(s) \in SUBSET D /\ Cardinality(Less(s)) = Cardinality(s) - 1 /\ Pick(s) \in D /\ Cardinality(s) \in Nat
        BY <2>1, LessCounts
    <2>3. s # {} => Less(s) \in Small(D, n) /\ Less(s) \in Small(D, n + 1)
        BY <2>1, <2>2 DEF Small
    <2>4. s # {} => h[Less(s)] \in Int
        BY <2>3 DEF AddsSmall
    <2> QED BY <2>1, <2>2, <2>3, <2>4 DEF Sum
<1>2. ASSUME NEW s \in Small(D, n)
      PROVE  h[s] \in Int /\ h[s] = Sum(h, g, s)
    BY DEF AddsSmall
<1>3. it \in [Small(D, n + 1) -> Int]
    BY <1>1, <1>2
<1>4. ASSUME NEW s \in Small(D, n + 1) PROVE it[s] = Sum(it, g, s)
    <2>1. it[s] = Sum(h, g, s)
        BY <1>2
    <2>2. s # {} => it[Less(s)] = h[Less(s)]
        BY <1>1
    <2> HIDE DEF it
    <2> QED BY <2>1, <2>2 DEF Sum
<1> HIDE DEF it
<1> QED BY <1>3, <1>4 DEF AddsSmall

LEMMA AddsExist ==
    ASSUME NEW D, IsFiniteSet(D), NEW g \in [D -> Int]
    PROVE  \E it : Adds(it, g, D)
<1> DEFINE T == {n \in Nat : ~\E it : AddsSmall(it, g, D, n)}
<1>1. T = {}
    <2> SUFFICES ASSUME T # {} PROVE FALSE
        OBVIOUS
    <2>1. PICK m \in T : \A j \in T : m <= j
        <3>1. T \subseteq Nat OBVIOUS
        <3> HIDE DEF T
        <3> QED BY <3>1, Least
    <2>2. CASE m = 0
        <3> DEFINE it == [s \in Small(D, 0) |-> 0]
        <3>1. ASSUME NEW s \in Small(D, 0) PROVE s = {}
            <4>1. s \in SUBSET D /\ Cardinality(s) <= 0
                BY DEF Small
            <4> QED BY <4>1, LessCounts
        <3>2. AddsSmall(it, g, D, 0)
            BY <3>1 DEF AddsSmall, Sum
        <3> HIDE DEF it
        <3> QED BY <2>2, <3>2
    <2>3. CASE m # 0
        <3>1. m \in Nat
            OBVIOUS
        <3> DEFINE k == m - 1
        <3>2. k \in Nat /\ m = k + 1 /\ ~(m <= k)
            BY <2>3, <3>1
        <3>3. k \notin T
            <4> HIDE DEF T, k
            <4> QED BY <2>1, <3>2
        <3>4. PICK h : AddsSmall(h, g, D, k)
            <4> HIDE DEF k
            <4> QED BY <3>2, <3>3
        <3>5. \E it : AddsSmall(it, g, D, m)
            <4> HIDE DEF k, T
            <4> QED BY <3>2, <3>4, AddsGrow
        <3> HIDE DEF k
        <3> QED BY <3>5
    <2> QED BY <2>2, <2>3
<1> DEFINE n == Cardinality(D)
<1>2. n \in Nat
    BY FS_CardinalityType
<1>3. Small(D, n) = SUBSET D
    <2>1. ASSUME NEW s \in SUBSET D PROVE Cardinality(s) <= n
        BY FS_Subset
    <2> HIDE DEF n
    <2> QED BY <2>1 DEF Small
<1>4. PICK it : AddsSmall(it, g, D, n)
    <2> HIDE DEF n
    <2> QED BY <1>1, <1>2
<1>5. Adds(it, g, D)
    <2>1. it \in [SUBSET D -> Int] /\ \A s \in SUBSET D : it[s] = Sum(it, g, s)
        <3> HIDE DEF n
        <3> QED BY <1>3, <1>4 DEF AddsSmall
    <2> QED BY <2>1 DEF Adds
<1> QED BY <1>5

LEMMA AddsUp ==
    ASSUME NEW D, IsFiniteSet(D), NEW a, NEW b, NEW g \in [D -> Int], NEW h \in [D -> Int],
           Adds(a, g, D), Adds(b, h, D), \A c \in D : h[c] = 100 - g[c]
    PROVE  a[D] \in Int /\ b[D] = 100 * Cardinality(D) - a[D]
<1> DEFINE Good(s) == a[s] \in Int /\ b[s] = 100 * Cardinality(s) - a[s]
           T == {n \in Nat : \E s \in SUBSET D : Cardinality(s) = n /\ ~Good(s)}
<1>1. ASSUME NEW s \in SUBSET D
      PROVE  a[s] = Sum(a, g, s) /\ b[s] = Sum(b, h, s)
    BY DEF Adds
<1>2. T = {}
    <2> SUFFICES ASSUME T # {} PROVE FALSE
        OBVIOUS
    <2>1. PICK m \in T : \A j \in T : m <= j
        <3>1. T \subseteq Nat OBVIOUS
        <3> HIDE DEF T
        <3> QED BY <3>1, Least
    <2>2. PICK s \in SUBSET D : Cardinality(s) = m /\ ~Good(s)
        BY <2>1
    <2>3. CASE s = {}
        <3>1. Cardinality(s) = 0
            BY <2>3, FS_EmptySet
        <3>2. a[s] = 0 /\ b[s] = 0
            BY <1>1, <2>3 DEF Sum
        <3> QED BY <2>2, <3>1, <3>2
    <2>4. CASE s # {}
        <3>1. Less(s) \in SUBSET D /\ Cardinality(Less(s)) = m - 1 /\ m \in Nat /\ m # 0 /\ Pick(s) \in D
            BY <2>2, <2>4, LessCounts
        <3>2. m - 1 \notin T
            <4> HIDE DEF T, Good
            <4> QED BY <2>1, <3>1
        <3>3. Good(Less(s))
            <4> HIDE DEF Good
            <4> QED BY <3>1, <3>2
        <3>4. a[s] = g[Pick(s)] + a[Less(s)] /\ b[s] = h[Pick(s)] + b[Less(s)]
            BY <1>1, <2>4 DEF Sum
        <3>5. g[Pick(s)] \in Int /\ h[Pick(s)] = 100 - g[Pick(s)]
            BY <3>1
        <3> QED BY <2>2, <3>1, <3>3, <3>4, <3>5
    <2> QED BY <2>3, <2>4
<1>3. Cardinality(D) \in Nat
    BY FS_CardinalityType
<1>4. Good(D)
    <2> HIDE DEF Good
    <2> QED BY <1>2, <1>3
<1> QED BY <1>4

\* The busy part of the cores and the idle one make up the whole.
LEMMA BusyAndIdle ==
    ASSUME NEW idle, IsFiniteSet(DOMAIN idle), idle \in [DOMAIN idle -> 0 .. 100]
    PROVE  /\ Health!parseMpstat(idle) \in Int /\ Total(idle) \in Int
           /\ Health!parseMpstat(idle) = 100 * Cardinality(DOMAIN idle) - Total(idle)
           /\ Cardinality(DOMAIN idle) \in Nat
<1> DEFINE D == DOMAIN idle
           busy == [c \in D |-> 100 - idle[c]]
<1>1. idle \in [D -> Int] /\ busy \in [D -> Int] /\ DOMAIN busy = D /\ \A c \in D : busy[c] = 100 - idle[c]
    OBVIOUS
<1>2. Health!parseMpstat(idle) = Total(busy)
    BY DEF Total, Health!parseMpstat
<1>3. PICK a : Adds(a, idle, D) /\ Total(idle) = a[D]
    BY <1>1, AddsExist, FoldAdds
<1> HIDE DEF busy
<1>4. PICK b : Adds(b, busy, D) /\ Total(busy) = b[D]
    BY <1>1, AddsExist, FoldAdds
<1>5. a[D] \in Int /\ b[D] = 100 * Cardinality(D) - a[D] /\ Cardinality(D) \in Nat
    <2>1. IsFiniteSet(D)
        OBVIOUS
    <2> HIDE DEF D
    <2>2. a[D] \in Int /\ b[D] = 100 * Cardinality(D) - a[D]
        BY <1>1, <1>3, <1>4, <2>1, AddsUp
    <2> QED BY <2>1, <2>2, FS_CardinalityType
<1> QED BY <1>2, <1>3, <1>4, <1>5
-----------------------------------------------------------------------------
(* The readings, and the verdict drawn from them.                          *)

\* A reading is what its probe printed of the host as it was at some moment in S, or a
\* part of it if the probe failed, which is in F then.
ReadIn(g, p, S, F) ==
    \/ \E h \in S : g[p] = Health!Reading(p, h)
    \/ p \in F /\ Health!CountsAnyway(p) /\ \E h \in S : g[p] \subseteq Health!Reading(p, h)
Read(g, S, F) == \A p \in DOMAIN g : ReadIn(g, p, S, F)

Signalled == {"fmadm", "ipmitoolTemperature", "ipmitoolFan", "zpoolStatus", "mpstat"}

LEMMA Ranks ==
    /\ Health!Rank("fault_present") = 1 /\ Health!Rank("thermal_alarm") = 2
    /\ Health!Rank("scrub_in_progress") = 3 /\ Health!Rank("workload_driven") = 4
    /\ Health!Rank("healthy") = 5
BY DEF Health!Rank, Health!Ranked

LEMMA FaultsShow ==
    ASSUME NEW S \in SUBSET Hosts, NEW F, NEW g, Read(g, S, F), "fmadm" \in DOMAIN g \cup F
    PROVE  /\ Health!gatherFaults(g).count > 0 => \E h \in S : Health!Shows(h, "fmadm")
           /\ (\A h \in S : Health!Shows(h, "fmadm")) => Health!gatherFaults(g).count > 0 \/ "fmadm" \in F
<1> DEFINE found == Health!Read(g, "fmadm", {})
<1>1. Health!gatherFaults(g).count = Cardinality(found)
    BY SameCounts DEF Health!gatherFaults
<1>2. \A h : Health!Shows(h, "fmadm") <=> h.faults # {}
    BY DEF Health!Shows
<1>3. \A h : Health!Reading("fmadm", h) = h.faults
    BY DEF Health!Reading
<1>4. CASE "fmadm" \in DOMAIN g
    <2>1. found = g["fmadm"]
        BY <1>4 DEF Health!Read
    <2>2. PICK h \in S : g["fmadm"] \subseteq h.faults /\ (g["fmadm"] = h.faults \/ "fmadm" \in F)
        BY <1>3, <1>4 DEF Read, ReadIn
    <2>3. IsFiniteSet(h.faults)
        BY SameCounts, HealthAssumption DEF Health!HostsAssumption
    <2>4. IsFiniteSet(found) /\ Cardinality(found) \in Nat /\ (Cardinality(found) = 0 <=> found = {})
        BY <2>1, <2>2, <2>3, FS_Subset, FS_CardinalityType, FS_EmptySet
    <2> HIDE DEF found
    <2> QED BY <1>1, <1>2, <2>1, <2>2, <2>4
<1>5. CASE "fmadm" \notin DOMAIN g
    <2>1. found = {}
        BY <1>5 DEF Health!Read
    <2>2. Cardinality(found) = 0
        BY <2>1, FS_EmptySet
    <2> HIDE DEF found
    <2> QED BY <1>1, <2>2, <1>5
<1> QED BY <1>4, <1>5

\* Of what is hot or stopped only the BMC tells, by two probes.
LEMMA SensorsTold ==
    ASSUME NEW h \in Hosts
    PROVE  /\ \A s \in Health!Reading("prtdiag", h) \cup Health!Reading("kstat", h) : s.status = Null
           /\ Health!Reading("ipmitoolTemperature", h) = {Health!Temperature(h)}
           /\ Health!Reading("ipmitoolFan", h) = {Health!Sensor("fan", 9000, h.fan)}
           /\ Health!Temperature(h).status = h.sensor
           /\ h.sensor \in Health!AtThreshold => Health!Temperature(h).value # Null
           /\ Health!Sensor("fan", 9000, h.fan).status = h.fan
           /\ Health!Sensor("fan", 9000, h.fan).value # Null
           /\ Null \notin Health!AtThreshold
<1>1. h.temp \in Int /\ Null \notin Int \cup {"ok", "ns", "nc", "cr", "nr"}
    BY HealthAssumption DEF Health!HostsAssumption
<1> QED BY <1>1 DEF Health!Reading, Health!Temperature, Health!Sensor, Health!parsePrtdiag, Health!AtThreshold

LEMMA AlarmsShow ==
    ASSUME NEW S \in SUBSET Hosts, NEW F, NEW g, Read(g, S, F), Signalled \subseteq DOMAIN g \cup F,
           NEW alarm \in BOOLEAN,
           alarm <=> \E s \in Health!Sensors(g) : s.value # Null /\ s.status \in Health!AtThreshold
    PROVE  /\ alarm => \E h \in S, p \in {"ipmitoolTemperature", "ipmitoolFan"} : Health!Shows(h, p)
           /\ \A p \in {"ipmitoolTemperature", "ipmitoolFan"} :
                 (\A h \in S : Health!Shows(h, p)) => alarm \/ p \in F
<1>1. \A h : /\ Health!Shows(h, "ipmitoolTemperature") <=> h.sensor \in Health!AtThreshold
             /\ Health!Shows(h, "ipmitoolFan") <=> h.fan \in Health!AtThreshold
    BY DEF Health!Shows, Health!AtThreshold
<1>2. \A s : s \in Health!Sensors(g) <=>
                \E p \in {"prtdiag", "kstat", "ipmitoolTemperature", "ipmitoolFan"} : p \in DOMAIN g /\ s \in g[p]
    <2>1. Health!ToSet(Health!Thermal) = {"prtdiag", "kstat", "ipmitoolTemperature", "ipmitoolFan"}
        BY DEF Health!ToSet, Health!Thermal
    <2>2. \A p : Health!Read(g, p, {}) = IF p \in DOMAIN g THEN g[p] ELSE {}
        BY DEF Health!Read
    <2> QED BY <2>1, <2>2 DEF Health!Sensors
<1>3. ASSUME alarm PROVE \E h \in S, p \in {"ipmitoolTemperature", "ipmitoolFan"} : Health!Shows(h, p)
    <2>1. PICK s \in Health!Sensors(g) : s.value # Null /\ s.status \in Health!AtThreshold
        BY <1>3
    <2>2. PICK p \in {"prtdiag", "kstat", "ipmitoolTemperature", "ipmitoolFan"} : p \in DOMAIN g /\ s \in g[p]
        BY <1>2, <2>1
    <2>3. PICK h \in S : s \in Health!Reading(p, h)
        BY <2>2 DEF Read, ReadIn
    <2>4. p \in {"ipmitoolTemperature", "ipmitoolFan"}
        BY <2>1, <2>2, <2>3, SensorsTold
    <2>5. Health!Shows(h, p)
        BY <1>1, <2>1, <2>3, <2>4, SensorsTold
    <2> QED BY <2>4, <2>5
<1>4. ASSUME NEW p \in {"ipmitoolTemperature", "ipmitoolFan"}, \A h \in S : Health!Shows(h, p), p \notin F
      PROVE  alarm
    <2>1. p \in DOMAIN g
        BY <1>4 DEF Signalled
    <2>2. PICK h \in S : g[p] = Health!Reading(p, h)
        BY <1>4, <2>1 DEF Read, ReadIn
    <2>3. \E s \in g[p] : s.value # Null /\ s.status \in Health!AtThreshold
        BY <1>1, <1>4, <2>2, SensorsTold
    <2> QED BY <1>2, <2>1, <2>3
<1> QED BY <1>3, <1>4

LEMMA LoadShows ==
    ASSUME NEW S \in SUBSET Hosts, NEW F, NEW g, Read(g, S, F), "mpstat" \in DOMAIN g \cup F
    PROVE  /\ Health!Busy(Health!gatherLoad(g)) => \E h \in S : Health!Shows(h, "mpstat")
           /\ (\A h \in S : Health!Shows(h, "mpstat")) => Health!Busy(Health!gatherLoad(g)) \/ "mpstat" \in F
<1> DEFINE load == Health!gatherLoad(g)
<1>1. CASE "mpstat" \in DOMAIN g
    <2>1. load.cpuPctTotal = Health!parseMpstat(g["mpstat"]) /\ load.cores = Cardinality(DOMAIN g["mpstat"])
        BY <1>1, SameCounts DEF Health!gatherLoad, Health!Read
    <2>2. PICK h \in S : g["mpstat"] = h.idle
        BY <1>1 DEF Read, ReadIn, Health!Reading, Health!CountsAnyway
    <2>3. IsFiniteSet(DOMAIN h.idle) /\ h.idle \in [DOMAIN h.idle -> 0 .. 100] /\ Null \notin Int
        BY SameCounts, HealthAssumption DEF Health!HostsAssumption
    <2>4. Health!Shows(h, "mpstat") <=> Total(h.idle) <= 30 * Cardinality(DOMAIN h.idle)
        BY SameCounts DEF Health!Shows, Total
    <2>5. /\ Health!parseMpstat(h.idle) \in Int /\ Total(h.idle) \in Int
          /\ Health!parseMpstat(h.idle) = 100 * Cardinality(DOMAIN h.idle) - Total(h.idle)
          /\ Cardinality(DOMAIN h.idle) \in Nat
        BY <2>3, BusyAndIdle
    <2>6. Health!Busy(load) <=> load.cpuPctTotal # Null /\ load.cpuPctTotal >= 70 * load.cores
        BY DEF Health!Busy
    <2> HIDE DEF load
    <2>7. Health!Busy(load) <=> Health!Shows(h, "mpstat")
        BY <2>1, <2>2, <2>3, <2>4, <2>5, <2>6
    <2> QED BY <2>7 DEF load
<1>2. CASE "mpstat" \notin DOMAIN g
    <2>1. load.cpuPctTotal = Null
        BY <1>2 DEF Health!gatherLoad
    <2> QED BY <1>2, <2>1 DEF Health!Busy
<1> QED BY <1>1, <1>2

LEMMA ScrubShows ==
    ASSUME NEW S \in SUBSET Hosts, NEW F, NEW g, Read(g, S, F), "zpoolStatus" \in DOMAIN g \cup F
    PROVE  /\ Health!zpoolScrubInProgress(g) => \E h \in S : Health!Shows(h, "zpoolStatus")
           /\ (\A h \in S : Health!Shows(h, "zpoolStatus")) => Health!zpoolScrubInProgress(g) \/ "zpoolStatus" \in F
<1>1. \A h : Health!Shows(h, "zpoolStatus") <=> h.scrub
    BY DEF Health!Shows
<1>2. CASE "zpoolStatus" \in DOMAIN g
    <2>1. PICK h \in S : g["zpoolStatus"] = h.scrub
        BY <1>2 DEF Read, ReadIn, Health!Reading, Health!CountsAnyway
    <2>2. Health!zpoolScrubInProgress(g) <=> g["zpoolStatus"]
        BY <1>2 DEF Health!zpoolScrubInProgress, Health!Read
    <2> QED BY <1>1, <2>1, <2>2
<1>3. CASE "zpoolStatus" \notin DOMAIN g
    <2>1. ~Health!zpoolScrubInProgress(g)
        BY <1>3 DEF Health!zpoolScrubInProgress, Health!Read
    <2> QED BY <1>3, <2>1
<1> QED BY <1>2, <1>3
\* The verdict v names what was so at a moment in S, and passes over only what is looked
\* at later or could not be read.
Explained(v, S, F) ==
    /\ v # "healthy" => \E s \in Health!Signals : s[1] = v /\ \E h \in S : Health!Shows(h, s[2])
    /\ \A s \in Health!Signals :
          (\A h \in S : Health!Shows(h, s[2])) => Health!Rank(v) <= Health!Rank(s[1]) \/ s[2] \in F

LEMMA VerdictTold ==
    ASSUME NEW S \in SUBSET Hosts, NEW F, NEW g, Read(g, S, F), Signalled \subseteq DOMAIN g \cup F
    PROVE  Explained(Health!audit(g).verdict, S, F)
<1> DEFINE v == Health!audit(g).verdict
           faulty == Health!gatherFaults(g).count > 0
           alarm == Health!gatherThermal(g).summary.anyAtThreshold
           scrub == Health!zpoolScrubInProgress(g)
           busy == Health!Busy(Health!gatherLoad(g))
           Always(p) == \A h \in S : Health!Shows(h, p)
           Once(p) == \E h \in S : Health!Shows(h, p)
<1>1. v = IF faulty THEN "fault_present" ELSE IF alarm THEN "thermal_alarm"
          ELSE IF scrub THEN "scrub_in_progress" ELSE IF busy THEN "workload_driven" ELSE "healthy"
    BY Zenon DEF Health!audit, Health!deriveVerdict
<1>2. alarm \in BOOLEAN
    BY DEF Health!gatherThermal, Health!tempSummary
<1>3. alarm <=> \E s \in Health!Sensors(g) : s.value # Null /\ s.status \in Health!AtThreshold
    BY DEF Health!gatherThermal, Health!tempSummary
<1>4. /\ faulty => Once("fmadm")
      /\ Always("fmadm") => faulty \/ "fmadm" \in F
    BY FaultsShow DEF Signalled
<1>5. /\ alarm => Once("ipmitoolTemperature") \/ Once("ipmitoolFan")
      /\ Always("ipmitoolTemperature") => alarm \/ "ipmitoolTemperature" \in F
      /\ Always("ipmitoolFan") => alarm \/ "ipmitoolFan" \in F
    <2> HIDE DEF alarm
    <2> QED BY <1>2, <1>3, AlarmsShow
<1>6. /\ scrub => Once("zpoolStatus")
      /\ Always("zpoolStatus") => scrub \/ "zpoolStatus" \in F
    BY ScrubShows DEF Signalled
<1>7. /\ busy => Once("mpstat")
      /\ Always("mpstat") => busy \/ "mpstat" \in F
    BY LoadShows DEF Signalled
<1>8. /\ v # "healthy" => \E s \in Health!Signals : s[1] = v /\ Once(s[2])
      /\ \A s \in Health!Signals : Always(s[2]) => Health!Rank(v) <= Health!Rank(s[1]) \/ s[2] \in F
    <2> HIDE DEF v, faulty, alarm, scrub, busy, Always, Once
    <2>1. v # "healthy" => \E s \in Health!Signals : s[1] = v /\ Once(s[2])
        BY <1>1, <1>4, <1>5, <1>6, <1>7 DEF Health!Signals
    <2>2. \A s \in Health!Signals : Always(s[2]) => Health!Rank(v) <= Health!Rank(s[1]) \/ s[2] \in F
        <3>1. Always("fmadm") => Health!Rank(v) <= Health!Rank("fault_present") \/ "fmadm" \in F
            BY <1>1, <1>4, Ranks
        <3>2. Always("ipmitoolTemperature") => Health!Rank(v) <= Health!Rank("thermal_alarm") \/ "ipmitoolTemperature" \in F
            BY <1>1, <1>5, Ranks
        <3>3. Always("ipmitoolFan") => Health!Rank(v) <= Health!Rank("thermal_alarm") \/ "ipmitoolFan" \in F
            BY <1>1, <1>5, Ranks
        <3>4. Always("zpoolStatus") => Health!Rank(v) <= Health!Rank("scrub_in_progress") \/ "zpoolStatus" \in F
            BY <1>1, <1>6, Ranks
        <3>5. Always("mpstat") => Health!Rank(v) <= Health!Rank("workload_driven") \/ "mpstat" \in F
            BY <1>1, <1>7, Ranks
        <3> QED BY <3>1, <3>2, <3>3, <3>4, <3>5 DEF Health!Signals
    <2> QED BY <2>1, <2>2
<1> HIDE DEF faulty, alarm, scrub, busy
<1> QED BY <1>8 DEF Explained

\* What lookup stores was so while it ran.
InfoSo(i, S) ==
    /\ \E h \in S : i.rpool \in Health!ToSet(h.pools) \/ h.pools = << >>
    /\ (\A h \in S : "rpool" \in Health!ToSet(h.pools)) => i.rpool = "rpool"
    /\ Health!Cardinality(S) = 1 => i.uname = i.illumosBuild

LEMMA InfoTold ==
    ASSUME NEW S \in SUBSET Hosts, IsFiniteSet(S), NEW F, NEW g, Read(g, S, F), F \subseteq {"os-release"},
           {"unameAll", "unameVersion", "zpoolList"} \subseteq DOMAIN g
    PROVE  InfoSo(Health!hostInfo(g), S)
<1>1. PICK h \in S : g["zpoolList"] = h.pools
    BY DEF Read, ReadIn, Health!Reading, Health!CountsAnyway
<1>2. PICK a \in S : g["unameAll"] = a.build
    BY DEF Read, ReadIn, Health!Reading, Health!CountsAnyway
<1>3. PICK b \in S : g["unameVersion"] = b.build
    BY DEF Read, ReadIn, Health!Reading, Health!CountsAnyway
<1>4. /\ Health!hostInfo(g).rpool = Health!parseRpool(h.pools)
      /\ Health!hostInfo(g).uname = a.build /\ Health!hostInfo(g).illumosBuild = b.build
    BY <1>1, <1>2, <1>3 DEF Health!hostInfo
<1>5. h.pools \in Seq(Health!ToSet(h.pools))
    BY HealthAssumption DEF Health!HostsAssumption
<1>6. Health!parseRpool(h.pools) \in Health!ToSet(h.pools) \/ h.pools = << >>
    <2>1. h.pools # << >> => Head(h.pools) \in Health!ToSet(h.pools)
        BY <1>5
    <2> QED BY <2>1 DEF Health!parseRpool
<1>7. "rpool" \in Health!ToSet(h.pools) => Health!parseRpool(h.pools) = "rpool"
    BY DEF Health!parseRpool
<1>8. Health!Cardinality(S) = 1 => a = b
    <2> SUFFICES ASSUME Cardinality(S) = 1 PROVE a = b
        BY SameCounts
    <2>1. PICK x : S = {x}
        BY FS_Singleton
    <2> QED BY <2>1
<1> QED BY <1>4, <1>6, <1>7, <1>8 DEF InfoSo
-----------------------------------------------------------------------------
(* The probes of a method, each of which is run once.                      *)

Distinct(s) == \A i, j \in 1 .. Len(s) : s[i] = s[j] => i = j
Lists(s, S) == s \in Seq(S) /\ Distinct(s) /\ Health!ToSet(s) = S

LEMMA ListsJoined ==
    ASSUME NEW S, NEW T, NEW s, NEW t, Lists(s, S), Lists(t, T), S \cap T = {}
    PROVE  Lists(s \o t, S \cup T)
<1>1. /\ s \in Seq(S \cup T) /\ t \in Seq(S \cup T) /\ Len(s) \in Nat /\ Len(t) \in Nat
    BY DEF Lists
<1>2. /\ s \o t \in Seq(S \cup T) /\ Len(s \o t) = Len(s) + Len(t)
      /\ \A i \in 1 .. Len(s) : (s \o t)[i] = s[i] /\ s[i] \in S
      /\ \A i \in Len(s) + 1 .. Len(s) + Len(t) : (s \o t)[i] = t[i - Len(s)] /\ t[i - Len(s)] \in T
    BY <1>1 DEF Lists
<1>3. Distinct(s \o t)
    <2> SUFFICES ASSUME NEW i \in 1 .. Len(s) + Len(t), NEW j \in 1 .. Len(s) + Len(t), (s \o t)[i] = (s \o t)[j]
                 PROVE  i = j
        BY <1>2 DEF Distinct
    <2>1. CASE i <= Len(s) /\ j <= Len(s)
        BY <1>1, <1>2, <2>1 DEF Lists, Distinct
    <2>2. CASE i > Len(s) /\ j > Len(s)
        <3>1. i - Len(s) \in 1 .. Len(t) /\ j - Len(s) \in 1 .. Len(t) /\ t[i - Len(s)] = t[j - Len(s)]
            BY <1>1, <1>2, <2>2
        <3>2. i - Len(s) = j - Len(s)
            BY <3>1 DEF Lists, Distinct
        <3> QED BY <1>1, <3>2
    <2> QED BY <1>1, <1>2, <2>1, <2>2
<1>4. Health!ToSet(s \o t) = S \cup T
    <2>1. ASSUME NEW x \in S PROVE x \in Health!ToSet(s \o t)
        <3>1. PICK i \in 1 .. Len(s) : x = s[i]
            BY DEF Lists, Health!ToSet
        <3>2. i \in 1 .. Len(s \o t) /\ (s \o t)[i] = x
            BY <1>1, <1>2, <3>1
        <3> QED BY <1>2, <3>2 DEF Health!ToSet
    <2>2. ASSUME NEW x \in T PROVE x \in Health!ToSet(s \o t)
        <3>1. PICK i \in 1 .. Len(t) : x = t[i]
            BY DEF Lists, Health!ToSet
        <3>2. i + Len(s) \in 1 .. Len(s \o t) /\ (s \o t)[i + Len(s)] = x
            BY <1>1, <1>2, <3>1
        <3> QED BY <1>2, <3>2 DEF Health!ToSet
    <2>3. Health!ToSet(s \o t) \subseteq S \cup T
        BY <1>2 DEF Health!ToSet
    <2> QED BY <2>1, <2>2, <2>3
<1> QED BY <1>2, <1>3, <1>4 DEF Lists

LEMMA FirstTaken ==
    ASSUME NEW S, NEW s, Lists(s, S), s # << >>
    PROVE  Head(s) \in S /\ Lists(Tail(s), S \ {Head(s)})
<1>1. s \in Seq(S) /\ Len(s) \in Nat \ {0} /\ Head(s) = s[1] /\ 1 \in 1 .. Len(s)
    BY DEF Lists
<1>2. Tail(s) \in Seq(S) /\ Len(Tail(s)) = Len(s) - 1 /\ \A i \in 1 .. Len(s) - 1 : Tail(s)[i] = s[i + 1]
    BY <1>1
<1>3. \A i \in 1 .. Len(s) - 1 : i + 1 \in 1 .. Len(s) /\ i + 1 # 1
    BY <1>1
<1>4. \A i \in 1 .. Len(s) - 1 : Tail(s)[i] \in S \ {Head(s)}
    BY <1>1, <1>2, <1>3 DEF Lists, Distinct
<1>5. Tail(s) \in Seq(S \ {Head(s)})
    <2> DEFINE n == Len(s) - 1
               t == Tail(s)
               X == S \ {Head(s)}
    <2>1. n \in Nat /\ t \in Seq(S) /\ Len(t) = n /\ \A i \in 1 .. n : t[i] \in X
        BY <1>1, <1>2, <1>4
    <2> HIDE DEF n, t, X
    <2>2. t = [i \in 1 .. n |-> t[i]]
        BY <2>1
    <2>3. t \in [1 .. n -> X]
        BY <2>1, <2>2
    <2>4. t \in Seq(X)
        BY <2>1, <2>3
    <2> QED BY <2>4 DEF t, X
<1>6. Distinct(Tail(s))
    BY <1>1, <1>2, <1>3 DEF Lists, Distinct
<1>7. ASSUME NEW x \in S, x # Head(s) PROVE x \in Health!ToSet(Tail(s))
    <2>1. PICK i \in 1 .. Len(s) : x = s[i]
        BY DEF Lists, Health!ToSet
    <2> DEFINE j == i - 1
    <2>2. j \in 1 .. Len(s) - 1 /\ j + 1 = i
        BY <1>1, <1>7, <2>1
    <2> HIDE DEF j
    <2>3. Tail(s)[j] = x
        <3>1. \A k \in 1 .. Len(s) - 1 : Tail(s)[k] = s[k + 1]
            BY <1>2
        <3>2. Tail(s)[j] = s[j + 1]
            BY <2>2, <3>1
        <3> QED BY <2>1, <2>2, <3>2
    <2>4. DOMAIN Tail(s) = 1 .. Len(s) - 1
        BY <1>2
    <2> QED BY <2>2, <2>3, <2>4 DEF Health!ToSet
<1>8. Health!ToSet(Tail(s)) \subseteq S \ {Head(s)}
    BY <1>2, <1>4 DEF Health!ToSet
<1> QED BY <1>1, <1>5, <1>6, <1>7, <1>8 DEF Lists

LookupProbes == {"unameAll", "hostname", "prtconf", "psrinfo", "zpoolList", "os-release", "unameVersion"}
Diagnostics ==
    {"prtdiag", "kstat", "ipmitoolTemperature", "ipmitoolFan"} \cup {"uptime", "prstat", "mpstat", "iostat", "vmstat"}
      \cup {"fmadm", "fmdump"} \cup {"syslog", "fmdLog"} \cup {"zpoolStatus"}

LEMMA ProbesListed ==
    ASSUME NEW r \in Health!Requests
    PROVE  \E S \in SUBSET (LookupProbes \cup Diagnostics \cup {"true"}) :
              /\ Lists(Health!Probes(r), S)
              /\ r.op = "lookup" => {"unameAll", "unameVersion", "zpoolList"} \subseteq S
              /\ r.op = "health_check" =>
                    Signalled \subseteq S /\ Health!Probes(r) # << >> /\ Head(Health!Probes(r)) = "true"
              /\ r.op # "health_check" => "true" \notin S
<1>1. /\ Lists(Health!Thermal, {"prtdiag", "kstat", "ipmitoolTemperature", "ipmitoolFan"})
      /\ Lists(Health!Load, {"uptime", "prstat", "mpstat", "iostat", "vmstat"})
      /\ Lists(Health!Faults, {"fmadm", "fmdump"})
      /\ Lists(Health!Messages, {"syslog", "fmdLog"})
    BY DEF Lists, Distinct, Health!ToSet, Health!Thermal, Health!Load, Health!Faults, Health!Messages
<1>2. CASE r.op = "lookup"
    <2> DEFINE s == << "unameAll", "hostname", "prtconf", "psrinfo", "zpoolList", "os-release", "unameVersion" >>
    <2>1. Health!Probes(r) = s
        BY <1>2 DEF Health!Probes
    <2>2. Lists(s, LookupProbes)
        BY DEF Lists, Distinct, Health!ToSet, LookupProbes
    <2> HIDE DEF s
    <2> QED BY <1>2, <2>1, <2>2 DEF LookupProbes
<1>3. CASE r.op = "health_check"
    <2> DEFINE s == << "true" >>
               t == << "zpoolStatus" >>
               All == {"true"} \cup Diagnostics
    <2>1. Health!Probes(r) =
             s \o Health!Thermal \o Health!Load \o Health!Faults \o Health!Messages \o t
        BY <1>3 DEF Health!Probes
    <2>2. Lists(s, {"true"}) /\ Lists(t, {"zpoolStatus"})
        BY DEF Lists, Distinct, Health!ToSet
    <2> HIDE DEF s, t
    <2>3. Lists(s \o Health!Thermal, {"true"} \cup {"prtdiag", "kstat", "ipmitoolTemperature", "ipmitoolFan"})
        BY <1>1, <2>2, ListsJoined
    <2>4. Lists(s \o Health!Thermal \o Health!Load,
                {"true"} \cup {"prtdiag", "kstat", "ipmitoolTemperature", "ipmitoolFan"}
                  \cup {"uptime", "prstat", "mpstat", "iostat", "vmstat"})
        BY <1>1, <2>3, ListsJoined
    <2>5. Lists(s \o Health!Thermal \o Health!Load \o Health!Faults,
                {"true"} \cup {"prtdiag", "kstat", "ipmitoolTemperature", "ipmitoolFan"}
                  \cup {"uptime", "prstat", "mpstat", "iostat", "vmstat"} \cup {"fmadm", "fmdump"})
        BY <1>1, <2>4, ListsJoined
    <2>6. Lists(s \o Health!Thermal \o Health!Load \o Health!Faults \o Health!Messages,
                {"true"} \cup {"prtdiag", "kstat", "ipmitoolTemperature", "ipmitoolFan"}
                  \cup {"uptime", "prstat", "mpstat", "iostat", "vmstat"} \cup {"fmadm", "fmdump"}
                  \cup {"syslog", "fmdLog"})
        BY <1>1, <2>5, ListsJoined
    <2>7. Lists(Health!Probes(r),
                {"true"} \cup {"prtdiag", "kstat", "ipmitoolTemperature", "ipmitoolFan"}
                  \cup {"uptime", "prstat", "mpstat", "iostat", "vmstat"} \cup {"fmadm", "fmdump"}
                  \cup {"syslog", "fmdLog"} \cup {"zpoolStatus"})
        BY <2>1, <2>2, <2>6, ListsJoined
    <2>8. Lists(Health!Probes(r), All)
        BY <2>7 DEF Diagnostics
    <2>9. Health!Probes(r) # << >> /\ Head(Health!Probes(r)) = "true"
        BY <1>3 DEF Health!Probes, Health!Thermal, Health!Load, Health!Faults, Health!Messages
    <2> QED BY <1>3, <2>8, <2>9 DEF Signalled, Diagnostics
<1>4. CASE r.op = "thermal"
    <2>1. Health!Probes(r) = Health!Thermal
        BY <1>4 DEF Health!Probes
    <2> QED BY <1>1, <1>4, <2>1 DEF Diagnostics
<1>5. CASE r.op = "load"
    <2>1. Health!Probes(r) = Health!Load
        BY <1>5 DEF Health!Probes
    <2> QED BY <1>1, <1>5, <2>1 DEF Diagnostics
<1>6. CASE r.op = "faults"
    <2>1. Health!Probes(r) = Health!Faults
        BY <1>6 DEF Health!Probes
    <2> QED BY <1>1, <1>6, <2>1 DEF Diagnostics
<1>7. CASE r.op = "messages"
    <2>1. Health!Probes(r) = Health!Messages
        BY <1>7 DEF Health!Probes
    <2> QED BY <1>1, <1>7, <2>1 DEF Diagnostics
<1> QED BY <1>2, <1>3, <1>4, <1>5, <1>6, <1>7 DEF Health!Requests
-----------------------------------------------------------------------------
(* Diagnostics: the invariant, and the steps.                              *)

HealthTypes ==
    /\ on \in Hosts /\ seen \subseteq Hosts /\ IsFiniteSet(seen)
    /\ check = Health!NoCall \/ check \in Health!Requests
    /\ at \in {"idle", "probing", "closing"} /\ (at = "idle" <=> check = Health!NoCall)
    /\ at # "idle" => on \in seen
    /\ at = "idle" => DOMAIN readings = {} /\ failed = {}
    /\ at # "probing" => todo = << >>

\* Every probe of the method has been answered, has failed or is yet to be run, once.
ProbesInv == at = "probing" =>
    \E S, T : /\ Lists(todo, S) /\ Lists(Health!Probes(check), T) /\ S \subseteq T
              /\ T \subseteq DOMAIN readings \cup failed \cup S /\ failed \cap S = {}
              /\ check.op = "lookup" => failed \subseteq {"os-release"}
              /\ master => "true" \notin S

ReadingsInv == Read(readings, seen, failed)

\* A health_check has a directory, and has a master from its first probe on.
Opened == at # "idle" /\ check.op = "health_check"
SessionInv ==
    /\ {checks, unopened, failures, lingering, tempDirs} \subseteq Nat
    /\ master \in BOOLEAN /\ (master => Opened) /\ (at = "closing" => master)
    /\ (Opened /\ ~master) => todo = Health!Probes(check)
    /\ Opened => lingering + 1 <= checks /\ tempDirs >= 1 /\ tempDirs <= unopened + failures + 1
    /\ ~Opened => tempDirs <= unopened + failures
    /\ lingering <= checks /\ tempDirs <= checks /\ lingering <= unopened + failures

StoredInv ==
    /\ DOMAIN resources = Health!Kinds /\ DOMAIN about = Health!Kinds
    /\ resources["audit"] # Null =>
          Explained(resources["audit"].verdict, about["audit"].seen, about["audit"].failed)
    /\ resources["host_info"] # Null => InfoSo(resources["host_info"], about["host_info"].seen)

HealthInv == HealthTypes /\ ProbesInv /\ ReadingsInv /\ SessionInv /\ StoredInv

LEMMA HealthInvInit == Health!Init => HealthInv
<1> SUFFICES ASSUME Health!Init PROVE HealthInv
    OBVIOUS
<1>1. HealthTypes
    <2>1. seen = {} /\ IsFiniteSet({})
        BY FS_EmptySet DEF Health!Init
    <2> QED BY <2>1 DEF Health!Init, HealthTypes, Health!NoReadings
<1>2. ProbesInv
    BY DEF Health!Init, ProbesInv
<1>3. ReadingsInv
    BY DEF Health!Init, ReadingsInv, Read, Health!NoReadings
<1>4. SessionInv
    <2>1. ~Opened /\ master = FALSE /\ at = "idle"
        BY DEF Health!Init, Opened
    <2>2. checks = 0 /\ unopened = 0 /\ failures = 0 /\ lingering = 0 /\ tempDirs = 0
        BY DEF Health!Init
    <2>3. {checks, unopened, failures, lingering, tempDirs} \subseteq Nat
        BY <2>2
    <2>4. tempDirs <= unopened + failures /\ lingering <= checks /\ tempDirs <= checks
              /\ lingering <= unopened + failures
        BY <2>2
    <2> QED BY <2>1, <2>3, <2>4 DEF SessionInv
<1>5. StoredInv
    BY DEF Health!Init, StoredInv, Health!Kinds
<1> QED BY <1>1, <1>2, <1>3, <1>4, <1>5 DEF HealthInv

LEMMA NoRequest == Health!NoCall \notin Health!Requests /\ Health!NoCall.op # "health_check"
BY DEF Health!NoCall, Health!Requests

LEMMA ReadMore ==
    ASSUME NEW S, NEW F, NEW g, Read(g, S, F), NEW S2, NEW F2, S \subseteq S2, F \subseteq F2
    PROVE  Read(g, S2, F2)
BY DEF Read, ReadIn

\* A method that is left leaves nothing to do.
LEMMA Left ==
    ASSUME HealthTypes, on' = on, Health!Leaves
    PROVE  HealthTypes' /\ ProbesInv' /\ ReadingsInv' /\ ~Opened' /\ at' = "idle"
<1>1. /\ check' = Health!NoCall /\ at' = "idle" /\ todo' = << >>
      /\ readings' = Health!NoReadings /\ failed' = {} /\ seen' = {} /\ DOMAIN readings' = {}
    BY DEF Health!Leaves, Health!NoReadings
<1>2. HealthTypes'
    BY <1>1, FS_EmptySet DEF HealthTypes
<1>3. ReadingsInv'
    BY <1>1 DEF ReadingsInv, Read
<1> QED BY <1>1, <1>2, <1>3 DEF ProbesInv, Opened

LEMMA Ended ==
    ASSUME HealthTypes, ReadingsInv, on' = on, at # "idle", Health!Ends
    PROVE  /\ HealthTypes' /\ ProbesInv' /\ ReadingsInv'
           /\ master => at' = "closing" /\ check' = check
           /\ ~master => ~Opened' /\ at' = "idle"
<1>1. CASE master
    <2>1. at' = "closing" /\ todo' = << >> /\ UNCHANGED <<check, readings, failed, seen>>
        BY <1>1 DEF Health!Ends
    <2> QED BY <1>1, <2>1 DEF HealthTypes, ProbesInv, ReadingsInv
<1>2. CASE ~master
    BY <1>2, Left DEF Health!Ends
<1> QED BY <1>1, <1>2

LEMMA CallTold == ASSUME HealthInv, NEW r \in Health!Requests, Health!Call(r) PROVE HealthInv'
<1> USE DEF HealthInv
<1>1. /\ at = "idle" /\ checks' = checks + 1
      /\ check' = r /\ at' = "probing" /\ todo' = Health!Probes(r) /\ seen' = {on}
      /\ tempDirs' = (IF r.op = "health_check" THEN tempDirs + 1 ELSE tempDirs)
      /\ UNCHANGED <<on, readings, failed, unopened, master, lingering, resources, about, failures>>
    BY DEF Health!Call, Health!data
<1>2. HealthTypes'
    <2>1. IsFiniteSet({on})
        BY FS_Singleton
    <2> QED BY <1>1, <2>1, NoRequest DEF HealthTypes
<1>3. ~Opened /\ ~master
    BY <1>1 DEF Opened, SessionInv
<1>4. ProbesInv'
    <2>1. PICK T : Lists(Health!Probes(r), T)
        BY ProbesListed
    <2> QED BY <1>1, <1>3, <2>1 DEF ProbesInv, HealthTypes
<1>5. ReadingsInv'
    BY <1>1 DEF ReadingsInv, Read, HealthTypes
<1>6. SessionInv'
    BY <1>1, <1>3 DEF SessionInv, Opened
<1>7. StoredInv'
    BY <1>1 DEF StoredInv
<1> QED BY <1>2, <1>4, <1>5, <1>6, <1>7

LEMMA MasterTold == ASSUME HealthInv, Health!MasterEnds PROVE HealthInv'
<1>1. /\ lingering > 0 /\ lingering' = lingering - 1
      /\ UNCHANGED <<on, check, at, todo, readings, failed, seen, unopened, master, tempDirs, resources, about,
                     checks, changes, failures>>
    BY DEF Health!MasterEnds, Health!method, Health!data, Health!counters
<1> QED BY <1>1 DEF HealthInv, HealthTypes, ProbesInv, ReadingsInv, SessionInv, Opened, StoredInv

LEMMA ChangeTold == ASSUME HealthInv, Health!HostChanges PROVE HealthInv'
<1> USE DEF HealthInv
<1>1. /\ on' \in Hosts
      /\ seen' = (IF at = "idle" THEN seen ELSE seen \cup {on'})
      /\ UNCHANGED <<check, at, todo, readings, failed, unopened, master, lingering, tempDirs, resources, about,
                     checks, failures>>
    BY DEF Health!HostChanges, Health!session, Health!data
<1>2. HealthTypes'
    <2>1. IsFiniteSet(seen \cup {on'})
        BY FS_AddElement DEF HealthTypes
    <2> QED BY <1>1, <2>1 DEF HealthTypes
<1>3. ProbesInv'
    BY <1>1 DEF ProbesInv
<1>4. ReadingsInv'
    <2>1. seen \subseteq seen'
        BY <1>1
    <2> QED BY <1>1, <2>1, ReadMore DEF ReadingsInv
<1>5. SessionInv' /\ StoredInv'
    BY <1>1 DEF SessionInv, Opened, StoredInv
<1> QED BY <1>2, <1>3, <1>4, <1>5

LEMMA CloseTold == ASSUME HealthInv, Health!Closes PROVE HealthInv'
<1> USE DEF HealthInv
<1>1. /\ at = "closing" /\ master' = FALSE /\ Health!Leaves
      /\ UNCHANGED <<on, unopened, resources, about, checks, changes>>
      /\ \/ lingering' = lingering /\ tempDirs' = tempDirs - 1 /\ failures' = failures
         \/ lingering' = lingering + 1 /\ tempDirs' = tempDirs - 1 /\ failures' = failures + 1
         \/ lingering' = lingering /\ tempDirs' = tempDirs /\ failures' = failures + 1
    BY DEF Health!Closes, Health!MayFail, Health!data
<1>2. HealthTypes' /\ ProbesInv' /\ ReadingsInv' /\ ~Opened' /\ at' = "idle"
    BY <1>1, Left
<1>3. Opened
    BY <1>1 DEF SessionInv
<1>4. SessionInv'
    <2>1. ~Opened' /\ master' = FALSE /\ at' = "idle"
        BY <1>1, <1>2
    <2>2. {checks, unopened, failures, lingering, tempDirs}' \subseteq Nat
        BY <1>1, <1>3 DEF SessionInv
    <2>3. tempDirs' <= unopened' + failures' /\ lingering' <= checks' /\ tempDirs' <= checks'
              /\ lingering' <= unopened' + failures'
        BY <1>1, <1>3 DEF SessionInv
    <2> QED BY <2>1, <2>2, <2>3 DEF SessionInv
<1>5. StoredInv'
    BY <1>1 DEF StoredInv
<1> QED BY <1>2, <1>4, <1>5
\* What the session has to be for what follows, once a method has gone or is going.
LEMMA SessionKept ==
    ASSUME SessionInv, at = "probing",
           UNCHANGED <<unopened, master, lingering, tempDirs, checks>>,
           failures' \in Nat, failures' >= failures,
           \/ master /\ at' = "closing" /\ check' = check
           \/ ~master /\ ~Opened /\ ~Opened' /\ at' = "idle"
    PROVE  SessionInv'
<1>1. CASE master /\ at' = "closing" /\ check' = check
    <2>1. Opened /\ Opened'
        BY <1>1 DEF SessionInv, Opened
    <2> QED BY <1>1, <2>1 DEF SessionInv
<1>2. CASE ~master /\ ~Opened /\ ~Opened' /\ at' = "idle"
    BY <1>2 DEF SessionInv
<1> QED BY <1>1, <1>2

\* The probe that is next: of those left it is the first, and it opens the master if there
\* is one to open.
LEMMA FirstProbe ==
    ASSUME HealthInv, at = "probing", todo # << >>
    PROVE  \E S, T : /\ Lists(todo, S) /\ Lists(Health!Probes(check), T) /\ S \subseteq T
                     /\ T \subseteq DOMAIN readings \cup failed \cup S /\ failed \cap S = {}
                     /\ check.op = "lookup" => failed \subseteq {"os-release"}
                     /\ master => "true" \notin S
                     /\ Head(todo) \in S /\ Lists(Tail(todo), S \ {Head(todo)})
                     /\ Head(todo) = "true" <=> Opened /\ ~master
                     /\ check \in Health!Requests
<1> USE DEF HealthInv
<1>1. PICK S, T : /\ Lists(todo, S) /\ Lists(Health!Probes(check), T) /\ S \subseteq T
                  /\ T \subseteq DOMAIN readings \cup failed \cup S /\ failed \cap S = {}
                  /\ check.op = "lookup" => failed \subseteq {"os-release"}
                  /\ master => "true" \notin S
    BY DEF ProbesInv
<1>2. check \in Health!Requests
    BY DEF HealthTypes
<1>3. Head(todo) \in S /\ Lists(Tail(todo), S \ {Head(todo)})
    BY <1>1, FirstTaken
<1>4. /\ check.op # "health_check" => "true" \notin T
      /\ check.op = "health_check" => Head(Health!Probes(check)) = "true"
    <2>1. PICK U : /\ Lists(Health!Probes(check), U)
                   /\ check.op = "health_check" => Head(Health!Probes(check)) = "true"
                   /\ check.op # "health_check" => "true" \notin U
        BY <1>2, ProbesListed
    <2>2. U = T
        BY <1>1, <2>1 DEF Lists
    <2> QED BY <2>1, <2>2
<1>5. Head(todo) = "true" <=> Opened /\ ~master
    BY <1>1, <1>3, <1>4 DEF SessionInv, Opened
<1> QED BY <1>1, <1>2, <1>3, <1>5

LEMMA AnswerTold == ASSUME HealthInv, Health!Answered PROVE HealthInv'
<1> DEFINE p == Head(todo)
<1>1. /\ at = "probing" /\ todo # << >>
      /\ UNCHANGED <<on, unopened, lingering, tempDirs, resources, about, checks, failures>>
    BY DEF Health!Answered, Health!data, Health!counters
<1>2. master' = (master \/ p = "true")
    BY Zenon DEF Health!Answered
<1>3. \/ Health!BadPattern(p) /\ Health!Ends
      \/ /\ readings' = [q \in DOMAIN readings \cup {p} |-> IF q = p THEN Health!Reading(p, on) ELSE readings[q]]
         /\ todo' = Tail(todo)
         /\ UNCHANGED <<check, at, failed, seen>>
    BY Zenon DEF Health!Answered
<1>4. PICK S, T : /\ Lists(todo, S) /\ Lists(Health!Probes(check), T) /\ S \subseteq T
                  /\ T \subseteq DOMAIN readings \cup failed \cup S /\ failed \cap S = {}
                  /\ check.op = "lookup" => failed \subseteq {"os-release"}
                  /\ master => "true" \notin S
                  /\ p \in S /\ Lists(Tail(todo), S \ {p})
                  /\ p = "true" <=> Opened /\ ~master
    BY <1>1, FirstProbe
<1> USE DEF HealthInv
<1> HIDE DEF p
<1>5. master \in BOOLEAN /\ master' \in BOOLEAN /\ (master' <=> Opened)
    BY <1>2, <1>4 DEF SessionInv
<1>6. StoredInv'
    BY <1>1 DEF StoredInv
<1>7. CASE Health!BadPattern(p) /\ Health!Ends
    <2>1. /\ HealthTypes' /\ ProbesInv' /\ ReadingsInv'
          /\ master => at' = "closing" /\ check' = check
          /\ ~master => ~Opened' /\ at' = "idle"
        BY <1>1, <1>7, Ended DEF p
    <2>2. p # "true"
        BY <1>7 DEF Health!BadPattern, Health!ToSet, Health!Messages
    <2>3. master' = master /\ (master <=> Opened)
        <3>1. Opened => master
            BY <1>4, <2>2
        <3>2. master => Opened
            BY DEF SessionInv
        <3>3. master' = (master \/ FALSE)
            BY <1>2, <2>2, Zenon
        <3> QED BY <1>5, <3>1, <3>2, <3>3
    <2>4. SessionInv'
        <3>1. failures' \in Nat /\ failures' >= failures
            BY <1>1 DEF SessionInv
        <3> QED BY <1>1, <2>1, <2>3, <3>1, SessionKept
    <2> QED BY <1>6, <2>1, <2>4
<1>8. CASE /\ readings' = [q \in DOMAIN readings \cup {p} |-> IF q = p THEN Health!Reading(p, on) ELSE readings[q]]
           /\ todo' = Tail(todo)
           /\ UNCHANGED <<check, at, failed, seen>>
    <2>1. HealthTypes'
        BY <1>1, <1>8 DEF HealthTypes
    <2>2. DOMAIN readings' = DOMAIN readings \cup {p}
        BY <1>8
    <2>3. ProbesInv'
        <3> DEFINE R == S \ {p}
        <3>1. /\ Lists(todo', R) /\ Lists(Health!Probes(check'), T) /\ R \subseteq T
              /\ T \subseteq DOMAIN readings' \cup failed' \cup R /\ failed' \cap R = {}
              /\ check'.op = "lookup" => failed' \subseteq {"os-release"}
              /\ "true" \notin S \/ p = "true" \/ ~master'
            BY <1>2, <1>4, <1>5, <1>8, <2>2
        <3>2. "true" \notin R \/ ~master'
            BY <3>1
        <3> HIDE DEF R
        <3> QED BY <3>1, <3>2 DEF ProbesInv
    <2>4. ReadingsInv'
        <3>1. on \in seen
            BY <1>1 DEF HealthTypes
        <3> QED BY <1>8, <2>2, <3>1 DEF ReadingsInv, Read, ReadIn
    <2>5. SessionInv'
        BY <1>1, <1>5, <1>8 DEF SessionInv, Opened
    <2> QED BY <1>6, <2>1, <2>3, <2>4, <2>5
<1> QED BY <1>3, <1>7, <1>8

LEMMA FailTold == ASSUME HealthInv, Health!Fails PROVE HealthInv'
<1> DEFINE p == Head(todo)
           Leaving == Health!Required(p) /\ Health!Leaves
           Going == /\ ~Health!Required(p)
                    /\ todo' = Tail(todo) /\ failed' = failed \cup {p}
                    /\ \E piece \in IF Health!CountsAnyway(p) /\ on.reachable
                                  THEN SUBSET Health!Reading(p, on) ELSE {{}} :
                          readings' = IF piece = {} THEN readings
                                      ELSE [q \in DOMAIN readings \cup {p} |-> IF q = p THEN piece ELSE readings[q]]
                    /\ UNCHANGED <<check, at, seen>>
<1>1. /\ at = "probing" /\ todo # << >>
      /\ UNCHANGED <<on, master, tempDirs, resources, about, checks>>
    BY DEF Health!Fails, Health!data
<1>2. /\ failures' = failures + 1 \/ failures' = failures
      /\ lingering' \in (IF p = "true" THEN {lingering, lingering + 1} ELSE {lingering})
      /\ unopened' = (IF p = "true" THEN unopened + 1 ELSE unopened)
    BY DEF Health!Fails, Health!MayFail
<1>3. Leaving \/ Going
    BY DEF Health!Fails
<1>4. PICK S, T : /\ Lists(todo, S) /\ Lists(Health!Probes(check), T) /\ S \subseteq T
                  /\ T \subseteq DOMAIN readings \cup failed \cup S /\ failed \cap S = {}
                  /\ check.op = "lookup" => failed \subseteq {"os-release"}
                  /\ master => "true" \notin S
                  /\ p \in S /\ Lists(Tail(todo), S \ {p})
                  /\ p = "true" <=> Opened /\ ~master
                  /\ check \in Health!Requests
    BY <1>1, FirstProbe
<1>5. Health!Required(p) <=> p = "true" \/ (check.op = "lookup" /\ p # "os-release")
    BY DEF Health!Required
<1> USE DEF HealthInv
<1> HIDE DEF p
<1>6. StoredInv'
    BY <1>1 DEF StoredInv
<1>7. CASE Leaving
    <2>1. HealthTypes' /\ ProbesInv' /\ ReadingsInv' /\ ~Opened' /\ at' = "idle"
        BY <1>1, <1>7, Left
    <2>2. ~master
        BY <1>4, <1>5, <1>7 DEF SessionInv, Opened
    <2>3. SessionInv'
        <3>1. /\ {checks, unopened, failures, lingering, tempDirs}' \subseteq Nat
              /\ tempDirs' <= unopened' + failures' /\ lingering' <= checks' /\ tempDirs' <= checks'
              /\ lingering' <= unopened' + failures'
            <4>1. CASE p = "true"
                BY <1>1, <1>2, <1>4, <4>1 DEF SessionInv
            <4>2. CASE p # "true"
                <5>1. ~Opened
                    BY <1>4, <2>2, <4>2
                <5> QED BY <1>1, <1>2, <4>2, <5>1 DEF SessionInv
            <4> QED BY <4>1, <4>2
        <3>2. master' \in BOOLEAN /\ ~master'
            BY <1>1, <2>2 DEF SessionInv
        <3> QED BY <2>1, <3>1, <3>2 DEF SessionInv
    <2> QED BY <1>6, <2>1, <2>3
<1>8. CASE Going
    <2>1. HealthTypes'
        BY <1>1, <1>8 DEF HealthTypes
    <2>2. p # "true" /\ (check.op = "lookup" => p = "os-release")
        BY <1>5, <1>8
    <2>3. PICK piece \in IF Health!CountsAnyway(p) /\ on.reachable THEN SUBSET Health!Reading(p, on) ELSE {{}} :
             readings' = IF piece = {} THEN readings
                         ELSE [q \in DOMAIN readings \cup {p} |-> IF q = p THEN piece ELSE readings[q]]
        BY <1>8
    <2>4. DOMAIN readings \subseteq DOMAIN readings' /\ DOMAIN readings' \subseteq DOMAIN readings \cup {p}
        BY <2>3
    <2>5. ProbesInv'
        <3> DEFINE R == S \ {p}
        <3>1. /\ Lists(todo', R) /\ Lists(Health!Probes(check'), T) /\ R \subseteq T
              /\ T \subseteq DOMAIN readings' \cup failed' \cup R /\ failed' \cap R = {}
              /\ check'.op = "lookup" => failed' \subseteq {"os-release"}
              /\ master' => "true" \notin R
            BY <1>1, <1>4, <1>8, <2>2, <2>4
        <3> HIDE DEF R
        <3> QED BY <3>1 DEF ProbesInv
    <2>6. ReadingsInv'
        <3>1. on \in seen /\ seen' = seen /\ failed' = failed \cup {p}
            BY <1>1, <1>8 DEF HealthTypes
        <3>2. ASSUME NEW q \in DOMAIN readings' PROVE ReadIn(readings', q, seen', failed')
            <4>1. CASE q # p \/ piece = {}
                <5>1. q \in DOMAIN readings /\ readings'[q] = readings[q]
                    BY <2>3, <2>4, <4>1
                <5> QED BY <3>1, <5>1 DEF ReadingsInv, Read, ReadIn
            <4>2. CASE q = p /\ piece # {}
                <5>1. readings'[q] = piece /\ Health!CountsAnyway(p) /\ piece \subseteq Health!Reading(p, on)
                    BY <2>3, <4>2
                <5> QED BY <3>1, <4>2, <5>1 DEF ReadIn
            <4> QED BY <4>1, <4>2
        <3> QED BY <3>2 DEF ReadingsInv, Read
    <2>7. SessionInv'
        <3>1. (Opened <=> Opened') /\ master' = master /\ (Opened => master)
            BY <1>1, <1>4, <1>8, <2>2 DEF Opened
        <3>2. lingering' = lingering /\ unopened' = unopened
            BY <1>2, <2>2
        <3> QED BY <1>1, <1>2, <1>8, <3>1, <3>2 DEF SessionInv
    <2> QED BY <1>6, <2>1, <2>5, <2>6, <2>7
<1> QED BY <1>3, <1>7, <1>8

\* What remains when all probes have been run is all that a method makes its resource of.
LEMMA AllRun ==
    ASSUME HealthInv, at = "probing", todo = << >>
    PROVE  /\ check \in Health!Requests /\ (master <=> Opened)
           /\ check.op = "health_check" => Signalled \subseteq DOMAIN readings \cup failed
           /\ check.op = "lookup" => /\ failed \subseteq {"os-release"}
                                     /\ {"unameAll", "unameVersion", "zpoolList"} \subseteq DOMAIN readings
<1> USE DEF HealthInv
<1>1. PICK S, T : /\ Lists(todo, S) /\ Lists(Health!Probes(check), T)
                  /\ T \subseteq DOMAIN readings \cup failed \cup S
                  /\ check.op = "lookup" => failed \subseteq {"os-release"}
    BY DEF ProbesInv
<1>2. S = {}
    BY <1>1 DEF Lists, Health!ToSet
<1>3. check \in Health!Requests
    BY DEF HealthTypes
<1>4. PICK U : /\ Lists(Health!Probes(check), U)
               /\ check.op = "lookup" => {"unameAll", "unameVersion", "zpoolList"} \subseteq U
               /\ check.op = "health_check" => Signalled \subseteq U /\ Health!Probes(check) # << >>
    BY <1>3, ProbesListed
<1>5. U = T
    BY <1>1, <1>4 DEF Lists
<1>6. master <=> Opened
    BY <1>4 DEF SessionInv, Opened
<1>7. check.op = "lookup" => {"unameAll", "unameVersion", "zpoolList"} \subseteq DOMAIN readings
    BY <1>1, <1>2, <1>4, <1>5
<1> QED BY <1>1, <1>2, <1>3, <1>4, <1>5, <1>6, <1>7

LEMMA WriteFailTold == ASSUME HealthInv, Health!WriteFails PROVE HealthInv'
<1> USE DEF HealthInv
<1>1. /\ at = "probing" /\ todo = << >> /\ failures' = failures + 1 /\ Health!Ends
      /\ UNCHANGED <<on, unopened, master, lingering, tempDirs, resources, about, checks>>
    BY DEF Health!WriteFails, Health!MayFail, Health!session, Health!data
<1>2. /\ HealthTypes' /\ ProbesInv' /\ ReadingsInv'
      /\ master => at' = "closing" /\ check' = check
      /\ ~master => ~Opened' /\ at' = "idle"
    BY <1>1, Ended
<1>3. SessionInv'
    <2>1. failures' \in Nat /\ failures' >= failures
        BY <1>1 DEF SessionInv
    <2> QED BY <1>1, <1>2, <2>1, AllRun, SessionKept
<1>4. StoredInv'
    BY <1>1 DEF StoredInv
<1> QED BY <1>2, <1>3, <1>4

LEMMA StoreTold == ASSUME HealthInv, Health!Stored PROVE HealthInv'
<1> USE DEF HealthInv
<1> DEFINE s == Health!Stores(check)
           run == [seen |-> seen, failed |-> failed]
<1>1. /\ at = "probing" /\ todo = << >> /\ Health!Ends
      /\ resources' = [resources EXCEPT ![s[1]] = s[2]]
      /\ about' = [about EXCEPT ![s[1]] = run]
      /\ UNCHANGED <<on, unopened, master, lingering, tempDirs, checks, failures>>
    BY DEF Health!Stored, Health!session, Health!counters
<1>2. /\ HealthTypes' /\ ProbesInv' /\ ReadingsInv'
      /\ master => at' = "closing" /\ check' = check
      /\ ~master => ~Opened' /\ at' = "idle"
    BY <1>1, Ended
<1>3. SessionInv'
    <2>1. failures' \in Nat /\ failures' >= failures
        BY <1>1 DEF SessionInv
    <2> QED BY <1>1, <1>2, <2>1, AllRun, SessionKept
<1>4. check.op = "health_check" => Explained(Health!audit(readings).verdict, seen, failed)
    BY <1>1, AllRun, VerdictTold DEF HealthTypes, ReadingsInv
<1>5. check.op = "lookup" => InfoSo(Health!hostInfo(readings), seen)
    BY <1>1, AllRun, InfoTold DEF HealthTypes, ReadingsInv
<1>6. /\ check.op = "lookup" => s[1] = "host_info" /\ s[2] = Health!hostInfo(readings)
      /\ check.op = "health_check" => s[1] = "audit" /\ s[2] = Health!audit(readings)
      /\ check.op \notin {"lookup", "health_check"} => s[1] \notin {"host_info", "audit"}
    <2>1. check \in Health!Requests
        BY <1>1, AllRun
    <2>2. check.op \in {"lookup", "thermal", "load", "faults", "messages", "health_check"}
        BY <2>1 DEF Health!Requests
    <2> QED BY <2>2 DEF Health!Stores
<1>7. StoredInv'
    <2> HIDE DEF s, run
    <2>1. DOMAIN resources' = Health!Kinds /\ DOMAIN about' = Health!Kinds
        BY <1>1 DEF StoredInv
    <2>2. "audit" \in Health!Kinds /\ "host_info" \in Health!Kinds
        BY DEF Health!Kinds
    <2>3. /\ s[1] = "audit" => resources'["audit"] = s[2] /\ about'["audit"] = run
          /\ s[1] # "audit" => resources'["audit"] = resources["audit"] /\ about'["audit"] = about["audit"]
          /\ s[1] = "host_info" => resources'["host_info"] = s[2] /\ about'["host_info"] = run
          /\ s[1] # "host_info" =>
                resources'["host_info"] = resources["host_info"] /\ about'["host_info"] = about["host_info"]
        BY <1>1, <2>2 DEF StoredInv
    <2>4. run.seen = seen /\ run.failed = failed
        BY DEF run
    <2>5. resources'["audit"] # Null =>
             Explained(resources'["audit"].verdict, about'["audit"].seen, about'["audit"].failed)
        BY <1>4, <1>6, <2>3, <2>4 DEF StoredInv
    <2>6. resources'["host_info"] # Null => InfoSo(resources'["host_info"], about'["host_info"].seen)
        BY <1>5, <1>6, <2>3, <2>4 DEF StoredInv
    <2> QED BY <2>1, <2>5, <2>6 DEF StoredInv
<1> QED BY <1>2, <1>3, <1>7

LEMMA HealthKept == ASSUME HealthInv, Health!Next PROVE HealthInv'
BY CallTold, AnswerTold, FailTold, StoreTold, WriteFailTold, CloseTold, MasterTold, ChangeTold
   DEF Health!Next, Health!Works

LEMMA HealthTold == ASSUME HealthInv PROVE HealthTrue
<1> USE DEF HealthInv
<1>1. Health!VerdictExplained
    BY DEF StoredInv, Explained, Health!VerdictExplained
<1>2. Health!InfoExplained
    BY DEF StoredInv, InfoSo, Health!InfoExplained
<1>3. Health!SessionClosed
    BY DEF SessionInv, Opened, Health!SessionClosed
<1>4. Health!TypeOK
    <2>1. todo # << >> => at = "probing" /\ failed \cap Health!ToSet(todo) = {}
        BY DEF HealthTypes, ProbesInv, Lists
    <2>2. at = "probing" =>
             Health!ToSet(Health!Probes(check)) \subseteq DOMAIN readings \cup failed \cup Health!ToSet(todo)
        BY DEF ProbesInv, Lists
    <2>3. lingering \in 0 .. checks /\ tempDirs \in 0 .. checks
        BY DEF SessionInv
    <2> QED BY <2>1, <2>2, <2>3 DEF Health!TypeOK, HealthTypes, SessionInv, StoredInv
<1> QED BY <1>1, <1>2, <1>3, <1>4 DEF HealthTrue

\* A verdict was so at some moment of its check and passes over only what is looked at later
\* or could not be read; what lookup stores was so; between methods there is no session
\* but those that never opened or whose end failed: for any host and any faults of ssh.
THEOREM VerdictsAreTrue == HostSpec => []HealthTrue
<1>1. HostInit => HealthInv
    BY HealthInvInit DEF HostInit
<1>2. HealthInv /\ [HostNext]_<<part, vars, healthVars>> => HealthInv'
    <2> SUFFICES ASSUME HealthInv, [HostNext]_<<part, vars, healthVars>> PROVE HealthInv'
        OBVIOUS
    <2>1. CASE Health!Next
        BY <2>1, HealthKept
    <2>2. CASE UNCHANGED healthVars
        BY <2>2 DEF healthVars, HealthInv, HealthTypes, ProbesInv, ReadingsInv, SessionInv, Opened, StoredInv
    <2> QED BY <2>1, <2>2 DEF HostNext
<1>3. HealthInv => HealthTrue
    BY HealthTold
<1> QED BY <1>1, <1>2, <1>3, PTL DEF HostSpec
=============================================================================
