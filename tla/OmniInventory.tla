---------------------------- MODULE OmniInventory ----------------------------
(***************************************************************************)
(* Discovery of an Omni fleet: four queries run side by side, what they    *)
(* return is merged by machine, and the records are written one by one,    *)
(* the summary last.                                                       *)
(*                                                                         *)
(* Omni is external.  Its controllers keep a machine's status, its status  *)
(* as a member of a cluster, its identity there and the clusters as        *)
(* resources of their own, and change one at a time, so that a query may   *)
(* return what no longer fits an earlier answer.  An answer is what the    *)
(* resources of its type were at some moment of the run.                   *)
(***************************************************************************)
EXTENDS Integers, FiniteSets, FiniteSetsExt

CONSTANTS
    Null,           \* no value
    Machines, Clusters,
    Slug,           \* sanitizeInstanceName, of the names of clusters
    Fleets,         \* what Omni may hold at first
    MaxRuns,        \* bound: discoveries
    MaxChanges,     \* bound: resources that change
    MaxFailures     \* bound: queries or writes that fail

Queries == {"machinestatus", "clustermachinestatus", "clustermachineidentity", "cluster"}

Holdable(resources) ==
    /\ DOMAIN resources = Queries
    /\ DOMAIN resources["machinestatus"] \subseteq Machines
    /\ DOMAIN resources["cluster"] \subseteq Clusters

Assumptions ==
    /\ IsFiniteSet(Machines) /\ IsFiniteSet(Clusters) /\ Null \notin Clusters
    /\ DOMAIN Slug = Clusters
    /\ \A resources \in Fleets : Holdable(resources)
    /\ {MaxRuns, MaxChanges, MaxFailures} \subseteq Nat

VARIABLES
    omni,       \* per type, the resources by their id
    phase,      \* "idle", "querying" or "writing"
    got,        \* the answers to the queries so far
    merged,     \* the inventory merged from them
    left,       \* the records yet to be written
    nodes,      \* stored node records by machine
    clusters,   \* stored cluster records by the slug of the cluster's name
    summary,    \* the stored summary
    lasting,    \* machines registered since the run began
    still,      \* whether Omni has been as it is since the run began
    runs, changes, failures

run == <<phase, got, merged, left>>
stored == <<nodes, clusters, summary>>
history == <<lasting, still>>
vars == <<omni, run, stored, history, runs, changes, failures>>

Empty == [n \in {} |-> Null]
Put(f, n, v) == [m \in DOMAIN f \cup {n} |-> IF m = n THEN v ELSE f[m]]
Drop(f, n) == [m \in DOMAIN f \ {n} |-> f[m]]
Count(S, P(_)) == Cardinality({s \in S : P(s)})

-----------------------------------------------------------------------------
(* The merge.                                                              *)

decodeRole(role) ==
    CASE role = 1 -> "controlplane" [] role = 2 -> "worker" [] role \in {0, Null} -> "none"
      [] OTHER -> "role-n"
decodeStage(stage) ==
    CASE stage = 1 -> "booting" [] stage = 2 -> "installing" [] stage = 3 -> "configuring"
      [] stage = 4 -> "running" [] stage = 5 -> "upgrading" [] stage = 6 -> "rebooting"
      [] stage = 7 -> "shutting-down" [] stage = 8 -> "before-destroy" [] stage = 9 -> "destroying"
      [] stage = 10 -> "powering-on" [] stage = 11 -> "powered-off" [] stage \in {0, Null} -> "unknown"
      [] OTHER -> "stage-n"
\* A label is preferred to the number in the spec.
roleFromLabels(label, role) == IF label # Null THEN label ELSE decodeRole(role)

\* m is a machine with a status in raw.
buildNode(raw, m, at) ==
    LET status == raw["machinestatus"][m]
        isMember == m \in DOMAIN raw["clustermachinestatus"]
        member == raw["clustermachinestatus"][m]
        named == m \in DOMAIN raw["clustermachineidentity"]
    IN  [id |-> m, cluster |-> status.cluster, connected |-> status.connected,
         role |-> roleFromLabels(IF isMember THEN member.label ELSE status.label, status.role),
         stage |-> IF isMember THEN decodeStage(member.stage) ELSE "unassigned",
         ready |-> isMember /\ member.ready,
         nodename |-> IF named THEN raw["clustermachineidentity"][m] ELSE Null,
         at |-> at]

Nodes(raw, at) == {buildNode(raw, m, at) : m \in DOMAIN raw["machinestatus"]}

Notes(raw, N) ==
    {<<"unknown-cluster", n.id>> : n \in {o \in N : o.cluster \notin DOMAIN raw["cluster"] \cup {Null}}}
      \cup {<<"no-status", n.id>> : n \in {o \in N : o.cluster # Null /\ o.stage = "unassigned"}}

Members(N, name) == {n \in N : n.cluster = name}
ClusterRecord(N, name, at) ==
    LET members == Members(N, name)
    IN  [name |-> name, machineCount |-> Cardinality(members),
         controlPlaneCount |-> Count(members, LAMBDA n : n.role = "controlplane"),
         workerCount |-> Count(members, LAMBDA n : n.role = "worker"),
         connectedCount |-> Count(members, LAMBDA n : n.connected), at |-> at]

Tally(N, key(_)) == [k \in {key(n) : n \in N} |-> Count(N, LAMBDA n : key(n) = k)]
mergeInventory(raw, at) ==
    LET N == Nodes(raw, at)
    IN  [nodes |-> N,
         clusters |-> {ClusterRecord(N, name, at) : name \in DOMAIN raw["cluster"]},
         summary |-> [totalNodes |-> Cardinality(N), connectedCount |-> Count(N, LAMBDA n : n.connected),
                      clusterCount |-> Cardinality(DOMAIN raw["cluster"]),
                      byCluster |-> Tally(N, LAMBDA n : n.cluster),
                      byRole |-> Tally(N, LAMBDA n : n.role),
                      notes |-> Notes(raw, N), at |-> at]]

-----------------------------------------------------------------------------
(* A run of discover.                                                      *)

Nothing == [nodes |-> {}, clusters |-> {}, summary |-> Null]

Init ==
    /\ omni \in Fleets
    /\ phase = "idle" /\ got = Empty /\ merged = Nothing /\ left = Nothing
    /\ nodes = Empty /\ clusters = Empty /\ summary = Null
    /\ lasting = {} /\ still = FALSE
    /\ runs = 0 /\ changes = 0 /\ failures = 0

Discover ==
    /\ phase = "idle" /\ runs < MaxRuns
    /\ runs' = runs + 1
    /\ phase' = "querying" /\ got' = Empty /\ merged' = Nothing /\ left' = Nothing
    /\ lasting' = DOMAIN omni["machinestatus"] /\ still' = TRUE
    /\ UNCHANGED <<omni, stored, changes, failures>>

QueryAnswered(q) ==
    /\ phase = "querying" /\ q \notin DOMAIN got
    /\ got' = Put(got, q, omni[q])
    /\ UNCHANGED <<omni, phase, merged, left, stored, history, runs, changes, failures>>

\* Mutant: a query that fails is taken to have found nothing.
TakenForNone(q) == got' = Put(got, q, Empty) /\ UNCHANGED phase
\* One rejection rejects all of them; the answers to the others are dropped.
Rejects(q) == phase' = "idle" /\ UNCHANGED got
QueryFails(q) ==
    /\ phase = "querying" /\ q \notin DOMAIN got /\ failures < MaxFailures
    /\ failures' = failures + 1
    /\ Rejects(q)
    /\ UNCHANGED <<omni, merged, left, stored, history, runs, changes>>

Merge ==
    /\ phase = "querying" /\ DOMAIN got = Queries
    /\ merged' = mergeInventory(got, runs)
    /\ left' = merged'
    /\ phase' = "writing"
    /\ UNCHANGED <<omni, got, stored, history, runs, changes, failures>>

WriteNode ==
    /\ phase = "writing"
    /\ \E n \in left.nodes :
          nodes' = Put(nodes, n.id, n) /\ left' = [left EXCEPT !.nodes = @ \ {n}]
    /\ UNCHANGED <<omni, phase, got, merged, clusters, summary, history, runs, changes, failures>>

WriteCluster ==
    /\ phase = "writing" /\ left.nodes = {}
    /\ \E c \in left.clusters :
          clusters' = Put(clusters, Slug[c.name], c) /\ left' = [left EXCEPT !.clusters = @ \ {c}]
    /\ UNCHANGED <<omni, phase, got, merged, nodes, summary, history, runs, changes, failures>>

SummaryNext == left.nodes = {} /\ left.clusters = {}
WriteSummary ==
    /\ phase = "writing" /\ SummaryNext
    /\ summary' = left.summary
    /\ phase' = "idle"
    /\ UNCHANGED <<omni, got, merged, left, nodes, clusters, history, runs, changes, failures>>

WriteFails ==
    /\ phase = "writing" /\ failures < MaxFailures
    /\ failures' = failures + 1
    /\ phase' = "idle"
    /\ UNCHANGED <<omni, got, merged, left, stored, history, runs, changes>>

-----------------------------------------------------------------------------
(* Omni.                                                                   *)

Status(cluster) == [cluster |-> cluster, connected |-> TRUE, label |-> Null, role |-> 0]
Member == [label |-> "worker", stage |-> 4, ready |-> TRUE]

Changes(q) ==
    CASE q = "machinestatus" ->
            {Put(omni[q], m, Status(c)) : m \in Machines, c \in DOMAIN omni["cluster"] \cup {Null}}
              \cup {Drop(omni[q], m) : m \in DOMAIN omni[q]}
              \cup {[omni[q] EXCEPT ![m].connected = ~@] : m \in DOMAIN omni[q]}
      [] q = "clustermachinestatus" ->
            {Put(omni[q], m, Member) : m \in DOMAIN omni["machinestatus"]}
              \cup {Drop(omni[q], m) : m \in DOMAIN omni[q]}
      [] q = "clustermachineidentity" ->
            {Put(omni[q], m, "node") : m \in DOMAIN omni["clustermachinestatus"]}
              \cup {Drop(omni[q], m) : m \in DOMAIN omni[q]}
      [] q = "cluster" ->
            {Put(omni[q], c, "v1") : c \in Clusters} \cup {Drop(omni[q], c) : c \in DOMAIN omni[q]}

OmniChanges ==
    /\ changes < MaxChanges
    /\ changes' = changes + 1
    /\ \E q \in Queries : \E new \in Changes(q) : new # omni[q] /\ omni' = [omni EXCEPT ![q] = new]
    /\ lasting' = lasting \cap DOMAIN omni'["machinestatus"]
    /\ still' = FALSE
    /\ UNCHANGED <<run, stored, runs, failures>>

Next ==
    \/ Discover \/ (\E q \in Queries : QueryAnswered(q) \/ QueryFails(q)) \/ Merge
    \/ WriteNode \/ WriteCluster \/ WriteSummary \/ WriteFails \/ OmniChanges

Spec == Init /\ [][Next]_vars

-----------------------------------------------------------------------------
Completed == phase = "idle" /\ summary # Null /\ summary.at = runs

TypeOK ==
    /\ DOMAIN omni = Queries
    /\ phase \in {"idle", "querying", "writing"}
    /\ DOMAIN got \subseteq Queries
    /\ left.nodes \subseteq merged.nodes /\ left.clusters \subseteq merged.clusters
    /\ phase = "writing" => DOMAIN got = Queries /\ merged.summary.at = runs
    /\ DOMAIN nodes \subseteq Machines /\ \A m \in DOMAIN nodes : nodes[m].id = m /\ nodes[m].at \in 1 .. runs
    /\ \A s \in DOMAIN clusters : Slug[clusters[s].name] = s
    /\ summary # Null => summary.at \in 1 .. runs

\* A machine that is registered all through a run that completes has a record of that
\* run: a query that fails is never taken for one that finds nothing.
DiscoveredAll == Completed => \A m \in lasting : m \in DOMAIN nodes /\ nodes[m].at = runs

\* A summary stands for records that are there: those of its run are as many as it
\* counts, if a later run, or one that failed, has not written over some of them; records
\* of machines that are gone bear an earlier time.
SummaryLast ==
    (Completed \/ (phase = "querying" /\ summary # Null /\ summary.at = runs - 1)) =>
       /\ Cardinality({m \in DOMAIN nodes : nodes[m].at = summary.at}) = summary.totalNodes
       /\ \A m \in DOMAIN nodes : nodes[m].at <= summary.at

\* What the records of a completed run say of the clusters adds up: a machine is in no
\* cluster, is counted by the record of its own, or is noted; only clusters whose names
\* have one slug hide each other.
CountsAgree ==
    Completed =>
       LET own == {c \in DOMAIN Slug : \E s \in DOMAIN clusters : clusters[s].name = c /\ clusters[s].at = runs}
           hidden == {n \in merged.nodes :
                         \E c \in Clusters : n.cluster # c /\ n.cluster \in Clusters /\ Slug[c] = Slug[n.cluster]
                                             /\ c \in own}
           noted == {n \in merged.nodes : <<"unknown-cluster", n.id>> \in summary.notes}
           free == {n \in merged.nodes : n.cluster = Null}
       IN  MapThenSumSet(LAMBDA c : clusters[Slug[c]].machineCount, own)
              = summary.totalNodes - Cardinality(hidden \cup noted \cup free)

\* A node that says it is in a cluster, and has no stage there or a cluster that was not
\* returned, is noted; and a run during which nothing changes notes only what is so.
NotesExplained ==
    Completed =>
       /\ \A n \in merged.nodes :
             (n.cluster # Null /\ n.stage = "unassigned") => \E note \in summary.notes : note[2] = n.id
       /\ still =>
             \A note \in summary.notes :
                LET c == omni["machinestatus"][note[2]].cluster
                IN  c # Null /\ (c \notin DOMAIN omni["cluster"] \/ note[2] \notin DOMAIN omni["clustermachinestatus"])
=============================================================================
