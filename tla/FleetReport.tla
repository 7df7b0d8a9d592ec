----------------------------- MODULE FleetReport -----------------------------
(***************************************************************************)
(* The inventory-fleet workflow: discoveries that run side by side, each   *)
(* allowed to fail, and the report that joins the records they wrote.      *)
(*                                                                         *)
(* The hypervisors and their guests are external, and so is the engine: it *)
(* keeps the records by version, the last few of each, and hands the       *)
(* report the versions the steps of its run wrote.                         *)
(***************************************************************************)
EXTENDS Integers, FiniteSets, Sequences, SequencesExt

CONSTANTS
    Null,           \* no value
    Setups,         \* [steps, fleets, runs, others]: the steps of a workflow in the
                    \* order the report reads them, each [spec, at]; which guests there
                    \* may be at first, by hypervisor; bounds of its runs and of the
                    \* discoveries outside it
    Moves,          \* the fleets each one may become
    Kept,           \* garbageCollection: versions kept of a record
    MaxChanges,     \* bound: changes of the fleet
    MaxFailures     \* bound: steps that fail

\* A guest is known by its id; hypervisors do not come or go.
Assumptions ==
    /\ \A u \in Setups : \A f \in u.fleets :
          f \in DOMAIN Moves /\ u.steps \in Seq([spec : {"node", "guest", "vm_spec", "vm"}, at : DOMAIN f])
    /\ \A f \in DOMAIN Moves :
          /\ \A h \in DOMAIN f : \A g \in DOMAIN f[h] : f[h][g].id = g
          /\ \A new \in Moves[f] : new \in DOMAIN Moves /\ DOMAIN new = DOMAIN f
    /\ Kept \in Nat \ {0}

VARIABLES
    setup,
    fleet,      \* per hypervisor, its guests by id
    status,     \* per step: "idle", "running", "writing", "succeeded" or "failed"
    left,       \* per step, the guests it has yet to write
    handles,    \* per step, the names and versions it wrote
    store,      \* per step's model, the versions of each record
    report,     \* the report of the last run
    seen,       \* per hypervisor, what its guests were during the run
    lasting,    \* per hypervisor, the guests that were there all through the run
    runs, changes, others, failures

history == <<seen, lasting>>
bounds == <<runs, changes, others, failures>>
vars == <<setup, fleet, status, left, handles, store, report, history, bounds>>

S == DOMAIN setup.steps
SpecName(s) == setup.steps[s].spec
At(s) == setup.steps[s].at
Put(f, n, v) == [m \in DOMAIN f \cup {n} |-> IF m = n THEN v ELSE f[m]]
Or(v, default) == IF v = Null THEN default ELSE v

-----------------------------------------------------------------------------
(* The rows.                                                               *)

\* A record is [id, name, state, vcpus, memoryMib, ips, macs], as far as its
\* provider tells; a name made up from the id is the id.
normalizeNode(d) ==
    [hypervisor |-> "talos", name |-> Or(d.name, d.id), state |-> Or(d.state, "disconnected"),
     vcpus |-> d.vcpus, memoryMib |-> d.memoryMib, ips |-> d.ips, macs |-> {}]
normalizeGuest(d) ==
    [hypervisor |-> "proxmox", name |-> Or(d.name, d.id), state |-> Or(d.state, "unknown"),
     vcpus |-> Null, memoryMib |-> Null, ips |-> d.ips, macs |-> {}]
normalizeVmSpec(d) ==
    [hypervisor |-> "proxmox", name |-> Or(d.name, d.id), state |-> Or(d.state, "unknown"),
     vcpus |-> d.vcpus, memoryMib |-> d.memoryMib, ips |-> d.ips, macs |-> d.macs]
normalizeVm(d) ==
    [hypervisor |-> "truenas", name |-> Or(d.name, d.id), state |-> Or(d.state, "unknown"),
     vcpus |-> d.vcpus, memoryMib |-> d.memoryMib, ips |-> {}, macs |-> d.macs]
rowFor(spec, d) ==
    CASE spec = "node" -> normalizeNode(d)
      [] spec = "guest" -> normalizeGuest(d)
      [] spec = "vm_spec" -> normalizeVmSpec(d)
      [] spec = "vm" -> normalizeVm(d)

richness(r) ==
    Cardinality({f \in {"vcpus", "memoryMib"} : r[f] # Null} \cup {f \in {"ips", "macs"} : r[f] # {}})
Richer(r, cur) == richness(r) > richness(cur)

Key(r) == <<r.hypervisor, r.name>>
\* What there is after one more row: the best row of each name in the order the names
\* came, and apart from them the rows without a name.
Deduped(acc, r) ==
    IF r.name = "unknown" THEN [acc EXCEPT !.passthrough = Append(@, r)]
    ELSE IF \E k \in DOMAIN acc.best : Key(acc.best[k]) = Key(r)
    THEN LET cur == CHOOSE k \in DOMAIN acc.best : Key(acc.best[k]) = Key(r)
         IN  IF Richer(r, acc.best[cur]) THEN [acc EXCEPT !.best[cur] = r] ELSE acc
    ELSE [acc EXCEPT !.best = Append(@, r)]
dedupeRows(rows) ==
    LET acc == FoldLeft(Deduped, [best |-> << >>, passthrough |-> << >>], rows)
    IN  acc.best \o acc.passthrough

readHandle(s, h) ==
    LET found == {i \in DOMAIN store[s][h.name] : store[s][h.name][i].version = h.version}
    IN  IF found = {} THEN Null ELSE store[s][h.name][CHOOSE i \in found : TRUE].data

Read(s) == status[s] = "succeeded"
RowOf(s, h) == IF readHandle(s, h) = Null THEN << >> ELSE << rowFor(SpecName(s), readHandle(s, h)) >>
RowsOf(s) == IF Read(s) THEN FlattenSeq([i \in DOMAIN handles[s] |-> RowOf(s, handles[s][i])]) ELSE << >>
\* Mutant: a step that was skipped ends the loop.
StopsAtSkipped == FlattenSeq([s \in S |-> IF \A t \in 1 .. s : Read(t) THEN RowsOf(s) ELSE << >>])
Rows == FlattenSeq([s \in S |-> RowsOf(s)])

-----------------------------------------------------------------------------
(* The workflow.                                                           *)

Init ==
    /\ setup \in Setups /\ fleet \in setup.fleets
    /\ status = [s \in S |-> "idle"] /\ left = [s \in S |-> {}] /\ handles = [s \in S |-> << >>]
    /\ store = [s \in S |-> [n \in {} |-> << >>]]
    /\ report = Null
    /\ seen = [h \in DOMAIN fleet |-> {}] /\ lasting = [h \in DOMAIN fleet |-> {}]
    /\ runs = 0 /\ changes = 0 /\ others = 0 /\ failures = 0

GuestsOf(h) == {fleet[h][g] : g \in DOMAIN fleet[h]}
Settled == \A s \in S : status[s] \in {"succeeded", "failed"}

Start ==
    /\ runs < setup.runs /\ \A s \in S : status[s] \notin {"running", "writing"}
    /\ report = Null => runs = 0
    /\ runs' = runs + 1
    /\ status' = [s \in S |-> "running"]
    /\ handles' = [s \in S |-> << >>] /\ left' = [s \in S |-> {}] /\ report' = Null
    /\ seen' = [h \in DOMAIN fleet |-> GuestsOf(h)]
    /\ lasting' = [h \in DOMAIN fleet |-> DOMAIN fleet[h]]
    /\ UNCHANGED <<setup, fleet, store, changes, others, failures>>

Query(s) ==
    /\ status[s] = "running"
    /\ status' = [status EXCEPT ![s] = "writing"]
    /\ left' = [left EXCEPT ![s] = GuestsOf(At(s))]
    /\ UNCHANGED <<setup, fleet, handles, store, report, history, bounds>>

\* A new version, for which the oldest goes when too many are kept.
Versions(s, n) == IF n \in DOMAIN store[s] THEN store[s][n] ELSE << >>
NextVersion(s, n) == IF Versions(s, n) = << >> THEN 1 ELSE Versions(s, n)[Len(Versions(s, n))].version + 1
Newest(vs) == IF Len(vs) > Kept THEN Tail(vs) ELSE vs
Written(s, d) == Newest(Append(Versions(s, d.id), [version |-> NextVersion(s, d.id), data |-> d]))

Done(s, d) == left' = [left EXCEPT ![s] = @ \ {d}]
Write(s) ==
    /\ status[s] = "writing"
    /\ \E d \in left[s] :
          /\ store' = [store EXCEPT ![s] = Put(@, d.id, Written(s, d))]
          /\ handles' = [handles EXCEPT ![s] = Append(@, [name |-> d.id, version |-> NextVersion(s, d.id)])]
          /\ Done(s, d)
    /\ UNCHANGED <<setup, fleet, status, report, history, bounds>>

Succeeds(s) ==
    /\ status[s] = "writing" /\ left[s] = {}
    /\ status' = [status EXCEPT ![s] = "succeeded"]
    /\ UNCHANGED <<setup, fleet, left, handles, store, report, history, bounds>>

\* The hypervisor is offline, or a write fails; the other steps go on.
Fails(s) ==
    /\ status[s] \in {"running", "writing"} /\ failures < MaxFailures
    /\ failures' = failures + 1
    /\ status' = [status EXCEPT ![s] = "failed"]
    /\ UNCHANGED <<setup, fleet, left, handles, store, report, history, runs, changes, others>>

Report ==
    /\ Settled /\ report = Null
    /\ report' = [rows |-> dedupeRows(Rows), read |-> Rows,
                  skippedSteps |-> Cardinality({s \in S : ~Read(s)})]
    /\ UNCHANGED <<setup, fleet, status, left, handles, store, history, bounds>>

-----------------------------------------------------------------------------
(* The others.                                                             *)

\* Somebody else has the model of a step discover.
OtherDiscovery(s) ==
    /\ others < setup.others /\ others' = others + 1
    /\ store' = [store EXCEPT ![s] =
          [n \in DOMAIN @ \cup DOMAIN fleet[At(s)] |->
              IF n \in DOMAIN fleet[At(s)] THEN Written(s, fleet[At(s)][n]) ELSE @[n]]]
    /\ UNCHANGED <<setup, fleet, status, left, handles, report, history, runs, changes, failures>>

FleetChanges ==
    /\ changes < MaxChanges /\ changes' = changes + 1
    /\ \E new \in Moves[fleet] : fleet' = new
    /\ seen' = [h \in DOMAIN fleet |-> seen[h] \cup {fleet'[h][g] : g \in DOMAIN fleet'[h]}]
    /\ lasting' = [h \in DOMAIN fleet |-> {g \in lasting[h] \cap DOMAIN fleet'[h] :
                                              fleet'[h][g].name = fleet[h][g].name}]
    /\ UNCHANGED <<setup, status, left, handles, store, report, runs, others, failures>>

Next ==
    \/ Start \/ Report \/ FleetChanges
    \/ \E s \in S : Query(s) \/ Write(s) \/ Succeeds(s) \/ Fails(s) \/ OtherDiscovery(s)

Spec == Init /\ [][Next]_vars

-----------------------------------------------------------------------------
Shown == {report.rows[i] : i \in DOMAIN report.rows}
Collected(s) == {h.name : h \in {k \in {handles[s][i] : i \in DOMAIN handles[s]} : readHandle(s, k) = Null}}

\* What a step has written it can hand to the report, and nothing is written twice.
TypeOK ==
    /\ \A s \in S : status[s] \in {"idle", "running", "writing", "succeeded", "failed"}
    /\ \A s \in S : \A i \in DOMAIN handles[s] :
          /\ handles[s][i].name \in DOMAIN store[s]
          /\ \A d \in left[s] : d.id # handles[s][i].name
          /\ \A j \in DOMAIN handles[s] : handles[s][i].name = handles[s][j].name => i = j
    /\ \A s \in S : \A n \in DOMAIN store[s] : Len(store[s][n]) \in 1 .. Kept

\* A guest that stays where it is through the run has a row by its name, unless the step
\* of its hypervisor is among those counted as skipped or its version was collected.
ShownAll ==
    report # Null =>
       \A s \in S : \A g \in lasting[At(s)] \ Collected(s) :
          \/ status[s] = "failed" /\ report.skippedSteps > 0
          \/ \E r \in Shown : Key(r) = Key(rowFor(SpecName(s), fleet[At(s)][g]))

\* Every row is what a guest of that hypervisor was at some time of this run, from a step
\* that came to its end: nothing of earlier runs, other discoveries or half-done steps.
RowsExplained ==
    report # Null =>
       \A r \in Shown : \E s \in S :
          /\ status[s] = "succeeded"
          /\ \E d \in seen[At(s)] : r = rowFor(SpecName(s), d)

\* No two rows are of one name on one hypervisor, those without a name aside, and what any
\* step told of a guest's size and addresses is not lost to a row that tells less.
OneRichRow ==
    report # Null =>
       /\ \A i, j \in DOMAIN report.rows :
             Key(report.rows[i]) = Key(report.rows[j]) /\ report.rows[i].name # "unknown" => i = j
       /\ \A i \in DOMAIN report.read : \E r \in Shown :
             Key(r) = Key(report.read[i]) /\ richness(r) >= richness(report.read[i])
=============================================================================
