------------------------------ MODULE TrustGate ------------------------------
(***************************************************************************)
(* The trust-gate and trust-inventory workflows: three scans of GitHub,    *)
(* GCP and Cloudflare side by side, the build of the trust graph from what *)
(* is stored, and, in trust-gate, the assertion on the inventory built.    *)
(*                                                                         *)
(* A scan is a sequence of reads, each within one or two scopes (an org, a *)
(* repository, a project, an account).  A read finds at most one item,     *)
(* which stands for a secret, a provider, a key, an app with its policies  *)
(* or a token; the graph raises a finding for it if it is "flagged".       *)
(* "secrets" stands for variables too; a read that yields no finding and   *)
(* ends no scope is left out.  What the providers hold is external.  What  *)
(* else may happen is fixed by faults, one of FaultCases:                  *)
(*   "drift"    someone changes what a provider holds                      *)
(*   "expiry"   stored items reach the end of their lifetime               *)
(***************************************************************************)
EXTENDS Naturals, SequencesExt

CONSTANTS
    FaultCases,
    Orgs, Projects, Accounts,   \* per case: what the scans are configured with, in order
    Repos,                      \* the repositories of each org, in order
    Items,                      \* the items that may exist: <<scope, kind>>
    Instance,                   \* the name an item is stored under
    MaxRuns,        \* bound per case: runs of the workflows
    MaxFailures,    \* bound per case: reads and builds that fail
    MaxChanges      \* bound per case: changes at the providers

IsSequence(s) == s \in Seq(ToSet(s))

\* What a scope of each sort may hold that raises a finding.
OrgKinds == {"secrets"}
RepoKinds == {"secrets", "environmentSecrets"}
ProjectKinds == {"providers", "keys"}
AccountKinds == {"policies", "tokens"}

Assumptions ==
    /\ \A f \in FaultCases :
          /\ f \subseteq {"drift", "expiry"}
          /\ Orgs[f] \in Seq(DOMAIN Repos) /\ IsSequence(Projects[f]) /\ IsSequence(Accounts[f])
          /\ \A i \in Items :
                /\ i[1] \in ToSet(Orgs[f])     => i[2] \in OrgKinds
                /\ i[1] \in ToSet(Projects[f]) => i[2] \in ProjectKinds
                /\ i[1] \in ToSet(Accounts[f]) => i[2] \in AccountKinds
    /\ \A o \in DOMAIN Repos :
          /\ IsSequence(Repos[o])
          /\ \A i \in Items : i[1] \in ToSet(Repos[o]) => i[2] \in RepoKinds
    /\ \A i \in Items : i = <<i[1], i[2]>>
    /\ IsFiniteSet(Items) /\ DOMAIN Instance = Items
    /\ {MaxRuns, MaxFailures, MaxChanges} \subseteq [FaultCases -> Nat]

Providers == {"github", "gcp", "cloudflare"}
Workflows == {"trust-gate", "trust-inventory"}
Held == {"absent", "fine", "flagged"}
Instances == {Instance[i] : i \in Items}

Nothing == [item |-> <<"none", "none">>, is |-> "absent"]

VARIABLES
    faults,     \* what may happen in this behaviour
    world,      \* what the providers hold of each item
    store,      \* the item last written under each name
    inventory,  \* the numbers of critical and high findings in "current"
    running,    \* the workflow that runs
    scan,       \* per provider: the state of the step
    todo,       \* the reads it has yet to do
    notes,      \* the scopes and items it noted an error for
    build, gate,    \* the states of the other steps
    inputs,     \* the items the build was given
    quiet,      \* no provider changed since the workflow began
    runs, failures, changes

scans == <<scan, todo, notes>>
steps == <<running, scans, build, gate, inputs, quiet>>
vars == <<faults, world, store, inventory, steps, runs, failures, changes>>

-----------------------------------------------------------------------------
(* The reads of a scan.  The failure of a read that "ends" a scope skips    *)
(* the rest of that scope; other failures are noted and passed over.       *)

Read(within, scope, kind, ends) == [within |-> within, item |-> <<scope, kind>>, ends |-> ends]
Tolerated == "none"

RepoReads(o, r) ==
    << Read({o, r}, r, "secrets", Tolerated),
       Read({o, r}, r, "environments", r),
       Read({o, r}, r, "environmentSecrets", Tolerated) >>
OrgReads(o) ==
    << Read({o}, o, "secrets", Tolerated), Read({o}, o, "repositories", o) >>
      \o FlattenSeq([i \in DOMAIN Repos[o] |-> RepoReads(o, Repos[o][i])])
ProjectReads(p) ==
    << Read({p}, p, "pools", p),    Read({p}, p, "providers", Tolerated),
       Read({p}, p, "accounts", p), Read({p}, p, "keys", Tolerated) >>
AccountReads(a) ==
    << Read({a}, a, "apps", a), Read({a}, a, "policies", Tolerated), Read({a}, a, "tokens", a) >>

ReadsOf(f, p) ==
    LET orgs == Orgs[f]  projects == Projects[f]  accounts == Accounts[f]
    IN  CASE p = "github"     -> FlattenSeq([i \in DOMAIN orgs |-> OrgReads(orgs[i])])
          [] p = "gcp"        -> FlattenSeq([i \in DOMAIN projects |-> ProjectReads(projects[i])])
          [] p = "cloudflare" -> FlattenSeq([i \in DOMAIN accounts |-> AccountReads(accounts[i])])
Reads(p) == ReadsOf(faults, p)

\* The items a scan asks for.
ReadBy(p) == {Reads(p)[k].item : k \in DOMAIN Reads(p)} \cap Items

\* The items within what is configured.
Scopes == ToSet(Orgs[faults]) \cup (UNION {ToSet(Repos[o]) : o \in ToSet(Orgs[faults])})
            \cup ToSet(Projects[faults]) \cup ToSet(Accounts[faults])
Targets == {i \in Items : i[1] \in Scopes}

\* The severity of the finding a flagged item raises.
Severity(i) ==
    CASE i[2] = "providers"                                               -> "critical"
      [] i[2] \in {"secrets", "environmentSecrets", "keys", "policies"} -> "high"
      [] OTHER                                                            -> "medium"
maxCritical == 0
maxHigh == 0

-----------------------------------------------------------------------------
NoScans == [p \in Providers |-> "pending"]
NoReads == [p \in Providers |-> << >>]
NoNotes == [p \in Providers |-> {}]
NoInventory == [critical |-> 0, high |-> 0, built |-> FALSE]

Init ==
    /\ faults \in FaultCases
    /\ world \in [Items -> Held]
    /\ \A i \in Items \ Targets : world[i] = "absent"
    /\ store = [n \in Instances |-> Nothing]
    /\ inventory = NoInventory
    /\ running = "none"
    /\ scan = NoScans /\ todo = NoReads /\ notes = NoNotes
    /\ build = "pending" /\ gate = "pending"
    /\ inputs = {}
    /\ quiet = TRUE
    /\ runs = 0 /\ failures = 0 /\ changes = 0

MayFail == failures < MaxFailures[faults] /\ failures' = failures + 1

Begin(w) ==
    /\ running = "none" /\ runs < MaxRuns[faults]
    /\ running' = w
    /\ runs' = runs + 1
    /\ UNCHANGED <<world, store, inventory, scans, build, gate, inputs, quiet, failures, changes>>

-----------------------------------------------------------------------------
(* The scan job.                                                           *)

Scanning(p) == scan[p] = "running"

StartScan(p) ==
    /\ running # "none" /\ scan[p] = "pending"
    /\ scan' = [scan EXCEPT ![p] = "running"]
    /\ todo' = [todo EXCEPT ![p] = Reads(p)]
    /\ UNCHANGED <<world, store, inventory, running, notes, build, gate, inputs, quiet>>
    /\ UNCHANGED <<runs, failures, changes>>

\* No token, or gcloud has no session: nothing is read and no summary written.
ScanThrows(p) ==
    /\ running # "none" /\ scan[p] = "pending" /\ MayFail
    /\ scan' = [scan EXCEPT ![p] = "failed"]
    /\ UNCHANGED <<world, store, inventory, running, todo, notes, build, gate, inputs, quiet>>
    /\ UNCHANGED <<runs, changes>>

writeResource(s, i) == [s EXCEPT ![Instance[i]] = [item |-> i, is |-> world[i]]]

ReadOk(p) ==
    /\ Scanning(p) /\ todo[p] # << >>
    /\ LET i == Head(todo[p]).item
       IN  store' = IF i \in Items /\ world[i] # "absent" THEN writeResource(store, i) ELSE store
    /\ todo' = [todo EXCEPT ![p] = Tail(@)]
    /\ UNCHANGED <<world, inventory, running, scan, notes, build, gate, inputs, quiet>>
    /\ UNCHANGED <<runs, failures, changes>>

Whole(scope) == <<scope, "all">>

\* Mutant: only the failures that end a scope are noted.
NotesScopes(r) == {Whole(r.ends)} \ {Whole(Tolerated)}
Noted(r) == IF r.ends = Tolerated THEN {r.item} ELSE {Whole(r.ends)}

\* What is left to read after the failure of r.
Rest(reads, r) ==
    IF r.ends = Tolerated THEN Tail(reads)
    ELSE LET outside == {k \in DOMAIN reads : r.ends \notin reads[k].within}
         IN  IF outside = {} THEN << >> ELSE SubSeq(reads, Min(outside), Len(reads))

ReadFails(p) ==
    /\ Scanning(p) /\ todo[p] # << >> /\ MayFail
    /\ LET r == Head(todo[p])
       IN  /\ notes' = [notes EXCEPT ![p] = @ \cup Noted(r)]
           /\ todo' = [todo EXCEPT ![p] = Rest(@, r)]
    /\ UNCHANGED <<world, store, inventory, running, scan, build, gate, inputs, quiet>>
    /\ UNCHANGED <<runs, changes>>

EndScan(p) ==
    /\ Scanning(p) /\ todo[p] = << >>
    /\ scan' = [scan EXCEPT ![p] = "succeeded"]
    /\ UNCHANGED <<world, store, inventory, running, todo, notes, build, gate, inputs, quiet>>
    /\ UNCHANGED <<runs, failures, changes>>

Scan(p) ==
    StartScan(p) \/ ScanThrows(p) \/ ReadOk(p) \/ ReadFails(p) \/ EndScan(p)

-----------------------------------------------------------------------------
(* The aggregate and gate jobs, each started when the one before completed. *)

Completed(state) == state \in {"succeeded", "failed"}

\* data.findBySpec, evaluated as the step starts.
StartBuild ==
    /\ running # "none" /\ build = "pending"
    /\ \A p \in Providers : Completed(scan[p])
    /\ build' = "running"
    /\ inputs' = {store[n] : n \in Instances} \ {Nothing}
    /\ UNCHANGED <<world, store, inventory, running, scans, gate, quiet, runs, failures, changes>>

Findings(S, severity) == {s \in S : s.is = "flagged" /\ Severity(s.item) = severity}

computeInventory(S) ==
    [critical |-> Cardinality(Findings(S, "critical")),
     high     |-> Cardinality(Findings(S, "high")),
     built    |-> TRUE]

Build ==
    /\ build = "running"
    /\ build' = "succeeded"
    /\ inventory' = computeInventory(inputs)
    /\ UNCHANGED <<world, store, running, scans, gate, inputs, quiet, runs, failures, changes>>

BuildFails ==
    /\ build = "running" /\ MayFail
    /\ build' = "failed"
    /\ UNCHANGED <<world, store, inventory, running, scans, gate, inputs, quiet, runs, changes>>

Violates(inv) == inv.critical > maxCritical \/ inv.high > maxHigh

assert_posture ==
    /\ running = "trust-gate" /\ Completed(build) /\ gate = "pending"
    /\ gate' = IF inventory.built /\ ~Violates(inventory) THEN "succeeded" ELSE "failed"
    /\ UNCHANGED <<world, store, inventory, running, scans, build, inputs, quiet>>
    /\ UNCHANGED <<runs, failures, changes>>

Ended ==
    \/ running = "trust-gate" /\ Completed(gate)
    \/ running = "trust-inventory" /\ Completed(build)

End ==
    /\ Ended
    /\ running' = "none"
    /\ scan' = NoScans /\ todo' = NoReads /\ notes' = NoNotes
    /\ build' = "pending" /\ gate' = "pending"
    /\ inputs' = {}
    /\ quiet' = TRUE
    /\ UNCHANGED <<world, store, inventory, runs, failures, changes>>

Workflow ==
    \/ \E w \in Workflows : Begin(w)
    \/ \E p \in Providers : Scan(p)
    \/ StartBuild \/ Build \/ BuildFails \/ assert_posture \/ End

-----------------------------------------------------------------------------
(* What happens around the workflows.                                      *)

Drift ==
    /\ "drift" \in faults /\ changes < MaxChanges[faults]
    /\ \E i \in Targets, h \in Held : h # world[i] /\ world' = [world EXCEPT ![i] = h]
    /\ quiet' = (running = "none")
    /\ changes' = changes + 1
    /\ UNCHANGED <<store, inventory, running, scans, build, gate, inputs, runs, failures>>

\* A run is short against the lifetime of a stored item.
Expire ==
    /\ "expiry" \in faults /\ running = "none"
    /\ \E n \in Instances : store[n] # Nothing /\ store' = [store EXCEPT ![n] = Nothing]
    /\ UNCHANGED <<world, inventory, steps, runs, failures, changes>>

Moves == Workflow \/ Drift \/ Expire
Next == Moves /\ UNCHANGED faults

Spec == Init /\ [][Next]_vars

-----------------------------------------------------------------------------
Stored == [item : Items, is : {"fine", "flagged"}]
States == {"pending", "running", "succeeded", "failed"}

\* The reads of p from its k-th on.
From(p, k) == SubSeq(Reads(p), k, Len(Reads(p)))

TypeOK ==
    /\ world \in [Items -> Held]
    /\ \A n \in Instances : store[n] = Nothing \/ (store[n] \in Stored /\ Instance[store[n].item] = n)
    /\ inventory \in [critical : Nat, high : Nat, built : BOOLEAN]
    /\ running \in Workflows \cup {"none"}
    /\ scan \in [Providers -> States]
    /\ \A p \in Providers : todo[p] = << >> \/ \E k \in DOMAIN Reads(p) : todo[p] = From(p, k)
    /\ build \in States /\ gate \in States
    /\ inputs \subseteq Stored
    /\ quiet \in BOOLEAN

\* Another item that exists is stored under the same name.
Alone(i) == \A j \in Items : j # i /\ Instance[j] = Instance[i] => world[j] = "absent"

NotedFor(i, p) ==
    \E k \in DOMAIN Reads(p) :
       LET r == Reads(p)[k]
       IN  r.item = i /\ ({i} \cup {Whole(s) : s \in r.within}) \cap notes[p] # {}

\* A scan that succeeds has stored what it found, or says in its notes what it
\* could not read ("notes records per-target partial failures").
MissesNoted ==
    \A p \in Providers :
       (scan[p] = "succeeded" /\ quiet) =>
          \A i \in ReadBy(p) :
             (world[i] # "absent" /\ Alone(i)) =>
                \/ store[Instance[i]] = [item |-> i, is |-> world[i]]
                \/ NotedFor(i, p)

\* A run of trust-gate that succeeds without a note in its scans,
\* leaves no critical or high finding at the providers unseen.
Clean == quiet /\ \A p \in Providers : scan[p] = "succeeded" /\ notes[p] = {}
Succeeds == build = "succeeded" /\ gate = "succeeded"
GateSound ==
    (Clean /\ Succeeds) =>
       \A i \in Items :
          (world[i] = "flagged" /\ Alone(i)) => Severity(i) \notin {"critical", "high"}
=============================================================================
