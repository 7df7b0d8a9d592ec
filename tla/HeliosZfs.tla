------------------------------ MODULE HeliosZfs ------------------------------
(***************************************************************************)
(* Datasets, snapshots and the pool of an illumos host, as helios/zfs      *)
(* drives them: a method is a command or two over ssh, each of which may   *)
(* be refused, or be given up on at its timeout while the host goes on     *)
(* with it, and a record of what is read back.                             *)
(*                                                                         *)
(* Others use the host too: they make datasets, fill them and change the   *)
(* pool.  made, struck, destroyed and lasting are history variables.       *)
(***************************************************************************)
EXTENDS Integers, FiniteSets, Sequences

CONSTANTS
    Null,           \* no value
    Names,          \* names of datasets
    Parent,         \* the dataset a name lies in, or Null for the pool's own
    Tags, Zones, Quotas,
    MaxCalls,       \* bound: methods called
    MaxLost,        \* bound: answers that do not arrive
    MaxOthers       \* bound: steps of others

ASSUME ParentAssumption == Parent \in [Names -> Names \cup {Null}]
ASSUME BoundsAssumption == {MaxCalls, MaxLost, MaxOthers} \subseteq Nat

\* With a dataset, S has all that lies in it.
Closed(S) == \A n \in Names : Parent[n] \in S => n \in S
\* n is d or lies below it.
Under(n, d) == \A S \in SUBSET Names : d \in S /\ Closed(S) => n \in S

Types == {"filesystem", "volume"}
Sizes == {"24K", "1M"}
NoCall == [op |-> "none"]

VARIABLES
    datasets,   \* on the host: type, quota, zone it is delegated to, size
    snapshots,  \* on the host: <<dataset, tag>>
    pool,       \* on the host: health, and whether a scrub is in progress
    req,        \* the method called, with its arguments
    phase,      \* "idle", or its next step: "probe", "command", "read", "status" or "write"
    got,        \* what it has read and has yet to store
    outcome,    \* how the last method ended
    late,       \* commands given up on that the host may still carry out
    records,    \* the stored resources: dataset, snapshot and pool
    made,       \* datasets dataset_create made that nobody has asked to destroy since
    struck,     \* those that a late command took, or a destroyed snapshot's name
    destroyed,  \* every dataset destroyed so far
    lasting,    \* datasets that have been there since the method began
    calls, lost, others

host == <<datasets, snapshots, pool>>
method == <<req, phase, got, outcome>>
history == <<made, struck, destroyed, lasting>>
counters == <<calls, lost, others>>
vars == <<host, method, late, records, history, counters>>

Empty == [n \in {} |-> Null]
Put(f, n, v) == [m \in DOMAIN f \cup {n} |-> IF m = n THEN v ELSE f[m]]

Init ==
    /\ datasets \in [{n \in Names : Parent[n] = Null} -> [type : {"filesystem"}, quota : {Null}, zone : {Null}, used : {"24K"}]]
    /\ snapshots = {} /\ pool = [health |-> "ONLINE", scrub |-> FALSE]
    /\ req = NoCall /\ phase = "idle" /\ got = Empty /\ outcome = "none"
    /\ late = {} /\ records = [dataset |-> Empty, snapshot |-> {}, pool |-> Null]
    /\ made = {} /\ struck = {} /\ destroyed = {} /\ lasting = {}
    /\ calls = 0 /\ lost = 0 /\ others = 0

-----------------------------------------------------------------------------
(* The host: what a command does, and what is printed.                     *)

Below(d) == {n \in DOMAIN datasets : Under(n, d)}
Created(d, type, quota) ==
    Put(datasets, d, [type |-> type, quota |-> quota, zone |-> Null, used |-> "24K"])
SnapshotsOf(S) == {x \in snapshots : x[1] \in S}

\* The datasets and snapshots that zfs destroy takes.
Victims(c) == IF c.recursive THEN Below(c.d) ELSE {c.d}

Works(c) ==
    CASE c.cmd = "create" ->
            c.d \notin DOMAIN datasets /\ (Parent[c.d] = Null \/ Parent[c.d] \in DOMAIN datasets)
      [] c.cmd = "destroy" ->
            /\ c.d \in DOMAIN datasets
            /\ ~c.recursive => Below(c.d) = {c.d} /\ SnapshotsOf({c.d}) = {}
      [] c.cmd = "destroySnapshot" -> <<c.d, c.tag>> \in snapshots
      [] c.cmd = "snapshot" -> /\ c.d \in DOMAIN datasets
                               /\ \A n \in Victims(c) : <<n, c.tag>> \notin snapshots
      [] c.cmd = "zone" -> c.d \in DOMAIN datasets /\ datasets[c.d].zone = Null
      [] c.cmd = "scrub" -> ~pool.scrub

Takes(c) == IF c.cmd = "destroy" THEN Victims(c) ELSE {}

Effect(c) ==
    /\ datasets' =
         CASE c.cmd = "create" -> Created(c.d, "filesystem", c.quota)
           [] c.cmd = "destroy" -> [n \in DOMAIN datasets \ Victims(c) |-> datasets[n]]
           [] c.cmd = "zone" -> [datasets EXCEPT ![c.d].zone = c.zone]
           [] OTHER -> datasets
    /\ snapshots' =
         CASE c.cmd = "destroy" -> snapshots \ SnapshotsOf(Victims(c))
           [] c.cmd = "destroySnapshot" -> snapshots \ {<<c.d, c.tag>>}
           [] c.cmd = "snapshot" -> snapshots \cup {<<n, c.tag>> : n \in Victims(c)}
           [] OTHER -> snapshots
    /\ pool' = IF c.cmd = "scrub" THEN [pool EXCEPT !.scrub = TRUE] ELSE pool
    /\ destroyed' = destroyed \cup Takes(c)
    /\ lasting' = lasting \ Takes(c)

-----------------------------------------------------------------------------
(* Parsing.                                                                *)

\* zfs get -Hp -o property,value: two columns.
Printed(d) ==
    {<<"type", d.type>>, <<"used", d.used>>, <<"quota", d.quota>>,
     <<"zoned", IF d.zone = Null THEN "off" ELSE "on">>}
Column(line, i) == IF i <= Len(line) THEN line[i] ELSE Null

\* The first column is passed over; the two-column form is tried if there is but one.
Props(lines) == {<<Column(line, 2), Column(line, 3)>> : line \in {l \in lines : Column(l, 2) # Null}}
Prop(lines, key, default) ==
    IF \E p \in Props(lines) : p[1] = key /\ p[2] # Null
    THEN (CHOOSE p \in Props(lines) : p[1] = key /\ p[2] # Null)[2] ELSE default

parseDatasetGet(lines) ==
    [type |-> Prop(lines, "type", "filesystem"), used |-> Prop(lines, "used", "0"),
     quota |-> Prop(lines, "quota", Null), zoned |-> Prop(lines, "zoned", "off") = "on",
     delegatedTo |-> Null, by |-> "get"]

\* zfs list prints fewer properties; the record has the rest as null or false.
Listed == datasets
dataset_list ==
    [n \in DOMAIN Listed |->
        [type |-> Listed[n].type, used |-> Listed[n].used, quota |-> Null, zoned |-> FALSE,
         delegatedTo |-> Null, by |-> "list"]]

-----------------------------------------------------------------------------
(* Methods.                                                                *)

Requests ==
    [op : {"dataset_list", "pool_status", "pool_scrub"}]
      \cup [op : {"dataset_lookup"}, d : Names]
      \cup [op : {"dataset_create"}, d : Names, quota : Quotas \cup {Null}, passphraseMissing : BOOLEAN]
      \cup [op : {"dataset_destroy"}, d : Names, recursive : BOOLEAN]
      \cup [op : {"snapshot_create"}, d : Names, tag : Tags, recursive : BOOLEAN]
      \* The name is any string: that of a dataset is not turned down.
      \cup [op : {"snapshot_destroy"}, d : Names, tag : Tags \cup {Null}]
      \cup [op : {"delegate"}, d : Names, zone : Zones]

\* Mutant: every destroy is recursive.
Recursively(r) == [cmd |-> "destroy", d |-> r.d, recursive |-> TRUE]
destroy(r) == [cmd |-> "destroy", d |-> r.d, recursive |-> r.recursive]
Command(r) ==
    CASE r.op = "dataset_create"   -> [cmd |-> "create", d |-> r.d, quota |-> r.quota]
      [] r.op = "dataset_destroy"  -> destroy(r)
      [] r.op = "snapshot_create"  ->
            [cmd |-> "snapshot", d |-> r.d, tag |-> r.tag, recursive |-> r.recursive]
      [] r.op = "snapshot_destroy" ->
            IF r.tag = Null THEN [cmd |-> "destroy", d |-> r.d, recursive |-> FALSE]
            ELSE [cmd |-> "destroySnapshot", d |-> r.d, tag |-> r.tag]
      [] r.op = "delegate"         -> [cmd |-> "zone", d |-> r.d, zone |-> r.zone]
      [] r.op = "pool_scrub"       -> [cmd |-> "scrub"]

First(op) ==
    CASE op \in {"dataset_list", "dataset_lookup", "pool_status"} -> "read"
      [] op = "dataset_destroy" -> "probe"
      [] OTHER -> "command"
ReadsBack == {"dataset_create", "snapshot_create", "delegate"}

\* What the caller of a destroy asks for.
Asked(r) == IF r.op # "dataset_destroy" THEN {}
            ELSE IF r.recursive THEN {n \in Names : Under(n, r.d)} ELSE {r.d}

Call(r) ==
    /\ phase = "idle" /\ calls < MaxCalls
    /\ calls' = calls + 1
    /\ req' = r /\ got' = Empty
    \* Encryption without a passphrase is turned down before anything is run.
    /\ IF r.op = "dataset_create" /\ r.passphraseMissing
       THEN phase' = "idle" /\ outcome' = "failed"
       ELSE phase' = First(r.op) /\ outcome' = "running"
    /\ made' = made \ Asked(r)
    /\ lasting' = DOMAIN datasets
    /\ UNCHANGED <<host, late, records, struck, destroyed, lost, others>>

Leaves(how) == phase' = "idle" /\ outcome' = how

\* The probe of dataset_destroy: any exit code but 0 is taken for a dataset that is not there.
ProbeAnswers ==
    /\ phase = "probe"
    /\ IF req.d \in DOMAIN datasets THEN phase' = "command" /\ UNCHANGED outcome
       ELSE Leaves("refused")
    /\ UNCHANGED <<host, req, got, late, records, history, counters>>

ProbeFails ==
    /\ phase = "probe" /\ lost < MaxLost
    /\ lost' = lost + 1
    /\ Leaves("refused")
    /\ UNCHANGED <<host, req, got, late, records, history, calls, others>>

AfterCommand == IF req.op \in ReadsBack THEN phase' = "read" /\ UNCHANGED outcome ELSE Leaves("ok")

CommandWorks ==
    /\ phase = "command" /\ Works(Command(req))
    /\ Effect(Command(req))
    /\ AfterCommand
    /\ made' = (IF req.op = "dataset_create" THEN made \cup {req.d} ELSE made)
    /\ struck' = struck \cup (IF req.op = "snapshot_destroy" THEN Takes(Command(req)) ELSE {})
    /\ UNCHANGED <<req, got, late, records, counters>>

Throws == Leaves("failed")
CommandRefused ==
    /\ phase = "command" /\ ~Works(Command(req))
    /\ Throws
    /\ UNCHANGED <<host, req, got, late, records, history, counters>>

\* ssh fails or is killed at the timeout: the command may not have got there, or goes on.
CommandLost ==
    /\ phase = "command" /\ lost < MaxLost
    /\ lost' = lost + 1
    /\ Leaves("failed")
    /\ late' = late \cup {Command(req)}
    /\ UNCHANGED <<host, req, got, records, history, calls, others>>

Late(c) ==
    /\ late' = late \ {c}
    /\ Works(c) /\ Effect(c)
    /\ struck' = struck \cup Takes(c)
    /\ UNCHANGED <<method, records, made, counters>>

Reads ==
    /\ phase = "read"
    /\ \/ req.op = "dataset_list" /\ got' = dataset_list /\ phase' = "write"
       \/ /\ req.op \in {"dataset_lookup", "dataset_create", "delegate"} /\ req.d \in DOMAIN datasets
          /\ LET ds == parseDatasetGet(Printed(datasets[req.d]))
             IN  got' = [n \in {req.d} |->
                          IF req.op = "delegate" THEN [ds EXCEPT !.delegatedTo = req.zone] ELSE ds]
          /\ phase' = "write"
       \/ /\ req.op = "snapshot_create" /\ <<req.d, req.tag>> \in snapshots
          /\ got' = Empty /\ phase' = "write"
       \/ req.op = "pool_status" /\ got' = [n \in {"health"} |-> pool.health] /\ phase' = "status"
    /\ UNCHANGED <<host, req, outcome, late, records, history, counters>>

\* The scrub is read by a command of its own.
ReadsStatus ==
    /\ phase = "status"
    /\ got' = Put(got, "scrub", pool.scrub) /\ phase' = "write"
    /\ UNCHANGED <<host, req, outcome, late, records, history, counters>>

NotThere ==
    \/ req.op \in {"dataset_lookup", "dataset_create", "delegate"} /\ req.d \notin DOMAIN datasets
    \/ req.op = "snapshot_create" /\ <<req.d, req.tag>> \notin snapshots
ReadFails ==
    /\ phase \in {"read", "status"}
    /\ (phase = "read" /\ NotThere /\ UNCHANGED lost) \/ (lost < MaxLost /\ lost' = lost + 1)
    /\ Leaves("failed")
    /\ UNCHANGED <<host, req, got, late, records, history, calls, others>>

\* Records are written one by one; those of datasets that are gone stay.
Writes ==
    /\ phase = "write"
    /\ IF req.op \in {"pool_status", "snapshot_create"}
       THEN /\ records' = IF req.op = "pool_status" THEN [records EXCEPT !.pool = got]
                          ELSE [records EXCEPT !.snapshot = @ \cup {<<req.d, req.tag>>}]
            /\ got' = Empty /\ Leaves("ok")
       ELSE IF DOMAIN got = {} THEN got' = got /\ UNCHANGED records /\ Leaves("ok")
       ELSE /\ \E n \in DOMAIN got :
                  /\ records' = [records EXCEPT !.dataset = Put(@, n, got[n])]
                  /\ got' = [m \in DOMAIN got \ {n} |-> got[m]]
            /\ UNCHANGED <<phase, outcome>>
    /\ UNCHANGED <<host, req, late, history, counters>>

-----------------------------------------------------------------------------
(* Others.                                                                 *)

Others ==
    /\ others < MaxOthers
    /\ \/ \E n \in Names :
             /\ Works([cmd |-> "create", d |-> n])
             /\ datasets' = Created(n, "volume", Null)
             /\ UNCHANGED <<snapshots, pool>>
       \/ \E n \in DOMAIN datasets :
             datasets' = [datasets EXCEPT ![n].used = "1M"] /\ UNCHANGED <<snapshots, pool>>
       \/ /\ \E h \in {"ONLINE", "DEGRADED"}, s \in BOOLEAN : pool' = [health |-> h, scrub |-> s]
          /\ UNCHANGED <<datasets, snapshots>>
    /\ others' = others + 1
    /\ UNCHANGED <<method, late, records, history, calls, lost>>

Steps ==
    \/ ProbeAnswers \/ ProbeFails \/ CommandWorks \/ CommandRefused \/ CommandLost
    \/ Reads \/ ReadsStatus \/ ReadFails \/ Writes
Next == (\E r \in Requests : Call(r)) \/ Steps \/ (\E c \in late : Late(c)) \/ Others

\* Every command is answered or given up on. That a late one is carried out is not assumed.
Spec == Init /\ [][Next]_vars /\ WF_vars(Steps)

-----------------------------------------------------------------------------
TypeOK ==
    /\ DOMAIN datasets \subseteq Names
    /\ \A n \in DOMAIN datasets :
          datasets[n] \in [type : Types, quota : Quotas \cup {Null}, zone : Zones \cup {Null}, used : Sizes]
    \* No dataset without the one it lies in, no snapshot without its dataset.
    /\ \A n \in DOMAIN datasets : Parent[n] = Null \/ Parent[n] \in DOMAIN datasets
    /\ \A x \in snapshots : x[1] \in DOMAIN datasets /\ x[2] \in Tags
    /\ req \in Requests \cup {NoCall}
    /\ phase \in {"idle", "probe", "command", "read", "status", "write"}
    /\ outcome \in {"none", "running", "ok", "failed", "refused"}
    /\ (phase = "idle") <=> (outcome # "running")
    /\ DOMAIN records.dataset \subseteq Names
    /\ Cardinality(late) <= lost

\* A dataset that dataset_create made is there until its destruction is asked for, by
\* its name or recursively, unless a destroy that was given up on is carried out after
\* it, or snapshot_destroy is given its name.
GoneExplained == \A d \in made \ struck : d \in DOMAIN datasets

\* A record that says a dataset is delegated to a zone is right as long as the dataset
\* has not been destroyed since.
DelegationTrue ==
    \A d \in DOMAIN records.dataset :
       LET z == records.dataset[d].delegatedTo
       IN  z # Null => d \in destroyed \/ datasets[d].zone = z

\* After dataset_list every dataset that was there all the time has a record of that list.
ListedAll ==
    (outcome = "ok" /\ req.op = "dataset_list") =>
       \A d \in lasting : d \in DOMAIN records.dataset /\ records.dataset[d].by = "list"

\* Excluded by the description of dataset_lookup, "one dataset's full property set": the
\* record of a delegated dataset says so.
LookupTellsZoned ==
    (outcome = "ok" /\ req.op = "dataset_lookup" /\ req.d \in DOMAIN datasets) =>
       (datasets[req.d].zone # Null => records.dataset[req.d].zoned \/ late # {})
=============================================================================
