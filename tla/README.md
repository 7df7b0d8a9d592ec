# A TLA+ model of swamp-extensions

This directory models the extensions of this repository: model types, one
execution driver, reports and workflows for the `swamp` automation engine. The
engine itself, the hypervisors and the web services are not part of the
repository; they are modelled as the environment, from how the code uses them.
Source paths below are relative to the repository (`src/` in `PROJECT.json`).

Contents: [inventory](#the-system-and-its-parts), [plan](#plan),
[modules](#the-modules), [runs](#the-runs), [proofs](#what-is-proved),
[what is left out](#what-is-not-modelled).

## The system and its parts

An extension is a set of *methods*. A method is called with arguments, talks to
something outside (ssh, HTTP, a WebSocket, a subprocess), and stores *resources*
under a spec name and an instance name. A *workflow* orders methods as a graph
of steps whose edges ask for `succeeded` or `completed`; a step may be allowed
to fail. A later step reads what an earlier one stored with
`data.latest(model, spec)` or `data.findBySpec(model, spec)`: the last resource,
or all of them, whichever run wrote them. There is no lock and no transaction in
the extensions: all sharing between methods, runs and people at a console goes
through the remote system and through these records. That is where most of the
hazards are.

| Component (source) | State it keeps | Operations | Talks to | What makes it correct |
| --- | --- | --- | --- | --- |
| `migrate-vm` workflow (`workflows/workflow-c2fc…yaml`) | step outcomes; the records of its run | 15 steps, a cleanup job | all of the migrate parts below | the MAC is never up twice; only a powered-off source is copied; the target boots a whole copy; a failed run is undone and destroys nothing else |
| `truenas/vm` (`truenas/vm.ts`) | resources `zvol`, `vm_instance`, `vm_device`, `vm_removal` | create_zvol, create_vm, attach_disk, attach_nic, start, stop, status, delete | TrueNAS over one session per method | query before write: repeating a method, also after a lost answer, makes nothing twice; delete spares what swamp did not make |
| TrueNAS client (`truenas/client.ts`) | pending calls of a socket | open, login, call, close | WebSocket JSON-RPC | an answer reaches the call it belongs to; every await ends; nothing is sent before the login succeeded; the socket is closed |
| `truenas/inventory` (`inventory.ts`, `parse.ts`) | resources `vm`, `summary` | discover | one session | one record per guest, a summary that agrees with them, a note for what was not reported |
| `migrate/disk` (`migrate/disk.ts`, `ssh.ts`, `build.ts`) | resource `transfer` and others | stream, edit_guest_disk, verify | ssh pipelines | "verified" means the bytes arrived |
| migrate summary report (`migrate/summary*.ts`) | none | one rendering per run | records of the run's steps | a report without a warning is about a migration that went well |
| `unifi/dns` | resource `dns_record` | list, upsert, delete | UniFi REST API | one record per key and type; tombstones and lists tell the truth |
| aurae driver (`aurae/`) | one run | execute | `aer` subprocesses | no cell is left behind; success means the whole log; the driver comes back |
| `helios/zone`, `zfs`, `dladm` | resources per zone, dataset, link | create, install, boot, halt, uninstall, delete; dataset create/destroy; vnic create/delete | one ssh session per command | a zone is only booted onto a protected link; what is stored is how things are; a dataset in use or of someone else is not destroyed |
| `helios/host` (`helios_host.ts`) | resources `host_info`, `thermal`, `load_snapshot`, `fault_state`, `kernel_messages`, `audit` | lookup, thermal, load, faults, messages, health_check | one ssh command per probe | the verdict is the worst that was seen, and a probe that failed is not taken for a good one |
| trust-network scans, `cloudflare/zerotrust` | resources per provider | scan | GitHub, GCP, Cloudflare | what could not be read is noted, and hides nothing else |
| trust graph (`trust_graph.ts`, `shared/graph.ts`, the posture report) | resources `posture`, `edge`, `inventory`, … | build, assert_posture; report | the stored scans | every edge has its ends, every finding a cause, the risks are rolled up to whom they concern, a gate judges a completed build |
| trust-gate, trust-inventory workflows | – | scan, aggregate, gate | the above | a gate that passes has seen every finding, or a scan says what it missed |
| `omni/inventory` (`inventory.ts`, `omnictl.ts`, `transform.ts`) | resources `node`, `cluster`, `summary` | discover | omnictl, four queries side by side | a merge that loses and invents no machine; a query that fails is noted |
| fleet report, inventory-fleet workflow (`fleet/`) | none but the versions of the steps' records | three discoveries side by side, the report | stored records | a row for every guest a step recorded, none made up, none from an earlier run |

How they interact: the migrate workflow calls Proxmox (an extension that is not
in this repository), `truenas/vm`, `migrate/disk` and `unifi/dns`; the trust
workflows call the scans, then `trust_graph`, which reads all the scans stored
so far; the inventory workflow calls three inventories and the fleet report
reads what their steps stored.

The hard behaviours, each listed at its line under `hazards` in `PROJECT.json`:
two runs that share `data.latest`; a client that gives up on a call the server
carries out later; a killed ssh whose remote end lives on; a runner that dies
between two steps; a decision made on a list that is stale by the time of the
write; resources that outlive what they describe; steps that fail alone.

## Plan

Ordered by what would hurt most if it went wrong. Done so far unless marked.

1. `MigrateVm`: the workflow, its hosts and its records, with the abstract
   specification `Cutover`; proofs in `MigrateVmProofs`.
2. `TruenasRpc`: the client every TrueNAS step rests on, with `RemoteCall`;
   proofs in `TruenasRpcProofs`.
3. `AuraeCell`: the driver's life cycle and timeouts.
4. `UnifiDns`, with `RecordMap`.
5. `TruenasVm`: the eight methods of the provisioning model, call by call.
6. `DiskStream` and `GuestEdit`: the processes behind the two long steps.
7. `FleetReport`: three discoveries side by side, records by version, the report's rows.
8. `TrustGraph`: the graph a build derives, edge by edge, its writes, the report and the gate.
9. `HeliosZone`: zones and VNICs of an illumos host, command by command.
10. `HostHealth`: the diagnostics of an illumos host and the verdict.
11. `OmniInventory`: queries side by side, merge, writes one by one, a fleet that changes in between; `OmnictlJson`: the parser of what the queries print.
12. `MigrationReport`: `MigrateVm` with the records its steps write and the report of a run.
13. `TruenasInventory`: the read-only discovery of both backends, its parsing and its records.
14. `TrustGate`: the scans, the build and the gate over one store.
15. `HeliosZfs`: datasets and snapshots, commands that are given up on and carried out late, the records read back.

Left, in this order:

* `TrustGate` with two workflows at once, each gating on the other's inventory; `HeliosZone` composed with `HeliosZfs` and delegated datasets.

`MigrateVm` treats a step as one action (two for the copy) and leaves the calls
inside a TrueNAS step and the processes of a copy to their own modules; a lost
call shows there as `inflight`, a killed ssh as `strays`.

## The modules

Outside `MigrateVm`, what may go wrong in a behaviour is a variable `faults`
that never changes, one of the sets in the constant `FaultCases`. One run covers
all cases; a property that holds only in some of them says so (`Serial`,
`OneAtATime`), and [Known limits](#known-limits) lists what happens in the
others.

Names follow the source: an action is named after the method, step or handler
it models, a variable after the record or the remote object. The `map` in
`PROJECT.json` gives the lines of every definition. Definitions commented
*Mutant* are wrong on purpose: each replaces a definition to show that a
property notices.

### MigrateVm, Cutover

State: the sources on Proxmox (`source`: on or off, and how often it was
switched, so that a copy can be told from an outdated one), the VMs and zvols on
TrueNAS, `latest` (the last `vm_spec`, `zvol` and `vm_instance` record of any
run), and per guest the `status` of the last run, the outcome of each `step`,
the `copy` in flight and the number of runs. `inflight` and `strays` are what
given-up calls and abandoned remote processes may still do.

Actions: one per step (`Inspect` … `StartTarget`; `Probe` for the steps that
only pass or fail), `StepFails` for any of them, `EndJob`, `Cleanup`, and for the
environment `Begin`, `Crash`, `Rollback` (the operator restarts the source after
a cleanup), `PowersOff`, `Lands`, `StrayWrites`. `Needs` and `Awaits` are the
two kinds of `dependsOn`; `Ready` is the engine's rule with concurrency 1.
`Faults` switches on what the environment may do beyond failing a step.

A zvol also remembers how its contents came about: whole, torn by a source that
ran, by a VM that has it open or by a stray `dd` (`Spoiled`), or half written.
`TornExplained` holds every torn disk to a cause outside the run; `KeepsItsDisks`
says what a cleanup may not take along.

A step reads the record the workflow file names, not the guest's own: that is
the point of `latest`. `data.latest` is taken to return the last resource
written under the spec by any run, as the workflow's expressions name no
instance.

`Cutover` says it without steps: source, target or nobody serves a guest, and
the target only takes over with a faithful copy. `ImplementsCutover` is checked
with the mapping at the end of `MigrateVm`.

### TruenasRpc, RemoteCall

State: the socket and its pending map, the caller (login, then calls one at a
time), the requests and replies on the wire, and what the middleware has carried
out. Actions: `Issue`/`Call`, `Receives` (`#onMessage`), `Drops` and `Closes`
(`#fail`), `TimesOut` (`withTimeout`), `Login`, `CloseSession`, and the
middleware's `Executes`, `Replies`, `Refuses`, `Loses`. `RemoteCall` promises no
more than the code can: an answered call was carried out once, one that failed
was carried out at most once, perhaps later. `MaxCalls` bounds the calls of a
session.

### AuraeCell

One `CellTarget.run`: flags `allocated` and `started`, the two observe
subprocesses, the abort signal, the `finally` block. auraed is the environment;
it may refuse any request, and `faults` adds silence, lost answers, log streams
that end early and consumers that throw. `late` holds cleanup requests whose
`aer` was killed.

### UnifiDns, RecordMap

The zone of a controller as a set of records, and for each caller the list it
got, the write it decides on and the resources it has still to store. `Get`,
`Write` and `Store` are separate actions because everything may happen between
them. `Instance` is `recordInstanceName` as a constant function, so that two
records with one name (a host and the wildcard under it) can be modelled.
`RecordMap` is the zone as a map; calls made one after the other implement it.

### TruenasVm

The zvols, VMs and devices of a host; per method (`op`) the call it is at and
what it has read; the resources it stored. A query, a write and a store are
separate actions, as other callers and late calls act in between.
`Query…` are the queries that decide; `Write` is any write that is carried out;
`Refused`, `ReadFails`, `Fails`, `Abandons` (a time-out: the call may yet be
carried out, `LateLands`) are the ways to fail. `Dangling` is the removal of a
zvol that the VM did not take along. A zvol may be `Unsized`: a
dataset of its name of which no volsize is told, which `create_zvol` takes for large
enough. `Effect`, `Requires` and `Taken` are the middleware, modelled from the calls made to it.

### DiskStream

One run of `stream`: four processes joined by pipes, the connection, the timer,
and at the end what the method decides from exit codes and the figures `dd`
prints. `DiskSize` is the source's, `BlockSize` what a count may be short of `expected`
(`expectedBytes`, 0 if it is not given: one of `ExpectedSizes`, the source's size or
another) and still pass, `Buffer` how much may be between the two `dd`.

### GuestEdit

Runs of `edit_guest_disk` on one tool host, one action per command of the
script that `buildEditGuestDiskScript` builds, trap included. Any command may fail at any
time (`FailsAt`, `GoesOnOrFails`), before its work or after it, and the trap then runs from
there. `mounts` is the
stack of file systems at the mount point, `cached` what is written and not yet
on a disk, `host` what went into the tool host's own directory. Guests may share
the name of their volume group (`Layouts`).

### FleetReport

A workflow (`setup`) is the steps it has and what may happen around them, so that one
instance has several. The steps query, write one record after the other and succeed or fail, each on
its own; `store` keeps the versions (`Kept` of each, 20 in the code) and
`handles` what a step hands to the report. `Rows` and `dedupeRows` are the
report's loop and `render.ts`. `seen` and `lasting` are history: what the guests
were during the run, and which stayed.

### TrustGraph

The derivation as operators over a set of scanned items, one per kind of edge
(`githubEdges` … `tokenEdges`), each with its findings; then the store, and per
run the part of its graph a build has yet to write. An edge carries the item it
comes from (`of`), so that edges of one id can be told apart where the code
cannot. The order of `data.findBySpec` is not known, and edges are written in
any order. A domain is stored under a name that `sanitizeInstanceName`, a constant operator,
gives its id, and two ids may have one name. The report reads the versions its build's
handles name (`ReadEdges`) and passes over up to `MaxUnreadable` of them; it may find no
inventory, or one it cannot read (`Error`). A share is told in `Percent` parts, 100 in
the code. An edge's id is the tuple of its parts, where the code has a 32-bit hash of them:
that two different tuples hash alike is left out.
`TrustGate` has the way from the providers to the stored items, `TrustGraph`
from there to the verdict.

### HeliosZone

The zones and VNICs of a host; the method called (`req`), the commands it has
yet to run (`todo`) and what it has read (`got`); the resources it stored. One
action runs one command (`Runs`), with what the host requires of it and does
(`Requires`, `Effect`, modelled from the calls made). `Fails` is a refusal, or
an ssh that fails; which failures a method tolerates is `Tolerated`. `ready`
says what an operator knows: a zone is booted only when `vnic_create` of its
link has returned.

### HostHealth

A method's probes (`todo`), the readings of those that were answered (`got`) and
those that failed; the ssh master of `health_check` with its temporary
directory; the resources stored. `Answered` and `Fails` run one probe;
`deriveVerdict` and the operators before it are what the code makes of the
readings. The host may change in between (`HostChanges`), and `seen` keeps what
it was, so that a verdict can be compared with the truth of its own time.

### OmniInventory, OmnictlJson

`omni` holds the resources by type, as Omni does, and changes one resource at a
time while `discover` runs; `got` are the answers, in any order; `mergeInventory`
is the pure merge of `transform.ts`; `left` are the records yet to be written.
`lasting` and `still` are history: the machines registered all through the run,
and whether nothing changed. `OmnictlJson` scans a sequence of characters, those
that mean nothing to the parser being all one. Its `Assumptions` say what omnictl
prints: each of the resources is one JSON object (`Resource`), read as JSON is (`Reading`:
braces nest outside of strings), whatever it is made of, with nothing but blanks in
between.

### MigrationReport

Extends `MigrateVm`: every step of the workflow is a step of `ReportNext`, which
also notes what the step wrote (`written`) and, when a run is over, renders its
report. Records are handed to the report by version, so those of the run are
what it reads. `verify` is the one method that writes a record and then fails
(`Writes`). What the report claims is compared with the two hosts.

### TruenasInventory

`discover` asks once for the guests (`Queried`, filtered as `queryParams` does)
and once for `system.info` (`Informed`, or `InfoFails`, which goes on), builds the
records with `parseIncusInstance` or `parseLibvirtVm`, and writes them by name
and the roll-up last. Limits are written the ways the parser accepts: counts,
sets of ranges, shares, and sizes as fractions of a unit. `queried` is history:
what the guests were when the query was answered. `Assumptions` says what is taken of a
host: no two of its VMs have ids that sanitize alike (two that do share a record, and the
code has no answer to it), and the ranges of a pinned guest's CPUs do not overlap.
`limits.cpu` that names a CPU twice would be counted twice, by the code as by the model.

### TrustGate

What the providers hold (`world`), what is stored of it (`store`, by instance
name), the `inventory`, and the state of the steps of the workflow that runs. A
scan works off a list of reads (`todo`); a read belongs to scopes, and its
failure either ends one of them (`Rest`: the reads up to the first outside it) or is passed over; both are noted. A
read stands for its attempts, its pages and the records it yields; an item that
is `flagged` raises a finding of the severity the catalogue gives its kind.
`scanEnvironments` is on, its default.
Repositories configured by name are scanned as those of an org are, and are left
out. The scans run side by side; `StartBuild` takes its inputs when it starts,
as the workflow's expressions are evaluated then.

### HeliosZfs

`datasets`, `snapshots` and `pool` are the host; zfs itself (`Works`, `Effect`,
`Printed`) is external. A method runs through the phases of its code: the probe
of a destroy, the command, the read-back, the writes, one record at a time. A
command that is given up on moves to `late` and may still be carried out.
`Props` is the loop of `parseDatasetGet`, column by column. What the code leaves
alone (records of datasets that are gone) stays.

### The MC modules

`MCMigrateVm`, `MCMigrationReport`, `MCTruenasRpc`, `MCTruenasVm` and `MCUnifiDns`
give one module its constants. The other four are sums: a run of theirs checks
several modules that do not act on each other, of which a behaviour exercises
one, named by the variable `part`, while the others stay in one initial state.
The first module is extended, the others are instantiated under a name
(`Stream!Next`), with their variables renamed where two modules have the same.
`RemoteWork`, `HostWork`, `InventoryWork` and `TrustWork` are such sums for any constants,
so that they can be proved about; `MCRemoteWork`, `MCHeliosHost`, `MCInventories` and
`MCTrust` give them their instances.
The sum adds no behaviour and hides none; it keeps the number of runs small, and
an invariant of a part is asked of that part only, or of all where it holds of
an initial state anyway. Where
the parts' properties answer one question they are conjoined under one name:

| Module | Parts | Conjunctions |
| --- | --- | --- |
| `RemoteWork` | `AuraeCell`; `DiskStream` as `Stream`; `GuestEdit` as `Edit` | `CopyTrue`: `VerifiedIsComplete`, `FailsForAReason`; `EditsTrue`: `OkMeansEdited`, `HostUntouched`, `NothingLeftActive` |
| `HostWork` | `HeliosZfs`; `HostHealth` as `Health` | `HealthTrue`: `VerdictExplained`, `InfoExplained`, `SessionClosed`; `DatasetsTrue`: `GoneExplained`, `DelegationTrue`, `ListedAll` |
| `InventoryWork` | `HeliosZone`; `FleetReport` as `Fleet`; `OmniInventory` as `Omni`; `OmnictlJson` as `Json`; `TruenasInventory` as `Truenas` | `FleetTrue`: `ShownAll`, `RowsExplained`, `OneRichRow`; `OmniTrue`: `DiscoveredAll`, `SummaryLast`, `CountsAgree`, `NotesExplained`, `ParsedWhole`; `TruenasTrue`: `DiscoveredAll`, `SummaryTrue`, `CpusCounted` |
| `TrustWork` | `TrustGraph` for one run and for two; `TrustGate` as `Gate` | `ScansTrue`: `MissesNoted`, `GateSound` |

The type invariant of each part is among the conjuncts.

## The runs

A run that must pass is listed with what it shows; a run that finds a violation
shows the code doing what one of its documents excludes, quoted in `findings`.

| Run | Result | Shows |
| --- | --- | --- |
| `migrate_faults` | holds | One guest migrated twice under every fault but overlapping runs: crashes, rollbacks, late calls, stray processes, hand-made VMs and cleanups that fail put no MAC on two machines, copy no running source, and tear no copy but by a stray process or a VM that has the zvol open. |
| `migrate_alone` | holds | One guest, up to three runs with late calls: a target boots a whole copy of its own guest as the source left it, no running disk is copied over, and every run ends, a failed one with its cleanup, or waits for omnictl or the UniFi controller with the target up. |
| `migration_report` | holds | Two guests migrated one after the other, with failures and late calls: the workflow implements Cutover, no cleanup takes a disk from under a running VM, and a report without a warning is of a migration that is complete on the hosts. |
| `migrate_overlap_nic` | violation | Two runs that overlap share data.latest: one gives its target the MAC of the other's guest, which is still up. |
| `truenas_rpc` | holds | A login and three calls with replies that are late, lost, refused or reordered and a socket that may close at any time: every caller gets its own answer or an error, and the session ends. |
| `remote_work` | holds | A run of the aurae driver, a disk copy in either mode, or three edits of two guests' disks, with requests, processes and commands that fail, hang or are killed anywhere: what is recorded as done is done, a copy to less than a block, what is left behind has its reason, and driver and copy return. |
| `unifi_dns` | holds | Three calls in turn whose answers may be lost implement a map; with two callers at once, late writes and a console, a second record for a name is only ever made by a call that raced. |
| `truenas_vm` | holds | Any four methods in turn with lost answers, or three by two callers with late writes: nothing is made twice, what is returned is done, a zvol ensured is large enough or of a size that cannot be read, an unmarked VM only goes by force. |
| `helios_host` | holds | A diagnostic method on a host that changes once in between, with a probe that fails, or three dataset methods with a lost answer and a late command: a verdict is drawn from what was so, what dataset_create made goes only when asked or by a late command, a recorded delegation is so, and methods and sessions end. |
| `zfs_lookup` | violation | A lookup of a delegated dataset records the defaults: no property is read from the two columns. |
| `inventories` | holds | What is stored of a changing fleet: the methods of helios/zone and dladm command by command, the discoveries and the report of inventory-fleet, omni/inventory with the parser of its output, and truenas/inventory, each with failures midway. A zone boots only onto a protected link, records are so, and an inventory leaves out, makes up and miscounts nothing without a note. |
| `trust` | holds | One build, report and gate over every small set of one provider's items, two of them at once, and whole workflows with scans that fail: every risk is counted and, ids and names apart, stored with both its ends, the report hides no risk whatever it cannot read, and a gate that passes judged one whole build that missed nothing without a note, its coverage rounded. |

Bounds. The migrate runs use one guest with up to three runs (fail, clean up,
roll back, run again, run once more) where faults of one guest are the
question, and two guests where records may be mixed up: `latest` holds one
record, so two writers are enough. `MaxVms`, `MaxPower` are as large as those
runs can reach. `MaxCalls = 4` in a TrueNAS session is a login and three calls,
so that a late answer can meet the next call and the one after. The aurae runs
need no bound. The UniFi run uses two records of a host and one of the wildcard
under it, two values, and three calls in turn or two at once: a lost answer, its
repetition and one call to notice.

The TrueNAS VM run uses two names, two sizes and three or four methods:
something, its repetition, and one more to notice.

A disk of two blocks of two units each can be short by a block, or by less; the size given is
none, the right one, one that a block's tolerance forgives and one it does not. Three edits (the
first guest's, the second's, the first's again) are enough for a leftover to
meet both guests.

`FleetReport`: two workflows. A node and a guest that may move, two runs, one failing
step, two discoveries of others with two versions kept, so that one can be collected;
and two guests of one hypervisor, of one name or not, with two steps for the merge.

`TrustGraph` takes every set of up to five of nine or ten items of one provider
for a single run, and six sets that mix the providers for two runs at once. The
slices meet only in the domains, the counts and the store. `Percent` is 2 in the run, so
that the border where a static credential no longer shows in the coverage is at 4 edges
instead of 200; the proofs have any `Percent`. The report of the single run misses any of
its handles, that of an overlapping one up to one. The organisations acme and Acme stand
for ids with one name.

`HeliosZone` uses two zones on one link: enough for one zone to run while the
link is asked to be destroyed for the other. Six calls with two failures create
a link, fail, repeat, and bring a zone up; four with one late command reach a
running zone.

`HostHealth` has one method, one change of the host and one failing probe: every
pair of probes has the change between them, and a host that becomes unreachable
fails all the rest at no cost.

`OmniInventory`: two machines, two clusters with one slug, two discoveries, two
changes and one failure: enough for answers of different moments, for a machine
that leaves between the runs and for a run that stops midway.
`OmnictlJson`: three resources of six shapes, cut at every place.

`MigrationReport`: two guests, one run each, in turn, with late calls.

`TruenasInventory`: two guests and a container, every pair of limits of both
parsers, two discoveries, one change and one failure, so that a run can stop
between records of another.

`TrustGate` uses an org with two repositories whose environments have secrets
that share an instance name, a project and an account; two of the three
providers are configured in each case. Two failures meet a target and a part of
another; two runs, one change or any expiries let a run judge what an earlier
one stored.

`HeliosZfs`: one dataset inside the other, one tag, zone and quota, three methods,
one lost answer and one step of others: enough to destroy, repeat and create again
below a late destroy.

`CHECK_DEADLOCK FALSE` is used throughout because runs, sessions and methods end
and the bounds stop new ones.

Fairness. `MigrateVm!FairSpec`: every call of a step has a timeout and so has
the approval, hence weak fairness of each guest's engine, but for two steps: `omnictl`
is awaited without a timer (`omnictl.ts:134`) and so is the request to the UniFi
controller (`client.ts:90`). While verify-omni or dns-flip is ready (`MayHang`) nothing is
assumed of the engine, which with concurrency 1 may be at that step for ever; `RunEnds`
says that a run without an end waits there and is cut over by then. That the Proxmox
calls come back is taken from the extension they belong to, which is not in this
repository. Nothing is assumed of the environment. `TruenasRpc`: every await has a timer, and a closing socket
closes. `AuraeCell`: auraed answers while it is not stuck, timers fire, an
ended stream is read; the executable need not end.
`DiskStream`: processes that are alive go on; a fault may happen but need not, so
faults are no part of the fair action. `HostHealth`: every ssh ends (timeout), and so does a master without clients (`ControlPersist=60s`). `HeliosZfs`: ssh has a timeout, so each step of a method comes; that a late command is carried out is not assumed.

## What is proved

`MigrateVmProofs` is checked by TLAPS for any set of guests, any bounds and any
faults allowed by the assumptions (named `ASSUME`s of `MigrateVm`: `None` is no
guest, `Faults` is a set of the seven kinds, bounds are naturals).

* `TypeCorrect`: the type invariant, under all faults.
* `RunsKeepToThemselves`: `IndInv`, if runs do not overlap.
* `NeverTwoNics` and `SourceOffWhileCopied` follow from it.

`NoTwoNics` alone is not inductive. What carries it: at most one run is active
(`OneAtATime`); its steps settled in the order of the graph (`StepsInOrder`);
hence what it reads from `latest` it wrote itself (`OwnRecords`), the source
stays off from the shutdown on (`StaysOff`), a NIC is only ever attached, or
about to be by a call in flight, to the target of its own guest
(`NicsAtHome`, `PendingNicsAtHome`), and after a cleanup that worked no call in
flight can give the MAC to a VM again (`CleanedForGood`), which is what makes
the rollback safe. `overlap` must be excluded: `migrate_overlap_nic` is the
counterexample.

* `OnlyStraysTear`: `TornExplained`. From `CopyStill`, which `IndInv` implies (the
  source of a copy under way has not been on since it began), a copy that ends
  by itself is whole (`EndsWhole`), so that only `Spoiled` tears (`SpoiledTears`,
  `NoTear`, joined in `TearStep`).

Its second half goes on from there to the disks, to the refinement and to the report
of a run.

* `RunningVmsKeepTheirDisks`: `KeepsItsDisks`, if runs do not overlap. `DiskInv` is for
  zvols what `NicsAtHome` is for NICs: a disk is attached, or about to be, to the target
  of its own guest only, and the zvol a run reads from `latest` is its own. A cleanup
  takes both away or is refused the zvol.
* `CopiesSpareRunningVms`, `StartsFromFaithfulCopies`: `RunningDiskNotOverwritten` and
  `BootsFaithfulCopy`, if only calls come late and VMs are hand-made (`Quiet`). `CopyInv`
  says that before a run's attach-disk no VM has the disk of its guest (`Fresh`); that a
  copy in progress writes the zvol of its own guest from a source that has not moved, and
  is whole and faithful while the run goes on after it (`InProgress`, `CopyKept`); and that
  a late start is of a VM whose run had its disk attached (`PendingStarts`). Each of the
  other faults makes these properties false: TLC finds counterexamples with `late` and any
  one of `crash`, `cleanup`, `stray` and `rerun`, and for two guests with `overlap`. The
  hypothesis is what the code needs.
* `WorkflowIsACutover`: `ImplementsCutover` under the same hypothesis. Each action maps to
  a step of `Cutover` for one guest, to a step of its surroundings or to a stutter; a
  target that comes up does so with a faithful copy (`BootsFaithfulCopy`), and the copy
  below it does not change after (`CoreInv`).
* `CleanReportsAreTrue`: `CleanReportTrue` under the same hypothesis, for `MigrationReport`.
  `ReachInv` adds that what a run has reached is still there when it ends, and that a run
  that failed has a required step that did.

`TruenasRpcProofs` is checked for any `MaxCalls` in `Nat \ {0}`.

* `TypeCorrect`, `AnswersAreOwn`, `NobodyForgotten`: the invariants of the run.
* `SessionImplements`: the refinement of `RemoteCall`.

`OwnAnswer` and `NoWaiterForgotten` rest on six facts kept together: a frame
carries an id given out before, and whoever is registered under it made the
call (`FramesFit`); who waits is registered (`Registered`) and a closed socket
has no one registered (`ClosedEmpty`); the caller waits for the last call it
issued and no other (`InTurn`); a request is the only frame of its call and was
not carried out (`RequestsOpen`); a reply says whether its call was
(`RepliesTrue`). The last two are what the refinement needs: they make a reply
that says ok imply that the call happened, and a refusal that it never will.

### RemoteWorkProofs

The three models of `RemoteWork` are proved about in one module, each under the next-state
relation of its own part; a step of another part leaves its variables alone (`WorkSteps`).

The aurae driver, for any set of fault cases. `TypeCorrect`, `NothingLeftUnsaid` and
`SuccessMeansAll` rest on three facts kept together: `Before` says what cannot have happened
in each phase (nothing is started before the allocation is answered); `Left` follows the
cell and the executable to the return, where the free has removed what the stop may have
missed or a warning was logged; `Streams` says that an end of file comes only from an
executable that has ended, and that a stream of a run not aborted is open or at its end
while no stream is cut. The last is what makes an `Outcome` after `Drained` complete.

The copy, for any `DiskSize`, `BlockSize`, `Buffer`, `ExpectedSizes` and modes. `EndsTell` says what the end of each process proves about the one
before it in the pipe: one that ended by itself has had everything its source gave, so that
good exit codes carry the whole disk, except past a destination `zstd` whose code a direct
copy does not see.

The edits, for any guests, layouts of volume groups and scripts. `OneRuns` says that a
script at work is the only one; `WritesToGuest` that while it writes its own guest's file
system is on top of the mount point, and what it has written is in there, never in the tool
host's directory; `MarkedIsSynced` that the marker comes after the sync. `Clean` follows the
trap from wherever a command failed. `AppliedMeansEdited` keeps the conditions written into
the properties: edits that overlap or time out are excused, as they are in the run.

### UnifiDnsProofs

For any finite set of names, any values, callers, faults and bounds. The inductive
`Inv` is `TypeOK` with `Pending` (a late request is one a method may send, `Sendable`,
and a late POST is of a method whose list lacked the name) and `InTurn` (with callers
that take turns nothing is late, what a caller about to write has listed is what is
there, and each name has one record). `NumberFits` bounds the ids of a
list, `WriteInTurn` carries the uniqueness over a POST, PUT or DELETE. `SecondIsRaced`
follows from `Pending` alone and needs no order of the calls. `ListsAll` adds
`Listing`: of the records a list has seen, those no longer to do are stored. For `MapImplemented`,
`WriteDoes` shows that the one step which changes what is served changes it as the
map's update does, and every other action maps to an ask, an answer or a stutter
(`BeginAsks`, `GetAsks`, `WriteLostFails`, joined in `StepsAnswer`).

### TruenasVmProofs

For any names, sizes, callers, faults and bounds, with at least two ids. `Inv` is
`TypeOK` with three parts. `Pending`: a call in hand (`Due`) or late (`LateDue`) is one
the method's own query entitles it to (`Entitled`), which is why `UnmanagedSpared`
holds under all faults. `UniqueNames`: the middleware refuses a second VM of a name. `InTurn`, for a single caller with nothing late:
devices are unique (`Single`), and what was read still is how things are (`Reached`), so
that a create is only sent for what is not there, and a method that returns has reached
its goal (`ReturnsTrue`). `WriteInTurn` is where the two meet.

### TrustGraphProofs

For any runs, thresholds and finite sets of items (`InputsAssumption`). `EdgeEnds` says
that a slice registers both ends of its edges; with it, `Ends` (what a build has not
left to write has its name in the store, for good: a domain is only ever replaced by one of
its name) is inductive and gives `TypeOK` and `EndpointsKnown`.
`EdgesFinite` makes the counts numbers, `CodesExplained` says for each finding what
an item must be like to cause it, and `RisksFound` joins the codes of one severity:
that is `RisksRolledUp`, of the operators alone. `Judged` carries it through the
steps: the inventory, and every one a gate let pass, is that of a completed build.
`Reported` says that a report's list is made of a part of its build's edges.
`PctNearlyAll` is the rounding, for the report and for the gate. For `EdgesArePut`, `SameIdTwins` shows of the derivation alone
that two edges with one id are those of twins: the type and the ends in an id tell the slices
apart (`SlicesApart`), and within a slice the id has all that tells the items, one lemma per
slice. It takes that the store keeps one application and one login of each account and id
(`KeysAssumption`: `zerotrust.ts` stores them under these two). `KeptInv` is the part of the
steps: a build alone with the store has, for every edge it has written, one of its own with
that id there.

### InventoryWorkProofs

Of the sum `InventoryWork` all five models are proved about. An invariant of one is stated
of its `part`; the steps of the others leave its variables alone.

The zones: for any finite set of zones, any links, bounds and fault cases, lost and late
commands included. `RunningZoneProtected` is not inductive: its strengthening says that every
link the operator may boot on is in place and protected or was given up on
(`SafeReady`), that a boot under way still has such a link (`BootReady`), that
`vnic_create` has its first two commands before it or a protected link behind it
(`Creating`), and that a link being destroyed is no longer ready (`Destroying`).
`TodoFits` and `LateFits` say which commands can still come. `HostStep` is the one lemma
about what a command that takes effect does to all of this; the actions are cases of it.
`RecordsAreTrue` needs another invariant, `RecordInv`: `Place` says of each method how far it
is and what the commands behind it have read (`GotTyped`), and that this is how things still
are while no command comes late (`Undisturbed`), so that what it stores when it returns is so.
`inventory` is the longest: its `todo` is the list of zones it counted, and each zone passed is
recorded, whichever gatherings failed.

The report: `ReportsAreTrue`, for any workflow of steps of the four kinds, any fleets and
changes of them, any number of runs, failures and other discoveries, and any number of
versions kept. It has an arithmetical and a temporal half.

* What `dedupeRows` returns is an induction over the rows (`DedupesRows`): after each row
  the rows kept have distinct names, each is one of those read, and each row read is
  outdone by one that is kept (`Covered`). A fold over a sequence is a function on the
  sets of its indices (`FoldsRows`), of which there is one (`FoldsExist`) and which can be
  followed up by one index at a time (`FoldsGrow`); that `FlattenSeq` has every element
  of every sequence and no other (`Flattened`) is shown in the same way.
* `FleetInv` is the inductive invariant. For a step, `Step`, as a predicate of that step's
  state alone, so that what another step does leaves it: the versions of a record rise and
  are of that record (`Shelved`); what was handed on is the newest or an older version
  (`Handed`), and what it holds, if it is still there, was so in this run and has the name
  of the guest if that stayed (`Ours`, which a discovery of somebody else cannot change, as
  it writes a higher version); a guest that stayed is still to be written or was handed on
  (`StepGoes`). `Told` carries this over to the report: its rows are from the versions
  that were there then, which are no fewer than those there now, so that a version that is
  collected later takes nothing away.

The TrueNAS inventory: `TruenasInventoriesAreTrue`, for any guests, any limits and any
moves of the host, under the assumptions of `TruenasInventory`. Its sums are folds that
choose an element at a time, so that first a few facts about sums of naturals over any
finite set are proved: there is one such sum (`SumsExist`), which does not depend on the
element that is taken first (`SumsAnyhow`), is the same over what a bijection makes of the
set (`SumsMatch`), and is the size of the union if what is summed are sizes of disjoint
sets (`SumsCount`). From these: the CPUs of a pinned guest are as many as it is pinned to
(`SetsCounted`), and the roll-up, computed over the VMs the query returned, is the sum
over the records of their sanitized names (`TotalsAgree`, `StatesAddUp`). `TruenasInv` is
the inductive invariant: between two writes the records of this run are those of the VMs
not in `left` (`Writes`), and a roll-up counts no more VMs than have records of its run or a later one
(`Summarised`).

The Omni inventory and what omnictl prints: `OmniInventoriesAreTrue`, one invariant for
each of the two.

* `OmniInv` says how far a discovery is: while it asks, nothing of its run is recorded;
  what it merges is computed of the four answers alone (`MergedOf`), so that however they
  mix moments, the records, the summary and the notes are of the same nodes; and between
  two writes the records of the run are the merged ones that are not in `left`
  (`NodesWritten`, `ClustersWritten`), the summary being last (`Writing`). The counts are
  arithmetic over this: the machines of the clusters recorded under their own slug are
  disjoint sets (`MachinesCounted`), which leave over the machines that are in no cluster
  (`Free`), whose cluster is not told (`Noted`), and whose cluster's record was
  overwritten by one of the same slug (`Hidden`; `CountsAdd`). The summary of a run stays
  backed by the nodes of its run while the next one only asks (`Lately`).
* `JsonInv` compares the scanner with a reading of the resources that knows where each of
  them ends. Before any character the scanner is either between two of them, as it was
  when it began (`BetweenObjects`), or within one, in the state the reading of that one
  resource has there, with `start` at its first character (`InObject`); and what it has split off
  is all the resources before. A reading is a recursive function, so that first there is
  one (`ReadsExist`) and it goes on character by character (`ReadingIs`); what is printed
  is a joining of sequences, of which the first `k` resources are a beginning
  (`PrintedGrows`, `Begins`). A resource being open at each of its characters but the
  last, the scanner closes it there and nowhere else (`BetweenGoesOn`, `InObjectGoesOn`).
  No brace closes nothing (`ClosesAnObject`), so of what omnictl prints only the end of
  the output within a resource is an error.

`VerdictsAreTrue` is of `HostHealth`, in the same module, for any hosts whose readings have
their types (`HostsAssumption`). A reading is of the host at some moment of the method, or a part of one
whose probe failed (`ReadingsInv`), and at any time every probe has been answered, has failed, or is
yet to be run, once (`ProbesInv`, from `ProbesListed`: no method has a probe twice). What is stored
is then a matter of the operators alone: `FaultsShow`, `AlarmsShow`, `ScrubShows` and `LoadShows` compare what
is made of the readings with the host, and `VerdictTold` joins them in the order of
the verdicts. `LoadShows` needs that the busy and the idle parts of all cores make up the whole
(`BusyAndIdle`), an induction on the number of cores over the library's `FoldFunction`: `AddsExist`
shows that its recursion has a solution, `AddsUp` relates two. `SessionInv` counts: a check
that is under way has one directory more than there were sessions that failed.

The same module proves `ScansAreTrue` of `TrustGate`, under the next-state relation of
`TrustWork`. `GateInv` has, beside the types, `ScanInv`: what a scan has left to do is its
sequence of reads from some `k` on, and of each read before `k` it holds that its item is
stored as the provider has it or that a note tells of it (`Told`), as long as no provider
has changed. A read that succeeds moves `k` by one (`PassedRead`); one that fails moves it
to the first read outside the scope that failed, and those between lie within it
(`SkipOn`, `PassedFailed`). `OrderInv` puts the scans before the build and the build
before the gate, and `JudgedInv` says that what is judged is what was stored. That every
item within the configured scopes is asked for (`TargetsAsked`) is a fact of the
sequences of reads alone; they are joined by `FlattenSeq`, a recursive function of
which `Flattened` is proved by the least counterexample (`Least`), as its values are built
(`JoinsExist`). The assumptions on constants (`GateAssumption`) say that what is
configured is given by sequences and that items are of the kinds their scopes have.

### HostWorkProofs

The two models of `HostWork` are proved about in one module, each under its own
next-state relation. `DatasetsAreTrue` is for any tree of datasets
(`ParentAssumption`). `ZfsInv` has, beside the types: there are no more late
commands than lost answers (`LateTypes`); a dataset that was made and not
asked for, nor struck, is on the host, and a destroy on its way takes none but those asked for
(`MadeInv`); what a delegation has read and will record is so unless the dataset was destroyed
since (`DelegInv`); and what a listing has yet to record is what it has read
(`ListInv`). `UnderSteps` is all that is used of the tree: a dataset is below itself,
and what lies in one that is below is below too, so that a recursive destroy never
leaves a dataset without the one it lies in.

Only model-checked: everything about liveness (`RunEnds`, `SessionEnds`,
`ReturnsOnceStarted`, `CopyEnds`, `EverythingEnds`), which TLAPS does not reach. Every
invariant the passing runs check is also a theorem.

## Known limits

What the models show the code not to do, found while the properties above were
given the conditions under which they hold.

* Two runs of `migrate-vm` that overlap put a MAC on a second live machine
  (`migrate_overlap_nic`), and copy the disk of the guest inspected last, whose
  source may be on (`CopiesPoweredOffSource` with `overlap`).
* A run repeated after the runner died behind start-target copies over the disk
  of the running target (`RunningDiskNotOverwritten` with `crash`). A remote
  `dd` that outlives its ssh client damages the disk the next run boots
  (`BootsFaithfulCopy` with `stray`; nothing else does, `TornExplained`). Only
  the first disk of a guest is copied.
* The cleanup job removes the zvol of the last record, which may be that of an
  earlier, successful migration whose VM is off, and, being forced, a hand-made
  VM of the target's name. (`KeepsItsDisks` is about VMs that run, whose zvol
  TrueNAS does not give up.)
* The report of a migration leaves out what failed: an unreachable target reads
  "not checked"; a run that ends before attach-nic is warned of MACs that
  differ; one that ends before the shutdown is said to have left its source
  stopped (`summary_render.ts:88`, `158`, `200`). `CleanReportTrue` is about
  reports with nothing to complain of.
* A TrueNAS attach that timed out and is carried out around its repetition
  leaves the device twice (`NoTwins` is stated for `Serial`); `delete` with
  `deleteZvol` removes a zvol by its path although a hand-made VM uses it;
  `start` is refused for a VM that runs, so it can not be repeated after a lost
  answer.
* In direct mode `bytesWritten` may be the source's figure, and a destination
  `zstd` that dies leaves a short copy recorded as verified. So is one that is short of
  `expectedBytes` by less than a block (`build.ts:142`), and any one without
  `expectedBytes`, if the process that died is not looked at (`VerifiedIsComplete` excepts
  just these). A copy into a zvol that was adopted larger than the source by a block or
  more fails its verification.
* `edit_guest_disk` sets its trap before it has set anything up, so an edit that
  finds the device in use tears down the one that runs, and a logical volume may
  stay active when all have ended; a `umount` that fails leaves the logical volume
  active under a disconnected device; an edit that was given up on goes on. Whatever
  other command fails, the trap leaves nothing behind (`NothingLeftActive`).
* Overlapping UniFi upserts of a new entry create it twice (`TwinsRaced` says
  when); `list_records` never retires the resource of a record that is gone; a
  wildcard and its parent share one resource.
* `allocate` and `start` of the aurae driver have no timeout, so a silent auraed
  holds it before the executable runs (`ReturnsOnceStarted` starts after them);
  an allocation whose answer is lost leaves a cell; a log stream that is cut
  counts as ended.
* The gate does not read the notes of the scans: after one that failed or noted
  something it judges what earlier runs stored (`GateSound` with `Clean`
  dropped). Targets that are gone keep failing it until their records expire;
  lists are cut at 200 pages without a note; two items whose names differ only in
  punctuation share a record.
* `assert_posture` without arguments fails at the first high finding
  (`AssertPostureArgs`), though its comment calls the defaults the most
  permissive; a posture report without findings says that every edge is
  ephemeral and conditioned, which an application without a policy or a token
  is not; trust into a pool's other project has no edge there.
* Two guests of one name on one hypervisor are one row of the fleet report; two
  TrueNAS guests whose ids sanitize alike are one record; a libvirt guest without
  a memory is recorded without a note.
* `omnictl` and the UniFi requests have no timeout: a run of `migrate-vm` may stay at
  verify-omni or dns-flip for ever, after the cutover, and holds its place until it is
  killed (`RunEnds`).
* Two trust domains whose ids differ only in case or punctuation, as the organisation
  acme that was scanned and an Acme that a condition pins, share one resource: the
  later one replaces the other, in a build without a fault, and the edges of the other
  point to a domain that is not stored (`EndpointsKnown` says so; the domain count of
  the inventory has both). A coverage of 100% leaves out one edge in 200 (`NearlyAll`).
  The report passes over handles it cannot read: its list is then shorter than its
  scorecard, and may say that there are no findings (`ReportAgrees`).
* A VNIC whose `vnic_create` threw exists without its protection until it is
  destroyed; its record is not retired by `vnic_destroy`; `list` overwrites what
  `lookup` stored of a zone with nulls; `uninstall` goes on if it cannot see
  whether the zone runs; an install that takes more than two minutes is
  reported as failed and goes on.
* `dataset_destroy` takes any failure of its probe for a dataset that is not
  there; `dataset_lookup` reads no property (`zfs_lookup`); `snapshot_destroy`
  given the name of a dataset destroys it; `health_check` stores its audit and
  none of the snapshots described as written by it; a sensor beyond its critical
  threshold (`cr`) raises no alarm.

## What is not modelled

Of the parts listed as partly modelled:

* migrate/disk model: stream and edit_guest_disk with the processes they start; the poll of verify appears only as a step of MigrateVm that passes or fails, and the ssh-available check is left out.
* helios/zone model: list, lookup, create, install, boot, halt, uninstall, delete and inventory command by command, called one after the other; exec changes nothing on the host's side and is left out, and so is what gatherZone collects beyond the state.
* helios/dladm model: vnic_create and vnic_destroy command by command; the link lists and etherstubs, one command each, are left out.
* migrate summary report: Which records are collected, and the rows and warnings on MAC, bytes, net-prep and reachability. Firmware, bootloader, EFI disk, sizes and the layout of the markdown are not.
* trust-network provider scans: Each scan read by read with what a failed read skips and notes. A read stands for all attempts and pages of requestRaw and the pagination helpers; repositories configured by name, the OIDC subject reads and the impersonators of service accounts are left out.
* cloudflare/zerotrust scan: The scan of an account as apps, policies and tokens, with what a failed read skips and notes; identity providers and certificates, and the normalisation of a policy, are left out.

Throughout: wording, logging, rendering, argument quoting, redaction of
secrets and TLS.
