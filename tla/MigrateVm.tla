------------------------------ MODULE MigrateVm ------------------------------
(***************************************************************************)
(* The migrate-vm workflow: the steps of its job and the order between     *)
(* them, the cleanup job, and what each step does to the source VMs on     *)
(* Proxmox, to the VMs and zvols on TrueNAS and to the data records the    *)
(* steps hand each other through data.latest(...).                         *)
(*                                                                         *)
(* A step is one action that settles it, except stream-disk, whose copy    *)
(* lasts long enough for every other actor to move.  The calls inside one  *)
(* TrueNAS step are the subject of module TruenasVm, the processes of one  *)
(* copy that of module DiskStream.                                         *)
(*                                                                         *)
(* The workflow engine, Proxmox, the TrueNAS middleware and the operator   *)
(* are the environment.  What they may do beyond finishing or failing a    *)
(* step is chosen by the constant Faults:                                  *)
(*   "late"      a call the client gave up on is carried out afterwards    *)
(*   "crash"     the workflow runner dies, and its cleanup job with it     *)
(*   "cleanup"   the cleanup job's delete fails                            *)
(*   "stray"     the remote end of an abandoned ssh goes on writing        *)
(*   "overlap"   the runs of two guests are in flight at the same time     *)
(*   "handmade"  a VM swamp did not create has the name of a target        *)
(*   "rerun"     a run is launched for a guest whose last run succeeded    *)
(***************************************************************************)
EXTENDS Naturals

CONSTANTS
    Guests,     \* the VMs to migrate; a guest is also the name of its target
                \* VM and of its zvol, and stands for its disk and its MAC
    None,       \* no guest
    Faults,     \* what the environment may do, see above
    MaxVms,     \* bound on the VM ids TrueNAS hands out
    MaxRuns,    \* bound on the workflow runs per guest
    MaxPower    \* bound on the times a source is switched on or off

FaultKinds == {"late", "crash", "cleanup", "stray", "overlap", "handmade", "rerun"}

ASSUME NoneAssumption == None \notin Guests
ASSUME FaultsAssumption == Faults \subseteq FaultKinds
ASSUME BoundsAssumption == MaxVms \in Nat /\ MaxRuns \in Nat /\ MaxPower \in Nat

VARIABLES
    source,     \* Proxmox: is the guest's VM on, and how often it was switched
    zvols,      \* TrueNAS: the zvols, by the guest they are named after
    vms,        \* TrueNAS: the VMs, by id
    created,    \* TrueNAS: how many VM ids were handed out
    latest,     \* the last vm_spec, zvol and vm_instance written by any run
    status,     \* per guest, the state of its last workflow run
    step,       \* per guest, the outcome of each step of that run
    copy,       \* per guest, the source and destination of the copy in flight
    runs,       \* per guest, the number of runs launched
    inflight,   \* TrueNAS and Proxmox calls given up on and not carried out yet
    strays      \* zvols some abandoned remote process still writes

hosts == <<source, zvols, vms, created>>
vars == <<source, zvols, vms, created, latest, status, step, copy, runs,
          inflight, strays>>

-----------------------------------------------------------------------------
(* The job's steps, and the edges of its dependsOn clauses.                 *)

Steps == {"inspect", "agent-check", "create-zvol", "prep-net-agent",
          "approve-shutdown", "shutdown-src", "stream-disk", "create-vm",
          "attach-disk", "attach-nic", "prep-net-offline", "start-target",
          "verify-reach", "verify-omni", "dns-flip"}

\* Steps whose failure fails the job (allowFailure: false).
Required == {"inspect", "create-zvol", "approve-shutdown", "shutdown-src",
             "stream-disk", "create-vm", "attach-disk", "attach-nic",
             "start-target"}

\* Mutants: the copy does not wait for the shutdown; the VM not for the copy.
CopyNeedsWithoutShutdown ==
    {<<"shutdown-src", "approve-shutdown">>, <<"stream-disk", "approve-shutdown">>,
     <<"create-vm", "stream-disk">>}
CopyNeedsWithoutStream ==
    {<<"shutdown-src", "approve-shutdown">>, <<"stream-disk", "shutdown-src">>,
     <<"create-vm", "shutdown-src">>}

\* <<s, t>>: step s depends on step t with condition "succeeded".
PrepareNeeds ==
    {<<"agent-check", "inspect">>, <<"create-zvol", "inspect">>,
     <<"approve-shutdown", "create-zvol">>}
CopyNeeds ==
    {<<"shutdown-src", "approve-shutdown">>, <<"stream-disk", "shutdown-src">>,
     <<"create-vm", "stream-disk">>}
CutoverNeeds ==
    {<<"attach-disk", "create-vm">>, <<"attach-nic", "create-vm">>,
     <<"prep-net-offline", "attach-disk">>, <<"start-target", "attach-disk">>,
     <<"start-target", "attach-nic">>, <<"verify-reach", "start-target">>,
     <<"verify-omni", "verify-reach">>, <<"dns-flip", "verify-reach">>}
Needs == PrepareNeeds \cup CopyNeeds \cup CutoverNeeds

\* <<s, t>>: step s depends on step t with condition "completed".
Awaits ==
    {<<"prep-net-agent", "agent-check">>, <<"approve-shutdown", "prep-net-agent">>,
     <<"prep-net-offline", "prep-net-agent">>, <<"start-target", "prep-net-offline">>}

\* Steps that change nothing the other steps read: they only pass or fail.
Probes == {"agent-check", "prep-net-agent", "approve-shutdown",
           "prep-net-offline", "verify-reach", "verify-omni", "dns-flip"}

DependenciesMet(g, s) ==
    /\ \A e \in Needs : e[1] = s => step[g][e[2]] = "succeeded"
    /\ \A e \in Awaits : e[1] = s => step[g][e[2]] \in {"succeeded", "failed"}

\* concurrency: 1, so a step is ready only while no other one runs.
Ready(g, s) ==
    /\ status[g] = "running"
    /\ \A t \in Steps : step[g][t] # "running"
    /\ step[g][s] = "pending"
    /\ DependenciesMet(g, s)

Settle(g, s, outcome) == step' = [step EXCEPT ![g][s] = outcome]

-----------------------------------------------------------------------------
(* The state of the two hosts.                                             *)

Disk(z) == [kind |-> "DISK", of |-> z]
Nic(m)  == [kind |-> "NIC", of |-> m]
Device  == [kind : {"DISK", "NIC"}, of : Guests]

\* What a VM runs with is what it was started with, not what was attached since.
Vm == [name : Guests, managed : BOOLEAN, on : BOOLEAN,
       devices : SUBSET Device, live : SUBSET Device]

\* A zvol holds a copy of guest "of" as it was after "power" switches of that
\* guest; "torn" is a copy of a moving disk or one two processes wrote.
ImageStates == {"blank", "partial", "torn", "whole"}
Zvol == [of : Guests, power : Nat, state : ImageStates, booted : BOOLEAN]
Blank(z) == [of |-> z, power |-> 0, state |-> "blank", booted |-> FALSE]

Copy == [src : Guests, dst : Guests, power : Nat]
NoCopy == [src |-> None, dst |-> None, power |-> 0]

Ops == {"shutdown", "zvol.create", "vm.create", "disk.attach", "nic.attach",
        "vm.start", "vm.delete"}
Call == [op : Ops, vm : Nat, arg : Guests]

Named(g) == {i \in DOMAIN vms : vms[i].name = g}

\* A running VM has the zvol open.
OpenByVm(z) == \E i \in DOMAIN vms : vms[i].on /\ Disk(z) \in vms[i].live
SourceOff(g) ==
    source' = IF source[g].on
              THEN [source EXCEPT ![g] = [on |-> FALSE, power |-> @.power + 1]]
              ELSE source

\* pool.dataset.create, for a name that is free
ZvolMade(z) ==
    zvols' = [x \in DOMAIN zvols \cup {z} |->
                 IF x \in DOMAIN zvols THEN zvols[x] ELSE Blank(x)]

NewVmId == created + 1

\* vm.create, for a name that is free
VmMade(g) ==
    /\ created < MaxVms
    /\ created' = created + 1
    /\ vms' = [i \in DOMAIN vms \cup {NewVmId} |->
                  IF i \in DOMAIN vms THEN vms[i]
                  ELSE [name |-> g, managed |-> TRUE, on |-> FALSE,
                        devices |-> {}, live |-> {}]]

\* vm.device.create; a device already there is left as it is
Attached(i, d) == vms' = [vms EXCEPT ![i].devices = @ \cup {d}]

\* vm.start of a VM that is off
Started(i) ==
    IF vms[i].on
    THEN UNCHANGED <<vms, zvols>>
    ELSE /\ vms' = [vms EXCEPT ![i].on = TRUE, ![i].live = vms[i].devices]
         /\ zvols' = [z \in DOMAIN zvols |->
                        IF Disk(z) \in vms[i].devices
                        THEN [zvols[z] EXCEPT !.booted = TRUE]
                        ELSE zvols[z]]

\* Who stops writing the zvols of S may have written over a copy in progress.
Spoiled(S) == [z \in DOMAIN zvols |->
                 IF z \in S /\ zvols[z].state = "partial"
                 THEN [zvols[z] EXCEPT !.state = "torn"]
                 ELSE zvols[z]]

Attachments(i) == {z \in DOMAIN zvols : Disk(z) \in vms[i].devices}

\* Mutant: the VM is left standing.
VmsAsTheyWere(S) == vms
VmsWithout(S) == [i \in DOMAIN vms \ S |-> vms[i]]
ZvolsWithout(S) == [z \in DOMAIN zvols \ S |-> zvols[z]]

\* Mutant: only the first VM is ever recorded.
VmRecordedOnce(i) == latest' = [latest EXCEPT !.vm = IF @ = 0 THEN i ELSE @]
\* writeResource("vm_instance"), which data.latest finds from now on
VmRecorded(i) == latest' = [latest EXCEPT !.vm = i]

-----------------------------------------------------------------------------
Init ==
    /\ source = [g \in Guests |-> [on |-> TRUE, power |-> 0]]
    /\ zvols = [z \in {} |-> Blank(z)]
    /\ \/ vms = [i \in {} |-> {}] /\ created = 0
       \/ /\ "handmade" \in Faults /\ MaxVms > 0
          /\ created = 1
          /\ \E g \in Guests :
                vms = [i \in {1} |-> [name |-> g, managed |-> FALSE, on |-> TRUE,
                                      devices |-> {}, live |-> {}]]
    /\ latest = [spec |-> None, zvol |-> None, vm |-> 0]
    /\ status = [g \in Guests |-> "idle"]
    /\ step = [g \in Guests |-> [s \in Steps |-> "pending"]]
    /\ copy = [g \in Guests |-> NoCopy]
    /\ runs = [g \in Guests |-> 0]
    /\ inflight = {}
    /\ strays = {}

-----------------------------------------------------------------------------
(* The steps that do something, when they succeed.                         *)

Inspect(g) ==
    /\ Ready(g, "inspect")
    /\ Settle(g, "inspect", "succeeded")
    /\ latest' = [latest EXCEPT !.spec = g]
    /\ UNCHANGED <<hosts, status, copy, runs, inflight, strays>>

Probe(g, s) ==
    /\ s \in Probes
    /\ Ready(g, s)
    /\ Settle(g, s, "succeeded")
    /\ UNCHANGED <<hosts, latest, status, copy, runs, inflight, strays>>

\* A zvol of that name is adopted, whatever it holds.
CreateZvol(g) ==
    /\ Ready(g, "create-zvol")
    /\ Settle(g, "create-zvol", "succeeded")
    /\ ZvolMade(g)
    /\ latest' = [latest EXCEPT !.zvol = g]
    /\ UNCHANGED <<source, vms, created, status, copy, runs, inflight, strays>>

ShutdownSrc(g) ==
    /\ Ready(g, "shutdown-src")
    /\ Settle(g, "shutdown-src", "succeeded")
    /\ SourceOff(g)
    /\ UNCHANGED <<zvols, vms, created, latest, status, copy, runs, inflight, strays>>

\* The devices to copy are those of the last vm_spec and the last zvol.
StreamBegins(g) ==
    /\ Ready(g, "stream-disk")
    /\ latest.spec # None /\ latest.zvol # None
    /\ Settle(g, "stream-disk", "running")
    /\ copy' = [copy EXCEPT ![g] = [src |-> latest.spec, dst |-> latest.zvol,
                                    power |-> source[latest.spec].power]]
    /\ zvols' = [z \in DOMAIN zvols |->
                   IF z = latest.zvol
                   THEN [zvols[z] EXCEPT !.of = latest.spec, !.state = "partial",
                                         !.power = source[latest.spec].power]
                   ELSE zvols[z]]
    /\ UNCHANGED <<source, vms, created, latest, status, runs, inflight, strays>>

\* The byte count says the copy is complete; it cannot say that the source
\* stood still, or that nothing else wrote the destination.
StreamEnds(g) ==
    /\ status[g] = "running" /\ step[g]["stream-disk"] = "running"
    /\ Settle(g, "stream-disk", "succeeded")
    /\ LET c == copy[g]
           still == ~source[c.src].on /\ source[c.src].power = c.power
           alone == /\ c.dst \in DOMAIN zvols => zvols[c.dst].state # "torn"
                    /\ ~OpenByVm(c.dst) /\ c.dst \notin strays
                    /\ \A h \in Guests \ {g} : copy[h].dst # c.dst
       IN zvols' = [z \in DOMAIN zvols |->
                      IF z = c.dst
                      THEN [zvols[z] EXCEPT !.state =
                               IF still /\ alone THEN "whole" ELSE "torn"]
                      ELSE zvols[z]]
    /\ copy' = [copy EXCEPT ![g] = NoCopy]
    /\ UNCHANGED <<source, vms, created, latest, status, runs, inflight, strays>>

\* A VM of that name is adopted, whoever made it.
CreateVm(g) ==
    /\ Ready(g, "create-vm")
    /\ Settle(g, "create-vm", "succeeded")
    /\ \/ \E i \in Named(g) :
             /\ VmRecorded(i)
             /\ UNCHANGED <<vms, created>>
       \/ /\ Named(g) = {}
          /\ VmMade(g)
          /\ VmRecorded(NewVmId)
    /\ UNCHANGED <<source, zvols, status, copy, runs, inflight, strays>>

AttachDisk(g) ==
    /\ Ready(g, "attach-disk")
    /\ latest.vm \in DOMAIN vms /\ latest.zvol \in DOMAIN zvols
    /\ Settle(g, "attach-disk", "succeeded")
    /\ Attached(latest.vm, Disk(latest.zvol))
    /\ UNCHANGED <<source, zvols, created, latest, status, copy, runs, inflight, strays>>

AttachNic(g) ==
    /\ Ready(g, "attach-nic")
    /\ latest.vm \in DOMAIN vms /\ latest.spec # None
    /\ Settle(g, "attach-nic", "succeeded")
    /\ Attached(latest.vm, Nic(latest.spec))
    /\ UNCHANGED <<source, zvols, created, latest, status, copy, runs, inflight, strays>>

StartTarget(g) ==
    /\ Ready(g, "start-target")
    /\ latest.vm \in DOMAIN vms
    /\ Settle(g, "start-target", "succeeded")
    /\ Started(latest.vm)
    /\ VmRecorded(latest.vm)
    /\ UNCHANGED <<source, created, status, copy, runs, inflight, strays>>

-----------------------------------------------------------------------------
(* The steps when they fail.                                               *)

\* The call a failing step may have sent and stopped waiting for.
CallOf(g, s) ==
    CASE s = "create-zvol"  -> {[op |-> "zvol.create", vm |-> 0, arg |-> g]}
      [] s = "shutdown-src" -> {[op |-> "shutdown", vm |-> 0, arg |-> g]}
      [] s = "create-vm"    -> {[op |-> "vm.create", vm |-> 0, arg |-> g]}
      [] s = "attach-disk" /\ latest.zvol # None ->
            {[op |-> "disk.attach", vm |-> latest.vm, arg |-> latest.zvol]}
      [] s = "attach-nic" /\ latest.spec # None ->
            {[op |-> "nic.attach", vm |-> latest.vm, arg |-> latest.spec]}
      [] s = "start-target" -> {[op |-> "vm.start", vm |-> latest.vm, arg |-> g]}
      [] OTHER -> {}

StepFails(g, s) ==
    /\ Ready(g, s)
    /\ Settle(g, s, "failed")
    /\ \/ UNCHANGED inflight
       \/ "late" \in Faults /\ inflight' = inflight \cup CallOf(g, s)
    /\ \/ UNCHANGED strays
       \/ /\ "stray" \in Faults /\ s = "prep-net-offline"
          /\ strays' = strays \cup {g}
    /\ UNCHANGED <<hosts, latest, status, copy, runs>>

\* The local ssh is killed or fails; the dd at its far end may outlive it.
CopyAbandoned(g) ==
    /\ copy' = [copy EXCEPT ![g] = NoCopy]
    /\ \/ UNCHANGED strays
       \/ /\ "stray" \in Faults /\ copy[g] # NoCopy
          /\ strays' = strays \cup {copy[g].dst}

StreamFails(g) ==
    /\ status[g] = "running" /\ step[g]["stream-disk"] = "running"
    /\ Settle(g, "stream-disk", "failed")
    /\ CopyAbandoned(g)
    /\ UNCHANGED <<hosts, latest, status, runs, inflight>>

-----------------------------------------------------------------------------
(* The life of a run.                                                      *)

Active(g) == status[g] \in {"running", "failed"}

Begin(g) ==
    /\ \/ status[g] \in {"idle", "cleaned", "uncleaned", "crashed"}
       \/ "rerun" \in Faults /\ status[g] = "succeeded"
    /\ runs[g] < MaxRuns
    /\ "overlap" \notin Faults => \A h \in Guests : ~Active(h)
    /\ status' = [status EXCEPT ![g] = "running"]
    /\ step' = [step EXCEPT ![g] = [s \in Steps |-> "pending"]]
    /\ runs' = [runs EXCEPT ![g] = @ + 1]
    /\ UNCHANGED <<hosts, latest, copy, inflight, strays>>

\* Mutant: a job is over when every step was run.
NothingPending(g) == \A s \in Steps : step[g][s] # "pending"
NothingReady(g) == \A s \in Steps : ~Ready(g, s)

\* The job fails with a required step; whether the steps that could still run
\* do so first is left to the engine.
EndJob(g) ==
    /\ status[g] = "running"
    /\ \A s \in Steps : step[g][s] # "running"
    /\ \/ /\ \E s \in Required : step[g][s] = "failed"
          /\ status' = [status EXCEPT ![g] = "failed"]
       \/ /\ \A s \in Required : step[g][s] # "failed"
          /\ NothingReady(g)
          /\ status' = [status EXCEPT ![g] = "succeeded"]
    /\ UNCHANGED <<hosts, latest, step, copy, runs, inflight, strays>>

\* vm.delete {zvols: true} takes the attached zvols along and is refused while
\* one of them is written; the zvol of the last record is then removed as well
\* unless it is busy, which is only logged.
Written(z) == z \in strays \/ \E h \in Guests : copy[h].dst = z
TakenAlong(g) == UNION {Attachments(i) : i \in Named(g)}
Dangling(g) ==
    {z \in {latest.zvol} \cap DOMAIN zvols :
        /\ ~Written(z)
        /\ \A i \in DOMAIN vms \ Named(g) : ~(vms[i].on /\ Disk(z) \in vms[i].live)}
Refused(g) == \E z \in TakenAlong(g) : Written(z)

Cleanup(g) ==
    /\ status[g] = "failed"
    /\ latest.zvol # None /\ ~Refused(g)
    /\ vms' = VmsWithout(Named(g))
    /\ zvols' = ZvolsWithout(TakenAlong(g) \cup Dangling(g))
    /\ \/ Named(g) = {} /\ UNCHANGED latest
       \/ \E i \in Named(g) : VmRecorded(i)
    /\ status' = [status EXCEPT ![g] = "cleaned"]
    /\ UNCHANGED <<source, created, step, copy, runs, inflight, strays>>

\* The step is allowed to fail, and does when no zvol was ever recorded: its
\* input cannot be evaluated.
CleanupFails(g) ==
    /\ status[g] = "failed"
    /\ "cleanup" \in Faults \/ latest.zvol = None \/ Refused(g)
    /\ \/ UNCHANGED inflight
       \/ /\ {"late", "cleanup"} \subseteq Faults /\ latest.zvol # None
          /\ inflight' = inflight \cup
                {[op |-> "vm.delete", vm |-> i, arg |-> g] : i \in Named(g)}
    /\ status' = [status EXCEPT ![g] = "uncleaned"]
    /\ UNCHANGED <<hosts, latest, step, copy, runs, strays>>

Crash(g) ==
    /\ "crash" \in Faults
    /\ Active(g)
    /\ status' = [status EXCEPT ![g] = "crashed"]
    /\ CopyAbandoned(g)
    /\ UNCHANGED <<hosts, latest, step, runs, inflight>>

-----------------------------------------------------------------------------
(* The environment.                                                        *)

\* The operator goes back to the source once the target was removed.
Rollback(g) ==
    /\ status[g] = "cleaned"
    /\ ~source[g].on /\ source[g].power < MaxPower
    /\ source' = [source EXCEPT ![g] = [on |-> TRUE, power |-> @.power + 1]]
    /\ UNCHANGED <<zvols, vms, created, latest, status, step, copy, runs, inflight, strays>>

\* A target VM shuts itself down.
PowersOff(i) ==
    /\ i \in DOMAIN vms /\ vms[i].on
    /\ vms' = [vms EXCEPT ![i].on = FALSE, ![i].live = {}]
    /\ zvols' = Spoiled({z \in Guests : Disk(z) \in vms[i].live})
    /\ UNCHANGED <<source, created, latest, status, step, copy, runs,
                   inflight, strays>>

\* A call nobody waits for any more is carried out, or refused.
Lands(c) ==
    /\ c \in inflight
    /\ inflight' = inflight \ {c}
    /\ \/ /\ c.op = "shutdown"
          /\ SourceOff(c.arg) /\ UNCHANGED <<zvols, vms, created>>
       \/ /\ c.op = "zvol.create"
          /\ ZvolMade(c.arg) /\ UNCHANGED <<source, vms, created>>
       \/ /\ c.op = "vm.create" /\ Named(c.arg) = {}
          /\ VmMade(c.arg) /\ UNCHANGED <<source, zvols>>
       \/ /\ c.op = "disk.attach" /\ c.vm \in DOMAIN vms /\ c.arg \in DOMAIN zvols
          /\ Attached(c.vm, Disk(c.arg)) /\ UNCHANGED <<source, zvols, created>>
       \/ /\ c.op = "nic.attach" /\ c.vm \in DOMAIN vms
          /\ Attached(c.vm, Nic(c.arg)) /\ UNCHANGED <<source, zvols, created>>
       \/ /\ c.op = "vm.start" /\ c.vm \in DOMAIN vms
          /\ Started(c.vm) /\ UNCHANGED <<source, created>>
       \/ /\ c.op = "vm.delete" /\ c.vm \in DOMAIN vms
          /\ \A z \in Attachments(c.vm) : ~Written(z)
          /\ vms' = VmsWithout({c.vm})
          /\ zvols' = ZvolsWithout(Attachments(c.vm))
          /\ UNCHANGED <<source, created>>
       \/ UNCHANGED hosts
    /\ UNCHANGED <<latest, status, step, copy, runs, strays>>

\* An abandoned process writes over a finished copy, and ends at some point.
StrayWrites(z) ==
    /\ z \in strays /\ z \in DOMAIN zvols /\ zvols[z].state = "whole"
    /\ zvols' = [zvols EXCEPT ![z].state = "torn"]
    /\ UNCHANGED <<source, vms, created, latest, status, step, copy, runs,
                   inflight, strays>>

StrayEnds(z) ==
    /\ z \in strays
    /\ strays' = strays \ {z}
    /\ zvols' = Spoiled({z})
    /\ UNCHANGED <<source, vms, created, latest, status, step, copy, runs, inflight>>

-----------------------------------------------------------------------------
Succeeds(g) ==
    \/ Inspect(g) \/ CreateZvol(g) \/ ShutdownSrc(g) \/ StreamBegins(g)
    \/ StreamEnds(g) \/ CreateVm(g) \/ AttachDisk(g) \/ AttachNic(g)
    \/ StartTarget(g) \/ \E s \in Probes : Probe(g, s)

Fails(g) == StreamFails(g) \/ \E s \in Steps : StepFails(g, s)

Engine(g) == Succeeds(g) \/ Fails(g) \/ EndJob(g) \/ Cleanup(g) \/ CleanupFails(g)

Environment ==
    \/ \E g \in Guests : Begin(g) \/ Crash(g) \/ Rollback(g)
    \/ \E i \in DOMAIN vms : PowersOff(i)
    \/ \E c \in inflight : Lands(c)
    \/ \E z \in strays : StrayWrites(z) \/ StrayEnds(z)

Next == Environment \/ \E g \in Guests : Engine(g)

Spec == Init /\ [][Next]_vars

\* The calls of two steps have no timeout of their own: omnictl's, and the request
\* to the UniFi controller.  While one of them is ready it may be under way for ever.
Unbounded == {"verify-omni", "dns-flip"}
MayHang(g) == \E s \in Unbounded : Ready(g, s)

\* Every other call is bounded by a timeout and so is the approval, so a run that
\* nobody kills goes on.
FairSpec == Spec /\ \A g \in Guests : WF_vars(~MayHang(g) /\ Engine(g))

-----------------------------------------------------------------------------
(* Type invariant.                                                         *)

TypeOK ==
    /\ source \in [Guests -> [on : BOOLEAN, power : Nat]]
    /\ DOMAIN zvols \subseteq Guests /\ zvols \in [DOMAIN zvols -> Zvol]
    /\ DOMAIN vms \subseteq 1..created /\ vms \in [DOMAIN vms -> Vm]
    /\ created \in 0..MaxVms
    /\ latest \in [spec : Guests \cup {None}, zvol : Guests \cup {None}, vm : 0..created]
    /\ status \in [Guests -> {"idle", "running", "succeeded", "failed",
                              "cleaned", "uncleaned", "crashed"}]
    /\ step \in [Guests -> [Steps -> {"pending", "running", "succeeded", "failed"}]]
    /\ copy \in [Guests -> Copy \cup {NoCopy}]
    /\ runs \in [Guests -> 0..MaxRuns]
    /\ inflight \subseteq Call
    /\ strays \subseteq Guests

-----------------------------------------------------------------------------
(* Safety.                                                                 *)

Live(m) == {i \in DOMAIN vms : vms[i].on /\ Nic(m) \in vms[i].live}

\* The MAC of a guest is on one running machine at most: its source, or one
\* target VM (migrate/README.md, "never live on two NICs at once").
NoTwoNics ==
    \A m \in Guests :
        /\ source[m].on => Live(m) = {}
        /\ \A i, j \in Live(m) : i = j

\* A copy only ever reads a source that is powered off (disk.ts: "copy a
\* powered-off source block device").
CopiesPoweredOffSource ==
    \A g \in Guests : copy[g] # NoCopy => ~source[copy[g].src].on

\* The source of a copy was not switched since the copy began.
CopyStill == \A g \in Guests : copy[g] # NoCopy => source[copy[g].src].power = copy[g].power

\* No copy writes a zvol that a running VM has open: a run that repeats an
\* earlier one leaves a target that came up alone.
RunningDiskNotOverwritten ==
    \A g \in Guests : copy[g] # NoCopy => ~OpenByVm(copy[g].dst)

\* A copy, finished or in progress, is torn only by the remote end of an ssh that
\* was given up on, or by a VM that had the zvol open already: by no other run, and
\* not by a source that moved (ssh.ts kills the local ssh only).
TornExplained ==
    [][\A z \in DOMAIN zvols \cap DOMAIN zvols' :
         (zvols[z].state \in {"partial", "whole"} /\ zvols'[z].state = "torn") =>
            "overlap" \in Faults \/ z \in strays \/ OpenByVm(z)]_vars

\* Whatever a cleanup removes, a VM that goes on running keeps its disks
\* (the workflow: "removes the half-built target only on failure").
KeepsItsDisks ==
    [][\A i \in DOMAIN vms \cap DOMAIN vms' :
         vms[i].on => \A z \in DOMAIN zvols : Disk(z) \in vms[i].live => z \in DOMAIN zvols']_vars

Faithful(g, z) ==
    /\ z \in DOMAIN zvols /\ zvols[z].of = g /\ zvols[z].state = "whole"
    /\ zvols[z].power = source[g].power /\ ~source[g].on

\* A VM is switched on only over complete copies of its own guest, of the disk
\* as the source left it; nothing has changed on the source since.
BootsFaithfulCopy ==
    [][\A i \in DOMAIN vms' :
         (vms'[i].on /\ (i \in DOMAIN vms => ~vms[i].on)) =>
            \A z \in Guests : Disk(z) \in vms'[i].live => Faithful(vms'[i].name, z)]_vars

-----------------------------------------------------------------------------
(* The inductive invariant behind NoTwoNics and CopiesPoweredOffSource when *)
(* runs do not overlap.  Each conjunct is what another one needs to survive *)
(* a step.                                                                  *)

OneAtATime == \A g, h \in Guests : Active(g) /\ Active(h) => g = h

StepsInOrder ==
    \A g \in Guests : \A s \in Steps : step[g][s] # "pending" => DependenciesMet(g, s)

\* What a run reads through data.latest is what it wrote itself.
OwnRecords ==
    \A g \in Guests : status[g] = "running" =>
        /\ step[g]["inspect"] = "succeeded" => latest.spec = g
        /\ (step[g]["create-vm"] = "succeeded" /\ latest.vm \in DOMAIN vms) =>
                vms[latest.vm].name = g

StaysOff ==
    \A g \in Guests :
        (status[g] = "running" /\ step[g]["shutdown-src"] = "succeeded") => ~source[g].on

OwnCopy ==
    \A g \in Guests : copy[g] # NoCopy =>
        /\ status[g] = "running" /\ step[g]["stream-disk"] = "running"
        /\ copy[g].src = g

UniqueNames == \A i, j \in DOMAIN vms : vms[i].name = vms[j].name => i = j

\* A MAC is attached, or about to be, to the target of its guest only, and
\* only while the source is off.
Home(i, m) == vms[i].name = m /\ ~source[m].on
NicsAtHome ==
    \A i \in DOMAIN vms :
        /\ vms[i].live \subseteq vms[i].devices
        /\ \A m \in Guests : Nic(m) \in vms[i].devices => Home(i, m)
PendingNicsAtHome ==
    \A c \in inflight :
        /\ c.vm <= created
        /\ (c.op = "nic.attach" /\ c.vm \in DOMAIN vms) => Home(c.vm, c.arg)

\* After a cleanup that worked no VM has the MAC and none will get it.
CleanedForGood ==
    \A g \in Guests : status[g] = "cleaned" =>
        /\ \A i \in DOMAIN vms : Nic(g) \notin vms[i].devices
        /\ \A c \in inflight : (c.op = "nic.attach" /\ c.arg = g) => c.vm \notin DOMAIN vms

IndInv ==
    /\ TypeOK
    /\ OneAtATime /\ StepsInOrder /\ OwnRecords /\ StaysOff /\ OwnCopy
    /\ UniqueNames /\ NicsAtHome /\ PendingNicsAtHome /\ CleanedForGood

-----------------------------------------------------------------------------
(* Refinement: seen from outside, the workflow is a Cutover of each guest.  *)

Serving(g) ==
    CASE source[g].on /\ Live(g) = {}  -> "source"
      [] ~source[g].on /\ Live(g) # {} -> "target"
      [] ~source[g].on /\ Live(g) = {} -> "nobody"
      [] OTHER                         -> "both"

Abstract == INSTANCE Cutover WITH
    serving <- [g \in Guests |-> Serving(g)],
    copied  <- {g \in Guests : Faithful(g, g)}

\* Every step of the workflow and of its environment is a move of Cutover.
ImplementsCutover == Abstract!Spec

-----------------------------------------------------------------------------
(* Liveness.                                                               *)

\* A run that nobody kills ends, and a failed one gets as far as its cleanup.  Only
\* a call without a timeout can keep it, and then the guest is over: every required
\* step has succeeded and the target was reached.
CutOver(g) == \A s \in Required \cup {"verify-reach"} : step[g][s] = "succeeded"
RunEnds ==
    \A g \in Guests :
        status[g] = "running" ~>
            \/ status[g] \in {"succeeded", "cleaned", "uncleaned", "crashed"}
            \/ CutOver(g) /\ MayHang(g)

=============================================================================
