--------------------------- MODULE MigrateVmProofs ---------------------------
(***************************************************************************)
(* Proofs about MigrateVm, for any set of guests and any bounds: the type  *)
(* invariant under all faults; when the runs of two guests do not overlap, *)
(* that a MAC is never live on two machines, that no disk is copied from a *)
(* source that is on, and that no cleanup takes a disk away from a VM that *)
(* goes on running.  When moreover nobody kills the runner, no cleanup     *)
(* fails, no remote process outlives its ssh and no guest is migrated      *)
(* again, no copy overwrites the disk of a running VM, a VM is only        *)
(* started over a faithful copy, the workflow implements Cutover, and a    *)
(* report without a warning is of a migration that is complete.            *)
(***************************************************************************)
EXTENDS MigrationReport, TLAPS


\* Every variable has its type at first, with a hand-made VM or without.
LEMMA InitTypeOK == Init => TypeOK
  <1> SUFFICES ASSUME Init PROVE TypeOK
    OBVIOUS
  <1> USE DEF Init
  <1>1. source \in [Guests -> [on : BOOLEAN, power : Nat]]
    OBVIOUS
  <1>2. DOMAIN zvols \subseteq Guests /\ zvols \in [DOMAIN zvols -> Zvol]
    OBVIOUS
  <1>3. DOMAIN vms \subseteq 1..created /\ vms \in [DOMAIN vms -> Vm] /\ created \in 0..MaxVms
    <2>1. CASE vms = [i \in {} |-> {}] /\ created = 0
      BY <2>1, BoundsAssumption
    <2>2. CASE ~(vms = [i \in {} |-> {}] /\ created = 0)
      <3>1. created = 1 /\ MaxVms > 0
        BY <2>2
      <3>2. PICK g \in Guests :
               vms = [i \in {1} |-> [name |-> g, managed |-> FALSE, on |-> TRUE,
                                     devices |-> {}, live |-> {}]]
        BY <2>2
      <3>3. DOMAIN vms = {1} /\ vms \in [{1} -> Vm]
        BY <3>2 DEF Vm
      <3>4. QED
        BY <3>1, <3>3, BoundsAssumption
    <2>3. QED
      BY <2>1, <2>2
  <1>4. copy \in [Guests -> Copy \cup {NoCopy}]
    OBVIOUS
  <1>5. runs \in [Guests -> 0..MaxRuns]
    BY BoundsAssumption
  <1>6. QED
    BY <1>1, <1>2, <1>3, <1>4, <1>5 DEF TypeOK, Call

\* Updates of one field keep a record what it is.
LEMMA ZvolUpdates ==
  ASSUME NEW v \in Zvol
  PROVE  /\ \A x \in ImageStates : [v EXCEPT !.state = x] \in Zvol
         /\ [v EXCEPT !.booted = TRUE] \in Zvol
         /\ \A h \in Guests, n \in Nat :
               [v EXCEPT !.of = h, !.state = "partial", !.power = n] \in Zvol
  BY DEF Zvol, ImageStates

\* Marking a copy as torn keeps the zvols what they are.
LEMMA SpoiledType ==
  ASSUME NEW S, TypeOK
  PROVE  Spoiled(S) \in [DOMAIN zvols -> Zvol]
  <1>1. \A z \in DOMAIN zvols : zvols[z] \in Zvol
    BY DEF TypeOK
  <1>2. \A z \in DOMAIN zvols : [zvols[z] EXCEPT !.state = "torn"] \in Zvol
    BY <1>1, ZvolUpdates DEF ImageStates
  <1>3. QED
    BY <1>1, <1>2 DEF Spoiled

\* The same for a VM.
LEMMA VmUpdates ==
  ASSUME NEW v \in Vm
  PROVE  /\ \A d \in Device : [v EXCEPT !.devices = @ \cup {d}] \in Vm
         /\ [v EXCEPT !.on = TRUE, !.live = v.devices] \in Vm
         /\ [v EXCEPT !.on = FALSE, !.live = {}] \in Vm
  BY DEF Vm

\* Switching a source off.
LEMMA SourceOffType ==
  ASSUME NEW g \in Guests, TypeOK, SourceOff(g)
  PROVE  source' \in [Guests -> [on : BOOLEAN, power : Nat]]
  <1>1. source[g] \in [on : BOOLEAN, power : Nat]
    BY DEF TypeOK
  <1>2. [on |-> FALSE, power |-> source[g].power + 1] \in [on : BOOLEAN, power : Nat]
    BY <1>1
  <1>3. QED
    BY <1>2 DEF TypeOK, SourceOff

\* Making a zvol.
LEMMA ZvolMadeType ==
  ASSUME NEW g \in Guests, TypeOK, ZvolMade(g)
  PROVE  DOMAIN zvols' \subseteq Guests /\ zvols' \in [DOMAIN zvols' -> Zvol]
  BY DEF TypeOK, ZvolMade, Blank, Zvol, ImageStates

\* Making a VM: its id is one more than the last.
LEMMA VmMadeType ==
  ASSUME NEW g \in Guests, TypeOK, VmMade(g)
  PROVE  /\ DOMAIN vms' \subseteq 1..created' /\ vms' \in [DOMAIN vms' -> Vm]
         /\ created' \in 0..MaxVms
  BY BoundsAssumption DEF TypeOK, VmMade, NewVmId, Vm, Device

\* Attaching a device.
LEMMA AttachedType ==
  ASSUME NEW i \in DOMAIN vms, NEW d \in Device, TypeOK, Attached(i, d)
  PROVE  DOMAIN vms' = DOMAIN vms /\ vms' \in [DOMAIN vms' -> Vm]
  <1>1. vms[i] \in Vm
    BY DEF TypeOK
  <1>2. [vms[i] EXCEPT !.devices = @ \cup {d}] \in Vm
    BY <1>1, VmUpdates
  <1>3. vms' = [vms EXCEPT ![i] = [vms[i] EXCEPT !.devices = @ \cup {d}]]
    BY DEF Attached
  <1>4. QED
    BY <1>2, <1>3 DEF TypeOK

\* Starting a VM; its disks are marked as booted.
LEMMA StartedType ==
  ASSUME NEW i \in DOMAIN vms, TypeOK, Started(i)
  PROVE  /\ DOMAIN vms' = DOMAIN vms /\ vms' \in [DOMAIN vms' -> Vm]
         /\ DOMAIN zvols' = DOMAIN zvols /\ zvols' \in [DOMAIN zvols' -> Zvol]
  <1>1. CASE vms[i].on
    BY <1>1 DEF TypeOK, Started
  <1>2. CASE ~vms[i].on
    <2>1. vms[i] \in Vm
      BY DEF TypeOK
    <2>2. [vms[i] EXCEPT !.on = TRUE, !.live = vms[i].devices] \in Vm
      BY <2>1, VmUpdates
    <2>3. vms' = [vms EXCEPT ![i] = [vms[i] EXCEPT !.on = TRUE, !.live = vms[i].devices]]
      BY <1>2 DEF Started
    <2>4. DOMAIN vms' = DOMAIN vms /\ vms' \in [DOMAIN vms' -> Vm]
      BY <2>2, <2>3 DEF TypeOK
    <2>5. \A z \in DOMAIN zvols : zvols[z] \in Zvol /\ [zvols[z] EXCEPT !.booted = TRUE] \in Zvol
      BY ZvolUpdates DEF TypeOK
    <2>6. DOMAIN zvols' = DOMAIN zvols /\ zvols' \in [DOMAIN zvols' -> Zvol]
      BY <1>2, <2>5 DEF Started
    <2>7. QED
      BY <2>4, <2>6
  <1>3. QED
    BY <1>1, <1>2

\* Disks and NICs of guests are devices.
LEMMA DeviceTypes == \A g \in Guests : Disk(g) \in Device /\ Nic(g) \in Device
  BY DEF Disk, Nic, Device

\* A step that succeeds keeps the types.
LEMMA TypeStepSucceeds ==
  ASSUME NEW g \in Guests, TypeOK, Succeeds(g)
  PROVE  TypeOK'
  <1> USE DEF TypeOK, Settle
  <1>1. CASE Inspect(g)
    BY <1>1 DEF Inspect, hosts
  <1>2. CASE CreateZvol(g)
    BY <1>2, ZvolMadeType DEF CreateZvol
  <1>3. CASE ShutdownSrc(g)
    BY <1>3, SourceOffType DEF ShutdownSrc
  <1>4. CASE StreamBegins(g)
    <2>1. /\ latest.spec \in Guests /\ latest.zvol \in Guests
          /\ source[latest.spec].power \in Nat
      BY <1>4 DEF StreamBegins
    <2>2. copy' \in [Guests -> Copy \cup {NoCopy}]
      BY <1>4, <2>1 DEF StreamBegins, Copy
    <2>3. \A z \in DOMAIN zvols :
             [zvols[z] EXCEPT !.of = latest.spec, !.state = "partial",
                              !.power = source[latest.spec].power] \in Zvol
      BY <2>1, ZvolUpdates
    <2>4. DOMAIN zvols' \subseteq Guests /\ zvols' \in [DOMAIN zvols' -> Zvol]
      BY <1>4, <2>3 DEF StreamBegins
    <2>5. QED
      BY <1>4, <2>2, <2>4 DEF StreamBegins, Steps
  <1>5. CASE StreamEnds(g)
    <2>1. \A z \in DOMAIN zvols, x \in ImageStates : [zvols[z] EXCEPT !.state = x] \in Zvol
      BY ZvolUpdates
    <2>2. DOMAIN zvols' \subseteq Guests /\ zvols' \in [DOMAIN zvols' -> Zvol]
      BY <1>5, <2>1 DEF StreamEnds, ImageStates
    <2>3. copy' \in [Guests -> Copy \cup {NoCopy}]
      BY <1>5 DEF StreamEnds
    <2>4. QED
      BY <1>5, <2>2, <2>3 DEF StreamEnds, Steps
  <1>6. CASE CreateVm(g)
    <2>1. CASE Named(g) = {} /\ VmMade(g) /\ VmRecorded(NewVmId)
      <3>1. created' = created + 1 /\ created' \in 0..MaxVms
        BY <2>1, VmMadeType DEF VmMade
      <3>2. latest' \in [spec : Guests \cup {None}, zvol : Guests \cup {None},
                         vm : 0..created']
        <4>1. 0..created \subseteq 0..created' /\ created + 1 \in 0..created'
          BY <3>1
        <4>2. QED
          BY <2>1, <4>1 DEF VmRecorded, NewVmId
      <3>3. QED
        BY <1>6, <2>1, <3>2, VmMadeType DEF CreateVm, Steps
    <2>2. CASE \E i \in Named(g) : VmRecorded(i) /\ UNCHANGED <<vms, created>>
      BY <1>6, <2>2 DEF CreateVm, VmRecorded, Named, Steps
    <2>3. QED
      BY <1>6, <2>1, <2>2 DEF CreateVm
  <1>7. CASE AttachDisk(g)
    BY <1>7, AttachedType, DeviceTypes DEF AttachDisk
  <1>8. CASE AttachNic(g)
    BY <1>8, AttachedType, DeviceTypes DEF AttachNic
  <1>9. CASE StartTarget(g)
    BY <1>9, StartedType DEF StartTarget, VmRecorded
  <1>10. CASE \E s \in Probes : Probe(g, s)
    BY <1>10 DEF Probe, Probes, Steps, hosts
  <1>11. QED
    BY <1>1, <1>2, <1>3, <1>4, <1>5, <1>6, <1>7, <1>8, <1>9, <1>10 DEF Succeeds

\* What a failing step leaves in flight is a call.
LEMMA CallOfType ==
  ASSUME NEW g \in Guests, NEW s \in Steps, TypeOK
  PROVE  CallOf(g, s) \subseteq Call
  BY DEF TypeOK, CallOf, Call, Ops

\* So do failures, the end of the job and the cleanup.
LEMMA TypeStepEngine ==
  ASSUME NEW g \in Guests, TypeOK, Engine(g)
  PROVE  TypeOK'
  <1> USE DEF TypeOK, Settle
  <1>1. CASE Succeeds(g)
    BY <1>1, TypeStepSucceeds
  <1>2. CASE StreamFails(g)
    BY <1>2 DEF StreamFails, CopyAbandoned, Copy, NoCopy, Steps, hosts
  <1>3. ASSUME NEW s \in Steps, StepFails(g, s)
        PROVE  TypeOK'
    BY <1>3, CallOfType DEF StepFails, hosts
  <1>4. CASE EndJob(g)
    BY <1>4 DEF EndJob, hosts
  <1>5. CASE Cleanup(g)
    <2>1. latest' \in [spec : Guests \cup {None}, zvol : Guests \cup {None}, vm : 0..created]
      <3>1. CASE UNCHANGED latest
        BY <3>1
      <3>2. ASSUME NEW i \in Named(g), VmRecorded(i)
            PROVE  latest' \in [spec : Guests \cup {None}, zvol : Guests \cup {None},
                                vm : 0..created]
        <4>1. i \in 0..created
          BY DEF Named
        <4>2. QED
          BY <3>2, <4>1 DEF VmRecorded
      <3>3. QED
        BY <1>5, <3>1, <3>2 DEF Cleanup
    <2>2. DOMAIN vms' \subseteq 1..created /\ vms' \in [DOMAIN vms' -> Vm]
      BY <1>5 DEF Cleanup, VmsWithout
    <2>3. DOMAIN zvols' \subseteq Guests /\ zvols' \in [DOMAIN zvols' -> Zvol]
      BY <1>5 DEF Cleanup, ZvolsWithout
    <2>4. QED
      BY <1>5, <2>1, <2>2, <2>3 DEF Cleanup
  <1>6. CASE CleanupFails(g)
    BY <1>6 DEF CleanupFails, Call, Ops, Named, hosts
  <1>7. QED
    BY <1>1, <1>2, <1>3, <1>4, <1>5, <1>6 DEF Engine, Fails

\* So does the environment.
LEMMA TypeStepEnvironment ==
  ASSUME TypeOK, Environment
  PROVE  TypeOK'
  <1> USE DEF TypeOK
  <1>1. ASSUME NEW g \in Guests, Begin(g)
        PROVE  TypeOK'
    BY <1>1, BoundsAssumption DEF Begin, hosts
  <1>2. ASSUME NEW g \in Guests, Crash(g)
        PROVE  TypeOK'
    BY <1>2 DEF Crash, CopyAbandoned, Copy, NoCopy, hosts
  <1>3. ASSUME NEW g \in Guests, Rollback(g)
        PROVE  TypeOK'
    BY <1>3 DEF Rollback
  <1>4. ASSUME NEW i \in DOMAIN vms, PowersOff(i)
        PROVE  TypeOK'
    <2>1. [vms[i] EXCEPT !.on = FALSE, !.live = {}] \in Vm
      BY VmUpdates
    <2>2. vms' = [vms EXCEPT ![i] = [vms[i] EXCEPT !.on = FALSE, !.live = {}]]
      BY <1>4 DEF PowersOff
    <2>3. zvols' \in [DOMAIN zvols -> Zvol]
      BY <1>4, SpoiledType DEF PowersOff
    <2>4. DOMAIN zvols' = DOMAIN zvols /\ zvols' \in [DOMAIN zvols' -> Zvol]
      BY <2>3
    <2>5. DOMAIN vms' = DOMAIN vms /\ vms' \in [DOMAIN vms' -> Vm]
      BY <2>1, <2>2
    <2>6. UNCHANGED <<source, created, latest, status, step, copy, runs, inflight, strays>>
      BY <1>4 DEF PowersOff
    <2>7. QED
      BY <2>4, <2>5, <2>6
  <1>5. ASSUME NEW c \in inflight, Lands(c)
        PROVE  TypeOK'
    <2>1. c.arg \in Guests
      BY DEF Call
    <2> USE <1>5, <2>1 DEF Lands
    <2>2. CASE SourceOff(c.arg) /\ UNCHANGED <<zvols, vms, created>>
      BY <2>2, SourceOffType
    <2>3. CASE ZvolMade(c.arg) /\ UNCHANGED <<source, vms, created>>
      BY <2>3, ZvolMadeType
    <2>4. CASE VmMade(c.arg) /\ UNCHANGED <<source, zvols>>
      <3>1. created' = created + 1 /\ created' \in 0..MaxVms
        BY <2>4, VmMadeType DEF VmMade
      <3>2. latest' \in [spec : Guests \cup {None}, zvol : Guests \cup {None},
                         vm : 0..created']
        BY <3>1
      <3>3. QED
        BY <2>4, <3>2, VmMadeType
    <2>5. CASE /\ c.vm \in DOMAIN vms
               /\ Attached(c.vm, Disk(c.arg)) \/ Attached(c.vm, Nic(c.arg))
               /\ UNCHANGED <<source, zvols, created>>
      BY <2>5, AttachedType, DeviceTypes
    <2>6. CASE c.vm \in DOMAIN vms /\ Started(c.vm) /\ UNCHANGED <<source, created>>
      BY <2>6, StartedType
    <2>7. CASE /\ vms' = VmsWithout({c.vm}) /\ zvols' = ZvolsWithout(Attachments(c.vm))
               /\ UNCHANGED <<source, created>>
      BY <2>7 DEF VmsWithout, ZvolsWithout
    <2>8. CASE UNCHANGED hosts
      BY <2>8 DEF hosts
    <2>9. QED
      BY <2>2, <2>3, <2>4, <2>5, <2>6, <2>7, <2>8
  <1>6. ASSUME NEW z \in strays, StrayWrites(z) \/ StrayEnds(z)
        PROVE  TypeOK'
    <2>1. CASE StrayEnds(z)
      <3>1. zvols' \in [DOMAIN zvols -> Zvol]
        BY <2>1, SpoiledType DEF StrayEnds
      <3>2. QED
        BY <2>1, <3>1 DEF StrayEnds
    <2>2. CASE StrayWrites(z)
      <3>1. [zvols[z] EXCEPT !.state = "torn"] \in Zvol
        BY <2>2, ZvolUpdates DEF StrayWrites, ImageStates
      <3>2. QED
        BY <2>2, <3>1 DEF StrayWrites
    <2>3. QED
      BY <1>6, <2>1, <2>2
  <1>7. QED
    BY <1>1, <1>2, <1>3, <1>4, <1>5, <1>6 DEF Environment

\* TypeOK is inductive as it stands.
LEMMA TypeStep == TypeOK /\ [Next]_vars => TypeOK'
  <1> SUFFICES ASSUME TypeOK, [Next]_vars PROVE TypeOK'
    OBVIOUS
  <1>1. CASE UNCHANGED vars
    BY <1>1 DEF TypeOK, vars
  <1>2. QED
    BY <1>1, TypeStepEngine, TypeStepEnvironment DEF Next

\* Every variable keeps its type, whatever the environment does.
THEOREM TypeCorrect == Spec => []TypeOK
  BY InitTypeOK, TypeStep, PTL DEF Spec

-----------------------------------------------------------------------------
(* The inductive invariant, in two halves: the discipline of the runs, and  *)
(* where the MACs are.                                                      *)

RunInv == OneAtATime /\ StepsInOrder /\ OwnRecords /\ StaysOff /\ OwnCopy
NicInv == UniqueNames /\ NicsAtHome /\ PendingNicsAtHome /\ CleanedForGood

\* The edges of the workflow on the path from attach-nic back to inspect.
LEMMA Edges ==
  /\ <<"attach-nic", "create-vm">> \in Needs
  /\ <<"create-vm", "stream-disk">> \in Needs
  /\ <<"stream-disk", "shutdown-src">> \in Needs
  /\ <<"shutdown-src", "approve-shutdown">> \in Needs
  /\ <<"approve-shutdown", "create-zvol">> \in Needs
  /\ <<"create-zvol", "inspect">> \in Needs
  BY DEF Needs, PrepareNeeds, CopyNeeds, CutoverNeeds

\* When a VM was created the source was shut down and inspected before.
LEMMA ChainToShutdown ==
  ASSUME NEW g \in Guests, StepsInOrder, DependenciesMet(g, "stream-disk")
  PROVE  step[g]["shutdown-src"] = "succeeded" /\ step[g]["inspect"] = "succeeded"
  <1> USE Edges DEF StepsInOrder, DependenciesMet, Steps
  <1>1. step[g]["shutdown-src"] = "succeeded"
    OBVIOUS
  <1>2. step[g]["approve-shutdown"] = "succeeded"
    BY <1>1
  <1>3. step[g]["create-zvol"] = "succeeded"
    BY <1>2
  <1>4. step[g]["inspect"] = "succeeded"
    BY <1>3
  <1>5. QED
    BY <1>1, <1>4

\* attach-nic comes after create-vm, and that after the copy.
LEMMA ChainFromVm ==
  ASSUME NEW g \in Guests, StepsInOrder, DependenciesMet(g, "attach-nic")
  PROVE  /\ step[g]["create-vm"] = "succeeded"
         /\ DependenciesMet(g, "stream-disk")
  <1>1. step[g]["create-vm"] = "succeeded"
    BY Edges DEF DependenciesMet
  <1>2. step[g]["stream-disk"] = "succeeded"
    BY <1>1, Edges DEF StepsInOrder, DependenciesMet, Steps
  <1>3. QED
    BY <1>1, <1>2 DEF StepsInOrder, Steps

\* Settling a step that was ready, or running, keeps the order of the steps.
LEMMA SettleKeepsOrder ==
  ASSUME NEW g \in Guests, NEW s \in Steps, NEW outcome, TypeOK, StepsInOrder,
         Settle(g, s, outcome),
         \/ step[g][s] = "pending" /\ DependenciesMet(g, s)
         \/ step[g][s] = "running"
  PROVE  StepsInOrder'
  <1> SUFFICES ASSUME NEW h \in Guests, NEW t \in Steps, step'[h][t] # "pending"
               PROVE  DependenciesMet(h, t)'
    BY DEF StepsInOrder
  <1>1. \A x \in Guests, u \in Steps : ~(x = g /\ u = s) => step'[x][u] = step[x][u]
    BY DEF Settle, TypeOK
  <1>2. DependenciesMet(h, t)
    BY <1>1 DEF StepsInOrder
  <1>3. \A e \in Needs \cup Awaits : e[1] \in Steps /\ e[2] \in Steps
    BY DEF Needs, PrepareNeeds, CopyNeeds, CutoverNeeds, Awaits, Steps
  <1>4. step[g][s] \notin {"succeeded", "failed"}
    OBVIOUS
  <1>5. \A e \in Needs \cup Awaits :
           e[1] = t /\ step[h][e[2]] \in {"succeeded", "failed"} =>
              step'[h][e[2]] = step[h][e[2]]
    BY <1>1, <1>3, <1>4
  <1>6. QED
    BY <1>2, <1>5 DEF DependenciesMet

\* A step that touches no VM, switches no source on and puts no nic.attach call
\* in flight but one that is at home.
LEMMA NicFrame ==
  ASSUME TypeOK, NicInv, UNCHANGED <<vms, created>>,
         \A g \in Guests : source'[g].on => source[g].on,
         \A c \in inflight' :
            \/ c \in inflight
            \/ /\ c.vm <= created
               /\ c.op = "nic.attach" =>
                     /\ c.arg \in Guests /\ status[c.arg] # "cleaned"
                     /\ c.vm \in DOMAIN vms => Home(c.vm, c.arg),
         \A g \in Guests : status'[g] = "cleaned" => status[g] = "cleaned"
  PROVE  NicInv'
  <1> USE DEF NicInv
  <1>1. \A i \in DOMAIN vms, m \in Guests : Home(i, m) => Home(i, m)'
    BY DEF Home
  <1>2. \A c \in inflight : c.arg \in Guests
    BY DEF TypeOK, Call
  <1>3. UniqueNames'
    BY DEF UniqueNames
  <1>4. NicsAtHome'
    BY <1>1 DEF NicsAtHome, Nic
  <1>5. PendingNicsAtHome'
    BY <1>1, <1>2 DEF PendingNicsAtHome
  <1>6. CleanedForGood'
    BY DEF CleanedForGood, Nic
  <1>7. QED
    BY <1>3, <1>4, <1>5, <1>6

\* A new VM is the only one of its name and no call in flight is for its id.
LEMMA NicVmMade ==
  ASSUME NEW g \in Guests, TypeOK, NicInv, Named(g) = {}, VmMade(g),
         UNCHANGED source, inflight' \subseteq inflight,
         \A h \in Guests : status'[h] = "cleaned" => status[h] = "cleaned"
  PROVE  NicInv'
  <1> USE DEF NicInv
  <1> DEFINE n == created + 1
  <1>1. n \notin DOMAIN vms /\ DOMAIN vms' = DOMAIN vms \cup {n} /\ created' = n
    BY DEF TypeOK, VmMade, NewVmId
  <1>2. /\ \A i \in DOMAIN vms : vms'[i] = vms[i]
        /\ vms'[n].name = g /\ vms'[n].devices = {} /\ vms'[n].live = {}
    BY <1>1 DEF VmMade, NewVmId
  <1>3. \A c \in inflight : c.vm \in Nat /\ c.vm <= created /\ c.arg \in Guests
    BY DEF PendingNicsAtHome, TypeOK, Call
  <1>4. \A c \in inflight : c.vm # n /\ c.vm <= created'
    BY <1>1, <1>3 DEF TypeOK
  <1>5. UniqueNames'
    BY <1>1, <1>2 DEF UniqueNames, Named
  <1>6. NicsAtHome'
    BY <1>1, <1>2 DEF NicsAtHome, Home, Nic
  <1>7. PendingNicsAtHome'
    BY <1>1, <1>2, <1>4 DEF PendingNicsAtHome, Home
  <1>8. CleanedForGood'
    BY <1>1, <1>2, <1>4 DEF CleanedForGood, Nic
  <1>9. QED
    BY <1>5, <1>6, <1>7, <1>8

\* A VM keeps its name and gets no MAC but its own, while the source is off.
LEMMA NicVmChange ==
  ASSUME NEW i \in DOMAIN vms, NEW v, TypeOK, NicInv, vms' = [vms EXCEPT ![i] = v],
         v.name = vms[i].name, v.live \subseteq v.devices,
         \A m \in Guests : Nic(m) \in v.devices =>
            Nic(m) \in vms[i].devices \/ (Home(i, m) /\ status[m] # "cleaned"),
         UNCHANGED <<source, created>>, inflight' \subseteq inflight,
         \A h \in Guests : status'[h] = "cleaned" => status[h] = "cleaned"
  PROVE  NicInv'
  <1> USE DEF NicInv
  <1>1. /\ DOMAIN vms' = DOMAIN vms /\ vms'[i] = v
        /\ \A j \in DOMAIN vms \ {i} : vms'[j] = vms[j]
    BY DEF TypeOK
  <1>2. \A j \in DOMAIN vms, m \in Guests : Home(j, m) => Home(j, m)'
    BY <1>1 DEF Home
  <1>3. \A c \in inflight : c.arg \in Guests
    BY DEF TypeOK, Call
  <1>4. \A m \in Guests : Nic(m)' = Nic(m)
    BY DEF Nic
  <1>5. UniqueNames'
    BY <1>1 DEF UniqueNames
  <1>6. NicsAtHome'
    BY <1>1, <1>2, <1>4 DEF NicsAtHome
  <1>7. PendingNicsAtHome'
    BY <1>1, <1>2, <1>3 DEF PendingNicsAtHome
  <1>8. CleanedForGood'
    BY <1>1, <1>4 DEF CleanedForGood
  <1>9. QED
    BY <1>5, <1>6, <1>7, <1>8

\* VMs go; a guest that becomes "cleaned" loses every VM of its name.
LEMMA NicVmsGo ==
  ASSUME NEW S, TypeOK, NicInv, vms' = VmsWithout(S),
         UNCHANGED <<source, created>>, inflight' \subseteq inflight,
         \A h \in Guests : status'[h] = "cleaned" =>
            status[h] = "cleaned" \/ Named(h) \subseteq S
  PROVE  NicInv'
  <1> USE DEF NicInv
  <1>1. /\ DOMAIN vms' = DOMAIN vms \ S
        /\ \A j \in DOMAIN vms' : vms'[j] = vms[j]
    BY DEF VmsWithout
  <1>2. \A c \in inflight : c.arg \in Guests
    BY DEF TypeOK, Call
  <1>3. \A j \in DOMAIN vms', m \in Guests : Home(j, m) => Home(j, m)'
    BY <1>1 DEF Home
  <1>4. \A m \in Guests : Nic(m)' = Nic(m)
    BY DEF Nic
  <1>5. UniqueNames'
    BY <1>1 DEF UniqueNames
  <1>6. NicsAtHome'
    BY <1>1, <1>3, <1>4 DEF NicsAtHome
  <1>7. PendingNicsAtHome'
    BY <1>1, <1>2, <1>3 DEF PendingNicsAtHome
  <1>8. ASSUME NEW h \in Guests, NEW j \in DOMAIN vms', Home(j, h)
        PROVE  ~(Named(h) \subseteq S)
    BY <1>1, <1>8 DEF Home, Named
  <1>9. CleanedForGood'
    <2> SUFFICES ASSUME NEW h \in Guests, status'[h] = "cleaned"
                 PROVE  /\ \A j \in DOMAIN vms' : Nic(h) \notin vms'[j].devices
                        /\ \A c \in inflight' : (c.op = "nic.attach" /\ c.arg = h) =>
                              c.vm \notin DOMAIN vms'
      BY <1>4 DEF CleanedForGood
    <2>1. CASE status[h] = "cleaned"
      BY <1>1, <2>1 DEF CleanedForGood
    <2>2. CASE Named(h) \subseteq S
      BY <1>1, <1>8, <2>2 DEF NicsAtHome, PendingNicsAtHome
    <2>3. QED
      BY <2>1, <2>2
  <1>10. QED
    BY <1>5, <1>6, <1>7, <1>9

\* A step of the environment that no run notices.
LEMMA RunFrame ==
  ASSUME TypeOK, RunInv, UNCHANGED <<latest, status, step, copy>>,
         \A i \in DOMAIN vms' : i = latest.vm =>
             i \in DOMAIN vms /\ vms'[i].name = vms[i].name,
         \A g \in Guests : source'[g].on => source[g].on \/ status[g] = "cleaned"
  PROVE  RunInv'
  <1> USE DEF RunInv
  <1>1. OneAtATime' /\ StepsInOrder' /\ OwnCopy'
    BY DEF OneAtATime, Active, StepsInOrder, DependenciesMet, OwnCopy
  <1>2. OwnRecords'
    BY DEF OwnRecords
  <1>3. StaysOff'
    BY DEF StaysOff
  <1>4. QED
    BY <1>1, <1>2, <1>3

\* A run settles a step that leaves alone what its other steps rely on.
LEMMA SettleFrame ==
  ASSUME NEW g \in Guests, NEW s \in Steps, NEW outcome, TypeOK, RunInv,
         Ready(g, s), Settle(g, s, outcome), UNCHANGED <<status, copy, source>>,
         outcome = "succeeded" => s \notin {"inspect", "shutdown-src", "create-vm"},
         outcome # "running", latest'.spec = latest.spec, latest'.vm = latest.vm,
         DOMAIN vms' = DOMAIN vms,
         \A i \in DOMAIN vms : vms'[i].name = vms[i].name
  PROVE  RunInv'
  <1> USE DEF RunInv
  <1>1. StepsInOrder'
    BY SettleKeepsOrder DEF Ready
  <1>2. OneAtATime'
    BY DEF OneAtATime, Active
  <1>3. \A h \in Guests, t \in Steps : step'[h][t] = "succeeded" =>
           \/ step[h][t] = "succeeded"
           \/ h = g /\ t = s /\ outcome = "succeeded"
    BY DEF Settle, TypeOK
  <1>4. OwnRecords'
    BY <1>3 DEF OwnRecords, Steps
  <1>5. StaysOff'
    BY <1>3 DEF StaysOff, Steps
  <1>6. \A h \in Guests : copy[h] = NoCopy
    <2>1. \A h \in Guests : status[h] = "running" => h = g
      BY DEF OneAtATime, Active, Ready
    <2>2. QED
      BY <2>1 DEF OwnCopy, Ready, Steps
  <1>7. OwnCopy'
    BY <1>6 DEF OwnCopy
  <1>8. QED
    BY <1>1, <1>2, <1>4, <1>5, <1>7

\* Attaching to a VM and starting it leave the names alone.
LEMMA NamesStay ==
  ASSUME NEW i \in DOMAIN vms, TypeOK,
         (\E d \in Device : Attached(i, d)) \/ Started(i)
  PROVE  DOMAIN vms' = DOMAIN vms /\ \A j \in DOMAIN vms : vms'[j].name = vms[j].name
  <1>1. vms[i] \in Vm
    BY DEF TypeOK
  <1>2. ASSUME NEW v, vms' = [vms EXCEPT ![i] = v], v.name = vms[i].name
        PROVE  DOMAIN vms' = DOMAIN vms /\ \A j \in DOMAIN vms : vms'[j].name = vms[j].name
    BY <1>2 DEF TypeOK
  <1>3. ASSUME NEW d \in Device, Attached(i, d)
        PROVE  DOMAIN vms' = DOMAIN vms /\ \A j \in DOMAIN vms : vms'[j].name = vms[j].name
    <2>1. [vms[i] EXCEPT !.devices = @ \cup {d}].name = vms[i].name
      BY <1>1 DEF Vm
    <2>2. vms' = [vms EXCEPT ![i] = [vms[i] EXCEPT !.devices = @ \cup {d}]]
      BY <1>3 DEF Attached
    <2>3. QED
      BY <1>2, <2>1, <2>2
  <1>4. CASE Started(i)
    <2>1. CASE vms[i].on
      BY <1>4, <2>1 DEF Started
    <2>2. CASE ~vms[i].on
      <3>1. [vms[i] EXCEPT !.on = TRUE, !.live = vms[i].devices].name = vms[i].name
        BY <1>1 DEF Vm
      <3>2. vms' = [vms EXCEPT ![i] = [vms[i] EXCEPT !.on = TRUE, !.live = vms[i].devices]]
        BY <1>4, <2>2 DEF Started
      <3>3. QED
        BY <1>2, <3>1, <3>2
    <2>3. QED
      BY <2>1, <2>2
  <1>5. QED
    BY <1>3, <1>4

\* Steps that succeed keep the discipline of the runs.
LEMMA RunStepSucceeds ==
  ASSUME NEW g \in Guests, TypeOK, RunInv, Succeeds(g)
  PROVE  RunInv'
  <1>1. ASSUME NEW s \in Steps, Ready(g, s)
        PROVE  /\ \A h \in Guests : status[h] = "running" => h = g
               /\ \A h \in Guests : copy[h] = NoCopy
    <2>1. \A h \in Guests : status[h] = "running" => h = g
      BY <1>1 DEF RunInv, OneAtATime, Active, Ready
    <2>2. QED
      BY <1>1, <2>1 DEF RunInv, OwnCopy, Ready, Steps
  <1>2. CASE Inspect(g)
    <2>1. StepsInOrder'
      BY <1>2, SettleKeepsOrder DEF Inspect, Ready, RunInv, Steps
    <2>2. OneAtATime' /\ StaysOff' /\ OwnCopy'
      BY <1>1, <1>2 DEF RunInv, Inspect, OneAtATime, Active, StaysOff, OwnCopy, Settle,
                        TypeOK, Steps, hosts
    <2>3. OwnRecords'
      BY <1>1, <1>2 DEF RunInv, Inspect, OwnRecords, Settle, TypeOK, Steps, hosts
    <2>4. QED
      BY <2>1, <2>2, <2>3 DEF RunInv
  <1>3. CASE ShutdownSrc(g)
    <2>1. StepsInOrder'
      BY <1>3, SettleKeepsOrder DEF ShutdownSrc, Ready, RunInv, Steps
    <2>2. OneAtATime' /\ OwnRecords' /\ OwnCopy'
      BY <1>1, <1>3 DEF RunInv, ShutdownSrc, OneAtATime, Active, OwnRecords, OwnCopy,
                        Settle, TypeOK, Steps
    <2>3. StaysOff'
      BY <1>1, <1>3 DEF RunInv, ShutdownSrc, SourceOff, StaysOff, Settle, TypeOK, Steps
    <2>4. QED
      BY <2>1, <2>2, <2>3 DEF RunInv
  <1>4. CASE CreateVm(g)
    <2>1. StepsInOrder'
      BY <1>4, SettleKeepsOrder DEF CreateVm, Ready, RunInv, Steps
    <2>2. OneAtATime' /\ StaysOff' /\ OwnCopy'
      BY <1>1, <1>4 DEF RunInv, CreateVm, OneAtATime, Active, StaysOff, OwnCopy, Settle,
                        TypeOK, Steps
    <2>3. latest'.spec = latest.spec /\ vms'[latest'.vm].name = g
      BY <1>4 DEF CreateVm, VmRecorded, VmMade, NewVmId, Named, TypeOK
    <2>4. OwnRecords'
      BY <1>1, <1>4, <2>3 DEF RunInv, CreateVm, OwnRecords, Settle, TypeOK, Steps
    <2>5. QED
      BY <2>1, <2>2, <2>4 DEF RunInv
  <1>5. CASE StreamBegins(g)
    <2>1. StepsInOrder'
      BY <1>5, SettleKeepsOrder DEF StreamBegins, Ready, RunInv, Steps
    <2>2. \A h \in Guests, t \in Steps : step'[h][t] = "succeeded" => step[h][t] = "succeeded"
      BY <1>5 DEF StreamBegins, Settle, TypeOK, Steps
    <2>3. UNCHANGED <<source, vms, latest, status>>
      BY <1>5 DEF StreamBegins
    <2>4. OneAtATime' /\ StaysOff' /\ OwnRecords'
      BY <2>2, <2>3 DEF RunInv, OneAtATime, Active, StaysOff, OwnRecords, Steps
    <2>5. latest.spec = g
      BY <1>5, ChainToShutdown DEF RunInv, StreamBegins, Ready, OwnRecords
    <2>6. OwnCopy'
      <3>1. step \in [Guests -> [Steps -> {"pending", "running", "succeeded", "failed"}]]
        BY DEF TypeOK
      <3>2. status'[g] = "running" /\ step'[g]["stream-disk"] = "running"
        BY <1>5, <2>3, <3>1 DEF StreamBegins, Ready, Settle, Steps
      <3>3. copy'[g].src = g
        BY <1>5, <2>5 DEF StreamBegins, TypeOK
      <3>4. \A h \in Guests \ {g} : copy'[h] = NoCopy
        BY <1>1, <1>5 DEF StreamBegins, Ready, TypeOK, Steps
      <3>5. QED
        BY <3>2, <3>3, <3>4 DEF OwnCopy
    <2>7. QED
      BY <2>1, <2>4, <2>6 DEF RunInv
  <1>6. CASE StreamEnds(g)
    <2>1. StepsInOrder'
      BY <1>6, SettleKeepsOrder DEF StreamEnds, RunInv, Steps
    <2>2. OneAtATime' /\ StaysOff' /\ OwnRecords'
      BY <1>6 DEF RunInv, StreamEnds, OneAtATime, Active, StaysOff, OwnRecords, Settle,
                  TypeOK, Steps
    <2>3. OwnCopy'
      BY <1>6 DEF RunInv, StreamEnds, OwnCopy, Settle, TypeOK, Steps, OneAtATime, Active
    <2>4. QED
      BY <2>1, <2>2, <2>3 DEF RunInv
  <1>7. CASE CreateZvol(g)
    BY <1>7, SettleFrame DEF CreateZvol, TypeOK, Steps
  <1>8. CASE AttachDisk(g)
    BY <1>8, SettleFrame, NamesStay, DeviceTypes DEF AttachDisk, TypeOK, Steps
  <1>9. CASE AttachNic(g)
    <2>1. Nic(latest.spec) \in Device
      BY <1>9, DeviceTypes DEF AttachNic, TypeOK
    <2>2. DOMAIN vms' = DOMAIN vms /\ \A j \in DOMAIN vms : vms'[j].name = vms[j].name
      BY <1>9, <2>1, NamesStay DEF AttachNic
    <2>3. QED
      BY <1>9, <2>2, SettleFrame DEF AttachNic, Steps
  <1>10. CASE StartTarget(g)
    <2>1. DOMAIN vms' = DOMAIN vms /\ \A j \in DOMAIN vms : vms'[j].name = vms[j].name
      BY <1>10, NamesStay DEF StartTarget
    <2>2. latest'.spec = latest.spec /\ latest'.vm = latest.vm
      BY <1>10 DEF StartTarget, VmRecorded, TypeOK
    <2>3. QED
      BY <1>10, <2>1, <2>2, SettleFrame DEF StartTarget, Steps
  <1>11. ASSUME NEW s \in Probes, Probe(g, s)
         PROVE  RunInv'
    BY <1>11, SettleFrame DEF Probe, Probes, Steps, hosts
  <1>12. QED
    BY <1>2, <1>3, <1>4, <1>5, <1>6, <1>7, <1>8, <1>9, <1>10, <1>11 DEF Succeeds

\* A run that ends, or that is not running, has no copy; nothing else changes.
LEMMA RunEndsFrame ==
  ASSUME NEW g \in Guests, NEW st, TypeOK, RunInv, Active(g),
         status' = [status EXCEPT ![g] = st], st # "running",
         UNCHANGED <<step, source>>, copy' \in [Guests -> Copy \cup {NoCopy}],
         copy'[g] = NoCopy, \A h \in Guests \ {g} : copy'[h] = copy[h]
  PROVE  RunInv'
  <1> USE DEF RunInv
  <1>1. \A h \in Guests : status'[h] # "running"
    BY DEF TypeOK, OneAtATime, Active
  <1>2. \A h \in Guests : copy'[h] = NoCopy
    BY DEF OwnCopy, OneAtATime, Active
  <1>3. OneAtATime'
    BY DEF OneAtATime, Active, TypeOK
  <1>4. StepsInOrder'
    BY DEF StepsInOrder, DependenciesMet
  <1>5. QED
    BY <1>1, <1>2, <1>3, <1>4 DEF OwnRecords, StaysOff, OwnCopy

\* The other moves of the engine keep the discipline of the runs.
LEMMA RunStepEngine ==
  ASSUME NEW g \in Guests, TypeOK, RunInv, Engine(g)
  PROVE  RunInv'
  <1>1. CASE Succeeds(g)
    BY <1>1, RunStepSucceeds
  <1>2. CASE StreamFails(g)
    <2> USE DEF RunInv
    <2>1. StepsInOrder'
      BY <1>2, SettleKeepsOrder DEF StreamFails, Steps
    <2>2. \A h \in Guests, t \in Steps : step'[h][t] = "succeeded" => step[h][t] = "succeeded"
      BY <1>2 DEF StreamFails, Settle, TypeOK, Steps
    <2>3. OneAtATime' /\ StaysOff' /\ OwnRecords'
      BY <1>2, <2>2 DEF StreamFails, hosts, OneAtATime, Active, StaysOff, OwnRecords, Steps
    <2>4. \A h \in Guests : copy'[h] = NoCopy
      BY <1>2 DEF StreamFails, CopyAbandoned, OwnCopy, OneAtATime, Active, TypeOK
    <2>5. QED
      BY <2>1, <2>3, <2>4 DEF OwnCopy
  <1>3. ASSUME NEW s \in Steps, StepFails(g, s)
        PROVE  RunInv'
    BY <1>3, SettleFrame DEF StepFails, hosts
  <1>4. CASE EndJob(g)
    <2>1. copy[g] = NoCopy
      BY <1>4 DEF RunInv, OwnCopy, EndJob, Steps
    <2>2. QED
      BY <1>4, <2>1, RunEndsFrame DEF EndJob, hosts, Active, TypeOK
  <1>5. CASE Cleanup(g)
    <2>1. copy[g] = NoCopy
      BY <1>5 DEF RunInv, OwnCopy, Cleanup
    <2>2. QED
      BY <1>5, <2>1, RunEndsFrame DEF Cleanup, Active, TypeOK
  <1>6. CASE CleanupFails(g)
    <2>1. copy[g] = NoCopy
      BY <1>6 DEF RunInv, OwnCopy, CleanupFails
    <2>2. QED
      BY <1>6, <2>1, RunEndsFrame DEF CleanupFails, hosts, Active, TypeOK
  <1>7. QED
    BY <1>1, <1>2, <1>3, <1>4, <1>5, <1>6 DEF Engine, Fails

\* So does the environment, when it starts one run at a time.
LEMMA RunStepEnvironment ==
  ASSUME TypeOK, RunInv, Environment, "overlap" \notin Faults
  PROVE  RunInv'
  <1>1. ASSUME NEW g \in Guests, Begin(g)
        PROVE  RunInv'
    <2> USE DEF RunInv
    <2>1. \A h \in Guests : ~Active(h) /\ copy[h] = NoCopy
      BY <1>1 DEF Begin, OwnCopy, Active
    <2>2. \A h \in Guests : status'[h] = "running" => h = g
      BY <1>1, <2>1 DEF Begin, Active, TypeOK
    <2>3. \A s \in Steps : step'[g][s] = "pending"
      BY <1>1 DEF Begin, TypeOK
    <2>4. \A h \in Guests \ {g} : step'[h] = step[h] /\ status'[h] = status[h]
      BY <1>1 DEF Begin, TypeOK
    <2>5. OneAtATime'
      BY <2>1, <2>4 DEF OneAtATime, Active
    <2>6. StepsInOrder'
      BY <2>3, <2>4 DEF StepsInOrder, DependenciesMet
    <2>7. OwnRecords' /\ StaysOff'
      BY <2>2, <2>3 DEF OwnRecords, StaysOff, Steps
    <2>8. OwnCopy'
      BY <1>1, <2>1 DEF Begin, OwnCopy
    <2>9. QED
      BY <2>5, <2>6, <2>7, <2>8
  <1>2. ASSUME NEW g \in Guests, Crash(g)
        PROVE  RunInv'
    <2>1. copy'[g] = NoCopy /\ \A h \in Guests \ {g} : copy'[h] = copy[h]
      BY <1>2 DEF Crash, CopyAbandoned, TypeOK
    <2>2. copy' \in [Guests -> Copy \cup {NoCopy}]
      BY <1>2 DEF Crash, CopyAbandoned, TypeOK
    <2>3. QED
      BY <1>2, <2>1, <2>2, RunEndsFrame DEF Crash, hosts
  <1>3. ASSUME NEW g \in Guests, Rollback(g)
        PROVE  RunInv'
    <2>1. \A h \in Guests : source'[h].on => source[h].on \/ status[h] = "cleaned"
      BY <1>3 DEF Rollback, TypeOK
    <2>2. QED
      BY <1>3, <2>1, RunFrame DEF Rollback
  <1>4. ASSUME NEW i \in DOMAIN vms, PowersOff(i)
        PROVE  RunInv'
    <2>1. vms[i] \in Vm
      BY DEF TypeOK
    <2>2. [vms[i] EXCEPT !.on = FALSE, !.live = {}].name = vms[i].name
      BY <2>1 DEF Vm
    <2>3. vms' = [vms EXCEPT ![i] = [vms[i] EXCEPT !.on = FALSE, !.live = {}]]
      BY <1>4 DEF PowersOff
    <2>4. DOMAIN vms' = DOMAIN vms /\ \A j \in DOMAIN vms : vms'[j].name = vms[j].name
      BY <2>2, <2>3 DEF TypeOK
    <2>5. QED
      BY <1>4, <2>4, RunFrame DEF PowersOff
  <1>5. ASSUME NEW c \in inflight, Lands(c)
        PROVE  RunInv'
    <2>1. c.arg \in Guests
      BY DEF TypeOK, Call
    <2> USE <1>5 DEF Lands
    <2>2. CASE SourceOff(c.arg) /\ UNCHANGED <<zvols, vms, created>>
      <3>1. \A h \in Guests : source'[h].on => source[h].on
        BY <2>1, <2>2 DEF SourceOff, TypeOK
      <3>2. QED
        BY <2>2, <3>1, RunFrame
    <2>3. CASE UNCHANGED <<source, vms>>
      BY <2>3, RunFrame
    <2>4. CASE VmMade(c.arg) /\ UNCHANGED source
      <3>1. \A i \in DOMAIN vms' : i = latest.vm => i \in DOMAIN vms /\ vms'[i].name = vms[i].name
        BY <2>4 DEF VmMade, NewVmId, TypeOK
      <3>2. QED
        BY <2>4, <3>1, RunFrame
    <2>5. CASE /\ c.vm \in DOMAIN vms /\ UNCHANGED source
               /\ Attached(c.vm, Disk(c.arg)) \/ Attached(c.vm, Nic(c.arg)) \/ Started(c.vm)
      <3>1. DOMAIN vms' = DOMAIN vms /\ \A j \in DOMAIN vms : vms'[j].name = vms[j].name
        BY <2>1, <2>5, NamesStay, DeviceTypes
      <3>2. QED
        BY <2>5, <3>1, RunFrame
    <2>6. CASE vms' = VmsWithout({c.vm}) /\ UNCHANGED source
      <3>1. \A i \in DOMAIN vms' : i \in DOMAIN vms /\ vms'[i].name = vms[i].name
        BY <2>6 DEF VmsWithout
      <3>2. QED
        BY <2>6, <3>1, RunFrame
    <2>7. QED
      BY <2>2, <2>3, <2>4, <2>5, <2>6 DEF hosts
  <1>6. ASSUME NEW z \in strays, StrayWrites(z) \/ StrayEnds(z)
        PROVE  RunInv'
    BY <1>6, RunFrame DEF StrayWrites, StrayEnds, hosts
  <1>7. QED
    BY <1>1, <1>2, <1>3, <1>4, <1>5, <1>6 DEF Environment

\* What a step does to one VM, written as the new value of that VM.
LEMMA AttachedAs ==
  ASSUME NEW i \in DOMAIN vms, NEW d \in Device, TypeOK, NicInv, Attached(i, d)
  PROVE  \E v : /\ vms' = [vms EXCEPT ![i] = v] /\ v.name = vms[i].name
                /\ v.live \subseteq v.devices /\ v.devices = vms[i].devices \cup {d}
  <1>1. vms[i] \in Vm
    BY DEF TypeOK
  <1>2. vms[i].live \subseteq vms[i].devices
    BY DEF NicInv, NicsAtHome
  <1> DEFINE v == [vms[i] EXCEPT !.devices = @ \cup {d}]
  <1>3. /\ v.name = vms[i].name /\ v.live = vms[i].live
        /\ v.devices = vms[i].devices \cup {d}
    BY <1>1 DEF Vm
  <1>4. vms' = [vms EXCEPT ![i] = v]
    BY DEF Attached
  <1>5. QED
    BY <1>2, <1>3, <1>4

\* The same for a VM that is started, or was on already.
LEMMA StartedAs ==
  ASSUME NEW i \in DOMAIN vms, TypeOK, NicInv, Started(i)
  PROVE  \E v : /\ vms' = [vms EXCEPT ![i] = v] /\ v.name = vms[i].name
                /\ v.live \subseteq v.devices /\ v.devices = vms[i].devices
  <1>1. vms[i] \in Vm
    BY DEF TypeOK
  <1>2. CASE vms[i].on
    <2>1. vms' = [vms EXCEPT ![i] = vms[i]]
      BY <1>2 DEF Started, TypeOK
    <2>2. vms[i].live \subseteq vms[i].devices
      BY DEF NicInv, NicsAtHome
    <2>3. QED
      BY <2>1, <2>2
  <1>3. CASE ~vms[i].on
    <2> DEFINE v == [vms[i] EXCEPT !.on = TRUE, !.live = vms[i].devices]
    <2>1. v.name = vms[i].name /\ v.live = vms[i].devices /\ v.devices = vms[i].devices
      BY <1>1 DEF Vm
    <2>2. vms' = [vms EXCEPT ![i] = v]
      BY <1>3 DEF Started
    <2>3. QED
      BY <2>1, <2>2
  <1>4. QED
    BY <1>2, <1>3

\* A disk is attached, or a VM started: no MAC moves.
LEMMA NicSteady ==
  ASSUME NEW i \in DOMAIN vms, TypeOK, NicInv,
         (\E z \in Guests : Attached(i, Disk(z))) \/ Started(i),
         UNCHANGED <<source, created>>, inflight' \subseteq inflight,
         \A h \in Guests : status'[h] = "cleaned" => status[h] = "cleaned"
  PROVE  NicInv'
  <1>1. CASE Started(i)
    BY <1>1, StartedAs, NicVmChange
  <1>2. ASSUME NEW z \in Guests, Attached(i, Disk(z))
        PROVE  NicInv'
    <2>1. PICK v : /\ vms' = [vms EXCEPT ![i] = v] /\ v.name = vms[i].name
                   /\ v.live \subseteq v.devices /\ v.devices = vms[i].devices \cup {Disk(z)}
      BY <1>2, AttachedAs, DeviceTypes
    <2>2. \A m \in Guests : Nic(m) # Disk(z)
      BY DEF Nic, Disk
    <2>3. \A m \in Guests : Nic(m) \in v.devices => Nic(m) \in vms[i].devices
      BY <2>1, <2>2
    <2>4. QED
      BY <2>1, <2>3, NicVmChange
  <1>3. QED
    BY <1>1, <1>2

\* A MAC is attached to a VM that is its home.
LEMMA NicArrives ==
  ASSUME NEW i \in DOMAIN vms, NEW m \in Guests, TypeOK, NicInv, Attached(i, Nic(m)),
         Home(i, m), status[m] # "cleaned",
         UNCHANGED <<source, created>>, inflight' \subseteq inflight,
         \A h \in Guests : status'[h] = "cleaned" => status[h] = "cleaned"
  PROVE  NicInv'
  <1>1. PICK v : /\ vms' = [vms EXCEPT ![i] = v] /\ v.name = vms[i].name
                 /\ v.live \subseteq v.devices /\ v.devices = vms[i].devices \cup {Nic(m)}
    BY AttachedAs, DeviceTypes
  <1>2. \A n \in Guests : Nic(n) = Nic(m) => n = m
    BY DEF Nic
  <1>3. \A n \in Guests : Nic(n) \in v.devices =>
           Nic(n) \in vms[i].devices \/ (Home(i, n) /\ status[n] # "cleaned")
    BY <1>1, <1>2
  <1>4. QED
    BY <1>1, <1>3, NicVmChange

\* When attach-nic runs, the last VM and the last spec are the run's own and
\* the source is off.
LEMMA AttachNicAtHome ==
  ASSUME NEW g \in Guests, TypeOK, RunInv, Ready(g, "attach-nic")
  PROVE  /\ latest.spec = g /\ status[g] = "running"
         /\ latest.vm \in DOMAIN vms => Home(latest.vm, g)
  <1> USE DEF RunInv, Ready
  <1>1. step[g]["create-vm"] = "succeeded" /\ DependenciesMet(g, "stream-disk")
    BY ChainFromVm
  <1>2. step[g]["shutdown-src"] = "succeeded" /\ step[g]["inspect"] = "succeeded"
    BY <1>1, ChainToShutdown
  <1>3. QED
    BY <1>1, <1>2 DEF OwnRecords, StaysOff, Home

\* The moves of the engine keep every MAC where it belongs.
LEMMA NicStepEngine ==
  ASSUME NEW g \in Guests, TypeOK, RunInv, NicInv, Engine(g)
  PROVE  NicInv'
  <1>1. CASE Inspect(g) \/ CreateZvol(g) \/ StreamBegins(g) \/ StreamEnds(g)
             \/ \E s \in Probes : Probe(g, s)
    BY <1>1, NicFrame DEF Inspect, CreateZvol, StreamBegins, StreamEnds, Probe, hosts
  <1>2. CASE ShutdownSrc(g)
    <2>1. \A h \in Guests : source'[h].on => source[h].on
      BY <1>2 DEF ShutdownSrc, SourceOff, TypeOK
    <2>2. QED
      BY <1>2, <2>1, NicFrame DEF ShutdownSrc
  <1>3. CASE CreateVm(g)
    <2>1. CASE UNCHANGED <<vms, created>>
      BY <1>3, <2>1, NicFrame DEF CreateVm
    <2>2. CASE Named(g) = {} /\ VmMade(g)
      BY <1>3, <2>2, NicVmMade DEF CreateVm
    <2>3. QED
      BY <1>3, <2>1, <2>2 DEF CreateVm
  <1>4. CASE AttachDisk(g)
    <2>1. latest.zvol \in Guests
      BY <1>4 DEF AttachDisk, TypeOK
    <2>2. QED
      BY <1>4, <2>1, NicSteady DEF AttachDisk
  <1>5. CASE AttachNic(g)
    BY <1>5, AttachNicAtHome, NicArrives DEF AttachNic
  <1>6. CASE StartTarget(g)
    BY <1>6, NicSteady DEF StartTarget
  <1>7. CASE StreamFails(g) \/ EndJob(g)
    BY <1>7, NicFrame DEF StreamFails, EndJob, hosts, TypeOK
  <1>8. ASSUME NEW s \in Steps, StepFails(g, s)
        PROVE  NicInv'
    <2>1. \A c \in CallOf(g, s) :
             /\ c.vm <= created
             /\ c.op = "nic.attach" => /\ s = "attach-nic"
                                       /\ c.arg = latest.spec /\ c.vm = latest.vm
      BY DEF CallOf, TypeOK
    <2>2. \A c \in CallOf(g, s) :
             c.op = "nic.attach" => /\ c.arg \in Guests /\ status[c.arg] # "cleaned"
                                    /\ c.vm \in DOMAIN vms => Home(c.vm, c.arg)
      BY <1>8, <2>1, AttachNicAtHome DEF StepFails
    <2>3. QED
      BY <1>8, <2>1, <2>2, NicFrame DEF StepFails, hosts
  <1>9. CASE Cleanup(g)
    BY <1>9, NicVmsGo DEF Cleanup, TypeOK
  <1>10. CASE CleanupFails(g)
    <2>1. \A i \in Named(g) : i <= created
      BY DEF Named, TypeOK
    <2>2. \A c \in inflight' : c \in inflight \/ (c.vm <= created /\ c.op # "nic.attach")
      BY <1>10, <2>1 DEF CleanupFails
    <2>3. QED
      BY <1>10, <2>2, NicFrame DEF CleanupFails, hosts, TypeOK
  <1>11. QED
    BY <1>1, <1>2, <1>3, <1>4, <1>5, <1>6, <1>7, <1>8, <1>9, <1>10
       DEF Engine, Succeeds, Fails

\* So do the moves of the environment, with no regard to Faults.
LEMMA NicStepEnvironment ==
  ASSUME TypeOK, NicInv, Environment
  PROVE  NicInv'
  <1>1. ASSUME NEW g \in Guests, Begin(g) \/ Crash(g)
        PROVE  NicInv'
    BY <1>1, NicFrame DEF Begin, Crash, hosts, TypeOK
  <1>2. ASSUME NEW g \in Guests, Rollback(g)
        PROVE  NicInv'
    <2> USE <1>2 DEF Rollback
    <2>1. \A h \in Guests \ {g} : source'[h] = source[h]
      BY DEF TypeOK
    <2>2. UniqueNames'
      BY DEF NicInv, UniqueNames
    <2>3. \A i \in DOMAIN vms : Nic(g) \notin vms[i].devices
      BY DEF NicInv, CleanedForGood
    <2>4. NicsAtHome'
      BY <2>1, <2>3 DEF NicInv, NicsAtHome, Home, Nic
    <2>5. \A c \in inflight : c.arg \in Guests
      BY DEF TypeOK, Call
    <2>6. \A c \in inflight : c.op = "nic.attach" /\ c.vm \in DOMAIN vms => c.arg # g
      BY DEF NicInv, CleanedForGood
    <2>7. PendingNicsAtHome'
      BY <2>1, <2>5, <2>6 DEF NicInv, PendingNicsAtHome, Home
    <2>8. CleanedForGood'
      BY DEF NicInv, CleanedForGood, Nic
    <2>9. QED
      BY <2>2, <2>4, <2>7, <2>8 DEF NicInv
  <1>3. ASSUME NEW i \in DOMAIN vms, PowersOff(i)
        PROVE  NicInv'
    <2> DEFINE v == [vms[i] EXCEPT !.on = FALSE, !.live = {}]
    <2>1. vms[i] \in Vm
      BY DEF TypeOK
    <2>2. v.name = vms[i].name /\ v.live = {} /\ v.devices = vms[i].devices
      BY <2>1 DEF Vm
    <2>3. vms' = [vms EXCEPT ![i] = v]
      BY <1>3 DEF PowersOff
    <2>4. QED
      BY <1>3, <2>2, <2>3, NicVmChange DEF PowersOff
  <1>4. ASSUME NEW c \in inflight, Lands(c)
        PROVE  NicInv'
    <2>1. c.arg \in Guests
      BY DEF TypeOK, Call
    <2>2. inflight' \subseteq inflight /\ UNCHANGED status
      BY <1>4 DEF Lands
    <2> USE <2>1, <2>2
    <2>3. CASE SourceOff(c.arg) /\ UNCHANGED <<zvols, vms, created>>
      <3>1. \A h \in Guests : source'[h].on => source[h].on
        BY <2>3 DEF SourceOff, TypeOK
      <3>2. QED
        BY <2>3, <3>1, NicFrame
    <2>4. CASE UNCHANGED <<source, vms, created>>
      BY <2>4, NicFrame
    <2>5. CASE Named(c.arg) = {} /\ VmMade(c.arg) /\ UNCHANGED <<source, zvols>>
      BY <2>5, NicVmMade
    <2>6. CASE /\ c.vm \in DOMAIN vms /\ UNCHANGED <<source, created>>
               /\ Attached(c.vm, Disk(c.arg)) \/ Started(c.vm)
      BY <2>6, NicSteady
    <2>7. CASE /\ c.op = "nic.attach" /\ c.vm \in DOMAIN vms
               /\ Attached(c.vm, Nic(c.arg)) /\ UNCHANGED <<source, zvols, created>>
      <3>1. Home(c.vm, c.arg)
        BY <2>7 DEF NicInv, PendingNicsAtHome
      <3>2. status[c.arg] # "cleaned"
        BY <2>7 DEF NicInv, CleanedForGood
      <3>3. QED
        BY <2>7, <3>1, <3>2, NicArrives
    <2>8. CASE vms' = VmsWithout({c.vm}) /\ UNCHANGED <<source, created>>
      BY <2>8, NicVmsGo
    <2>9. QED
      BY <1>4, <2>3, <2>4, <2>5, <2>6, <2>7, <2>8 DEF Lands, hosts
  <1>5. ASSUME NEW z \in strays, StrayWrites(z) \/ StrayEnds(z)
        PROVE  NicInv'
    BY <1>5, NicFrame DEF StrayWrites, StrayEnds, hosts
  <1>6. QED
    BY <1>1, <1>2, <1>3, <1>4, <1>5 DEF Environment

\* Nothing runs, is attached or is in flight at first.
LEMMA InitIndInv == Init => RunInv /\ NicInv
  <1> SUFFICES ASSUME Init PROVE RunInv /\ NicInv
    OBVIOUS
  <1> USE DEF Init
  <1>1. RunInv
    BY DEF RunInv, OneAtATime, Active, StepsInOrder, DependenciesMet, OwnRecords,
           StaysOff, OwnCopy
  <1>2. /\ \A i, j \in DOMAIN vms : i = j
        /\ \A i \in DOMAIN vms : vms[i].devices = {} /\ vms[i].live = {}
    <2>1. CASE vms = [i \in {} |-> {}]
      BY <2>1
    <2>2. CASE vms # [i \in {} |-> {}]
      <3>1. PICK g \in Guests :
               vms = [i \in {1} |-> [name |-> g, managed |-> FALSE, on |-> TRUE,
                                     devices |-> {}, live |-> {}]]
        BY <2>2
      <3>2. QED
        BY <3>1
    <2>3. QED
      BY <2>1, <2>2
  <1>3. NicInv
    BY <1>2 DEF NicInv, UniqueNames, NicsAtHome, PendingNicsAtHome, CleanedForGood
  <1>4. QED
    BY <1>1, <1>3

\* IndInv is inductive as long as two runs are never in flight together.
LEMMA IndInvStep ==
  ASSUME "overlap" \notin Faults
  PROVE  IndInv /\ [Next]_vars => IndInv'
  <1> SUFFICES ASSUME TypeOK, RunInv, NicInv, [Next]_vars
               PROVE  TypeOK' /\ RunInv' /\ NicInv'
    BY DEF IndInv, RunInv, NicInv
  <1>1. TypeOK'
    BY TypeStep
  <1>2. CASE UNCHANGED vars
    <2>1. RunInv'
      BY <1>2, RunFrame DEF vars
    <2>2. NicInv'
      BY <1>2, NicFrame DEF vars
    <2>3. QED
      BY <1>1, <2>1, <2>2
  <1>3. CASE Environment
    BY <1>1, <1>3, RunStepEnvironment, NicStepEnvironment
  <1>4. ASSUME NEW g \in Guests, Engine(g)
        PROVE  TypeOK' /\ RunInv' /\ NicInv'
    BY <1>1, <1>4, RunStepEngine, NicStepEngine
  <1>5. QED
    BY <1>2, <1>3, <1>4 DEF Next

\* When runs do not overlap, a run reads only the records it wrote itself, the
\* source stays off once it was shut down, and a MAC is only ever attached to
\* the target of its guest: whatever else fails, crashes or comes late.
THEOREM RunsKeepToThemselves ==
  ASSUME "overlap" \notin Faults
  PROVE  Spec => []IndInv
  <1>1. Init => IndInv
    BY InitTypeOK, InitIndInv DEF IndInv, RunInv, NicInv
  <1>2. IndInv /\ [Next]_vars => IndInv'
    BY IndInvStep
  <1>3. QED
    BY <1>1, <1>2, PTL DEF Spec

\* migrate/README.md, Safety: the MAC of a guest is never live on two NICs at
\* once.  It takes that runs do not overlap; run MigrateOverlapNic shows so.
THEOREM NeverTwoNics ==
  ASSUME "overlap" \notin Faults
  PROVE  Spec => []NoTwoNics
  <1>1. IndInv => NoTwoNics
    <2> SUFFICES ASSUME IndInv, NEW m \in Guests
                 PROVE  /\ source[m].on => Live(m) = {}
                        /\ \A i, j \in Live(m) : i = j
      BY DEF NoTwoNics
    <2>1. \A i \in Live(m) : i \in DOMAIN vms /\ vms[i].name = m /\ ~source[m].on
      BY DEF IndInv, NicsAtHome, Home, Live
    <2>2. QED
      BY <2>1 DEF IndInv, UniqueNames
  <1>2. QED
    BY <1>1, RunsKeepToThemselves, PTL

\* migrate/disk.ts: the device that is copied belongs to a powered-off source.
THEOREM SourceOffWhileCopied ==
  ASSUME "overlap" \notin Faults
  PROVE  Spec => []CopiesPoweredOffSource
  <1>1. IndInv => CopiesPoweredOffSource
    <2> SUFFICES ASSUME IndInv, NEW g \in Guests, copy[g] # NoCopy
                 PROVE  ~source[copy[g].src].on
      BY DEF CopiesPoweredOffSource
    <2>1. /\ status[g] = "running" /\ step[g]["stream-disk"] = "running"
          /\ copy[g].src = g
      BY DEF IndInv, OwnCopy
    <2>2. DependenciesMet(g, "stream-disk")
      BY <2>1 DEF IndInv, StepsInOrder, Steps
    <2>3. step[g]["shutdown-src"] = "succeeded"
      BY <2>2, ChainToShutdown DEF IndInv
    <2>4. QED
      BY <2>1, <2>3 DEF IndInv, StaysOff
  <1>2. QED
    BY <1>1, RunsKeepToThemselves, PTL

\* A source is only switched while it is on, or after its run was cleaned up.
LEMMA PowerMoves ==
  ASSUME TypeOK, Next, NEW m \in Guests, source'[m] # source[m]
  PROVE  (source[m].on \/ status[m] = "cleaned") /\ copy' = copy
  <1>1. ASSUME NEW g \in Guests, SourceOff(g)
        PROVE  source[m].on
    BY <1>1 DEF SourceOff, TypeOK
  <1>2. ASSUME NEW g \in Guests, Engine(g)
        PROVE  source[m].on /\ copy' = copy
    <2>1. CASE ShutdownSrc(g)
      BY <1>1, <2>1 DEF ShutdownSrc
    <2>2. CASE ~ShutdownSrc(g)
      <3>1. source' = source
        BY <1>2, <2>2 DEF Engine, Succeeds, Fails, Inspect, CreateZvol, StreamBegins, StreamEnds,
             CreateVm, AttachDisk, AttachNic, StartTarget, Probe, StreamFails, StepFails, EndJob,
             Cleanup, CleanupFails, hosts
      <3>2. QED
        BY <3>1
    <2>3. QED
      BY <2>1, <2>2
  <1>3. CASE Environment
    <2>1. ASSUME NEW g \in Guests, Rollback(g)
          PROVE  status[m] = "cleaned" /\ copy' = copy
      BY <2>1 DEF Rollback, TypeOK
    <2>2. ASSUME NEW c \in inflight, Lands(c)
          PROVE  source[m].on /\ copy' = copy
      <3>1. c.arg \in Guests
        BY DEF TypeOK, Call
      <3>2. SourceOff(c.arg) \/ source' = source
        BY <2>2 DEF Lands, hosts
      <3>3. QED
        BY <1>1, <2>2, <3>1, <3>2 DEF Lands
    <2>3. ASSUME NEW g \in Guests, Begin(g) \/ Crash(g)
          PROVE  source' = source
      BY <2>3 DEF Begin, Crash, hosts
    <2>4. ASSUME NEW z \in strays, StrayWrites(z) \/ StrayEnds(z)
          PROVE  source' = source
      BY <2>4 DEF StrayWrites, StrayEnds
    <2>5. ASSUME NEW i \in DOMAIN vms, PowersOff(i)
          PROVE  source' = source
      BY <2>5 DEF PowersOff
    <2>6. QED
      BY <1>3, <2>1, <2>2, <2>3, <2>4, <2>5 DEF Environment
  <1>4. QED
    BY <1>2, <1>3 DEF Next

\* A copy that is in flight after a step was so before, or begins with it.
LEMMA CopyMoves ==
  ASSUME TypeOK, Next, NEW g \in Guests, copy'[g] # NoCopy, copy'[g] # copy[g]
  PROVE  copy'[g].src \in Guests /\ copy'[g].power = source[copy'[g].src].power
  <1>1. ASSUME NEW h \in Guests, Engine(h)
        PROVE  copy'[g].src \in Guests /\ copy'[g].power = source[copy'[g].src].power
    <2>1. CASE StreamBegins(h)
      BY <2>1 DEF StreamBegins, TypeOK
    <2>2. CASE StreamEnds(h) \/ StreamFails(h)
      BY <2>2 DEF StreamEnds, StreamFails, CopyAbandoned, TypeOK
    <2>3. CASE ~(StreamBegins(h) \/ StreamEnds(h) \/ StreamFails(h))
      <3>1. copy' = copy
        BY <1>1, <2>3 DEF Engine, Succeeds, Fails, Inspect, CreateZvol, ShutdownSrc,
             CreateVm, AttachDisk, AttachNic, StartTarget, Probe, StepFails, EndJob,
             Cleanup, CleanupFails
      <3>2. QED
        BY <3>1
    <2>4. QED
      BY <2>1, <2>2, <2>3
  <1>2. CASE Environment
    <2>1. ASSUME NEW h \in Guests, Crash(h)
          PROVE  FALSE
      BY <2>1 DEF Crash, CopyAbandoned, TypeOK
    <2>2. ASSUME NEW h \in Guests, Begin(h) \/ Rollback(h)
          PROVE  copy' = copy
      BY <2>2 DEF Begin, Rollback
    <2>3. ASSUME NEW c \in inflight, Lands(c)
          PROVE  copy' = copy
      BY <2>3 DEF Lands
    <2>4. ASSUME NEW z \in strays, StrayWrites(z) \/ StrayEnds(z)
          PROVE  copy' = copy
      BY <2>4 DEF StrayWrites, StrayEnds
    <2>5. ASSUME NEW i \in DOMAIN vms, PowersOff(i)
          PROVE  copy' = copy
      BY <2>5 DEF PowersOff
    <2>6. QED
      BY <1>2, <2>1, <2>2, <2>3, <2>4, <2>5 DEF Environment
  <1>3. QED
    BY <1>1, <1>2 DEF Next

\* The source of a copy stands still from the copy's beginning to its end.
LEMMA CopyStillStep ==
  ASSUME IndInv, CopiesPoweredOffSource, CopyStill, [Next]_vars
  PROVE  CopyStill'
  <1> SUFFICES ASSUME NEW g \in Guests, copy'[g] # NoCopy
               PROVE  source'[copy'[g].src].power = copy'[g].power
    BY DEF CopyStill
  <1>1. CASE UNCHANGED vars
    BY <1>1 DEF vars, CopyStill
  <1>2. CASE Next /\ copy'[g] # copy[g]
    <2>1. copy'[g].src \in Guests /\ copy'[g].power = source[copy'[g].src].power
      BY <1>2, CopyMoves DEF IndInv
    <2>2. source'[copy'[g].src] = source[copy'[g].src]
      BY <1>2, <2>1, PowerMoves DEF IndInv
    <2>3. QED
      BY <2>1, <2>2
  <1>3. CASE Next /\ copy'[g] = copy[g]
    <2>1. copy[g].src = g /\ status[g] = "running"
      BY <1>3 DEF IndInv, OwnCopy
    <2>2. ~source[g].on /\ source[g].power = copy[g].power
      BY <1>3, <2>1 DEF CopiesPoweredOffSource, CopyStill
    <2>3. source'[g] = source[g]
      BY <1>3, <2>1, <2>2, PowerMoves DEF IndInv
    <2>4. QED
      BY <1>3, <2>1, <2>2, <2>3
  <1>4. QED
    BY <1>1, <1>2, <1>3

\* Marking zvols as torn tears those of the set only.
LEMMA SpoiledTears ==
  ASSUME NEW S, zvols' = Spoiled(S), NEW z \in DOMAIN zvols,
         zvols[z].state # "torn", zvols'[z].state = "torn"
  PROVE  z \in S
  BY DEF Spoiled

\* Steps that make, begin, boot or remove zvols tear none.
LEMMA NoTear ==
  ASSUME TypeOK, NEW z \in DOMAIN zvols \cap DOMAIN zvols',
         \/ zvols' = zvols
         \/ \E g \in Guests : ZvolMade(g) \/ StreamBegins(g)
         \/ \E i \in DOMAIN vms : Started(i)
         \/ \E S : zvols' = ZvolsWithout(S)
  PROVE  zvols'[z].state = "torn" => zvols[z].state = "torn"
  <1>1. zvols[z] \in Zvol
    BY DEF TypeOK
  <1>2. ASSUME NEW g \in Guests, ZvolMade(g)
        PROVE  zvols'[z] = zvols[z]
    BY <1>2 DEF ZvolMade
  <1>3. ASSUME NEW g \in Guests, StreamBegins(g), zvols'[z].state = "torn"
        PROVE  zvols[z].state = "torn"
    BY <1>1, <1>3 DEF StreamBegins, Zvol
  <1>4. ASSUME NEW i \in DOMAIN vms, Started(i)
        PROVE  zvols'[z].state = zvols[z].state
    BY <1>1, <1>4 DEF Started, Zvol
  <1>5. ASSUME NEW S, zvols' = ZvolsWithout(S)
        PROVE  zvols'[z] = zvols[z]
    BY <1>5 DEF ZvolsWithout
  <1>6. QED
    BY <1>2, <1>3, <1>4, <1>5

\* A copy that ends alone, of a source that stood still, is whole.
LEMMA EndsWhole ==
  ASSUME IndInv, CopiesPoweredOffSource, CopyStill, NEW g \in Guests, StreamEnds(g),
         NEW z \in DOMAIN zvols \cap DOMAIN zvols',
         zvols[z].state = "partial" \/ zvols[z].state = "whole", zvols'[z].state = "torn"
  PROVE  z \in strays \/ OpenByVm(z)
  <1>1. CASE z # copy[g].dst
    BY <1>1 DEF StreamEnds
  <1>2. CASE z = copy[g].dst /\ copy[g] # NoCopy
    <2>1. ~source[copy[g].src].on /\ source[copy[g].src].power = copy[g].power
      BY <1>2 DEF CopiesPoweredOffSource, CopyStill
    <2>2. \A h \in Guests \ {g} : copy[h] = NoCopy
      BY DEF StreamEnds, IndInv, OneAtATime, OwnCopy, Active
    <2>3. \A h \in Guests \ {g} : copy[h].dst # z
      BY <2>2, NoneAssumption DEF NoCopy, IndInv, TypeOK
    <2>4. QED
      BY <1>2, <2>1, <2>3 DEF StreamEnds
  <1>3. CASE z = copy[g].dst /\ copy[g] = NoCopy
    BY <1>3, NoneAssumption DEF NoCopy, IndInv, TypeOK
  <1>4. QED
    BY <1>1, <1>2, <1>3

\* When a step tears a copy, a stray process or a VM had it open.
LEMMA TearStep ==
  ASSUME IndInv, CopiesPoweredOffSource, CopyStill, Next,
         NEW z \in DOMAIN zvols \cap DOMAIN zvols',
         zvols[z].state \in {"partial", "whole"}, zvols'[z].state = "torn"
  PROVE  z \in strays \/ OpenByVm(z)
  <1>1. TypeOK /\ z \in Guests
    BY DEF IndInv, TypeOK
  <1>2. ASSUME NEW g \in Guests, Engine(g)
        PROVE  z \in strays \/ OpenByVm(z)
    <2>1. CASE StreamEnds(g)
      BY <2>1, EndsWhole
    <2>2. CASE StartTarget(g)
      BY <1>1, <2>2, NoTear DEF StartTarget
    <2>3. CASE CreateZvol(g)
      BY <1>1, <2>3, NoTear DEF CreateZvol
    <2>4. CASE StreamBegins(g)
      BY <1>1, <2>4, NoTear
    <2>5. CASE Cleanup(g)
      BY <1>1, <2>5, NoTear DEF Cleanup
    <2>6. CASE ~(StreamEnds(g) \/ StartTarget(g) \/ CreateZvol(g) \/ StreamBegins(g) \/ Cleanup(g))
      <3>1. zvols' = zvols
        BY <1>2, <2>6 DEF Engine, Succeeds, Fails, Inspect, ShutdownSrc, CreateVm, AttachDisk,
             AttachNic, Probe, StreamFails, StepFails, EndJob, CleanupFails, hosts
      <3>2. QED
        BY <3>1
    <2>7. QED
      BY <2>1, <2>2, <2>3, <2>4, <2>5, <2>6
  <1>3. CASE Environment
    <2>1. ASSUME NEW i \in DOMAIN vms, PowersOff(i)
          PROVE  OpenByVm(z)
      <3>1. z \in {x \in Guests : Disk(x) \in vms[i].live}
        BY <2>1, SpoiledTears DEF PowersOff
      <3>2. QED
        BY <2>1, <3>1 DEF PowersOff, OpenByVm
    <2>2. ASSUME NEW y \in strays, StrayEnds(y)
          PROVE  z \in strays
      BY <2>2, SpoiledTears DEF StrayEnds
    <2>3. ASSUME NEW y \in strays, StrayWrites(y)
          PROVE  z \in strays
      BY <2>3 DEF StrayWrites
    <2>4. ASSUME NEW c \in inflight, Lands(c)
          PROVE  FALSE
      <3>1. c.arg \in Guests
        BY DEF IndInv, TypeOK, Call
      <3>2. \/ zvols' = zvols
            \/ ZvolMade(c.arg)
            \/ c.vm \in DOMAIN vms /\ Started(c.vm)
            \/ zvols' = ZvolsWithout(Attachments(c.vm))
        BY <2>4 DEF Lands, hosts
      <3>3. QED
        BY <1>1, <3>1, <3>2, NoTear
    <2>5. ASSUME NEW g \in Guests, Begin(g) \/ Crash(g) \/ Rollback(g)
          PROVE  zvols' = zvols
      BY <2>5 DEF Begin, Crash, Rollback, hosts
    <2>6. QED
      BY <1>3, <2>1, <2>2, <2>3, <2>4, <2>5 DEF Environment
  <1>4. QED
    BY <1>2, <1>3 DEF Next

\* migrate/ssh.ts kills the local ssh only: when runs do not overlap, such a
\* process left behind, and a VM that runs on the zvol, are all that can tear a
\* copy.  The source cannot, and neither can another run.
THEOREM OnlyStraysTear ==
  ASSUME "overlap" \notin Faults
  PROVE  Spec => TornExplained
  <1>1. Init => CopyStill
    BY DEF Init, CopyStill
  <1>2. IndInv /\ CopiesPoweredOffSource /\ CopyStill /\ [Next]_vars => CopyStill'
    BY CopyStillStep
  <1>3. IndInv /\ CopiesPoweredOffSource /\ CopyStill /\ [Next]_vars =>
          [\A z \in DOMAIN zvols \cap DOMAIN zvols' :
             (zvols[z].state \in {"partial", "whole"} /\ zvols'[z].state = "torn") =>
                "overlap" \in Faults \/ z \in strays \/ OpenByVm(z)]_vars
    BY TearStep
  <1>4. Spec => []CopyStill
    BY <1>1, <1>2, RunsKeepToThemselves, SourceOffWhileCopied, PTL DEF Spec
  <1>5. QED
    BY <1>3, <1>4, RunsKeepToThemselves, SourceOffWhileCopied, PTL DEF Spec, TornExplained
-----------------------------------------------------------------------------
(* What one step may do to a VM, a zvol, a call, a step and a source.       *)

IsNew(i) ==
    /\ i \notin DOMAIN vms /\ i = created + 1
    /\ ~vms'[i].on /\ vms'[i].devices = {} /\ vms'[i].live = {}

Boots(i) ==
    /\ ~vms[i].on /\ vms'[i].on
    /\ vms'[i].devices = vms[i].devices /\ vms'[i].live = vms[i].devices
    /\ Started(i) /\ UNCHANGED source
    /\ \/ \E g \in Guests : StartTarget(g) /\ i = latest.vm
       \/ \E c \in inflight : Lands(c) /\ c.op = "vm.start" /\ c.vm = i

GoesOff(i) == ~vms'[i].on /\ vms'[i].live = {} /\ vms'[i].devices = vms[i].devices

Gains(i, d) ==
    /\ vms'[i].on = vms[i].on /\ vms'[i].live = vms[i].live
    /\ vms'[i].devices = vms[i].devices \cup {d}
    /\ \/ \E g \in Guests : AttachDisk(g) /\ i = latest.vm /\ d = Disk(latest.zvol)
       \/ \E g \in Guests : AttachNic(g) /\ i = latest.vm /\ d = Nic(latest.spec)
       \/ \E c \in inflight :
             /\ Lands(c) /\ c.vm = i
             /\ \/ c.op = "disk.attach" /\ d = Disk(c.arg)
                \/ c.op = "nic.attach" /\ d = Nic(c.arg)

\* A VM after a step is new, or was there under the same name and is as it was,
\* was started, went off or got a device.
VmMoved(i) ==
    \/ IsNew(i)
    \/ /\ i \in DOMAIN vms /\ vms'[i].name = vms[i].name
       /\ vms'[i] = vms[i] \/ Boots(i) \/ GoesOff(i) \/ \E d \in Device : Gains(i, d)

\* The one VM that a device is attached to.
LEMMA AttachedMoves ==
  ASSUME NEW i \in DOMAIN vms, NEW d \in Device, TypeOK, Attached(i, d)
  PROVE  /\ DOMAIN vms' = DOMAIN vms
         /\ \A j \in DOMAIN vms \ {i} : vms'[j] = vms[j]
         /\ vms'[i].name = vms[i].name /\ vms'[i].on = vms[i].on
         /\ vms'[i].live = vms[i].live /\ vms'[i].devices = vms[i].devices \cup {d}
  <1>1. vms[i] \in Vm
    BY DEF TypeOK
  <1> DEFINE v == [vms[i] EXCEPT !.devices = @ \cup {d}]
  <1>2. /\ v.name = vms[i].name /\ v.live = vms[i].live /\ v.on = vms[i].on
        /\ v.devices = vms[i].devices \cup {d}
    BY <1>1 DEF Vm
  <1>3. vms' = [vms EXCEPT ![i] = v]
    BY DEF Attached
  <1>4. DOMAIN vms' = DOMAIN vms /\ vms'[i] = v /\ \A j \in DOMAIN vms \ {i} : vms'[j] = vms[j]
    BY <1>3 DEF TypeOK
  <1>5. QED
    BY <1>2, <1>4

\* The one VM that is started.
LEMMA StartedMoves ==
  ASSUME NEW i \in DOMAIN vms, TypeOK, Started(i)
  PROVE  /\ DOMAIN vms' = DOMAIN vms
         /\ \A j \in DOMAIN vms \ {i} : vms'[j] = vms[j]
         /\ vms[i].on => vms'[i] = vms[i]
         /\ ~vms[i].on => /\ vms'[i].name = vms[i].name /\ vms'[i].on
                          /\ vms'[i].live = vms[i].devices /\ vms'[i].devices = vms[i].devices
  <1>1. vms[i] \in Vm
    BY DEF TypeOK
  <1>2. CASE vms[i].on
    BY <1>2 DEF Started
  <1>3. CASE ~vms[i].on
    <2> DEFINE v == [vms[i] EXCEPT !.on = TRUE, !.live = vms[i].devices]
    <2>1. /\ v.name = vms[i].name /\ v.live = vms[i].devices /\ v.devices = vms[i].devices
          /\ v.on
      BY <1>1 DEF Vm
    <2>2. vms' = [vms EXCEPT ![i] = v]
      BY <1>3 DEF Started
    <2>3. DOMAIN vms' = DOMAIN vms /\ vms'[i] = v /\ \A j \in DOMAIN vms \ {i} : vms'[j] = vms[j]
      BY <2>2 DEF TypeOK
    <2>4. QED
      BY <1>3, <2>1, <2>3
  <1>4. QED
    BY <1>2, <1>3

\* A VM that is made, with an id nobody had.
LEMMA MadeMoves ==
  ASSUME NEW g \in Guests, TypeOK, VmMade(g), NEW i \in DOMAIN vms'
  PROVE  VmMoved(i)
  <1>1. created + 1 \notin DOMAIN vms
    BY DEF TypeOK
  <1>2. CASE i \in DOMAIN vms
    <2>1. vms'[i] = vms[i]
      BY <1>2 DEF VmMade
    <2>2. QED
      BY <1>2, <2>1 DEF VmMoved
  <1>3. CASE i \notin DOMAIN vms
    BY <1>1, <1>3 DEF VmMade, VmMoved, IsNew, NewVmId
  <1>4. QED
    BY <1>2, <1>3

\* What a step of a run does to a VM.
LEMMA VmMovesEngine ==
  ASSUME NEW g \in Guests, TypeOK, Engine(g), NEW i \in DOMAIN vms'
  PROVE  VmMoved(i)
  <1>1. ASSUME i \in DOMAIN vms, vms'[i] = vms[i]
        PROVE  VmMoved(i)
    BY <1>1 DEF VmMoved
  <1>2. CASE CreateVm(g)
    BY <1>1, <1>2, MadeMoves DEF CreateVm
  <1>3. CASE AttachDisk(g)
    <2>1. latest.vm \in DOMAIN vms /\ Disk(latest.zvol) \in Device
      BY <1>3, DeviceTypes DEF AttachDisk, TypeOK
    <2>2. Attached(latest.vm, Disk(latest.zvol))
      BY <1>3 DEF AttachDisk
    <2>3. CASE i = latest.vm
      <3>1. Gains(i, Disk(latest.zvol)) /\ vms'[i].name = vms[i].name
        BY <1>3, <2>1, <2>2, <2>3, AttachedMoves DEF Gains
      <3>2. QED
        BY <2>1, <2>3, <3>1 DEF VmMoved
    <2>4. QED
      BY <1>1, <2>1, <2>2, <2>3, AttachedMoves
  <1>4. CASE AttachNic(g)
    <2>1. latest.vm \in DOMAIN vms /\ Nic(latest.spec) \in Device
      BY <1>4, DeviceTypes DEF AttachNic, TypeOK
    <2>2. Attached(latest.vm, Nic(latest.spec))
      BY <1>4 DEF AttachNic
    <2>3. CASE i = latest.vm
      <3>1. Gains(i, Nic(latest.spec)) /\ vms'[i].name = vms[i].name
        BY <1>4, <2>1, <2>2, <2>3, AttachedMoves DEF Gains
      <3>2. QED
        BY <2>1, <2>3, <3>1 DEF VmMoved
    <2>4. QED
      BY <1>1, <2>1, <2>2, <2>3, AttachedMoves
  <1>5. CASE StartTarget(g)
    <2>1. latest.vm \in DOMAIN vms /\ Started(latest.vm) /\ UNCHANGED source
      BY <1>5 DEF StartTarget
    <2>2. CASE i = latest.vm /\ ~vms[i].on
      <3>1. Boots(i) /\ vms'[i].name = vms[i].name
        BY <1>5, <2>1, <2>2, StartedMoves DEF Boots
      <3>2. QED
        BY <2>1, <2>2, <3>1 DEF VmMoved
    <2>3. QED
      BY <1>1, <2>1, <2>2, StartedMoves
  <1>6. CASE Cleanup(g)
    BY <1>1, <1>6 DEF Cleanup, VmsWithout
  <1>7. CASE ~(CreateVm(g) \/ AttachDisk(g) \/ AttachNic(g) \/ StartTarget(g) \/ Cleanup(g))
    <2>1. vms' = vms
      BY <1>7 DEF Engine, Succeeds, Fails, Inspect, Probe, CreateZvol, ShutdownSrc, StreamBegins,
           StreamEnds, StreamFails, StepFails, EndJob, CleanupFails, hosts
    <2>2. QED
      BY <1>1, <2>1
  <1>8. QED
    BY <1>2, <1>3, <1>4, <1>5, <1>6, <1>7

\* What the environment does to a VM.
LEMMA VmMovesEnvironment ==
  ASSUME TypeOK, Environment, NEW i \in DOMAIN vms'
  PROVE  VmMoved(i)
  <1>1. ASSUME i \in DOMAIN vms, vms'[i] = vms[i]
        PROVE  VmMoved(i)
    BY <1>1 DEF VmMoved
  <1>2. ASSUME NEW g \in Guests, Begin(g) \/ Crash(g) \/ Rollback(g)
        PROVE  VmMoved(i)
    <2>1. vms' = vms
      BY <1>2 DEF Begin, Crash, Rollback, hosts
    <2>2. QED
      BY <1>1, <2>1
  <1>3. ASSUME NEW z \in strays, StrayWrites(z) \/ StrayEnds(z)
        PROVE  VmMoved(i)
    BY <1>1, <1>3 DEF StrayWrites, StrayEnds
  <1>4. ASSUME NEW j \in DOMAIN vms, PowersOff(j)
        PROVE  VmMoved(i)
    <2> DEFINE v == [vms[j] EXCEPT !.on = FALSE, !.live = {}]
    <2>1. vms[j] \in Vm
      BY DEF TypeOK
    <2>2. v.name = vms[j].name /\ v.live = {} /\ v.devices = vms[j].devices /\ ~v.on
      BY <2>1 DEF Vm
    <2>3. vms' = [vms EXCEPT ![j] = v]
      BY <1>4 DEF PowersOff
    <2>4. /\ DOMAIN vms' = DOMAIN vms /\ vms'[j] = v
          /\ \A k \in DOMAIN vms \ {j} : vms'[k] = vms[k]
      BY <2>3 DEF TypeOK
    <2>5. CASE i = j
      BY <2>2, <2>4, <2>5 DEF VmMoved, GoesOff
    <2>6. QED
      BY <1>1, <2>4, <2>5
  <1>5. ASSUME NEW c \in inflight, Lands(c)
        PROVE  VmMoved(i)
    <2>1. c.arg \in Guests /\ Disk(c.arg) \in Device /\ Nic(c.arg) \in Device
      BY DeviceTypes DEF TypeOK, Call
    <2>2. CASE vms' = vms
      BY <1>1, <2>2
    <2>3. CASE VmMade(c.arg)
      BY <2>1, <2>3, MadeMoves
    <2>4. ASSUME c.vm \in DOMAIN vms, NEW d \in Device, Attached(c.vm, d),
                 \/ c.op = "disk.attach" /\ d = Disk(c.arg)
                 \/ c.op = "nic.attach" /\ d = Nic(c.arg)
          PROVE  VmMoved(i)
      <3>1. CASE i = c.vm
        <4>1. Gains(i, d) /\ vms'[i].name = vms[i].name
          BY <1>5, <2>4, <3>1, AttachedMoves DEF Gains
        <4>2. QED
          BY <2>4, <3>1, <4>1 DEF VmMoved
      <3>2. QED
        BY <1>1, <2>4, <3>1, AttachedMoves
    <2>5. CASE c.op = "vm.start" /\ c.vm \in DOMAIN vms /\ Started(c.vm) /\ UNCHANGED source
      <3>1. CASE i = c.vm /\ ~vms[i].on
        <4>1. Boots(i) /\ vms'[i].name = vms[i].name
          BY <1>5, <2>5, <3>1, StartedMoves DEF Boots
        <4>2. QED
          BY <2>5, <3>1, <4>1 DEF VmMoved
      <3>2. QED
        BY <1>1, <2>5, <3>1, StartedMoves
    <2>6. CASE vms' = VmsWithout({c.vm})
      BY <1>1, <2>6 DEF VmsWithout
    <2>7. QED
      BY <1>5, <2>1, <2>2, <2>3, <2>4, <2>5, <2>6 DEF Lands, hosts
  <1>6. QED
    BY <1>2, <1>3, <1>4, <1>5 DEF Environment

LEMMA VmMoves ==
  ASSUME TypeOK, Next, NEW i \in DOMAIN vms'
  PROVE  VmMoved(i)
  BY VmMovesEngine, VmMovesEnvironment DEF Next

\* A call in flight was so before, or a failing step or cleanup gave up on it.
LEMMA CallMoves ==
  ASSUME TypeOK, Next, NEW c \in inflight'
  PROVE  \/ c \in inflight
         \/ /\ "late" \in Faults
            /\ \/ \E g \in Guests, s \in Steps : StepFails(g, s) /\ c \in CallOf(g, s)
               \/ /\ "cleanup" \in Faults /\ c.op = "vm.delete"
                  /\ \E g \in Guests : CleanupFails(g)
  <1>1. ASSUME NEW g \in Guests, NEW s \in Steps, StepFails(g, s), c \notin inflight
        PROVE  "late" \in Faults /\ c \in CallOf(g, s)
    BY <1>1 DEF StepFails
  <1>2. ASSUME NEW g \in Guests, CleanupFails(g), c \notin inflight
        PROVE  "late" \in Faults /\ "cleanup" \in Faults /\ c.op = "vm.delete"
    BY <1>2 DEF CleanupFails
  <1>3. ASSUME NEW g \in Guests, Engine(g), ~CleanupFails(g), ~\E s \in Steps : StepFails(g, s)
        PROVE  inflight' = inflight
    BY <1>3 DEF Engine, Succeeds, Fails, Inspect, Probe, CreateZvol, ShutdownSrc, StreamBegins,
           StreamEnds, CreateVm, AttachDisk, AttachNic, StartTarget, StreamFails, EndJob, Cleanup
  <1>4. CASE Environment
    BY <1>4 DEF Environment, Begin, Crash, Rollback, PowersOff, Lands, StrayWrites, StrayEnds
  <1>5. QED
    BY <1>1, <1>2, <1>3, <1>4 DEF Next

\* A run that is active after a step was so before, or begins with it.
LEMMA ActiveMoves ==
  ASSUME TypeOK, Next, NEW g \in Guests, status'[g] # status[g]
  PROVE  \/ Begin(g) /\ status'[g] = "running"
         \/ EndJob(g) /\ status'[g] \in {"failed", "succeeded"}
         \/ Cleanup(g) /\ status'[g] = "cleaned"
         \/ CleanupFails(g) /\ status'[g] = "uncleaned"
         \/ Crash(g) /\ status'[g] = "crashed"
  <1>1. ASSUME NEW h \in Guests, Engine(h)
        PROVE  \/ EndJob(g) /\ status'[g] \in {"failed", "succeeded"}
               \/ Cleanup(g) /\ status'[g] = "cleaned"
               \/ CleanupFails(g) /\ status'[g] = "uncleaned"
    <2>1. CASE EndJob(h)
      <3>1. h = g
        BY <2>1 DEF EndJob, TypeOK
      <3>2. QED
        BY <2>1, <3>1 DEF EndJob, TypeOK
    <2>2. CASE Cleanup(h)
      <3>1. h = g
        BY <2>2 DEF Cleanup, TypeOK
      <3>2. QED
        BY <2>2, <3>1 DEF Cleanup, TypeOK
    <2>3. CASE CleanupFails(h)
      <3>1. h = g
        BY <2>3 DEF CleanupFails, TypeOK
      <3>2. QED
        BY <2>3, <3>1 DEF CleanupFails, TypeOK
    <2>4. CASE Succeeds(h) \/ Fails(h)
      <3>1. status' = status
        BY <2>4 DEF Succeeds, Fails, Inspect, Probe, CreateZvol, ShutdownSrc, StreamBegins,
           StreamEnds, CreateVm, AttachDisk, AttachNic, StartTarget, StreamFails, StepFails
      <3>2. QED
        BY <3>1
    <2>5. QED
      BY <1>1, <2>1, <2>2, <2>3, <2>4 DEF Engine
  <1>2. CASE Environment
    <2>1. ASSUME NEW h \in Guests, Begin(h)
          PROVE  Begin(g) /\ status'[g] = "running"
      <3>1. h = g
        BY <2>1 DEF Begin, TypeOK
      <3>2. QED
        BY <2>1, <3>1 DEF Begin, TypeOK
    <2>2. ASSUME NEW h \in Guests, Crash(h)
          PROVE  Crash(g) /\ status'[g] = "crashed"
      <3>1. h = g
        BY <2>2 DEF Crash, TypeOK
      <3>2. QED
        BY <2>2, <3>1 DEF Crash, TypeOK
    <2>3. CASE ~\E h \in Guests : Begin(h) \/ Crash(h)
      <3>1. status' = status
        BY <1>2, <2>3 DEF Environment, Rollback, PowersOff, Lands, StrayWrites, StrayEnds
      <3>2. QED
        BY <3>1
    <2>4. QED
      BY <2>1, <2>2, <2>3
  <1>3. QED
    BY <1>1, <1>2 DEF Next

\* A step whose state changes was ready or running, or its run begins anew.
LEMMA StepMoves ==
  ASSUME TypeOK, Next, NEW g \in Guests, NEW s \in Steps, step'[g][s] # step[g][s]
  PROVE  \/ Begin(g) /\ step'[g][s] = "pending"
         \/ /\ status' = status /\ status[g] = "running"
            /\ \/ step[g][s] = "pending" /\ Ready(g, s)
               \/ step[g][s] = "running" /\ s = "stream-disk"
            /\ s = "create-zvol" => CreateZvol(g) \/ step'[g][s] = "failed"
            /\ s = "create-vm" => CreateVm(g) \/ step'[g][s] = "failed"
            /\ s = "attach-disk" => AttachDisk(g) \/ step'[g][s] = "failed"
            /\ s = "attach-nic" => AttachNic(g) \/ step'[g][s] = "failed"
            /\ s = "stream-disk" => StreamBegins(g) \/ StreamEnds(g) \/ step'[g][s] = "failed"
            /\ step'[g][s] = "running" => StreamBegins(g)
  <1>1. ASSUME NEW h \in Guests, NEW t \in Steps, NEW outcome, Settle(h, t, outcome)
        PROVE  h = g /\ t = s /\ step'[g][s] = outcome
    BY <1>1 DEF Settle, TypeOK
  <1>2. ASSUME NEW h \in Guests, Succeeds(h)
        PROVE  /\ status' = status /\ status[g] = "running"
               /\ \/ step[g][s] = "pending" /\ Ready(g, s)
                  \/ step[g][s] = "running" /\ s = "stream-disk"
               /\ s = "create-zvol" => CreateZvol(g)
               /\ s = "create-vm" => CreateVm(g)
               /\ s = "attach-disk" => AttachDisk(g)
               /\ s = "attach-nic" => AttachNic(g)
               /\ s = "stream-disk" => StreamBegins(g) \/ StreamEnds(g)
               /\ step'[g][s] = "running" => StreamBegins(g)
    <2>1. ASSUME NEW t \in Probes, Probe(h, t)
          PROVE  h = g /\ t = s /\ t \in Steps /\ step'[g][s] = "succeeded"
      <3>1. t \in Steps
        BY DEF Probes, Steps
      <3>2. QED
        BY <1>1, <2>1, <3>1 DEF Probe
    <2>2. CASE \E t \in Probes : Probe(h, t)
      BY <2>1, <2>2 DEF Probe, Ready, Probes
    <2>3. CASE StreamBegins(h)
      BY <1>1, <2>3 DEF StreamBegins, Steps, Ready
    <2>4. CASE StreamEnds(h)
      BY <1>1, <2>4 DEF StreamEnds, Steps
    <2>5. CASE Inspect(h)
      BY <1>1, <2>5 DEF Inspect, Steps, Ready
    <2>6. CASE CreateZvol(h)
      BY <1>1, <2>6 DEF CreateZvol, Steps, Ready
    <2>7. CASE ShutdownSrc(h)
      BY <1>1, <2>7 DEF ShutdownSrc, Steps, Ready
    <2>8. CASE CreateVm(h)
      BY <1>1, <2>8 DEF CreateVm, Steps, Ready
    <2>9. CASE AttachDisk(h)
      BY <1>1, <2>9 DEF AttachDisk, Steps, Ready
    <2>10. CASE AttachNic(h)
      BY <1>1, <2>10 DEF AttachNic, Steps, Ready
    <2>11. CASE StartTarget(h)
      BY <1>1, <2>11 DEF StartTarget, Steps, Ready
    <2>12. QED
      BY <1>2, <2>2, <2>3, <2>4, <2>5, <2>6, <2>7, <2>8, <2>9, <2>10, <2>11 DEF Succeeds
  <1>3. ASSUME NEW h \in Guests, Fails(h)
        PROVE  /\ status' = status /\ status[g] = "running" /\ step'[g][s] = "failed"
               /\ \/ step[g][s] = "pending" /\ Ready(g, s)
                  \/ step[g][s] = "running" /\ s = "stream-disk"
    <2>1. CASE StreamFails(h)
      BY <1>1, <2>1 DEF StreamFails, Steps
    <2>2. ASSUME NEW t \in Steps, StepFails(h, t)
          PROVE  h = g /\ t = s /\ step'[g][s] = "failed" /\ Ready(g, s) /\ status' = status
      BY <1>1, <2>2 DEF StepFails
    <2>3. QED
      BY <1>3, <2>1, <2>2 DEF Fails, Ready
  <1>4. ASSUME NEW h \in Guests, Engine(h), ~Succeeds(h), ~Fails(h)
        PROVE  step' = step
    BY <1>4 DEF Engine, EndJob, Cleanup, CleanupFails
  <1>5. CASE Environment
    <2>1. ASSUME NEW h \in Guests, Begin(h)
          PROVE  Begin(g) /\ step'[g][s] = "pending"
      <3>1. h = g
        BY <2>1 DEF Begin, TypeOK
      <3>2. QED
        BY <2>1, <3>1 DEF Begin, TypeOK
    <2>2. CASE ~\E h \in Guests : Begin(h)
      BY <1>5, <2>2 DEF Environment, Crash, Rollback, PowersOff, Lands, StrayWrites, StrayEnds
    <2>3. QED
      BY <2>1, <2>2
  <1>6. QED
    BY <1>2, <1>3, <1>4, <1>5 DEF Next

\* A copy changes with the step that owns it, or its run is killed.
LEMMA CopyChanges ==
  ASSUME TypeOK, Next, NEW g \in Guests, copy'[g] # copy[g]
  PROVE  StreamBegins(g) \/ StreamEnds(g) \/ StreamFails(g) \/ Crash(g)
  <1>1. ASSUME NEW h \in Guests, StreamBegins(h) \/ StreamEnds(h) \/ StreamFails(h) \/ Crash(h)
        PROVE  h = g
    BY <1>1 DEF StreamBegins, StreamEnds, StreamFails, Crash, CopyAbandoned, TypeOK
  <1>2. ASSUME NEW h \in Guests, Engine(h),
               ~(StreamBegins(h) \/ StreamEnds(h) \/ StreamFails(h))
        PROVE  copy' = copy
    BY <1>2 DEF Engine, Succeeds, Fails, Inspect, Probe, CreateZvol, ShutdownSrc, CreateVm,
           AttachDisk, AttachNic, StartTarget, StepFails, EndJob, Cleanup, CleanupFails
  <1>3. ASSUME Environment, ~\E h \in Guests : Crash(h)
        PROVE  copy' = copy
    BY <1>3 DEF Environment, Begin, Rollback, PowersOff, Lands, StrayWrites, StrayEnds
  <1>4. QED
    BY <1>1, <1>2, <1>3 DEF Next

\* The last zvol is recorded by create-zvol only, the last VM by the steps that
\* create and start it and by the cleanup.
LEMMA LatestMoves ==
  ASSUME TypeOK, Next
  PROVE  /\ latest'.zvol = latest.zvol \/ \E g \in Guests : CreateZvol(g) /\ latest'.zvol = g
         /\ latest'.vm = latest.vm \/ \E g \in Guests : CreateVm(g) \/ Cleanup(g)
  <1>1. ASSUME NEW g \in Guests, Engine(g)
        PROVE  /\ latest'.zvol = latest.zvol \/ \E h \in Guests : CreateZvol(h) /\ latest'.zvol = h
               /\ latest'.vm = latest.vm \/ \E h \in Guests : CreateVm(h) \/ Cleanup(h)
    <2>1. CASE CreateZvol(g)
      BY <2>1 DEF CreateZvol, TypeOK
    <2>2. CASE CreateVm(g) \/ Cleanup(g) \/ StartTarget(g)
      BY <2>2 DEF CreateVm, Cleanup, StartTarget, VmRecorded, TypeOK
    <2>3. CASE Inspect(g)
      BY <2>3 DEF Inspect, TypeOK
    <2>4. CASE ~(CreateZvol(g) \/ CreateVm(g) \/ Cleanup(g) \/ StartTarget(g) \/ Inspect(g))
      <3>1. latest' = latest
        BY <1>1, <2>4 DEF Engine, Succeeds, Fails, Probe, ShutdownSrc, StreamBegins, StreamEnds,
           AttachDisk, AttachNic, StreamFails, StepFails, EndJob, CleanupFails
      <3>2. QED
        BY <3>1
    <2>5. QED
      BY <2>1, <2>2, <2>3, <2>4
  <1>2. CASE Environment
    <2>1. latest' = latest
      BY <1>2 DEF Environment, Begin, Crash, Rollback, PowersOff, Lands, StrayWrites, StrayEnds
    <2>2. QED
      BY <2>1
  <1>3. QED
    BY <1>1, <1>2 DEF Next

\* A zvol after a step is new and blank, or was there: it keeps what it is a copy
\* of unless a copy begins on it, and its state unless a copy ends on it, or it is
\* torn by a VM or a process that has it open.
SameCopy(z) == zvols'[z].of = zvols[z].of /\ zvols'[z].power = zvols[z].power
ZvolMoved(z) ==
    \/ z \notin DOMAIN zvols /\ zvols'[z] = Blank(z)
    \/ z \in DOMAIN zvols /\ \E g \in Guests : StreamBegins(g) /\ z = latest.zvol
    \/ /\ z \in DOMAIN zvols /\ SameCopy(z)
       /\ \/ zvols'[z].state = zvols[z].state
          \/ \E g \in Guests : StreamEnds(g) /\ z = copy[g].dst
          \/ zvols[z].state = "partial" /\ zvols'[z].state = "torn" /\ OpenByVm(z)
          \/ z \in strays

\* Updates of the state or the mark of a zvol leave what it is a copy of.
LEMMA ZvolFields ==
  ASSUME NEW v \in Zvol, NEW x
  PROVE  /\ [v EXCEPT !.state = x].of = v.of /\ [v EXCEPT !.state = x].power = v.power
         /\ [v EXCEPT !.booted = TRUE].of = v.of /\ [v EXCEPT !.booted = TRUE].power = v.power
         /\ [v EXCEPT !.booted = TRUE].state = v.state
  BY DEF Zvol

\* A VM that is started marks its zvols, and tears none.
LEMMA StartedZvol ==
  ASSUME NEW i \in DOMAIN vms, TypeOK, Started(i), NEW z \in DOMAIN zvols'
  PROVE  z \in DOMAIN zvols /\ SameCopy(z) /\ zvols'[z].state = zvols[z].state
  <1>1. z \in DOMAIN zvols
    BY DEF Started
  <1>2. zvols[z] \in Zvol
    BY <1>1 DEF TypeOK
  <1>3. zvols'[z] = zvols[z] \/ zvols'[z] = [zvols[z] EXCEPT !.booted = TRUE]
    BY <1>1 DEF Started
  <1>4. QED
    BY <1>1, <1>2, <1>3, ZvolFields DEF SameCopy

\* Whoever lets go of zvols tears only those of its own.
LEMMA SpoiledZvol ==
  ASSUME NEW S, TypeOK, zvols' = Spoiled(S), NEW z \in DOMAIN zvols'
  PROVE  /\ z \in DOMAIN zvols /\ SameCopy(z)
         /\ \/ zvols'[z].state = zvols[z].state
            \/ z \in S /\ zvols[z].state = "partial" /\ zvols'[z].state = "torn"
  <1>1. z \in DOMAIN zvols
    BY DEF Spoiled
  <1>2. zvols[z] \in Zvol
    BY <1>1 DEF TypeOK
  <1>3. \/ zvols'[z] = zvols[z]
        \/ z \in S /\ zvols[z].state = "partial" /\ zvols'[z] = [zvols[z] EXCEPT !.state = "torn"]
    BY <1>1 DEF Spoiled
  <1>4. CASE zvols'[z] = zvols[z]
    BY <1>1, <1>4 DEF SameCopy
  <1>5. CASE /\ z \in S /\ zvols[z].state = "partial"
             /\ zvols'[z] = [zvols[z] EXCEPT !.state = "torn"]
    <2>1. SameCopy(z)
      BY <1>2, <1>5, ZvolFields DEF SameCopy
    <2>2. zvols'[z].state = "torn"
      BY <1>2, <1>5 DEF Zvol
    <2>3. QED
      BY <1>1, <1>5, <2>1, <2>2
  <1>6. QED
    BY <1>3, <1>4, <1>5

LEMMA ZvolMoves ==
  ASSUME TypeOK, Next, NEW z \in DOMAIN zvols'
  PROVE  ZvolMoved(z)
  <1>1. ASSUME z \in DOMAIN zvols, zvols'[z] = zvols[z]
        PROVE  ZvolMoved(z)
    BY <1>1 DEF ZvolMoved, SameCopy
  <1>2. ASSUME NEW g \in Guests, ZvolMade(g)
        PROVE  ZvolMoved(z)
    <2>1. CASE z \in DOMAIN zvols
      BY <1>1, <1>2, <2>1 DEF ZvolMade
    <2>2. CASE z \notin DOMAIN zvols
      BY <1>2, <2>2 DEF ZvolMade, ZvolMoved
    <2>3. QED
      BY <2>1, <2>2
  <1>3. ASSUME NEW S, zvols' = ZvolsWithout(S)
        PROVE  ZvolMoved(z)
    BY <1>1, <1>3 DEF ZvolsWithout
  <1>4. ASSUME NEW g \in Guests, Engine(g)
        PROVE  ZvolMoved(z)
    <2>1. CASE CreateZvol(g)
      BY <1>2, <2>1 DEF CreateZvol
    <2>2. CASE StreamBegins(g)
      BY <1>1, <2>2 DEF StreamBegins, ZvolMoved
    <2>3. CASE StreamEnds(g)
      <3>1. z \in DOMAIN zvols
        BY <2>3 DEF StreamEnds
      <3>2. zvols[z] \in Zvol
        BY <3>1 DEF TypeOK
      <3>3. CASE z = copy[g].dst
        <4>1. \E x : zvols'[z] = [zvols[z] EXCEPT !.state = x]
          BY <2>3, <3>1, <3>3 DEF StreamEnds
        <4>2. SameCopy(z)
          BY <3>2, <4>1, ZvolFields DEF SameCopy
        <4>3. QED
          BY <2>3, <3>1, <3>3, <4>2 DEF ZvolMoved
      <3>4. CASE z # copy[g].dst
        BY <1>1, <2>3, <3>1, <3>4 DEF StreamEnds
      <3>5. QED
        BY <3>3, <3>4
    <2>4. CASE StartTarget(g)
      BY <2>4, StartedZvol DEF StartTarget, ZvolMoved
    <2>5. CASE Cleanup(g)
      BY <1>3, <2>5 DEF Cleanup
    <2>6. CASE ~(CreateZvol(g) \/ StreamBegins(g) \/ StreamEnds(g) \/ StartTarget(g) \/ Cleanup(g))
      <3>1. zvols' = zvols
        BY <1>4, <2>6 DEF Engine, Succeeds, Fails, Inspect, ShutdownSrc, CreateVm, AttachDisk,
             AttachNic, Probe, StreamFails, StepFails, EndJob, CleanupFails, hosts
      <3>2. QED
        BY <1>1, <3>1
    <2>7. QED
      BY <2>1, <2>2, <2>3, <2>4, <2>5, <2>6
  <1>5. CASE Environment
    <2>1. ASSUME NEW i \in DOMAIN vms, PowersOff(i)
          PROVE  ZvolMoved(z)
      <3>1. zvols' = Spoiled({y \in Guests : Disk(y) \in vms[i].live}) /\ vms[i].on
        BY <2>1 DEF PowersOff
      <3>2. z \in {y \in Guests : Disk(y) \in vms[i].live} => OpenByVm(z)
        BY <3>1 DEF OpenByVm
      <3>3. QED
        BY <3>1, <3>2, SpoiledZvol DEF ZvolMoved
    <2>2. ASSUME NEW y \in strays, StrayEnds(y)
          PROVE  ZvolMoved(z)
      <3>1. zvols' = Spoiled({y})
        BY <2>2 DEF StrayEnds
      <3>2. QED
        BY <3>1, SpoiledZvol DEF ZvolMoved
    <2>3. ASSUME NEW y \in strays, StrayWrites(y)
          PROVE  ZvolMoved(z)
      <3>1. /\ z \in DOMAIN zvols
            /\ z # y => zvols'[z] = zvols[z]
            /\ z = y => zvols'[z] = [zvols[z] EXCEPT !.state = "torn"]
        BY <2>3 DEF StrayWrites, TypeOK
      <3>2. zvols[z] \in Zvol
        BY <3>1 DEF TypeOK
      <3>3. CASE z = y
        <4>1. zvols'[z] = [zvols[z] EXCEPT !.state = "torn"]
          BY <3>1, <3>3
        <4>2. SameCopy(z)
          BY <3>2, <4>1, ZvolFields DEF SameCopy
        <4>3. QED
          BY <3>1, <3>3, <4>2 DEF ZvolMoved
      <3>4. QED
        BY <1>1, <3>1, <3>3
    <2>4. ASSUME NEW c \in inflight, Lands(c)
          PROVE  ZvolMoved(z)
      <3>1. c.arg \in Guests
        BY DEF TypeOK, Call
      <3>2. \/ zvols' = zvols
            \/ ZvolMade(c.arg)
            \/ c.vm \in DOMAIN vms /\ Started(c.vm)
            \/ zvols' = ZvolsWithout(Attachments(c.vm))
        BY <2>4 DEF Lands, hosts
      <3>3. CASE c.vm \in DOMAIN vms /\ Started(c.vm)
        BY <3>3, StartedZvol DEF ZvolMoved
      <3>4. QED
        BY <1>1, <1>2, <1>3, <3>1, <3>2, <3>3
    <2>5. ASSUME NEW g \in Guests, Begin(g) \/ Crash(g) \/ Rollback(g)
          PROVE  ZvolMoved(z)
      <3>1. zvols' = zvols
        BY <2>5 DEF Begin, Crash, Rollback, hosts
      <3>2. QED
        BY <1>1, <3>1
    <2>6. QED
      BY <1>5, <2>1, <2>2, <2>3, <2>4, <2>5 DEF Environment
  <1>6. QED
    BY <1>4, <1>5 DEF Next

\* A zvol goes with a cleanup or with a deletion that comes late.
LEMMA ZvolGoes ==
  ASSUME TypeOK, Next, NEW z \in DOMAIN zvols, z \notin DOMAIN zvols'
  PROVE  \/ \E g \in Guests : Cleanup(g) /\ z \in TakenAlong(g) \cup Dangling(g)
         \/ \E c \in inflight : /\ Lands(c) /\ c.op = "vm.delete" /\ c.vm \in DOMAIN vms
                                /\ vms' = VmsWithout({c.vm}) /\ z \in Attachments(c.vm)
  <1>1. ASSUME NEW g \in Guests, Cleanup(g)
        PROVE  z \in TakenAlong(g) \cup Dangling(g)
    BY <1>1 DEF Cleanup, ZvolsWithout
  <1>2. ASSUME NEW g \in Guests, Engine(g), ~Cleanup(g)
        PROVE  FALSE
    <2>1. DOMAIN zvols \subseteq DOMAIN zvols'
      BY <1>2 DEF Engine, Succeeds, Fails, Inspect, CreateZvol, ZvolMade, ShutdownSrc, StreamBegins,
           StreamEnds, CreateVm, AttachDisk, AttachNic, StartTarget, Started, Probe, StreamFails,
           StepFails, EndJob, CleanupFails, hosts
    <2>2. QED
      BY <2>1
  <1>3. ASSUME NEW c \in inflight, Lands(c)
        PROVE  /\ c.op = "vm.delete" /\ c.vm \in DOMAIN vms
               /\ vms' = VmsWithout({c.vm}) /\ z \in Attachments(c.vm)
    <2>1. CASE DOMAIN zvols \subseteq DOMAIN zvols'
      BY <2>1
    <2>2. CASE /\ c.op = "vm.delete" /\ c.vm \in DOMAIN vms /\ vms' = VmsWithout({c.vm})
               /\ zvols' = ZvolsWithout(Attachments(c.vm))
      BY <2>2 DEF ZvolsWithout
    <2>3. QED
      BY <1>3, <2>1, <2>2 DEF Lands, hosts, ZvolMade, Started
  <1>4. ASSUME Environment, ~\E c \in inflight : Lands(c)
        PROVE  FALSE
    <2>1. DOMAIN zvols \subseteq DOMAIN zvols'
      BY <1>4 DEF Environment, Begin, Crash, Rollback, PowersOff, StrayWrites, StrayEnds, Spoiled,
           hosts
    <2>2. QED
      BY <2>1
  <1>5. QED
    BY <1>1, <1>2, <1>3, <1>4 DEF Next

-----------------------------------------------------------------------------
(* Disks stay with their guests when runs do not overlap.                   *)

\* The last zvol is the run's own once the run has one.
OwnZvol ==
    \A g \in Guests :
        (Active(g) /\ step[g]["create-zvol"] = "succeeded") => latest.zvol = g

\* A disk is attached, or about to be, to the target of its guest only.
DisksAtHome ==
    \A i \in DOMAIN vms, z \in Guests : Disk(z) \in vms[i].devices => vms[i].name = z
PendingDisksAtHome ==
    \A c \in inflight :
        (c.op = "disk.attach" /\ c.vm \in DOMAIN vms) => vms[c.vm].name = c.arg

DiskInv == OwnZvol /\ DisksAtHome /\ PendingDisksAtHome

\* A step after which a disk can be attached, or a VM started, follows the copy.
LEMMA ChainFromTarget ==
  ASSUME NEW g \in Guests, NEW s \in {"attach-disk", "start-target"}, StepsInOrder,
         DependenciesMet(g, s)
  PROVE  /\ s = "start-target" => step[g]["attach-disk"] = "succeeded"
         /\ step[g]["create-vm"] = "succeeded" /\ step[g]["stream-disk"] = "succeeded"
         /\ step[g]["create-zvol"] = "succeeded"
  <1>1. /\ <<"start-target", "attach-disk">> \in Needs /\ <<"attach-disk", "create-vm">> \in Needs
        /\ s \in Steps /\ "attach-disk" \in Steps /\ "create-vm" \in Steps
        /\ "stream-disk" \in Steps /\ "shutdown-src" \in Steps /\ "approve-shutdown" \in Steps
    BY DEF Needs, CutoverNeeds, Steps
  <1> USE <1>1, Edges DEF StepsInOrder, DependenciesMet
  <1>2. s = "start-target" => step[g]["attach-disk"] = "succeeded"
    OBVIOUS
  <1>3. step[g]["create-vm"] = "succeeded"
    BY <1>2
  <1>4. step[g]["stream-disk"] = "succeeded"
    BY <1>3
  <1>5. step[g]["shutdown-src"] = "succeeded"
    BY <1>4
  <1>6. step[g]["approve-shutdown"] = "succeeded"
    BY <1>5
  <1>7. step[g]["create-zvol"] = "succeeded"
    BY <1>6
  <1>8. QED
    BY <1>2, <1>3, <1>4, <1>7

\* The same for the copy.
LEMMA ChainFromCopy ==
  ASSUME NEW g \in Guests, StepsInOrder, DependenciesMet(g, "stream-disk")
  PROVE  step[g]["create-zvol"] = "succeeded" /\ step[g]["shutdown-src"] = "succeeded"
  <1> USE Edges DEF StepsInOrder, DependenciesMet, Steps
  <1>1. step[g]["shutdown-src"] = "succeeded"
    OBVIOUS
  <1>2. step[g]["approve-shutdown"] = "succeeded"
    BY <1>1
  <1>3. step[g]["create-zvol"] = "succeeded"
    BY <1>2
  <1>4. QED
    BY <1>1, <1>3

\* When attach-disk or start-target runs, the last VM and the last zvol are the
\* run's own.
LEMMA TargetIsOwn ==
  ASSUME NEW g \in Guests, NEW s \in {"attach-disk", "start-target"}, IndInv, DiskInv, Ready(g, s)
  PROVE  /\ latest.zvol = g
         /\ latest.vm \in DOMAIN vms => vms[latest.vm].name = g
  <1>1. Active(g) /\ DependenciesMet(g, s) /\ status[g] = "running"
    BY DEF Ready, Active
  <1>2. step[g]["create-zvol"] = "succeeded" /\ step[g]["create-vm"] = "succeeded"
    BY <1>1, ChainFromTarget DEF IndInv
  <1>3. QED
    BY <1>1, <1>2 DEF IndInv, OwnRecords, DiskInv, OwnZvol

\* The call a failing step may leave in flight, for the steps that call a VM.
LEMMA CallsOfTarget ==
  ASSUME NEW g \in Guests, NEW s \in Steps, NEW c \in CallOf(g, s)
  PROVE  /\ c.op = "disk.attach" => /\ s = "attach-disk" /\ c.vm = latest.vm /\ c.arg = latest.zvol
                                    /\ latest.zvol # None
         /\ c.op = "vm.start" => s = "start-target" /\ c.vm = latest.vm
         /\ c.op # "vm.delete"
  BY DEF CallOf

\* Disks and NICs differ, and so do the disks of two guests.
LEMMA DeviceKinds ==
  \A g \in Guests : \A h : Disk(g) # Nic(h) /\ (Disk(g) = Disk(h) => g = h)
  BY DEF Disk, Nic

\* A VM has a disk it had before, or gets the disk of the guest it is named after.
LEMMA DiskArrives ==
  ASSUME IndInv, DiskInv, Next, NEW i \in DOMAIN vms', NEW z \in Guests,
         Disk(z) \in vms'[i].devices
  PROVE  /\ i \in DOMAIN vms /\ vms'[i].name = vms[i].name /\ vms[i].name = z
         /\ \/ Disk(z) \in vms[i].devices
            \/ AttachDisk(z)
            \/ \E c \in inflight : c.op = "disk.attach" /\ c.arg = z /\ c.vm = i
  <1>1. VmMoved(i) /\ TypeOK
    BY VmMoves DEF IndInv
  <1>2. i \in DOMAIN vms /\ vms'[i].name = vms[i].name
    BY <1>1 DEF VmMoved, IsNew
  <1>3. CASE Disk(z) \in vms[i].devices
    BY <1>2, <1>3 DEF DiskInv, DisksAtHome
  <1>4. CASE Disk(z) \notin vms[i].devices
    <2>1. PICK d \in Device : Gains(i, d)
      BY <1>1, <1>2, <1>4 DEF VmMoved, IsNew, Boots, GoesOff
    <2>2. d = Disk(z)
      BY <1>4, <2>1 DEF Gains
    <2>3. ASSUME NEW g \in Guests, AttachDisk(g), i = latest.vm, d = Disk(latest.zvol)
          PROVE  AttachDisk(z) /\ vms[i].name = z
      <3>1. latest.zvol = g /\ vms[i].name = g
        BY <1>2, <2>3, TargetIsOwn DEF AttachDisk
      <3>2. g = z
        BY <2>2, <2>3, <3>1, DeviceKinds
      <3>3. QED
        BY <2>3, <3>1, <3>2
    <2>4. ASSUME NEW c \in inflight, c.vm = i, c.op = "disk.attach", d = Disk(c.arg)
          PROVE  c.arg = z /\ vms[i].name = z
      <3>1. c.arg = z
        BY <2>2, <2>4, DeviceKinds
      <3>2. QED
        BY <1>2, <2>4, <3>1 DEF DiskInv, PendingDisksAtHome
    <2>5. QED
      BY <1>2, <2>1, <2>2, <2>3, <2>4, DeviceKinds DEF Gains
  <1>5. QED
    BY <1>3, <1>4

\* A call in flight for a VM that is there was for that VM before the step.
LEMMA CallsKeepTheirVm ==
  ASSUME IndInv, Next, NEW c \in inflight', c.vm \in DOMAIN vms',
         c.op = "disk.attach" \/ c.op = "vm.start"
  PROVE  /\ c.vm \in DOMAIN vms /\ vms'[c.vm].name = vms[c.vm].name
         /\ \/ c \in inflight
            \/ \E g \in Guests, s \in Steps :
                  StepFails(g, s) /\ c \in CallOf(g, s) /\ vms' = vms
  <1>1. VmMoved(c.vm) /\ TypeOK
    BY VmMoves DEF IndInv
  <1>2. CASE c \in inflight
    <2>1. c.vm <= created
      BY <1>2 DEF IndInv, PendingNicsAtHome
    <2>2. ~IsNew(c.vm)
      BY <1>1, <2>1 DEF IsNew, TypeOK
    <2>3. QED
      BY <1>1, <1>2, <2>2 DEF VmMoved
  <1>3. CASE c \notin inflight
    <2>1. PICK g \in Guests, s \in Steps : StepFails(g, s) /\ c \in CallOf(g, s)
      BY <1>1, <1>3, CallMoves
    <2>2. vms' = vms
      BY <2>1 DEF StepFails, hosts
    <2>3. QED
      BY <2>1, <2>2
  <1>4. QED
    BY <1>2, <1>3

\* DiskInv is inductive together with IndInv.
LEMMA DiskInvStep ==
  ASSUME IndInv, IndInv', DiskInv, Next
  PROVE  DiskInv'
  <1>1. TypeOK
    BY DEF IndInv
  <1>2. OwnZvol'
    <2> SUFFICES ASSUME NEW g \in Guests, Active(g)', step'[g]["create-zvol"] = "succeeded"
                 PROVE  latest'.zvol = g
      BY DEF OwnZvol
    <2>1. "create-zvol" \in Steps
      BY DEF Steps
    <2>2. CASE \E h \in Guests : CreateZvol(h)
      <3>1. PICK h \in Guests : CreateZvol(h)
        BY <2>2
      <3>2. latest'.zvol = h
        BY <1>1, <3>1 DEF CreateZvol, TypeOK
      <3>3. Active(h)'
        BY <3>1 DEF CreateZvol, Ready, Active
      <3>4. QED
        BY <3>2, <3>3 DEF IndInv, OneAtATime
    <2>3. CASE ~\E h \in Guests : CreateZvol(h)
      <3>1. latest'.zvol = latest.zvol
        BY <1>1, <2>3, LatestMoves
      <3>2. ~Begin(g)
        BY <2>1 DEF Begin, TypeOK, IndInv
      <3>3. step[g]["create-zvol"] = "succeeded"
        BY <1>1, <2>1, <2>3, <3>2, StepMoves
      <3>4. Active(g)
        BY <1>1, <3>2, ActiveMoves DEF Active, EndJob
      <3>5. QED
        BY <3>1, <3>3, <3>4 DEF DiskInv, OwnZvol
    <2>4. QED
      BY <2>2, <2>3
  <1>3. DisksAtHome'
    BY DiskArrives DEF DisksAtHome, Disk
  <1>4. PendingDisksAtHome'
    <2> SUFFICES ASSUME NEW c \in inflight', c.op = "disk.attach", c.vm \in DOMAIN vms'
                 PROVE  vms'[c.vm].name = c.arg
      BY DEF PendingDisksAtHome
    <2>1. c.vm \in DOMAIN vms /\ vms'[c.vm].name = vms[c.vm].name
      BY CallsKeepTheirVm
    <2>2. CASE c \in inflight
      BY <2>1, <2>2 DEF DiskInv, PendingDisksAtHome
    <2>3. ASSUME NEW g \in Guests, NEW s \in Steps, StepFails(g, s), c \in CallOf(g, s)
          PROVE  vms[c.vm].name = c.arg
      <3>1. s = "attach-disk" /\ c.vm = latest.vm /\ c.arg = latest.zvol
        BY <2>3, CallsOfTarget
      <3>2. QED
        BY <2>1, <2>3, <3>1, TargetIsOwn DEF StepFails
    <2>4. QED
      BY <2>1, <2>2, <2>3, CallsKeepTheirVm
  <1>5. QED
    BY <1>2, <1>3, <1>4 DEF DiskInv

LEMMA InitDiskInv == Init => DiskInv
  <1> SUFFICES ASSUME Init PROVE DiskInv
    OBVIOUS
  <1>1. \A i \in DOMAIN vms : vms[i].devices = {}
    <2>1. CASE vms = [i \in {} |-> {}]
      BY <2>1
    <2>2. CASE vms # [i \in {} |-> {}]
      <3>1. PICK g \in Guests :
               vms = [i \in {1} |-> [name |-> g, managed |-> FALSE, on |-> TRUE,
                                     devices |-> {}, live |-> {}]]
        BY <2>2 DEF Init
      <3>2. QED
        BY <3>1
    <2>3. QED
      BY <2>1, <2>2
  <1>2. QED
    BY <1>1 DEF Init, DiskInv, OwnZvol, DisksAtHome, PendingDisksAtHome, Active

LEMMA DisksStayHome ==
  ASSUME "overlap" \notin Faults
  PROVE  Spec => []DiskInv
  <1>1. IndInv /\ IndInv' /\ DiskInv /\ [Next]_vars => DiskInv'
    <2> SUFFICES ASSUME IndInv, IndInv', DiskInv, [Next]_vars PROVE DiskInv'
      OBVIOUS
    <2>1. CASE UNCHANGED vars
      BY <2>1 DEF vars, DiskInv, OwnZvol, DisksAtHome, PendingDisksAtHome, Active, Disk
    <2>2. QED
      BY <2>1, DiskInvStep
  <1>2. QED
    BY <1>1, InitDiskInv, RunsKeepToThemselves, PTL DEF Spec

\* The zvols a step removes are no disks of a running VM that stays.
LEMMA KeepsStep ==
  ASSUME IndInv, DiskInv, Next, NEW i \in DOMAIN vms \cap DOMAIN vms', vms[i].on,
         NEW z \in DOMAIN zvols, Disk(z) \in vms[i].live
  PROVE  z \in DOMAIN zvols'
  <1> SUFFICES ASSUME z \notin DOMAIN zvols' PROVE FALSE
    OBVIOUS
  <1>1. TypeOK /\ z \in Guests
    BY DEF IndInv, TypeOK
  <1>2. Disk(z) \in vms[i].devices /\ vms[i].name = z
    BY <1>1 DEF IndInv, NicsAtHome, DiskInv, DisksAtHome
  <1>3. ASSUME NEW j \in DOMAIN vms, z \in Attachments(j)
        PROVE  j = i
    <2>1. vms[j].name = z
      BY <1>1, <1>3 DEF Attachments, DiskInv, DisksAtHome
    <2>2. QED
      BY <1>2, <2>1 DEF IndInv, UniqueNames
  <1>4. ASSUME NEW g \in Guests, Cleanup(g), z \in TakenAlong(g) \cup Dangling(g)
        PROVE  FALSE
    <2>1. i \notin Named(g)
      BY <1>4 DEF Cleanup, VmsWithout
    <2>2. z \notin TakenAlong(g)
      BY <1>3, <2>1 DEF TakenAlong, Named
    <2>3. z \notin Dangling(g)
      BY <2>1 DEF Dangling
    <2>4. QED
      BY <1>4, <2>2, <2>3
  <1>5. ASSUME NEW c \in inflight, c.vm \in DOMAIN vms, vms' = VmsWithout({c.vm}),
               z \in Attachments(c.vm)
        PROVE  FALSE
    <2>1. c.vm = i
      BY <1>3, <1>5
    <2>2. QED
      BY <1>5, <2>1 DEF VmsWithout
  <1>6. QED
    BY <1>1, <1>4, <1>5, ZvolGoes

\* The workflow removes "the half-built target only on failure": whatever its
\* cleanup removes, at once or late, a VM that goes on running keeps its disks.
THEOREM RunningVmsKeepTheirDisks ==
  ASSUME "overlap" \notin Faults
  PROVE  Spec => KeepsItsDisks
  <1>1. IndInv /\ DiskInv /\ [Next]_vars =>
          [\A i \in DOMAIN vms \cap DOMAIN vms' :
             vms[i].on => \A z \in DOMAIN zvols : Disk(z) \in vms[i].live => z \in DOMAIN zvols']_vars
    BY KeepsStep
  <1>2. QED
    BY <1>1, RunsKeepToThemselves, DisksStayHome, PTL DEF Spec, KeepsItsDisks

-----------------------------------------------------------------------------
(* Copies and boots, when a run that fails is always cleaned up: a step may *)
(* fail and its call come late, but nobody kills the runner or an ssh, no   *)
(* cleanup fails and no guest is migrated again.                            *)

\* Nothing goes on that no run accounts for.
Calm ==
    /\ strays = {}
    /\ \A g \in Guests : status[g] # "crashed"
    /\ \A c \in inflight : c.op # "vm.delete"

\* No VM has the disk of a guest that is not that far, and none will get it.
Untouched(g) ==
    /\ \A i \in DOMAIN vms : Disk(g) \notin vms[i].devices
    /\ \A c \in inflight : (c.op = "disk.attach" /\ c.arg = g) => c.vm \notin DOMAIN vms
BeforeAttach(g) ==
    \/ status[g] \in {"idle", "cleaned", "uncleaned"}
    \/ status[g] = "running" /\ step[g]["attach-disk"] = "pending"
    \/ latest.zvol = None
Fresh == \A g \in Guests : BeforeAttach(g) => Untouched(g)

ZvolThere ==
    \A g \in Guests :
        (Active(g) /\ step[g]["create-zvol"] = "succeeded") => g \in DOMAIN zvols

\* What a copy in progress writes, and from what.
Streaming(g) ==
    /\ copy[g].src = g /\ copy[g].dst = g /\ copy[g].power = source[g].power
    /\ copy[g] # NoCopy
    /\ g \in DOMAIN zvols /\ zvols[g].of = g /\ zvols[g].power = source[g].power
    /\ zvols[g].state = "partial"
InProgress ==
    \A g \in Guests :
        (status[g] = "running" /\ step[g]["stream-disk"] = "running") => Streaming(g)

CopyKept ==
    \A g \in Guests :
        (Active(g) /\ step[g]["stream-disk"] = "succeeded") => Faithful(g, g)

\* The VM a run goes on with, or has given up on starting, has its disk.
DiskAttached ==
    \A g \in Guests :
        (Active(g) /\ step[g]["attach-disk"] = "succeeded" /\ latest.vm \in DOMAIN vms) =>
            vms[latest.vm].name = g /\ Disk(g) \in vms[latest.vm].devices
PendingStart(i, n) ==
    /\ n \in Guests /\ Active(n) /\ step[n]["start-target"] = "failed"
    /\ Disk(n) \in vms[i].devices
PendingStarts ==
    \A c \in inflight :
        (c.op = "vm.start" /\ c.vm \in DOMAIN vms) => PendingStart(c.vm, vms[c.vm].name)

\* A VM that is up on a MAC runs from the disk of the same guest.
LiveHasDisk ==
    \A i \in DOMAIN vms : \A m \in Guests : Nic(m) \in vms[i].live => Disk(m) \in vms[i].live

CopyInv ==
    /\ Calm /\ Fresh /\ ZvolThere /\ InProgress /\ CopyKept
    /\ DiskAttached /\ PendingStarts /\ LiveHasDisk

Quiet == Faults \subseteq {"late", "handmade"}

\* The conjuncts of CopyInv survive a step one by one; each needs the others and
\* what is proved above, before the step.
CoreInv == IndInv /\ DiskInv /\ CopyInv

LEMMA CalmStep ==
  ASSUME Quiet, CoreInv, Next
  PROVE  Calm'
  <1> USE DEF Quiet
  <1>1. TypeOK /\ Calm
    BY DEF CoreInv, IndInv, CopyInv
  <1>2. strays' = {}
    BY <1>1 DEF Calm, Next, Engine, Succeeds, Fails, Environment, Inspect, Probe, CreateZvol,
         ShutdownSrc, StreamBegins, StreamEnds, CreateVm, AttachDisk, AttachNic, StartTarget,
         StreamFails, StepFails, CopyAbandoned, EndJob, Cleanup, CleanupFails, Begin, Crash,
         Rollback, PowersOff, Lands
  <1>3. \A g \in Guests : status'[g] # "crashed"
    BY <1>1, ActiveMoves DEF Calm, Crash
  <1>4. \A c \in inflight' : c.op # "vm.delete"
    BY <1>1, CallMoves, CallsOfTarget DEF Calm
  <1>5. QED
    BY <1>2, <1>3, <1>4 DEF Calm

\* In a calm world a failed run whose cleanup fails never had a zvol.
LEMMA CleanupFailsEarly ==
  ASSUME Quiet, CoreInv, NEW g \in Guests, CleanupFails(g)
  PROVE  latest.zvol = None
  <1>1. TypeOK /\ strays = {}
    BY DEF CoreInv, IndInv, CopyInv, Calm
  <1>2. \A h \in Guests : copy[h] = NoCopy
    BY DEF CoreInv, IndInv, OwnCopy, OneAtATime, Active, CleanupFails
  <1>3. \A z \in DOMAIN zvols : ~Written(z)
    BY <1>1, <1>2, NoneAssumption DEF Written, NoCopy, TypeOK
  <1>4. ~Refused(g)
    BY <1>3 DEF Refused, TakenAlong, Attachments
  <1>5. QED
    BY <1>4 DEF CleanupFails, Quiet

\* Only attach-disk, or its failure, touches the disk of a guest.
LEMMA UntouchedStays ==
  ASSUME CoreInv, Next, NEW g \in Guests, Untouched(g), BeforeAttach(g)'
  PROVE  Untouched(g)'
  <1>1. TypeOK
    BY DEF CoreInv, IndInv
  <1>2. ~AttachDisk(g)
    <2> SUFFICES ASSUME AttachDisk(g) PROVE FALSE
      OBVIOUS
    <2>1. latest'.zvol = latest.zvol /\ latest.zvol # None /\ status'[g] = "running"
      BY <1>1, NoneAssumption DEF AttachDisk, Ready, TypeOK
    <2>2. step'[g]["attach-disk"] = "succeeded"
      BY <1>1 DEF AttachDisk, Settle, TypeOK, Steps
    <2>3. QED
      BY <2>1, <2>2 DEF BeforeAttach
  <1>3. \A i \in DOMAIN vms' : Disk(g) \notin vms'[i].devices
    BY <1>2, DiskArrives DEF CoreInv, Untouched
  <1>4. ASSUME NEW c \in inflight', c.op = "disk.attach", c.arg = g, c.vm \in DOMAIN vms'
        PROVE  FALSE
    <2>1. c.vm \in DOMAIN vms
      BY <1>4, CallsKeepTheirVm DEF CoreInv
    <2>2. PICK h \in Guests, s \in Steps : StepFails(h, s) /\ c \in CallOf(h, s)
      BY <1>4, <2>1, CallsKeepTheirVm DEF CoreInv, Untouched
    <2>3. s = "attach-disk" /\ c.arg = latest.zvol /\ latest.zvol # None
      BY <1>4, <2>2, CallsOfTarget
    <2>4. latest.zvol = h
      BY <2>2, <2>3, TargetIsOwn DEF CoreInv, StepFails
    <2>5. h = g
      BY <1>4, <2>3, <2>4
    <2>6. /\ step'[g]["attach-disk"] = "failed" /\ status'[g] = "running"
          /\ latest'.zvol = latest.zvol
      BY <1>1, <2>2, <2>3, <2>5 DEF StepFails, Settle, TypeOK, Ready
    <2>7. QED
      BY <2>3, <2>6 DEF BeforeAttach
  <1>5. QED
    BY <1>3, <1>4 DEF Untouched, Disk

LEMMA FreshStep ==
  ASSUME Quiet, CoreInv, Next
  PROVE  Fresh'
  <1> SUFFICES ASSUME NEW g \in Guests, BeforeAttach(g)'
               PROVE  Untouched(g)'
    BY DEF Fresh
  <1>1. TypeOK
    BY DEF CoreInv, IndInv
  <1>2. CASE BeforeAttach(g)
    BY <1>2, UntouchedStays DEF CoreInv, CopyInv, Fresh
  <1>3. CASE Cleanup(g)
    <2>1. DOMAIN vms' = DOMAIN vms \ Named(g) /\ inflight' = inflight
      BY <1>3 DEF Cleanup, VmsWithout
    <2>2. \A i \in DOMAIN vms' : Disk(g) \notin vms'[i].devices
      BY <2>1, DiskArrives DEF CoreInv, Named
    <2>3. \A c \in inflight' : (c.op = "disk.attach" /\ c.arg = g) => c.vm \notin DOMAIN vms'
      BY <2>1 DEF CoreInv, DiskInv, PendingDisksAtHome, Named
    <2>4. QED
      BY <2>2, <2>3 DEF Untouched, Disk
  <1>4. CASE ~BeforeAttach(g) /\ ~Cleanup(g)
    <2>1. latest.zvol # None
      BY <1>4 DEF BeforeAttach
    <2>2. latest'.zvol # None
      BY <1>1, <2>1, LatestMoves, NoneAssumption
    <2>3. ~CleanupFails(g)
      BY <2>1, CleanupFailsEarly
    <2>4. ~Begin(g)
      BY <1>4 DEF Begin, BeforeAttach, Quiet, CoreInv, CopyInv, Calm
    <2>5. status'[g] = "running" /\ step'[g]["attach-disk"] = "pending"
      <3>1. status'[g] = status[g] \/ status'[g] \in {"failed", "succeeded", "crashed"}
        BY <1>1, <1>4, <2>3, <2>4, ActiveMoves
      <3>2. QED
        BY <1>4, <2>2, <3>1 DEF BeforeAttach
    <2>6. status[g] = "running"
      BY <1>1, <1>4, <2>3, <2>4, <2>5, ActiveMoves
    <2>7. step[g]["attach-disk"] # "pending"
      BY <1>4, <2>6 DEF BeforeAttach
    <2>8. FALSE
      <3>1. "attach-disk" \in Steps /\ step[g]["attach-disk"] # "pending"
        BY <2>7 DEF Steps
      <3>2. AttachDisk(g) \/ step'[g]["attach-disk"] = "failed"
        BY <1>1, <2>4, <2>5, <3>1, StepMoves
      <3>3. step[g]["attach-disk"] # "running" /\ ~Ready(g, "attach-disk")
        BY <1>1, <2>4, <2>5, <3>1, StepMoves DEF Ready
      <3>4. QED
        BY <2>5, <3>2, <3>3 DEF AttachDisk
    <2>9. QED
      BY <2>8
  <1>5. QED
    BY <1>2, <1>3, <1>4

\* The zvol of a run stays as long as the run is active.
LEMMA ActiveZvolStays ==
  ASSUME CoreInv, Next, NEW g \in Guests, Active(g), Active(g)', g \in DOMAIN zvols
  PROVE  g \in DOMAIN zvols'
  <1> SUFFICES ASSUME g \notin DOMAIN zvols' PROVE FALSE
    OBVIOUS
  <1>1. TypeOK
    BY DEF CoreInv, IndInv
  <1>2. ASSUME NEW h \in Guests, Cleanup(h)
        PROVE  FALSE
    <2>1. h = g
      BY <1>2 DEF CoreInv, IndInv, OneAtATime, Cleanup, Active
    <2>2. status'[g] = "cleaned"
      BY <1>1, <1>2, <2>1 DEF Cleanup, TypeOK
    <2>3. QED
      BY <2>2 DEF Active
  <1>3. ASSUME NEW c \in inflight, c.op = "vm.delete"
        PROVE  FALSE
    BY <1>3 DEF CoreInv, CopyInv, Calm
  <1>4. QED
    BY <1>1, <1>2, <1>3, ZvolGoes

\* A run that was active before a step and after it was not begun in it.
LEMMA GoesOn ==
  ASSUME TypeOK, Next, NEW g \in Guests, Active(g), "overlap" \notin Faults
  PROVE  ~Begin(g)
  BY DEF Begin

\* A step that was over before and after a step of the system is what it was; a
\* step that is over for the first time was so because its own action succeeded.
LEMMA NewlySucceeded ==
  ASSUME TypeOK, Next, NEW g \in Guests, Active(g)', NEW s \in Steps,
         step'[g][s] = "succeeded"
  PROVE  /\ Active(g) /\ ~Begin(g)
         /\ \/ step[g][s] = "succeeded"
            \/ status' = status /\ Ready(g, s) /\ (s = "create-zvol" => CreateZvol(g))
                   /\ (s = "create-vm" => CreateVm(g))
                   /\ (s = "attach-disk" => AttachDisk(g))
                   /\ (s = "attach-nic" => AttachNic(g))
                   /\ (s # "stream-disk")
            \/ s = "stream-disk" /\ StreamEnds(g)
  <1>1. ~Begin(g)
    BY DEF Begin, TypeOK
  <1>2. Active(g)
    BY <1>1, ActiveMoves DEF Active, EndJob
  <1>3. StreamBegins(g) => step'[g]["stream-disk"] = "running"
    <2>1. step \in [Guests -> [Steps -> {"pending", "running", "succeeded", "failed"}]]
          /\ "stream-disk" \in Steps
      BY DEF TypeOK, Steps
    <2>2. QED
      BY <2>1 DEF StreamBegins, Settle
  <1>4. QED
    BY <1>1, <1>2, <1>3, StepMoves

LEMMA ZvolThereStep ==
  ASSUME CoreInv, Next
  PROVE  ZvolThere'
  <1> SUFFICES ASSUME NEW g \in Guests, Active(g)', step'[g]["create-zvol"] = "succeeded"
               PROVE  g \in DOMAIN zvols'
    BY DEF ZvolThere
  <1>1. TypeOK /\ "create-zvol" \in Steps /\ "create-zvol" # "stream-disk"
    BY DEF CoreInv, IndInv, Steps
  <1>2. Active(g)
    BY <1>1, NewlySucceeded
  <1>3. CASE step[g]["create-zvol"] = "succeeded"
    BY <1>2, <1>3, ActiveZvolStays DEF CoreInv, CopyInv, ZvolThere
  <1>4. CASE CreateZvol(g)
    BY <1>4 DEF CreateZvol, ZvolMade
  <1>5. QED
    BY <1>1, <1>3, <1>4, NewlySucceeded

\* The copy of a run is of its own guest, to its own zvol, which is there.
LEMMA BeginsAtHome ==
  ASSUME CoreInv, NEW g \in Guests, StreamBegins(g)
  PROVE  latest.spec = g /\ latest.zvol = g /\ g \in DOMAIN zvols /\ ~source[g].on
  <1>1. Active(g) /\ status[g] = "running" /\ DependenciesMet(g, "stream-disk") /\ StepsInOrder
    BY DEF StreamBegins, Ready, Active, CoreInv, IndInv
  <1>2. step[g]["create-zvol"] = "succeeded" /\ step[g]["shutdown-src"] = "succeeded"
        /\ step[g]["inspect"] = "succeeded"
    BY <1>1, ChainFromCopy, ChainToShutdown
  <1>3. QED
    BY <1>1, <1>2 DEF CoreInv, IndInv, OwnRecords, StaysOff, DiskInv, OwnZvol, CopyInv, ZvolThere

\* While a copy runs no VM has its disk.
LEMMA StreamingAlone ==
  ASSUME CoreInv, NEW g \in Guests, status[g] = "running", step[g]["stream-disk"] = "running"
  PROVE  /\ Untouched(g) /\ ~OpenByVm(g) /\ Streaming(g) /\ ~source[g].on
         /\ \A h \in Guests \ {g} : copy[h] = NoCopy
  <1>1. step[g]["attach-disk"] = "pending"
    <2> SUFFICES ASSUME step[g]["attach-disk"] # "pending" PROVE FALSE
      OBVIOUS
    <2>1. StepsInOrder /\ "attach-disk" \in Steps
      BY DEF CoreInv, IndInv, Steps
    <2>2. DependenciesMet(g, "attach-disk")
      BY <2>1 DEF StepsInOrder
    <2>3. step[g]["stream-disk"] = "succeeded"
      BY <2>1, <2>2, ChainFromTarget
    <2>4. QED
      BY <2>3
  <1>2. Untouched(g)
    BY <1>1 DEF CoreInv, CopyInv, Fresh, BeforeAttach
  <1>3. ~OpenByVm(g)
    BY <1>2 DEF OpenByVm, Untouched, CoreInv, IndInv, NicsAtHome
  <1>4. Streaming(g)
    BY DEF CoreInv, CopyInv, InProgress
  <1>5. ~source[g].on
    <2>1. StepsInOrder /\ "stream-disk" \in Steps
      BY DEF CoreInv, IndInv, Steps
    <2>2. step[g]["shutdown-src"] = "succeeded"
      BY <2>1, ChainFromCopy DEF StepsInOrder
    <2>3. QED
      BY <2>2 DEF CoreInv, IndInv, StaysOff
  <1>6. \A h \in Guests \ {g} : copy[h] = NoCopy
    BY DEF CoreInv, IndInv, OwnCopy, OneAtATime, Active
  <1>7. QED
    BY <1>2, <1>3, <1>4, <1>5, <1>6

\* A run's zvol keeps its content, except through the run's own copy.
LEMMA ActiveZvolKeeps ==
  ASSUME Quiet, CoreInv, Next, NEW g \in Guests, Active(g), Active(g)', g \in DOMAIN zvols,
         ~StreamBegins(g), ~StreamEnds(g), zvols[g].state # "partial" \/ ~OpenByVm(g)
  PROVE  g \in DOMAIN zvols' /\ SameCopy(g) /\ zvols'[g].state = zvols[g].state
  <1>1. TypeOK /\ strays = {}
    BY DEF CoreInv, IndInv, CopyInv, Calm
  <1>2. g \in DOMAIN zvols'
    BY ActiveZvolStays
  <1>3. ASSUME NEW h \in Guests, StreamBegins(h), g = latest.zvol
        PROVE  FALSE
    BY <1>3, BeginsAtHome
  <1>4. ASSUME NEW h \in Guests, StreamEnds(h), g = copy[h].dst
        PROVE  FALSE
    <2>1. copy[h].dst = h
      BY <1>4, StreamingAlone DEF StreamEnds, Streaming
    <2>2. QED
      BY <1>4, <2>1
  <1>5. QED
    BY <1>1, <1>2, <1>3, <1>4, ZvolMoves DEF ZvolMoved

LEMMA InProgressStep ==
  ASSUME Quiet, CoreInv, Next
  PROVE  InProgress'
  <1> SUFFICES ASSUME NEW g \in Guests, status'[g] = "running", step'[g]["stream-disk"] = "running"
               PROVE  Streaming(g)'
    BY DEF InProgress
  <1>1. TypeOK /\ "stream-disk" \in Steps
    BY DEF CoreInv, IndInv, Steps
  <1>2. CASE StreamBegins(g)
    <2>1. latest.spec = g /\ latest.zvol = g /\ g \in DOMAIN zvols /\ source' = source
      BY <1>2, BeginsAtHome DEF StreamBegins
    <2>2. copy'[g] = [src |-> g, dst |-> g, power |-> source[g].power]
      BY <1>1, <1>2, <2>1 DEF StreamBegins, TypeOK
    <2>3. copy'[g] # NoCopy
      BY <2>2, NoneAssumption DEF NoCopy
    <2>4. /\ g \in DOMAIN zvols' /\ zvols[g] \in Zvol
          /\ zvols'[g] = [zvols[g] EXCEPT !.of = g, !.state = "partial", !.power = source[g].power]
      BY <1>1, <1>2, <2>1 DEF StreamBegins, TypeOK
    <2>5. zvols'[g].of = g /\ zvols'[g].power = source[g].power /\ zvols'[g].state = "partial"
      BY <2>4 DEF Zvol
    <2>6. QED
      BY <2>1, <2>2, <2>3, <2>4, <2>5 DEF Streaming, NoCopy
  <1>3. CASE ~StreamBegins(g)
    <2>1. ~Begin(g)
      BY <1>1 DEF Begin, TypeOK
    <2>2. step[g]["stream-disk"] = "running"
      BY <1>1, <1>3, <2>1, StepMoves
    <2>3. status[g] = "running"
      BY <1>1, <2>1, ActiveMoves
    <2>4. ~StreamEnds(g) /\ ~StreamFails(g) /\ ~Crash(g)
      BY <1>1 DEF StreamEnds, StreamFails, Crash, Settle, TypeOK
    <2>5. Untouched(g) /\ ~OpenByVm(g) /\ Streaming(g) /\ ~source[g].on
      BY <2>2, <2>3, StreamingAlone
    <2>6. copy'[g] = copy[g]
      BY <1>1, <1>3, <2>4, CopyChanges
    <2>7. source'[g] = source[g]
      BY <1>1, <2>3, <2>5, PowerMoves
    <2>8. g \in DOMAIN zvols' /\ SameCopy(g) /\ zvols'[g].state = zvols[g].state
      BY <1>3, <2>3, <2>4, <2>5, ActiveZvolKeeps DEF Active, Streaming
    <2>9. QED
      BY <2>5, <2>6, <2>7, <2>8 DEF Streaming, SameCopy, NoCopy
  <1>4. QED
    BY <1>2, <1>3

\* A copy that ends in a calm world is faithful.
LEMMA EndsFaithful ==
  ASSUME CoreInv, NEW g \in Guests, StreamEnds(g)
  PROVE  Faithful(g, g)'
  <1>1. TypeOK /\ strays = {} /\ status[g] = "running" /\ step[g]["stream-disk"] = "running"
    BY DEF CoreInv, IndInv, CopyInv, Calm, StreamEnds
  <1>2. /\ ~OpenByVm(g) /\ Streaming(g) /\ ~source[g].on
        /\ \A h \in Guests \ {g} : copy[h] = NoCopy
    BY <1>1, StreamingAlone
  <1>3. \A h \in Guests \ {g} : copy[h].dst # g
    <2>1. NoCopy.dst = None
      BY DEF NoCopy
    <2>2. QED
      BY <1>2, <2>1, NoneAssumption
  <1>4. g \in DOMAIN zvols /\ zvols[g] \in Zvol /\ zvols[g].state # "torn"
    BY <1>1, <1>2 DEF Streaming, TypeOK
  <1>5. g \in DOMAIN zvols' /\ zvols'[g] = [zvols[g] EXCEPT !.state = "whole"] /\ source' = source
    BY <1>1, <1>2, <1>3, <1>4 DEF StreamEnds, Streaming
  <1>6. zvols'[g].of = g /\ zvols'[g].power = source[g].power /\ zvols'[g].state = "whole"
    BY <1>2, <1>4, <1>5 DEF Zvol, Streaming
  <1>7. QED
    BY <1>2, <1>5, <1>6 DEF Faithful

LEMMA CopyKeptStep ==
  ASSUME Quiet, CoreInv, Next
  PROVE  CopyKept'
  <1> SUFFICES ASSUME NEW g \in Guests, Active(g)', step'[g]["stream-disk"] = "succeeded"
               PROVE  Faithful(g, g)'
    BY DEF CopyKept
  <1>1. TypeOK /\ "stream-disk" \in Steps
    BY DEF CoreInv, IndInv, Steps
  <1>2. CASE StreamEnds(g)
    BY <1>2, EndsFaithful
  <1>3. CASE ~StreamEnds(g)
    <2>1. Active(g) /\ step[g]["stream-disk"] = "succeeded"
      BY <1>1, <1>3, NewlySucceeded
    <2>2. Faithful(g, g)
      BY <2>1 DEF CoreInv, CopyInv, CopyKept
    <2>3. ~StreamBegins(g)
      BY <2>1 DEF StreamBegins, Ready
    <2>4. g \in DOMAIN zvols' /\ SameCopy(g) /\ zvols'[g].state = zvols[g].state
      BY <1>3, <2>1, <2>2, <2>3, ActiveZvolKeeps DEF Faithful
    <2>5. source'[g] = source[g]
      BY <1>1, <2>1, <2>2, PowerMoves DEF Faithful, Active
    <2>6. QED
      BY <2>2, <2>4, <2>5 DEF Faithful, SameCopy
  <1>4. QED
    BY <1>2, <1>3

\* A VM that stays keeps its devices.
LEMMA DevicesStay ==
  ASSUME TypeOK, Next, NEW i \in DOMAIN vms', i \in DOMAIN vms
  PROVE  vms[i].devices \subseteq vms'[i].devices /\ vms'[i].name = vms[i].name
  <1>1. VmMoved(i) /\ ~IsNew(i)
    BY VmMoves DEF IsNew
  <1>2. QED
    BY <1>1 DEF VmMoved, Boots, GoesOff, Gains

LEMMA DiskAttachedStep ==
  ASSUME CoreInv, Next
  PROVE  DiskAttached'
  <1> SUFFICES ASSUME NEW g \in Guests, Active(g)', step'[g]["attach-disk"] = "succeeded",
                      latest'.vm \in DOMAIN vms'
               PROVE  vms'[latest'.vm].name = g /\ Disk(g) \in vms'[latest'.vm].devices
    BY DEF DiskAttached, Disk
  <1>1. TypeOK /\ "attach-disk" \in Steps /\ "attach-disk" # "stream-disk"
    BY DEF CoreInv, IndInv, Steps
  <1>2. CASE AttachDisk(g)
    <2>1. /\ latest' = latest /\ latest.vm \in DOMAIN vms /\ latest.zvol \in Guests
          /\ Attached(latest.vm, Disk(latest.zvol)) /\ Ready(g, "attach-disk")
      BY <1>1, <1>2 DEF AttachDisk, TypeOK
    <2>2. latest.zvol = g /\ vms[latest.vm].name = g
      BY <2>1, TargetIsOwn DEF CoreInv
    <2>3. /\ vms'[latest.vm].name = vms[latest.vm].name
          /\ vms'[latest.vm].devices = vms[latest.vm].devices \cup {Disk(g)}
      BY <1>1, <2>1, <2>2, AttachedMoves, DeviceTypes
    <2>4. QED
      BY <2>1, <2>2, <2>3
  <1>3. CASE ~AttachDisk(g)
    <2>1. Active(g) /\ step[g]["attach-disk"] = "succeeded"
      BY <1>1, <1>3, NewlySucceeded
    <2>2. step[g]["create-vm"] = "succeeded"
      BY <1>1, <2>1, ChainFromTarget DEF CoreInv, IndInv, StepsInOrder
    <2>3. ASSUME NEW h \in Guests, CreateVm(h) \/ Cleanup(h)
          PROVE  FALSE
      <3>1. Active(h)
        BY <2>3 DEF CreateVm, Cleanup, Ready, Active
      <3>2. h = g
        BY <2>1, <3>1 DEF CoreInv, IndInv, OneAtATime
      <3>3. ~CreateVm(g)
        BY <2>2 DEF CreateVm, Ready
      <3>4. Cleanup(g)
        BY <2>3, <3>2, <3>3
      <3>5. status'[g] = "cleaned"
        BY <1>1, <3>4 DEF Cleanup, TypeOK
      <3>6. QED
        BY <3>5 DEF Active
    <2>4. latest'.vm = latest.vm
      BY <1>1, <2>3, LatestMoves
    <2>5. latest.vm \in DOMAIN vms
      BY <1>1, <2>4, VmMoves DEF VmMoved, IsNew, TypeOK
    <2>6. vms[latest.vm].name = g /\ Disk(g) \in vms[latest.vm].devices
      BY <2>1, <2>5 DEF CoreInv, CopyInv, DiskAttached
    <2>7. QED
      BY <1>1, <2>4, <2>5, <2>6, DevicesStay
  <1>4. QED
    BY <1>2, <1>3

LEMMA PendingStartsStep ==
  ASSUME Quiet, CoreInv, Next
  PROVE  PendingStarts'
  <1> SUFFICES ASSUME NEW c \in inflight', c.op = "vm.start", c.vm \in DOMAIN vms'
               PROVE  \E n : n = vms'[c.vm].name /\ PendingStart(c.vm, n)'
    BY DEF PendingStarts
  <1>1. TypeOK /\ "start-target" \in Steps /\ "start-target" # "stream-disk"
    BY DEF CoreInv, IndInv, Steps
  <1>2. c.vm \in DOMAIN vms /\ vms'[c.vm].name = vms[c.vm].name
    BY CallsKeepTheirVm DEF CoreInv
  <1>3. vms[c.vm].devices \subseteq vms'[c.vm].devices
    BY <1>1, <1>2, DevicesStay
  <1>4. CASE c \in inflight
    <2>1. PICK n : n = vms[c.vm].name /\ PendingStart(c.vm, n)
      BY <1>2, <1>4 DEF CoreInv, CopyInv, PendingStarts
    <2>2. n \in Guests /\ Active(n) /\ step[n]["start-target"] = "failed"
          /\ Disk(n) \in vms[c.vm].devices
      BY <2>1 DEF PendingStart
    <2>3. ~Begin(n)
      BY <1>1, <2>2, GoesOn DEF Quiet
    <2>4. step'[n]["start-target"] = "failed"
      BY <1>1, <2>2, <2>3, StepMoves
    <2>5. ~Cleanup(n)
      BY <1>2, <2>1 DEF Cleanup, VmsWithout, Named
    <2>6. ~CleanupFails(n)
      <3>1. ~Untouched(n)
        BY <1>2, <2>2 DEF Untouched
      <3>2. latest.zvol # None
        BY <2>2, <3>1 DEF CoreInv, CopyInv, Fresh, BeforeAttach
      <3>3. QED
        BY <2>2, <3>2, CleanupFailsEarly
    <2>7. ~Crash(n)
      BY DEF Crash, Quiet
    <2>8. EndJob(n) => status'[n] = "failed"
      BY <1>1, <2>2 DEF EndJob, Required, TypeOK
    <2>9. Active(n)'
      BY <1>1, <2>2, <2>3, <2>5, <2>6, <2>7, <2>8, ActiveMoves DEF Active
    <2>10. QED
      BY <1>2, <1>3, <2>1, <2>2, <2>4, <2>9 DEF PendingStart, Disk
  <1>5. ASSUME NEW g \in Guests, NEW s \in Steps, StepFails(g, s), c \in CallOf(g, s)
        PROVE  \E n : n = vms'[c.vm].name /\ PendingStart(c.vm, n)'
    <2>1. s = "start-target" /\ c.vm = latest.vm
      BY <1>5, CallsOfTarget
    <2>2. Ready(g, "start-target") /\ status' = status /\ Active(g)
      BY <1>5, <2>1 DEF StepFails, Ready, Active
    <2>3. vms[c.vm].name = g
      BY <1>2, <2>1, <2>2, TargetIsOwn DEF CoreInv
    <2>4. step[g]["attach-disk"] = "succeeded"
      BY <2>2, ChainFromTarget DEF CoreInv, IndInv, Ready
    <2>5. Disk(g) \in vms[c.vm].devices
      BY <1>2, <2>1, <2>2, <2>4 DEF CoreInv, CopyInv, DiskAttached
    <2>6. step'[g]["start-target"] = "failed"
      BY <1>1, <1>5, <2>1 DEF StepFails, Settle, TypeOK
    <2>7. QED
      BY <1>2, <1>3, <2>2, <2>3, <2>5, <2>6 DEF PendingStart, Active, Disk
  <1>6. QED
    BY <1>4, <1>5, CallsKeepTheirVm DEF CoreInv

\* A VM that is started is the target of an active run, has the disk of its guest
\* and no other, and the copy on it is faithful then and after the start.
LEMMA BootsOwnDisk ==
  ASSUME CoreInv, Next, NEW i \in DOMAIN vms', i \in DOMAIN vms, Boots(i),
         NEW n, n = vms[i].name
  PROVE  /\ n \in Guests /\ Disk(n) \in vms[i].devices
         /\ Faithful(n, n) /\ Faithful(n, n)'
  <1>1. TypeOK
    BY DEF CoreInv, IndInv
  <1>2. n \in Guests /\ Active(n) /\ step[n]["stream-disk"] = "succeeded" /\ Disk(n) \in vms[i].devices
    <2>1. ASSUME NEW g \in Guests, StartTarget(g), i = latest.vm
          PROVE  n \in Guests /\ Active(n) /\ step[n]["stream-disk"] = "succeeded"
                 /\ Disk(n) \in vms[i].devices
      <3>1. Ready(g, "start-target") /\ DependenciesMet(g, "start-target") /\ Active(g)
        BY <2>1 DEF StartTarget, Ready, Active
      <3>2. n = g
        BY <2>1, <3>1, TargetIsOwn DEF CoreInv
      <3>3. step[g]["stream-disk"] = "succeeded" /\ step[g]["attach-disk"] = "succeeded"
        BY <3>1, ChainFromTarget DEF CoreInv, IndInv
      <3>4. Disk(g) \in vms[i].devices
        BY <2>1, <3>1, <3>3 DEF CoreInv, CopyInv, DiskAttached
      <3>5. QED
        BY <3>1, <3>2, <3>3, <3>4
    <2>2. ASSUME NEW c \in inflight, c.op = "vm.start", c.vm = i
          PROVE  n \in Guests /\ Active(n) /\ step[n]["stream-disk"] = "succeeded"
                 /\ Disk(n) \in vms[i].devices
      <3>1. PendingStart(i, n)
        BY <2>2 DEF CoreInv, CopyInv, PendingStarts
      <3>2. DependenciesMet(n, "start-target")
        BY <3>1 DEF PendingStart, CoreInv, IndInv, StepsInOrder, Steps
      <3>3. QED
        BY <3>1, <3>2, ChainFromTarget DEF PendingStart, CoreInv, IndInv
    <2>3. QED
      BY <2>1, <2>2 DEF Boots
  <1>3. Faithful(n, n)
    BY <1>2 DEF CoreInv, CopyInv, CopyKept
  <1>4. n \in DOMAIN zvols' /\ SameCopy(n) /\ zvols'[n].state = zvols[n].state
    <2>1. n \in DOMAIN zvols /\ Started(i) /\ ~vms[i].on
      BY <1>3 DEF Faithful, Boots
    <2>2. n \in DOMAIN zvols'
      BY <2>1 DEF Started
    <2>3. QED
      BY <1>1, <2>1, <2>2, StartedZvol
  <1>5. Faithful(n, n)'
    BY <1>3, <1>4 DEF Faithful, SameCopy, Boots
  <1>6. QED
    BY <1>2, <1>3, <1>5

LEMMA LiveHasDiskStep ==
  ASSUME CoreInv, Next
  PROVE  LiveHasDisk'
  <1> SUFFICES ASSUME NEW i \in DOMAIN vms', NEW m \in Guests, Nic(m) \in vms'[i].live
               PROVE  Disk(m) \in vms'[i].live
    BY DEF LiveHasDisk, Nic, Disk
  <1>1. VmMoved(i)
    BY VmMoves DEF CoreInv, IndInv
  <1>2. (i \in DOMAIN vms /\ vms'[i].live = vms[i].live) \/ Boots(i)
    BY <1>1 DEF VmMoved, IsNew, GoesOff, Gains
  <1>3. CASE i \in DOMAIN vms /\ vms'[i].live = vms[i].live
    BY <1>3 DEF CoreInv, CopyInv, LiveHasDisk
  <1>4. CASE i \in DOMAIN vms /\ Boots(i)
    <2>1. vms'[i].live = vms[i].devices
      BY <1>4 DEF Boots
    <2>2. vms[i].name = m
      BY <1>4, <2>1 DEF CoreInv, IndInv, NicsAtHome, Home
    <2>3. QED
      BY <1>4, <2>1, <2>2, BootsOwnDisk
  <1>5. QED
    BY <1>1, <1>2, <1>3, <1>4 DEF VmMoved, IsNew

\* CopyInv is inductive, together with IndInv and DiskInv, in a quiet world.
LEMMA CopyInvStep ==
  ASSUME Quiet, CoreInv, [Next]_vars
  PROVE  CopyInv'
  <1>1. CASE UNCHANGED vars
    BY <1>1 DEF vars, CoreInv, CopyInv, Calm, Fresh, BeforeAttach, Untouched, ZvolThere, InProgress,
       Streaming, NoCopy, CopyKept, Faithful, DiskAttached, PendingStarts, PendingStart, LiveHasDisk,
       Active, Disk, Nic
  <1>2. CASE Next
    BY <1>2, CalmStep, FreshStep, ZvolThereStep, InProgressStep, CopyKeptStep, DiskAttachedStep,
       PendingStartsStep, LiveHasDiskStep DEF CopyInv
  <1>3. QED
    BY <1>1, <1>2

LEMMA InitCopyInv == Init => CopyInv
  <1> SUFFICES ASSUME Init PROVE CopyInv
    OBVIOUS
  <1>1. \A i \in DOMAIN vms : vms[i].devices = {} /\ vms[i].live = {}
    <2>1. CASE vms = [i \in {} |-> {}]
      BY <2>1
    <2>2. CASE vms # [i \in {} |-> {}]
      <3>1. PICK g \in Guests :
               vms = [i \in {1} |-> [name |-> g, managed |-> FALSE, on |-> TRUE,
                                     devices |-> {}, live |-> {}]]
        BY <2>2 DEF Init
      <3>2. QED
        BY <3>1
    <2>3. QED
      BY <2>1, <2>2
  <1>2. QED
    BY <1>1 DEF Init, CopyInv, Calm, Fresh, Untouched, ZvolThere, InProgress, CopyKept, DiskAttached,
       PendingStarts, LiveHasDisk, Active

\* What holds of the disks, the copies and the starts in a quiet world.
LEMMA CoreInvariant ==
  ASSUME Quiet
  PROVE  Spec => []CoreInv
  <1>1. "overlap" \notin Faults
    BY DEF Quiet
  <1>2. Spec => []IndInv /\ []DiskInv
    BY <1>1, RunsKeepToThemselves, DisksStayHome, PTL
  <1>3. IndInv /\ DiskInv /\ CopyInv /\ [Next]_vars => CopyInv'
    BY CopyInvStep DEF CoreInv
  <1>4. QED
    BY <1>2, <1>3, InitCopyInv, PTL DEF Spec, CoreInv

\* README of the workflow: a run that repeats an earlier one adopts what that one
\* left.  As long as every failed run was cleaned up and no guest is migrated again
\* after a success, no copy overwrites the disk of a running VM.
THEOREM CopiesSpareRunningVms ==
  ASSUME Faults \subseteq {"late", "handmade"}
  PROVE  Spec => []RunningDiskNotOverwritten
  <1>1. CoreInv => RunningDiskNotOverwritten
    <2> SUFFICES ASSUME CoreInv, NEW g \in Guests, copy[g] # NoCopy
                 PROVE  ~OpenByVm(copy[g].dst)
      BY DEF RunningDiskNotOverwritten
    <2>1. status[g] = "running" /\ step[g]["stream-disk"] = "running"
      BY DEF CoreInv, IndInv, OwnCopy
    <2>2. copy[g].dst = g /\ ~OpenByVm(g)
      BY <2>1, StreamingAlone DEF Streaming
    <2>3. QED
      BY <2>2
  <1>2. QED
    BY <1>1, CoreInvariant, PTL DEF Quiet

\* Under the same faults the target is only ever started, by its run or by a call
\* that comes late, over a whole copy of its own guest's disk, taken after the source
\* was last switched off.
THEOREM StartsFromFaithfulCopies ==
  ASSUME Faults \subseteq {"late", "handmade"}
  PROVE  Spec => BootsFaithfulCopy
  <1>1. ASSUME CoreInv, Next, NEW i \in DOMAIN vms', vms'[i].on, i \in DOMAIN vms => ~vms[i].on,
               NEW z \in Guests, Disk(z) \in vms'[i].live
        PROVE  Faithful(vms'[i].name, z)
    <2>1. VmMoved(i) /\ ~IsNew(i)
      BY <1>1, VmMoves DEF CoreInv, IndInv, IsNew
    <2>2. i \in DOMAIN vms /\ Boots(i) /\ vms'[i].name = vms[i].name
      BY <1>1, <2>1 DEF VmMoved, GoesOff, Gains
    <2>3. vms[i].name = z
      BY <1>1, <2>2 DEF Boots, CoreInv, DiskInv, DisksAtHome
    <2>4. Faithful(z, z)
      BY <1>1, <2>2, <2>3, BootsOwnDisk
    <2>5. QED
      BY <2>2, <2>3, <2>4
  <1>2. CoreInv /\ [Next]_vars =>
          [\A i \in DOMAIN vms' :
             (vms'[i].on /\ (i \in DOMAIN vms => ~vms[i].on)) =>
                \A z \in Guests : Disk(z) \in vms'[i].live => Faithful(vms'[i].name, z)]_vars
    BY <1>1
  <1>3. QED
    BY <1>2, CoreInvariant, PTL DEF Spec, BootsFaithfulCopy, Quiet

-----------------------------------------------------------------------------
(* The workflow implements Cutover.                                         *)

\* No zvol claims a copy of a disk that its source has not been switched to yet.
PowerNotAhead == \A z \in DOMAIN zvols : zvols[z].power <= source[zvols[z].of].power

\* A source that is switched is switched once, and nothing else moves.
LEMMA SourceMoves ==
  ASSUME TypeOK, Next, NEW g \in Guests, source'[g] # source[g]
  PROVE  source'[g].power = source[g].power + 1 /\ vms' = vms /\ zvols' = zvols
  <1>1. ASSUME NEW h \in Guests, SourceOff(h)
        PROVE  source'[g].power = source[g].power + 1
    BY <1>1 DEF SourceOff, TypeOK
  <1>2. ASSUME NEW h \in Guests, Engine(h)
        PROVE  source'[g].power = source[g].power + 1 /\ vms' = vms /\ zvols' = zvols
    <2>1. CASE ShutdownSrc(h)
      BY <1>1, <2>1 DEF ShutdownSrc
    <2>2. CASE ~ShutdownSrc(h)
      <3>1. source' = source
        BY <1>2, <2>2 DEF Engine, Succeeds, Fails, Inspect, CreateZvol, StreamBegins, StreamEnds,
             CreateVm, AttachDisk, AttachNic, StartTarget, Probe, StreamFails, StepFails, EndJob,
             Cleanup, CleanupFails, hosts
      <3>2. QED
        BY <3>1
    <2>3. QED
      BY <2>1, <2>2
  <1>3. CASE Environment
    <2>1. ASSUME NEW h \in Guests, Rollback(h)
          PROVE  source'[g].power = source[g].power + 1 /\ vms' = vms /\ zvols' = zvols
      BY <2>1 DEF Rollback, TypeOK
    <2>2. ASSUME NEW c \in inflight, Lands(c)
          PROVE  source'[g].power = source[g].power + 1 /\ vms' = vms /\ zvols' = zvols
      <3>1. c.arg \in Guests
        BY DEF TypeOK, Call
      <3>2. (SourceOff(c.arg) /\ UNCHANGED <<zvols, vms>>) \/ source' = source
        BY <2>2 DEF Lands, hosts
      <3>3. QED
        BY <1>1, <3>1, <3>2
    <2>3. ASSUME ~\E h \in Guests : Rollback(h), ~\E c \in inflight : Lands(c)
          PROVE  source' = source
      BY <1>3, <2>3 DEF Environment, Begin, Crash, PowersOff, StrayWrites, StrayEnds, hosts
    <2>4. QED
      BY <2>1, <2>2, <2>3
  <1>4. QED
    BY <1>2, <1>3 DEF Next

LEMMA PowerStep ==
  ASSUME TypeOK, TypeOK', PowerNotAhead, [Next]_vars
  PROVE  PowerNotAhead'
  <1> SUFFICES ASSUME NEW z \in DOMAIN zvols'
               PROVE  zvols'[z].power <= source'[zvols'[z].of].power
    BY DEF PowerNotAhead
  <1>1. CASE UNCHANGED vars
    BY <1>1 DEF vars, PowerNotAhead
  <1>2. CASE Next
    <2>1. /\ zvols'[z].of \in Guests /\ zvols'[z].power \in Nat
          /\ \A h \in Guests : source[h].power \in Nat /\ source'[h].power \in Nat
      BY DEF TypeOK, Zvol
    <2>2. \A h \in Guests : source[h].power <= source'[h].power
      BY <1>2, <2>1, SourceMoves
    <2>3. CASE z \notin DOMAIN zvols /\ zvols'[z] = Blank(z)
      <3>1. zvols'[z].power = 0
        BY <2>3 DEF Blank
      <3>2. QED
        BY <2>1, <3>1
    <2>4. CASE z \in DOMAIN zvols /\ SameCopy(z)
      <3>1. zvols[z].power <= source[zvols[z].of].power
        BY <2>4 DEF PowerNotAhead
      <3>2. QED
        BY <2>1, <2>2, <2>4, <3>1 DEF SameCopy
    <2>5. ASSUME z \in DOMAIN zvols, NEW g \in Guests, StreamBegins(g), z = latest.zvol
          PROVE  zvols'[z].power <= source'[zvols'[z].of].power
      <3>1. /\ source' = source /\ zvols[z] \in Zvol
            /\ zvols'[z] = [zvols[z] EXCEPT !.of = latest.spec, !.state = "partial",
                                            !.power = source[latest.spec].power]
        BY <2>5 DEF StreamBegins, TypeOK
      <3>2. zvols'[z].of = latest.spec /\ zvols'[z].power = source[latest.spec].power
        BY <3>1 DEF Zvol
      <3>3. QED
        BY <2>1, <3>1, <3>2
    <2>6. QED
      BY <1>2, <2>3, <2>4, <2>5, ZvolMoves DEF ZvolMoved
  <1>3. QED
    BY <1>1, <1>2

\* Before and after a step, the side a MAC is up on is told by two questions.
Sided(g) ==
    /\ Serving(g) \in {"source", "target", "nobody"}
    /\ Serving(g) = "source" <=> source[g].on
    /\ Serving(g) = "target" <=> Live(g) # {}
    /\ source[g].on => ~Faithful(g, g)

LEMMA ServingSides == NoTwoNics => \A g \in Guests : Sided(g)
  BY DEF Sided, NoTwoNics, Serving, Faithful

LEMMA ServingSidesAfter == NoTwoNics' => (\A g \in Guests : Sided(g))'
  BY ServingSides, PTL

\* A source that goes off leaves no copy of its disk behind that is up to date, and
\* one that comes on again has no target running.
LEMMA SourceSwitched ==
  ASSUME CoreInv, NoTwoNics, PowerNotAhead, Next, NEW g \in Guests, source'[g] # source[g]
  PROVE  Live(g) = {} /\ Live(g)' = {} /\ ~Faithful(g, g)'
  <1>1. TypeOK /\ source[g].power \in Nat
    BY DEF CoreInv, IndInv, TypeOK
  <1>2. source'[g].power = source[g].power + 1 /\ vms' = vms /\ zvols' = zvols
    BY <1>1, SourceMoves
  <1>3. source[g].on \/ status[g] = "cleaned"
    BY <1>1, PowerMoves
  <1>4. Live(g) = {}
    <2>1. CASE source[g].on
      BY <2>1 DEF NoTwoNics
    <2>2. CASE status[g] = "cleaned"
      BY <2>2 DEF CoreInv, IndInv, CleanedForGood, NicsAtHome, Live
    <2>3. QED
      BY <1>3, <2>1, <2>2
  <1>5. Live(g)' = {}
    BY <1>2, <1>4 DEF Live, Nic
  <1>6. ~Faithful(g, g)'
    <2> SUFFICES ASSUME g \in DOMAIN zvols, zvols[g].of = g,
                        zvols[g].power = source[g].power + 1
                 PROVE  FALSE
      BY <1>2 DEF Faithful
    <2>1. source[g].power + 1 <= source[g].power
      BY DEF PowerNotAhead
    <2>2. QED
      BY <1>1, <2>1
  <1>7. QED
    BY <1>4, <1>5, <1>6

\* A target that comes up has a faithful copy below it.
LEMMA TargetComesUp ==
  ASSUME CoreInv, Next, NEW g \in Guests, Live(g) = {}, Live(g)' # {}
  PROVE  Faithful(g, g) /\ Faithful(g, g)'
  <1>1. PICK i \in DOMAIN vms' : vms'[i].on /\ Nic(g) \in vms'[i].live
    BY DEF Live, Nic
  <1>2. VmMoved(i)
    BY VmMoves DEF CoreInv, IndInv
  <1>3. i \in DOMAIN vms /\ Boots(i)
    BY <1>1, <1>2 DEF VmMoved, IsNew, GoesOff, Gains, Live
  <1>4. vms[i].name = g
    BY <1>1, <1>3 DEF Boots, CoreInv, IndInv, NicsAtHome, Home
  <1>5. QED
    BY <1>3, <1>4, BootsOwnDisk

\* As long as a target is up the copy below it is as faithful as it was.
LEMMA TargetKeepsCopy ==
  ASSUME CoreInv, NoTwoNics, Next, NEW g \in Guests, Live(g) # {}, Live(g)' # {},
         source'[g] = source[g]
  PROVE  Faithful(g, g) <=> Faithful(g, g)'
  <1>1. TypeOK /\ strays = {}
    BY DEF CoreInv, IndInv, CopyInv, Calm
  <1>2. PICK i \in DOMAIN vms : vms[i].on /\ Nic(g) \in vms[i].live
    BY DEF Live
  <1>3. PICK j \in DOMAIN vms' : vms'[j].on /\ Nic(g) \in vms'[j].live
    BY DEF Live, Nic
  <1>4. vms[i].name = g /\ Disk(g) \in vms[i].live /\ Disk(g) \in vms[i].devices
    BY <1>2 DEF CoreInv, IndInv, NicsAtHome, Home, CopyInv, LiveHasDisk
  <1>5. i = j
    <2>1. VmMoved(j) /\ ~IsNew(j)
      BY <1>1, <1>3, VmMoves DEF IsNew
    <2>2. j \in DOMAIN vms /\ (Nic(g) \in vms[j].devices)
      BY <1>3, <2>1 DEF VmMoved, Boots, GoesOff, Gains, CoreInv, IndInv, NicsAtHome
    <2>3. vms[j].name = g
      BY <2>2 DEF CoreInv, IndInv, NicsAtHome, Home
    <2>4. QED
      BY <1>4, <2>2, <2>3 DEF CoreInv, IndInv, UniqueNames
  <1>6. g \in DOMAIN zvols => g \in DOMAIN zvols'
    BY <1>2, <1>3, <1>4, <1>5, KeepsStep DEF CoreInv
  <1>7. ~Untouched(g) /\ OpenByVm(g)
    BY <1>2, <1>4 DEF Untouched, OpenByVm
  <1>8. ~\E h \in Guests : StreamBegins(h) /\ g = latest.zvol
    <2> SUFFICES ASSUME StreamBegins(g) PROVE FALSE
      BY BeginsAtHome
    <2>1. status[g] = "running" /\ step[g]["attach-disk"] = "pending"
      <3>1. "attach-disk" \in Steps /\ step[g]["stream-disk"] = "pending" /\ status[g] = "running"
        BY DEF Steps, StreamBegins, Ready
      <3>2. step[g]["attach-disk"] # "pending" => step[g]["stream-disk"] = "succeeded"
        BY <3>1, ChainFromTarget DEF CoreInv, IndInv, StepsInOrder
      <3>3. QED
        BY <3>1, <3>2
    <2>2. QED
      BY <1>7, <2>1 DEF CoreInv, CopyInv, Fresh, BeforeAttach
  <1>9. ~\E h \in Guests : StreamEnds(h) /\ g = copy[h].dst
    BY <1>7, StreamingAlone DEF StreamEnds, Streaming
  <1>10. ASSUME g \in DOMAIN zvols'
         PROVE  \/ g \notin DOMAIN zvols /\ zvols'[g].state = "blank"
                \/ /\ g \in DOMAIN zvols /\ SameCopy(g)
                   /\ \/ zvols'[g].state = zvols[g].state
                      \/ zvols[g].state = "partial" /\ zvols'[g].state = "torn"
    BY <1>1, <1>8, <1>9, <1>10, ZvolMoves DEF ZvolMoved, Blank
  <1>11. QED
    BY <1>6, <1>10 DEF Faithful, SameCopy

LEMMA MoveStep ==
  ASSUME CoreInv, NoTwoNics, NoTwoNics', PowerNotAhead, Next, NEW g \in Guests
  PROVE  Abstract!Move(g)
  <1> USE DEF Abstract!Move
  <1>1. /\ Serving(g) \in {"source", "target", "nobody"}
        /\ Serving(g) = "source" <=> source[g].on
        /\ Serving(g) = "target" <=> Live(g) # {}
        /\ source[g].on => ~Faithful(g, g)
    BY ServingSides DEF Sided
  <1>2. /\ Serving(g)' \in {"source", "target", "nobody"}
        /\ Serving(g)' = "source" <=> source'[g].on
        /\ Serving(g)' = "target" <=> Live(g)' # {}
        /\ source'[g].on => ~Faithful(g, g)'
    BY ServingSidesAfter DEF Sided
  <1>3. CASE source'[g] # source[g]
    <2>1. Live(g) = {} /\ Live(g)' = {} /\ ~Faithful(g, g)'
      BY <1>3, SourceSwitched
    <2>2. QED
      BY <1>1, <1>2, <2>1 DEF Abstract!ShutsDown, Abstract!RollsBack, Abstract!Discards, Abstract!Stays
  <1>4. CASE source'[g] = source[g] /\ Live(g) = {} /\ Live(g)' # {}
    <2>1. Faithful(g, g) /\ Faithful(g, g)'
      BY <1>4, TargetComesUp
    <2>2. QED
      BY <1>1, <1>2, <1>4, <2>1 DEF Abstract!TakesOver
  <1>5. CASE source'[g] = source[g] /\ Live(g) # {} /\ Live(g)' # {}
    <2>1. Faithful(g, g) <=> Faithful(g, g)'
      BY <1>5, TargetKeepsCopy
    <2>2. QED
      BY <1>1, <1>2, <1>5, <2>1 DEF Abstract!Stays
  <1>6. CASE source'[g] = source[g] /\ Live(g)' = {}
    BY <1>1, <1>2, <1>6 DEF Abstract!GoesDown, Abstract!Copies, Abstract!Discards, Abstract!Stays
  <1>7. QED
    BY <1>3, <1>4, <1>5, <1>6

\* At first every MAC is up on its source and nothing is copied.
LEMMA InitAbstract == Init => Abstract!Init /\ PowerNotAhead
  <1> SUFFICES ASSUME Init PROVE Abstract!Init /\ PowerNotAhead
    OBVIOUS
  <1>1. DOMAIN zvols = {} /\ \A g \in Guests : source[g].on
    BY DEF Init
  <1>2. \A i \in DOMAIN vms : vms[i].live = {}
    <2>1. CASE vms = [i \in {} |-> {}]
      BY <2>1
    <2>2. CASE vms # [i \in {} |-> {}]
      <3>1. PICK g \in Guests :
               vms = [i \in {1} |-> [name |-> g, managed |-> FALSE, on |-> TRUE,
                                     devices |-> {}, live |-> {}]]
        BY <2>2 DEF Init
      <3>2. QED
        BY <3>1
    <2>3. QED
      BY <2>1, <2>2
  <1>3. \A g \in Guests : Serving(g) = "source" /\ ~Faithful(g, g)
    BY <1>1, <1>2 DEF Serving, Live, Faithful
  <1>4. Abstract!Init
    BY <1>3 DEF Abstract!Init
  <1>5. QED
    BY <1>1, <1>4 DEF PowerNotAhead

LEMMA AbstractStep ==
  ASSUME CoreInv, NoTwoNics, NoTwoNics', PowerNotAhead, Next
  PROVE  Abstract!Next
  <1>1. \A g \in Guests : Serving(g)' \in {"source", "target", "nobody"}
    BY ServingSidesAfter DEF Sided
  <1>2. \A g \in Guests : Abstract!Move(g)
    BY MoveStep
  <1>3. QED
    BY <1>1, <1>2 DEF Abstract!Next, Abstract!Sides

\* migrate/README.md, Safety: seen from outside, the workflow of every guest is a
\* cutover.  Its MAC is up on the source or the target or nowhere, the target takes
\* over only with a copy of the disk as the source left it, and the copy below a
\* target that is up neither goes nor changes.
THEOREM WorkflowIsACutover ==
  ASSUME Faults \subseteq {"late", "handmade"}
  PROVE  Spec => ImplementsCutover
  <1> DEFINE serving == [g \in Guests |-> Serving(g)]
             copied == {g \in Guests : Faithful(g, g)}
  <1>1. "overlap" \notin Faults
    OBVIOUS
  <1>2. Spec => []TypeOK /\ []NoTwoNics /\ []CoreInv
    BY <1>1, TypeCorrect, NeverTwoNics, CoreInvariant, PTL DEF Quiet
  <1>3. TypeOK /\ TypeOK' /\ PowerNotAhead /\ [Next]_vars => PowerNotAhead'
    BY PowerStep
  <1>4. Spec => []PowerNotAhead
    BY <1>2, <1>3, InitAbstract, PTL DEF Spec
  <1>5. CoreInv /\ NoTwoNics /\ NoTwoNics' /\ PowerNotAhead /\ [Next]_vars =>
           [Abstract!Next]_<<serving, copied>>
    <2>1. ASSUME UNCHANGED vars
          PROVE  UNCHANGED <<serving, copied>>
      BY <2>1 DEF vars, Serving, Live, Nic, Faithful
    <2>2. QED
      BY <2>1, AbstractStep
  <1>6. QED
    BY <1>2, <1>4, <1>5, InitAbstract, PTL DEF Spec, ImplementsCutover, Abstract!Spec

-----------------------------------------------------------------------------
(* The report of a run.                                                     *)

\* What a run reached is still there while the run is active, and a run that
\* failed did so for one of its required steps.
VmThere ==
    \A g \in Guests :
        (Active(g) /\ step[g]["create-vm"] = "succeeded") => latest.vm \in DOMAIN vms
NicAttached ==
    \A g \in Guests :
        (Active(g) /\ step[g]["attach-nic"] = "succeeded" /\ latest.vm \in DOMAIN vms) =>
            Nic(g) \in vms[latest.vm].devices
FailedForAReason ==
    \A g \in Guests : status[g] = "failed" => \E s \in Required : step[g][s] = "failed"

ReachInv == VmThere /\ NicAttached /\ FailedForAReason

\* A run that has created its VM keeps the id of it.
LEMMA KeepsItsVm ==
  ASSUME CoreInv, Next, NEW g \in Guests, Active(g), Active(g)',
         step[g]["create-vm"] = "succeeded"
  PROVE  latest'.vm = latest.vm /\ ~\E h \in Guests : Cleanup(h)
  <1>1. TypeOK
    BY DEF CoreInv, IndInv
  <1>2. ASSUME NEW h \in Guests, CreateVm(h) \/ Cleanup(h)
        PROVE  FALSE
    <2>1. Active(h)
      BY <1>2 DEF CreateVm, Cleanup, Ready, Active
    <2>2. h = g
      BY <2>1 DEF CoreInv, IndInv, OneAtATime
    <2>3. Cleanup(g)
      BY <1>2, <2>2 DEF CreateVm, Ready
    <2>4. status'[g] = "cleaned"
      BY <1>1, <2>3 DEF Cleanup, TypeOK
    <2>5. QED
      BY <2>4 DEF Active
  <1>3. QED
    BY <1>1, <1>2, LatestMoves

\* VMs go by a cleanup or by a deletion that comes late.
LEMMA VmGoes ==
  ASSUME TypeOK, Next, NEW i \in DOMAIN vms, i \notin DOMAIN vms'
  PROVE  (\E g \in Guests : Cleanup(g)) \/ (\E c \in inflight : c.op = "vm.delete")
  <1>1. ASSUME \/ \E g \in Guests : VmMade(g)
               \/ \E d \in Device, j \in DOMAIN vms : Attached(j, d)
               \/ \E j \in DOMAIN vms : Started(j)
               \/ vms' = vms
        PROVE  FALSE
    <2>1. ASSUME NEW g \in Guests, VmMade(g)
          PROVE  FALSE
      BY <2>1 DEF VmMade
    <2>2. ASSUME NEW d \in Device, NEW j \in DOMAIN vms, Attached(j, d)
          PROVE  FALSE
      BY <2>2, AttachedMoves
    <2>3. ASSUME NEW j \in DOMAIN vms, Started(j)
          PROVE  FALSE
      BY <2>3, StartedMoves
    <2>4. vms' # vms
      OBVIOUS
    <2>5. QED
      BY <1>1, <2>1, <2>2, <2>3, <2>4
  <1>2. ASSUME NEW g \in Guests, Engine(g), ~Cleanup(g)
        PROVE  FALSE
    <2>1. CASE CreateVm(g)
      BY <1>1, <2>1 DEF CreateVm
    <2>2. CASE AttachDisk(g)
      <3>1. latest.vm \in DOMAIN vms /\ latest.zvol \in Guests /\ Attached(latest.vm, Disk(latest.zvol))
        BY <2>2 DEF AttachDisk, TypeOK
      <3>2. QED
        BY <1>1, <3>1, DeviceTypes
    <2>3. CASE AttachNic(g)
      <3>1. latest.vm \in DOMAIN vms /\ latest.spec \in Guests /\ Attached(latest.vm, Nic(latest.spec))
        BY <2>3 DEF AttachNic, TypeOK
      <3>2. QED
        BY <1>1, <3>1, DeviceTypes
    <2>4. CASE StartTarget(g)
      BY <1>1, <2>4 DEF StartTarget
    <2>5. CASE ~(CreateVm(g) \/ AttachDisk(g) \/ AttachNic(g) \/ StartTarget(g))
      <3>1. vms' = vms
        BY <1>2, <2>5 DEF Engine, Succeeds, Fails, Inspect, CreateZvol, ShutdownSrc, StreamBegins,
             StreamEnds, Probe, StreamFails, StepFails, EndJob, CleanupFails, hosts
      <3>2. QED
        BY <1>1, <3>1
    <2>6. QED
      BY <2>1, <2>2, <2>3, <2>4, <2>5
  <1>3. ASSUME NEW c \in inflight, Lands(c), c.op # "vm.delete"
        PROVE  FALSE
    <2>1. c.arg \in Guests
      BY DEF TypeOK, Call
    <2>2. Disk(c.arg) \in Device /\ Nic(c.arg) \in Device
      BY <2>1, DeviceTypes
    <2>3. \/ VmMade(c.arg)
          \/ c.vm \in DOMAIN vms /\ (Attached(c.vm, Disk(c.arg)) \/ Attached(c.vm, Nic(c.arg)))
          \/ c.vm \in DOMAIN vms /\ Started(c.vm)
          \/ vms' = vms
      BY <1>3 DEF Lands, hosts
    <2>4. QED
      BY <1>1, <2>1, <2>2, <2>3
  <1>4. ASSUME NEW j \in DOMAIN vms, PowersOff(j)
        PROVE  FALSE
    BY <1>4 DEF PowersOff
  <1>5. ASSUME Environment, ~(\E c \in inflight : Lands(c)), ~(\E j \in DOMAIN vms : PowersOff(j))
        PROVE  FALSE
    <2>1. vms' = vms
      BY <1>5 DEF Environment, Begin, Crash, Rollback, StrayWrites, StrayEnds, hosts
    <2>2. QED
      BY <1>1, <2>1
  <1>6. CASE Environment
    BY <1>3, <1>4, <1>5, <1>6
  <1>7. QED
    BY <1>2, <1>6 DEF Next

LEMMA ReachStep ==
  ASSUME Quiet, CoreInv, ReachInv, Next
  PROVE  ReachInv'
  <1>1. TypeOK /\ {"create-vm", "attach-nic", "attach-disk"} \subseteq Steps
    BY DEF CoreInv, IndInv, Steps
  <1>2. VmThere'
    <2> SUFFICES ASSUME NEW g \in Guests, Active(g)', step'[g]["create-vm"] = "succeeded"
                 PROVE  latest'.vm \in DOMAIN vms'
      BY DEF VmThere
    <2>1. CASE CreateVm(g)
      BY <1>1, <2>1 DEF CreateVm, VmRecorded, VmMade, Named, TypeOK
    <2>2. CASE ~CreateVm(g)
      <3>1. Active(g) /\ step[g]["create-vm"] = "succeeded"
        BY <1>1, <2>2, NewlySucceeded
      <3>2. latest'.vm = latest.vm /\ ~\E h \in Guests : Cleanup(h)
        BY <3>1, KeepsItsVm
      <3>3. latest.vm \in DOMAIN vms
        BY <3>1 DEF ReachInv, VmThere
      <3>4. QED
        BY <1>1, <3>2, <3>3, VmGoes DEF CoreInv, CopyInv, Calm
    <2>3. QED
      BY <2>1, <2>2
  <1>3. NicAttached'
    <2> SUFFICES ASSUME NEW g \in Guests, Active(g)', step'[g]["attach-nic"] = "succeeded",
                        latest'.vm \in DOMAIN vms'
                 PROVE  Nic(g) \in vms'[latest'.vm].devices
      BY DEF NicAttached, Nic
    <2>1. CASE AttachNic(g)
      <3>1. latest.spec = g
        BY <1>1, <2>1, AttachNicAtHome DEF AttachNic, CoreInv, IndInv, RunInv
      <3>2. latest' = latest /\ latest.vm \in DOMAIN vms /\ Attached(latest.vm, Nic(g))
        BY <2>1, <3>1 DEF AttachNic
      <3>3. QED
        BY <1>1, <3>2, AttachedMoves, DeviceTypes
    <2>2. CASE ~AttachNic(g)
      <3>1. Active(g) /\ step[g]["attach-nic"] = "succeeded"
        BY <1>1, <2>2, NewlySucceeded
      <3>2. step[g]["create-vm"] = "succeeded"
        BY <1>1, <3>1, ChainFromVm DEF CoreInv, IndInv, StepsInOrder
      <3>3. latest'.vm = latest.vm /\ latest.vm \in DOMAIN vms
        BY <3>1, <3>2, KeepsItsVm DEF ReachInv, VmThere
      <3>4. Nic(g) \in vms[latest.vm].devices
        BY <3>1, <3>3 DEF ReachInv, NicAttached
      <3>5. QED
        BY <1>1, <3>3, <3>4, DevicesStay
    <2>3. QED
      BY <2>1, <2>2
  <1>4. FailedForAReason'
    <2> SUFFICES ASSUME NEW g \in Guests, status'[g] = "failed"
                 PROVE  \E s \in Required : step'[g][s] = "failed"
      BY DEF FailedForAReason
    <2>1. CASE status[g] = "failed"
      <3>1. PICK s \in Required : step[g][s] = "failed"
        BY <2>1 DEF ReachInv, FailedForAReason
      <3>2. s \in Steps /\ ~Begin(g)
        BY <2>1 DEF Required, Steps, Begin
      <3>3. QED
        BY <1>1, <2>1, <3>1, <3>2, StepMoves
    <2>2. CASE status[g] # "failed"
      <3>1. EndJob(g)
        BY <1>1, <2>2, ActiveMoves
      <3>2. QED
        BY <1>1, <3>1 DEF EndJob, TypeOK
    <2>3. QED
      BY <2>1, <2>2
  <1>5. QED
    BY <1>2, <1>3, <1>4 DEF ReachInv

LEMMA ReachInvariant ==
  ASSUME Quiet
  PROVE  Spec => []ReachInv
  <1>1. Init => ReachInv
    BY DEF Init, ReachInv, VmThere, NicAttached, FailedForAReason, Active
  <1>2. CoreInv /\ ReachInv /\ [Next]_vars => ReachInv'
    <2>1. ASSUME ReachInv, UNCHANGED vars
          PROVE  ReachInv'
      BY <2>1 DEF vars, ReachInv, VmThere, NicAttached, FailedForAReason, Active, Nic
    <2>2. QED
      BY <2>1, ReachStep
  <1>3. QED
    BY <1>1, <1>2, CoreInvariant, PTL DEF Spec

\* A target is only probed after every required step succeeded.
LEMMA ReachedAfterAll ==
  ASSUME NEW g \in Guests, StepsInOrder, step[g]["verify-reach"] = "succeeded"
  PROVE  /\ \A s \in Required : step[g][s] = "succeeded"
         /\ Required \subseteq Steps
  <1>1. ASSUME NEW s \in Steps, NEW t, <<s, t>> \in Needs, step[g][s] = "succeeded"
        PROVE  step[g][t] = "succeeded"
    BY <1>1 DEF StepsInOrder, DependenciesMet
  <1>2. <<"verify-reach", "start-target">> \in Needs /\ <<"start-target", "attach-disk">> \in Needs
        /\ <<"start-target", "attach-nic">> \in Needs /\ {"verify-reach", "start-target"} \subseteq Steps
    BY DEF Needs, CutoverNeeds, Steps
  <1>3. step[g]["start-target"] = "succeeded" /\ step[g]["attach-disk"] = "succeeded"
        /\ step[g]["attach-nic"] = "succeeded"
    BY <1>1, <1>2
  <1>4. step[g]["create-vm"] = "succeeded" /\ step[g]["stream-disk"] = "succeeded"
        /\ step[g]["shutdown-src"] = "succeeded"
    BY <1>1, <1>3, Edges DEF Steps
  <1>5. step[g]["approve-shutdown"] = "succeeded" /\ step[g]["create-zvol"] = "succeeded"
        /\ step[g]["inspect"] = "succeeded"
    BY <1>1, <1>4, Edges DEF Steps
  <1>6. QED
    BY <1>3, <1>4, <1>5 DEF Required, Steps

\* The collected records are those of steps that succeeded.
LEMMA CleanMeansReached ==
  ASSUME NEW g \in Guests, Clean(renderMigrationSummary(Collected(g)))
  PROVE  step[g]["verify-reach"] = "succeeded"
  <1> DEFINE c == Collected(g)
  <1>1. reachable(c) = "yes"
    BY DEF Clean, renderMigrationSummary
  <1>2. "verify-reach" \in DOMAIN c
    BY <1>1 DEF reachable
  <1>3. QED
    BY <1>2 DEF Collected

LEMMA CleanEnd ==
  ASSUME CoreInv, ReachInv, ReportNext, NEW g \in Guests, Ends(g), Clean(report'[g])
  PROVE  \E i \in DOMAIN vms' :
            /\ vms'[i].name = g /\ {Nic(g), Disk(g)} \subseteq vms'[i].devices
            /\ Faithful(g, g)'
  <1>1. TypeOK /\ Next /\ Reported
    BY DEF CoreInv, IndInv, ReportNext
  <1>2. EndJob(g) \/ Cleanup(g) \/ CleanupFails(g)
    BY <1>1, ActiveMoves DEF Ends, Ended
  <1>3. runs' = runs /\ Active(g)
    BY <1>2 DEF EndJob, Cleanup, CleanupFails, Active
  <1>4. report'[g] = renderMigrationSummary(Collected(g))
    BY <1>1, <1>3 DEF Reported, Starts
  <1>5. step[g]["verify-reach"] = "succeeded"
    BY <1>4, CleanMeansReached
  <1>6. \A s \in Required : step[g][s] = "succeeded"
    BY <1>5, ReachedAfterAll DEF CoreInv, IndInv
  <1>7. status[g] # "failed"
    BY <1>6 DEF ReachInv, FailedForAReason
  <1>8. vms' = vms /\ zvols' = zvols /\ source' = source
    BY <1>2, <1>7 DEF EndJob, Cleanup, CleanupFails, hosts
  <1>9. step[g]["create-vm"] = "succeeded" /\ step[g]["attach-disk"] = "succeeded"
        /\ step[g]["attach-nic"] = "succeeded" /\ step[g]["stream-disk"] = "succeeded"
    BY <1>6 DEF Required
  <1>10. latest.vm \in DOMAIN vms /\ Nic(g) \in vms[latest.vm].devices
    BY <1>3, <1>9 DEF ReachInv, VmThere, NicAttached
  <1>11. vms[latest.vm].name = g /\ Disk(g) \in vms[latest.vm].devices /\ Faithful(g, g)
    BY <1>3, <1>9, <1>10 DEF CoreInv, CopyInv, DiskAttached, CopyKept
  <1>12. Faithful(g, g)'
    BY <1>8, <1>11 DEF Faithful
  <1>13. QED
    BY <1>8, <1>10, <1>11, <1>12

\* A report is made when a run ends and dropped when the next one starts.
LEMMA ReportTypeStep ==
  ASSUME TypeOK, ReportTypeOK, ReportNext
  PROVE  ReportTypeOK'
  <1> SUFFICES ASSUME NEW g \in Guests
               PROVE  /\ DOMAIN written'[g] \subseteq Recording
                      /\ report'[g] # Null => status'[g] \in Ended
    BY DEF ReportTypeOK
  <1>1. PICK polled \in BOOLEAN : Recorded(polled)
    BY DEF ReportNext
  <1>2. Writes(g, polled) \subseteq Recording /\ DOMAIN NoRecords = {}
    BY DEF Writes, Recording, NoRecords
  <1>3. DOMAIN written'[g] \subseteq DOMAIN written[g] \cup Writes(g, polled)
    BY <1>1, <1>2 DEF Recorded
  <1>4. ASSUME report'[g] # Null
        PROVE  status'[g] \in Ended
    <2>1. ~Starts(g) /\ (Ends(g) \/ report'[g] = report[g])
      BY <1>4 DEF ReportNext, Reported
    <2>2. ASSUME status[g] \in Ended
          PROVE  status'[g] = status[g]
      <3>1. ~Begin(g)
        BY <2>1 DEF Begin, Starts, TypeOK
      <3>2. QED
        BY <2>2, <3>1, ActiveMoves DEF ReportNext, EndJob, Cleanup, CleanupFails, Crash, Active, Ended
    <2>3. QED
      BY <1>4, <2>1, <2>2 DEF Ends, ReportTypeOK
  <1>5. QED
    BY <1>2, <1>3, <1>4 DEF ReportTypeOK

\* workflows/migrate-vm, the report: one that finds nothing wrong is of a migration
\* that is complete, whatever runs came before it and whatever lands late.
THEOREM CleanReportsAreTrue ==
  ASSUME Faults \subseteq {"late", "handmade"}
  PROVE  ReportSpec => CleanReportTrue
  <1>1. ReportSpec => Spec
    <2>1. ReportInit => Init
      BY DEF ReportInit
    <2>2. [ReportNext]_reportVars => [Next]_vars
      BY DEF ReportNext, reportVars
    <2>3. QED
      BY <2>1, <2>2, PTL DEF ReportSpec, Spec
  <1>2. Spec => []TypeOK /\ []CoreInv /\ []ReachInv
    BY TypeCorrect, CoreInvariant, ReachInvariant, PTL DEF Quiet
  <1>3. ReportInit => ReportTypeOK
    BY DEF ReportInit, ReportTypeOK, NoRecords
  <1>4. TypeOK /\ ReportTypeOK /\ [ReportNext]_reportVars => ReportTypeOK'
    <2>1. ASSUME ReportTypeOK, UNCHANGED reportVars
          PROVE  ReportTypeOK'
      BY <2>1 DEF reportVars, vars, ReportTypeOK
    <2>2. QED
      BY <2>1, ReportTypeStep
  <1>5. CoreInv /\ ReachInv /\ [ReportNext]_reportVars =>
           [\A g \in Guests :
              (Ends(g) /\ Clean(report'[g])) =>
                 \E i \in DOMAIN vms' :
                    /\ vms'[i].name = g /\ {Nic(g), Disk(g)} \subseteq vms'[i].devices
                    /\ Faithful(g, g)']_reportVars
    BY CleanEnd
  <1>6. QED
    BY <1>1, <1>2, <1>3, <1>4, <1>5, PTL DEF ReportSpec, CleanReportTrue
=============================================================================
