------------------------------ MODULE TruenasVm ------------------------------
(***************************************************************************)
(* The provisioning methods of truenas/vm, call by call: what each asks    *)
(* the TrueNAS middleware, what it decides from the answer, what it then   *)
(* writes, and the vm_instance it stores.  Sessions are the subject of     *)
(* module TruenasRpc; here a call succeeds, is refused, or is given up on. *)
(*                                                                         *)
(* The middleware is external.  What else may happen is fixed by faults,   *)
(* one of FaultCases:                                                      *)
(*   "overlap"   methods of several callers run at the same time           *)
(*   "lost"      a write is carried out but its answer is lost             *)
(*   "late"      a write is carried out after its sender gave up           *)
(*   "handmade"  there is a VM with a disk that swamp did not make         *)
(***************************************************************************)
EXTENDS Naturals, FiniteSets

CONSTANTS
    Zvols, Names, Macs,
    Sizes,      \* of zvols; 0 stands for a zvol that does not exist
    Unsized,    \* for a dataset of the zvol's name of which the middleware tells
                \* no volsize: a file system, or a volume whose size it leaves out
    Callers,
    FaultCases,
    MaxCalls,   \* bound per case: methods begun
    MaxIds      \* bound: ids the middleware hands out

ASSUME SizesAssumption == Sizes \subseteq Nat \ {0} /\ Unsized \notin Nat
ASSUME FaultsAssumption == \A f \in FaultCases : f \subseteq {"overlap", "lost", "late", "handmade"}
ASSUME BoundsAssumption == MaxCalls \in [FaultCases -> Nat] /\ MaxIds \in Nat \ {0, 1}

VARIABLES
    faults,     \* what may happen in this behaviour
    zvols,      \* the size of each zvol, as far as it can be read
    vms,        \* the VMs, by id
    devices,    \* [id, vm, ref]: a DISK on a zvol or a NIC with a MAC
    lastId,
    late,       \* writes whose sender gave up: <<caller, call, write, its request>>
    pc, req,    \* per caller: where its method is, and its arguments
    found,      \* the VM record it got
    instances,  \* the latest vm_instance of each name
    calls

middleware == <<zvols, vms, devices, lastId, late>>
vars == <<faults, middleware, pc, req, found, instances, calls>>

Ids == 1 .. lastId
Refs == Zvols \cup Macs

\* The arguments of the methods; delete refers to a VM by name, start by id.
NoCall == [op |-> "none"]
Requests ==
    [op : {"create_zvol"}, zvol : Zvols, size : Sizes]
      \cup [op : {"create_vm"}, name : Names]
      \cup [op : {"attach"}, vm : Ids, ref : Refs]
      \cup [op : {"start", "stop", "status"}, vm : Ids]
      \cup [op : {"delete"}, name : Names, force : BOOLEAN, deleteZvol : BOOLEAN, zvol : Zvols]

Vm(n, managed) == [name |-> n, managed |-> managed, on |-> FALSE]
Found(v) == [id |-> v, name |-> vms[v].name, on |-> vms[v].on]
NotFound == [id |-> 0, name |-> "none", on |-> FALSE]
Device(i, v, ref) == [id |-> i, vm |-> v, ref |-> ref]

Named(n) == {v \in DOMAIN vms : vms[v].name = n}
DevicesOf(v) == {d \in devices : d.vm = v}

\* The hosts before the first method: empty, or with a hand-made VM whose disk may
\* be of a size that cannot be read.
Init ==
    /\ faults \in FaultCases
    /\ \/ /\ zvols = [z \in Zvols |-> 0]
          /\ vms = [v \in {} |-> Vm("none", FALSE)] /\ devices = {} /\ lastId = 0
       \/ /\ "handmade" \in faults
          /\ \E z \in Zvols, n \in Names, s \in Sizes \cup {Unsized} :
                /\ zvols = [y \in Zvols |-> IF y = z THEN s ELSE 0]
                /\ vms = [v \in {1} |-> Vm(n, FALSE)]
                /\ devices = {Device(2, 1, z)}
          /\ lastId = 2
    /\ late = {}
    /\ pc = [c \in Callers |-> "idle"]
    /\ req = [c \in Callers |-> NoCall]
    /\ found = [c \in Callers |-> NotFound]
    /\ instances = [n \in Names |-> [id |-> 0, status |-> "none"]]
    /\ calls = 0

-----------------------------------------------------------------------------
(* The middleware: what a write requires, and what it does.                *)

\* A zvol that a running VM has open.
Open(z) == \E d \in devices : d.ref = z /\ vms[d.vm].on

Requires(w) ==
    CASE w.call = "pool.dataset.create" -> zvols[w.zvol] = 0
      [] w.call = "pool.dataset.delete" -> zvols[w.zvol] # 0 /\ ~Open(w.zvol)
      [] w.call = "vm.create"           -> Named(w.name) = {} /\ lastId < MaxIds
      [] w.call = "vm.device.create"    -> /\ w.vm \in DOMAIN vms /\ lastId < MaxIds
                                           /\ w.ref \in Zvols => zvols[w.ref] # 0
      [] w.call = "vm.start"            -> w.vm \in DOMAIN vms /\ ~vms[w.vm].on
      [] OTHER                          -> w.vm \in DOMAIN vms

\* vm.delete takes the zvols of the VM's disks along if asked to.
Taken(w) == {z \in Zvols : w.zvols /\ \E d \in DevicesOf(w.vm) : d.ref = z}

SetZvols(S, size) == zvols' = [z \in Zvols |-> IF z \in S THEN size ELSE zvols[z]]
SetOn(v, on) == vms' = [vms EXCEPT ![v].on = on]

Effect(w) ==
    \/ /\ w.call = "pool.dataset.create"
       /\ SetZvols({w.zvol}, w.size) /\ UNCHANGED <<vms, devices, lastId>>
    \/ /\ w.call = "pool.dataset.delete"
       /\ SetZvols({w.zvol}, 0) /\ UNCHANGED <<vms, devices, lastId>>
    \/ /\ w.call = "vm.create"
       /\ lastId' = lastId + 1
       /\ vms' = [v \in DOMAIN vms \cup {lastId'} |->
                    IF v = lastId' THEN Vm(w.name, w.managed) ELSE vms[v]]
       /\ UNCHANGED <<zvols, devices>>
    \/ /\ w.call = "vm.device.create"
       /\ lastId' = lastId + 1
       /\ devices' = devices \cup {Device(lastId', w.vm, w.ref)}
       /\ UNCHANGED <<zvols, vms>>
    \/ /\ w.call = "vm.start"
       /\ SetOn(w.vm, TRUE) /\ UNCHANGED <<zvols, devices, lastId>>
    \/ /\ w.call = "vm.stop"
       /\ \E on \in {FALSE, vms[w.vm].on} : SetOn(w.vm, on)
       /\ UNCHANGED <<zvols, devices, lastId>>
    \/ /\ w.call = "vm.delete"
       /\ vms' = [v \in DOMAIN vms \ {w.vm} |-> vms[v]]
       /\ devices' = devices \ DevicesOf(w.vm)
       /\ SetZvols(Taken(w), 0) /\ UNCHANGED lastId

-----------------------------------------------------------------------------
(* The methods.                                                            *)

Goto(c, where) == pc' = [pc EXCEPT ![c] = where]

Begin(c) ==
    /\ pc[c] = "idle" /\ calls < MaxCalls[faults]
    /\ "overlap" \in faults \/ \A d \in Callers : pc[d] = "idle"
    /\ \E r \in Requests : req' = [req EXCEPT ![c] = r]
    /\ calls' = calls + 1
    /\ Goto(c, "query")
    /\ UNCHANGED <<middleware, found, instances>>

\* Leaves the method, by return or by an error.
Leaves(c) ==
    /\ Goto(c, "idle")
    /\ req' = [req EXCEPT ![c] = NoCall]
    /\ found' = [found EXCEPT ![c] = NotFound]
    /\ UNCHANGED <<instances, calls>>

Resolves(c, record, where) ==
    /\ found' = [found EXCEPT ![c] = record]
    /\ Goto(c, where)
    /\ UNCHANGED <<middleware, req, instances, calls>>

\* Only a size that can be read and is smaller is refused.
\* Mutant: a smaller zvol is good enough.
NeverSmaller(z, size) == FALSE
Smaller(z, size) == zvols[z] # Unsized /\ zvols[z] < size

QueryZvol(c) ==
    /\ pc[c] = "query" /\ req[c].op = "create_zvol"
    /\ LET z == req[c].zvol
           small == Smaller(z, req[c].size)
       IN  \/ zvols[z] = 0 /\ Resolves(c, NotFound, "write")
           \/ zvols[z] # 0 /\ ~small /\ Resolves(c, NotFound, "return")
           \/ zvols[z] # 0 /\ small /\ Leaves(c) /\ UNCHANGED middleware

QueryVmName(c) ==
    /\ pc[c] = "query" /\ req[c].op = "create_vm"
    /\ \/ \E v \in Named(req[c].name) : Resolves(c, Found(v), "store")
       \/ Named(req[c].name) = {} /\ Resolves(c, NotFound, "write")

\* Mutant: never finds the device.
NeverAttached(v, ref) == FALSE
Attached(v, ref) == \E d \in DevicesOf(v) : d.ref = ref

QueryDevices(c) ==
    /\ pc[c] = "query" /\ req[c].op = "attach"
    /\ LET where == IF Attached(req[c].vm, req[c].ref) THEN "return" ELSE "write"
       IN  Resolves(c, NotFound, where)

\* start, stop and status throw if there is no such VM.
QueryVmId(c) ==
    /\ pc[c] = "query" /\ req[c].op \in {"start", "stop", "status"}
    /\ IF req[c].vm \in DOMAIN vms
       THEN Resolves(c, Found(req[c].vm), IF req[c].op = "status" THEN "store" ELSE "write")
       ELSE Leaves(c) /\ UNCHANGED middleware

\* Mutant: the marker is not looked at.
Anything(c, v) == TRUE
MayDelete(c, v) == req[c].force \/ vms[v].managed

QueryDelete(c) ==
    /\ pc[c] = "query" /\ req[c].op = "delete"
    /\ LET n == req[c].name
       IN  \/ \E v \in Named(n) : MayDelete(c, v) /\ Resolves(c, Found(v), "write")
           \/ /\ \E v \in Named(n) : ~MayDelete(c, v)
              /\ Leaves(c) /\ UNCHANGED middleware
           \/ Named(n) = {} /\ Resolves(c, NotFound, "dangling")

Query(c) ==
    QueryZvol(c) \/ QueryVmName(c) \/ QueryDevices(c) \/ QueryVmId(c) \/ QueryDelete(c)

\* The write a method sends; every VM it makes carries the marker.
MethodWrite(c) ==
    LET r == req[c]
    IN  CASE r.op = "create_zvol" -> [call |-> "pool.dataset.create", zvol |-> r.zvol, size |-> r.size]
          [] r.op = "create_vm"   -> [call |-> "vm.create", name |-> r.name, managed |-> TRUE]
          [] r.op = "attach"      -> [call |-> "vm.device.create", vm |-> r.vm, ref |-> r.ref]
          [] r.op = "start"       -> [call |-> "vm.start", vm |-> found[c].id]
          [] r.op = "stop"        -> [call |-> "vm.stop", vm |-> found[c].id]
          [] r.op = "delete"      -> [call |-> "vm.delete", vm |-> found[c].id, zvols |-> r.deleteZvol]
DanglingWrite(c) == [call |-> "pool.dataset.delete", zvol |-> req[c].zvol]

AfterWrite(op) ==
    IF op \in {"create_vm", "start", "stop", "delete"} THEN "store" ELSE "return"

Write(c) ==
    /\ pc[c] = "write"
    /\ LET w == MethodWrite(c)
       IN  Requires(w) /\ Effect(w)
    /\ Goto(c, AfterWrite(req[c].op))
    /\ found' = IF req[c].op = "create_vm"
                THEN [found EXCEPT ![c] = [id |-> lastId', name |-> req[c].name, on |-> FALSE]]
                ELSE found
    /\ UNCHANGED <<late, req, instances, calls>>

\* vm.start of a VM that runs is refused, and so is a call about what is gone.
Refused(c) == pc[c] = "write" /\ ~Requires(MethodWrite(c))
ReadFails(c) == pc[c] = "query" \/ (pc[c] = "store" /\ req[c].op \in {"start", "stop"})
Fails(c) ==
    /\ Refused(c) \/ ReadFails(c)
    /\ Leaves(c) /\ UNCHANGED middleware

\* The client gives up on a write that is carried out later.
Abandons(c, w) ==
    /\ "late" \in faults
    /\ late' = late \cup {<<c, calls, w, req[c]>>}
    /\ UNCHANGED <<zvols, vms, devices, lastId>>

\* delete removes a dangling zvol by path; it only logs that it could not.
Dangling(c) ==
    /\ pc[c] = "dangling"
    /\ \/ /\ req[c].deleteZvol /\ Requires(DanglingWrite(c)) /\ Effect(DanglingWrite(c))
          /\ UNCHANGED late
       \/ UNCHANGED middleware
       \/ /\ req[c].deleteZvol /\ Abandons(c, DanglingWrite(c))
    /\ Goto(c, "return")
    /\ UNCHANGED <<req, found, instances, calls>>

Rethrows(c) == Leaves(c)

\* The client gives up on a write that was carried out, or will be.
GivenUp(c) ==
    /\ pc[c] = "write"
    /\ \/ /\ "lost" \in faults
          /\ Requires(MethodWrite(c)) /\ Effect(MethodWrite(c)) /\ UNCHANGED late
       \/ Abandons(c, MethodWrite(c))
    /\ Rethrows(c)

\* start and stop read the VM again, and fall back on what they read before.
Reread(c) ==
    IF req[c].op \in {"start", "stop"} /\ found[c].id \in DOMAIN vms
    THEN Found(found[c].id) ELSE found[c]
Status(record) == IF record.on THEN "running" ELSE "stopped"

Store(c) ==
    /\ pc[c] = "store"
    /\ LET record == Reread(c)
           deleted == req[c].op = "delete"
       IN  /\ instances' = [instances EXCEPT ![record.name] =
                  [id |-> record.id, status |-> IF deleted THEN "deleted" ELSE Status(record)]]
           /\ Goto(c, IF deleted THEN "dangling" ELSE "return")
    /\ UNCHANGED <<middleware, req, found, calls>>

Returns(c) == pc[c] = "return" /\ Leaves(c) /\ UNCHANGED middleware

-----------------------------------------------------------------------------
PowersOff(v) ==
    /\ vms[v].on /\ SetOn(v, FALSE)
    /\ UNCHANGED <<zvols, devices, lastId, late, pc, req, found, instances, calls>>

LateLands(l) ==
    /\ late' = late \ {l}
    /\ IF Requires(l[3]) THEN Effect(l[3]) ELSE UNCHANGED <<zvols, vms, devices, lastId>>
    /\ UNCHANGED <<pc, req, found, instances, calls>>

Method(c) ==
    \/ Begin(c) \/ Query(c) \/ Write(c) \/ Fails(c) \/ GivenUp(c) \/ Store(c)
    \/ Dangling(c) \/ Returns(c)

Moves ==
    \/ \E c \in Callers : Method(c)
    \/ \E v \in DOMAIN vms : PowersOff(v)
    \/ \E l \in late : LateLands(l)

Next == Moves /\ UNCHANGED faults

Spec == Init /\ [][Next]_vars

-----------------------------------------------------------------------------
TypeOK ==
    /\ zvols \in [Zvols -> Sizes \cup {0, Unsized}]
    /\ DOMAIN vms \subseteq Ids
    /\ vms \in [DOMAIN vms -> [name : Names, managed : BOOLEAN, on : BOOLEAN]]
    /\ devices \subseteq [id : Ids, vm : DOMAIN vms, ref : Refs]
    /\ lastId \in 0 .. MaxIds
    /\ pc \in [Callers -> {"idle", "query", "write", "store", "dangling", "return"}]
    /\ req \in [Callers -> Requests \cup {NoCall}]
    /\ found \in [Callers -> {NotFound} \cup [id : Ids, name : Names, on : BOOLEAN]]
    /\ instances \in [Names -> [id : {0} \cup Ids,
                                status : {"none", "running", "stopped", "deleted"}]]
    /\ calls \in 0 .. MaxCalls[faults]

\* One method at a time, whose calls take effect before it is told so.
Serial == faults \cap {"overlap", "late"} = {}

\* A VM never has the same disk or MAC twice, whatever methods are repeated
\* after a failure or a lost answer ("idempotent on the MAC").
NoTwins ==
    Serial => \A d \in devices, e \in devices : d.vm = e.vm /\ d.ref = e.ref => d = e

\* A method that returns has done what it says, or found it done; but a create_zvol
\* that finds a dataset of that name whose size it cannot read takes it for large
\* enough.
Done(r) ==
    CASE r.op = "create_zvol" -> /\ zvols[r.zvol] # 0
                                 /\ zvols[r.zvol] # Unsized => zvols[r.zvol] >= r.size
      [] r.op = "create_vm"   -> Named(r.name) # {}
      [] r.op = "attach"      -> Attached(r.vm, r.ref)
      [] r.op = "delete"      -> Named(r.name) = {}
      [] OTHER                -> r.vm \in DOMAIN vms

\* What is stored of a VM names it, and never says stopped of one that runs: start
\* and stop look again after their call.  (The other way round a guest may have
\* powered off since.)
Recorded(v) ==
    LET i == instances[vms[v].name]
    IN  /\ i.id = v /\ i.status \in {"running", "stopped"}
        /\ vms[v].on => i.status = "running"
Looks == {"start", "stop", "status"}

ReturnsWhenDone ==
    Serial => \A c \in Callers :
        pc[c] = "return" =>
            /\ Done(req[c])
            /\ req[c].op \in Looks => Recorded(req[c].vm)
AnswersTrue == TypeOK /\ ReturnsWhenDone

\* A VM without the marker is removed only by a forced delete (vm.ts, "refuses
\* to remove a VM that lacks the marker unless `force` is set").
Forced(v) ==
    \/ \E c \in Callers : found[c].id = v /\ req[c].op = "delete" /\ req[c].force
    \/ \E l \in late : l[3].call = "vm.delete" /\ l[3].vm = v /\ l[4].force
SparesUnmanaged ==
    [][\A v \in DOMAIN vms : (v \notin DOMAIN vms' /\ ~vms[v].managed) =>
          Forced(v)]_vars
=============================================================================
