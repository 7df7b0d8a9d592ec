--------------------------- MODULE TruenasVmProofs ---------------------------
(***************************************************************************)
(* Proofs about the VM methods, for any hosts, callers and bounds: the     *)
(* type invariant, that methods taken in turn attach nothing twice and     *)
(* return when what they say is so, and that a VM without the marker is    *)
(* removed only by force, whatever overlaps or comes late.                 *)
(***************************************************************************)
EXTENDS TruenasVm, TLAPS

-----------------------------------------------------------------------------
(* The inductive invariant.                                                *)

\* A write of one of the methods.
Sendable(w) ==
    \/ \E z \in Zvols, s \in Sizes : w = [call |-> "pool.dataset.create", zvol |-> z, size |-> s]
    \/ \E z \in Zvols : w = [call |-> "pool.dataset.delete", zvol |-> z]
    \/ \E n \in Names : w = [call |-> "vm.create", name |-> n, managed |-> TRUE]
    \/ \E v \in 0 .. lastId, ref \in Refs : w = [call |-> "vm.device.create", vm |-> v, ref |-> ref]
    \/ \E v \in 0 .. lastId : w = [call |-> "vm.start", vm |-> v]
    \/ \E v \in 0 .. lastId : w = [call |-> "vm.stop", vm |-> v]
    \/ \E v \in 0 .. lastId, z \in BOOLEAN : w = [call |-> "vm.delete", vm |-> v, zvols |-> z]

\* A VM that is to be deleted bears the marker, or is deleted by force.
Entitled(v, force) == force \/ (v \in DOMAIN vms => vms[v].managed)

\* What a caller is about to do.
Due(c) ==
    /\ pc[c] = "idle" <=> req[c] = NoCall
    /\ pc[c] = "dangling" => req[c].op = "delete"
    /\ pc[c] = "write" => req[c].op # "status"
    /\ pc[c] = "store" \/ (pc[c] = "write" /\ req[c].op \in {"start", "stop", "delete"}) =>
          found[c] # NotFound
    /\ (pc[c] = "write" /\ req[c].op = "delete") => Entitled(found[c].id, req[c].force)

\* What may still be carried out for one that gave up.
LateDue(l) ==
    /\ Sendable(l[3])
    /\ l[3].call = "vm.delete" => Entitled(l[3].vm, l[4].force)

Pending ==
    /\ faults \in FaultCases
    /\ \A c \in Callers : Due(c)
    /\ \A l \in late : LateDue(l)

Single(D) == \A d \in D, e \in D : d.vm = e.vm /\ d.ref = e.ref => d = e
UniqueNames == \A u, v \in DOMAIN vms : vms[u].name = vms[v].name => u = v

\* What a method knows of the VM it is about to store.
Looked(c) ==
    /\ found[c].id = req[c].vm
    /\ req[c].op = "status" => /\ found[c].name = vms[req[c].vm].name
                               /\ vms[req[c].vm].on => found[c].on

\* What a method that has done its part relies on until it returns.
Reached(c) ==
    /\ (pc[c] = "write" /\ req[c].op = "attach") => ~Attached(req[c].vm, req[c].ref)
    /\ (pc[c] = "write" /\ req[c].op = "delete") => found[c].id \in Named(req[c].name)
    /\ (pc[c] = "write" /\ req[c].op \in {"start", "stop"}) => found[c].id = req[c].vm
    /\ pc[c] \in {"store", "dangling", "return"} => Done(req[c])
    /\ (pc[c] = "store" /\ req[c].op \in Looks) => Looked(c)
    /\ (pc[c] = "return" /\ req[c].op \in Looks) => Recorded(req[c].vm)

InTurn ==
    Serial =>
        /\ late = {}
        /\ \A c, d \in Callers : pc[c] # "idle" /\ pc[d] # "idle" => c = d
        /\ Single(devices)
        /\ \A c \in Callers : Reached(c)

Inv == TypeOK /\ Pending /\ UniqueNames /\ InTurn

-----------------------------------------------------------------------------
(* The two sides of the type invariant.                                    *)

HostOK ==
    /\ zvols \in [Zvols -> Sizes \cup {0, Unsized}]
    /\ DOMAIN vms \subseteq Ids
    /\ vms \in [DOMAIN vms -> [name : Names, managed : BOOLEAN, on : BOOLEAN]]
    /\ devices \subseteq [id : Ids, vm : DOMAIN vms, ref : Refs]
    /\ lastId \in 0 .. MaxIds

MethodsOK ==
    /\ pc \in [Callers -> {"idle", "query", "write", "store", "dangling", "return"}]
    /\ req \in [Callers -> Requests \cup {NoCall}]
    /\ found \in [Callers -> {NotFound} \cup [id : Ids, name : Names, on : BOOLEAN]]
    /\ instances \in [Names -> [id : {0} \cup Ids,
                                status : {"none", "running", "stopped", "deleted"}]]
    /\ calls \in 0 .. MaxCalls[faults]

LEMMA TypeParts == (TypeOK <=> HostOK /\ MethodsOK) /\ (TypeOK' <=> HostOK' /\ MethodsOK')
BY DEF TypeOK, HostOK, MethodsOK

\* No VM that was there comes back as another.
Kept ==
    /\ lastId <= lastId'
    /\ \A v \in DOMAIN vms' : v <= lastId =>
          v \in DOMAIN vms /\ vms'[v].managed = vms[v].managed

LEMMA IdsGrow ==
    ASSUME HostOK, lastId' \in Nat, lastId <= lastId'
    PROVE  Ids \subseteq Ids' /\ Requests \subseteq Requests'
<1>1. lastId \in Nat
    BY DEF HostOK
<1>2. \A i \in Ids : i \in Ids'
    BY <1>1 DEF Ids
<1> QED BY <1>2 DEF Requests

-----------------------------------------------------------------------------
(* The middleware.                                                         *)

LEMMA ZvolsSet ==
    ASSUME HostOK, NEW S, NEW size \in Sizes \cup {0}, SetZvols(S, size)
    PROVE  zvols' \in [Zvols -> Sizes \cup {0, Unsized}]
BY DEF HostOK, SetZvols

\* A write of a method keeps the host well formed; it removes a VM only if it says so.
LEMMA EffectKeepsHost ==
    ASSUME HostOK, UniqueNames, NEW w, Sendable(w), Requires(w), Effect(w)
    PROVE  /\ HostOK' /\ UniqueNames' /\ Kept
           /\ \A v \in DOMAIN vms : v \notin DOMAIN vms' => w.call = "vm.delete" /\ w.vm = v
<1> USE DEF Kept
<1>0. lastId \in Nat /\ MaxIds \in Nat
    BY BoundsAssumption DEF HostOK
<1>1. CASE w.call \in {"pool.dataset.create", "pool.dataset.delete"}
    <2>1. UNCHANGED <<vms, devices, lastId>>
        BY <1>1 DEF Effect
    <2>2. zvols' \in [Zvols -> Sizes \cup {0, Unsized}]
        <3>1. w.call = "pool.dataset.create" => w.size \in Sizes
            BY DEF Sendable
        <3>2. CASE w.call = "pool.dataset.create"
            BY <3>1, <3>2, ZvolsSet DEF Effect
        <3>3. CASE w.call = "pool.dataset.delete"
            BY <3>3, ZvolsSet DEF Effect
        <3> QED BY <1>1, <3>2, <3>3
    <2> QED BY <1>0, <2>1, <2>2 DEF HostOK, UniqueNames, Ids
<1>2. CASE w.call = "vm.create"
    <2>1. w.name \in Names /\ w.managed = TRUE
        BY <1>2 DEF Sendable
    <2>2. Named(w.name) = {} /\ lastId < MaxIds
        BY <1>2 DEF Requires
    <2>3. /\ lastId' = lastId + 1 /\ UNCHANGED <<zvols, devices>>
          /\ vms' = [v \in DOMAIN vms \cup {lastId'} |->
                        IF v = lastId' THEN Vm(w.name, w.managed) ELSE vms[v]]
        BY <1>2 DEF Effect
    <2>4. lastId' \in 0 .. MaxIds /\ Ids' = Ids \cup {lastId'} /\ lastId' \notin Ids
        BY <1>0, <2>2, <2>3 DEF Ids
    <2>5. Vm(w.name, w.managed) \in [name : Names, managed : BOOLEAN, on : BOOLEAN]
        BY <2>1 DEF Vm
    <2>6. DOMAIN vms' = DOMAIN vms \cup {lastId'} /\ DOMAIN vms \subseteq Ids
        BY <2>3 DEF HostOK
    <2>7. \A v \in DOMAIN vms' : vms'[v] = IF v = lastId' THEN Vm(w.name, w.managed) ELSE vms[v]
        BY <2>3, <2>6
    <2>8. HostOK'
        BY <2>3, <2>4, <2>5, <2>6, <2>7 DEF HostOK
    <2>9. UniqueNames'
        BY <2>2, <2>4, <2>6, <2>7 DEF UniqueNames, Named, Vm
    <2>10. Kept
        BY <1>0, <2>3, <2>6, <2>7
    <2> QED BY <2>6, <2>8, <2>9, <2>10
<1>3. CASE w.call = "vm.device.create"
    <2>1. w.ref \in Refs /\ w.vm \in DOMAIN vms /\ lastId < MaxIds
        BY <1>3 DEF Sendable, Requires
    <2>2. /\ lastId' = lastId + 1 /\ UNCHANGED <<zvols, vms>>
          /\ devices' = devices \cup {Device(lastId', w.vm, w.ref)}
        BY <1>3 DEF Effect
    <2>3. lastId' \in 0 .. MaxIds /\ Ids' = Ids \cup {lastId'}
        BY <1>0, <2>1, <2>2 DEF Ids
    <2>4. HostOK'
        BY <2>1, <2>2, <2>3 DEF HostOK, Device
    <2> QED BY <1>0, <2>2, <2>4 DEF UniqueNames
<1>4. CASE w.call \in {"vm.start", "vm.stop"}
    <2>1. w.vm \in DOMAIN vms
        BY <1>4 DEF Requires
    <2>2. PICK on \in BOOLEAN : vms' = [vms EXCEPT ![w.vm].on = on]
        <3>1. vms[w.vm].on \in BOOLEAN
            BY <2>1 DEF HostOK
        <3> QED BY <1>4, <3>1 DEF Effect, SetOn
    <2>3. UNCHANGED <<zvols, devices, lastId>>
        BY <1>4 DEF Effect
    <2>4. /\ DOMAIN vms' = DOMAIN vms
          /\ vms' \in [DOMAIN vms -> [name : Names, managed : BOOLEAN, on : BOOLEAN]]
        BY <2>2 DEF HostOK
    <2>5. \A v \in DOMAIN vms : vms'[v].name = vms[v].name /\ vms'[v].managed = vms[v].managed
        BY <2>1, <2>2 DEF HostOK
    <2> QED BY <1>0, <2>3, <2>4, <2>5 DEF HostOK, UniqueNames, Ids
<1>5. CASE w.call = "vm.delete"
    <2>1. /\ vms' = [v \in DOMAIN vms \ {w.vm} |-> vms[v]]
          /\ devices' = devices \ DevicesOf(w.vm) /\ UNCHANGED lastId
        BY <1>5 DEF Effect
    <2>2. zvols' \in [Zvols -> Sizes \cup {0, Unsized}]
        BY <1>5, ZvolsSet DEF Effect
    <2>3. DOMAIN vms' = DOMAIN vms \ {w.vm} /\ \A v \in DOMAIN vms' : vms'[v] = vms[v]
        BY <2>1
    <2>4. devices' \subseteq [id : Ids, vm : DOMAIN vms', ref : Refs]
        BY <2>1, <2>3 DEF HostOK, DevicesOf
    <2>5. HostOK'
        BY <2>1, <2>2, <2>3, <2>4 DEF HostOK, Ids
    <2> QED BY <1>0, <1>5, <2>1, <2>3, <2>5 DEF UniqueNames
<1> QED BY <1>1, <1>2, <1>3, <1>4, <1>5 DEF Sendable

LEMMA PowersOffKeepsHost ==
    ASSUME HostOK, UniqueNames, NEW v \in DOMAIN vms, PowersOff(v)
    PROVE  HostOK' /\ UniqueNames' /\ Kept /\ DOMAIN vms' = DOMAIN vms
<1>0. lastId \in Nat
    BY BoundsAssumption DEF HostOK
<1>1. vms' = [vms EXCEPT ![v].on = FALSE] /\ UNCHANGED <<zvols, devices, lastId>>
    BY DEF PowersOff, SetOn
<1>2. /\ DOMAIN vms' = DOMAIN vms
      /\ vms' \in [DOMAIN vms -> [name : Names, managed : BOOLEAN, on : BOOLEAN]]
    BY <1>1 DEF HostOK
<1>3. \A u \in DOMAIN vms : vms'[u].name = vms[u].name /\ vms'[u].managed = vms[u].managed
    BY <1>1 DEF HostOK
<1> QED BY <1>0, <1>1, <1>2, <1>3 DEF HostOK, UniqueNames, Kept, Ids

LEMMA SameHost ==
    ASSUME HostOK, UniqueNames, UNCHANGED <<zvols, vms, devices, lastId>>
    PROVE  HostOK' /\ UniqueNames' /\ Kept
<1>1. lastId \in Nat
    BY BoundsAssumption DEF HostOK
<1> QED BY <1>1 DEF HostOK, UniqueNames, Kept, Ids

-----------------------------------------------------------------------------
(* The callers.                                                            *)

LEMMA Initially == Init => Inv
<1> SUFFICES ASSUME Init PROVE Inv
    OBVIOUS
<1>1. HostOK /\ UniqueNames /\ Single(devices)
    <2>1. CASE /\ zvols = [z \in Zvols |-> 0]
               /\ vms = [v \in {} |-> Vm("none", FALSE)] /\ devices = {} /\ lastId = 0
        <3>1. DOMAIN vms = {}
            BY <2>1
        <3> QED BY <2>1, <3>1, BoundsAssumption DEF HostOK, UniqueNames, Single
    <2>2. CASE /\ \E z \in Zvols, n \in Names, s \in Sizes \cup {Unsized} :
                     /\ zvols = [y \in Zvols |-> IF y = z THEN s ELSE 0]
                     /\ vms = [v \in {1} |-> Vm(n, FALSE)]
                     /\ devices = {Device(2, 1, z)}
               /\ lastId = 2
        <3>1. PICK z \in Zvols, n \in Names, s \in Sizes \cup {Unsized} :
                  /\ zvols = [y \in Zvols |-> IF y = z THEN s ELSE 0]
                  /\ vms = [v \in {1} |-> Vm(n, FALSE)]
                  /\ devices = {Device(2, 1, z)}
            BY <2>2
        <3>2. DOMAIN vms = {1} /\ Vm(n, FALSE) \in [name : Names, managed : BOOLEAN, on : BOOLEAN]
            BY <3>1 DEF Vm
        <3>3. Ids = 1 .. 2 /\ lastId \in 0 .. MaxIds
            BY <2>2, BoundsAssumption DEF Ids
        <3>4. z \in Refs
            BY DEF Refs
        <3>5. zvols \in [Zvols -> Sizes \cup {0, Unsized}]
            BY <3>1
        <3>6. vms \in [DOMAIN vms -> [name : Names, managed : BOOLEAN, on : BOOLEAN]]
            BY <3>1, <3>2
        <3>7. devices \subseteq [id : Ids, vm : DOMAIN vms, ref : Refs]
            <4>1. 2 \in Ids /\ 1 \in DOMAIN vms
                BY <3>2, <3>3
            <4>2. Device(2, 1, z) \in [id : Ids, vm : DOMAIN vms, ref : Refs]
                BY <3>4, <4>1 DEF Device
            <4> QED BY <3>1, <4>2
        <3>8. HostOK
            BY <3>2, <3>3, <3>5, <3>6, <3>7 DEF HostOK
        <3>9. UniqueNames /\ Single(devices)
            BY <3>1, <3>2 DEF UniqueNames, Single
        <3> QED BY <3>8, <3>9
    <2> QED BY <2>1, <2>2 DEF Init
<1>2. /\ faults \in FaultCases /\ late = {}
      /\ pc = [c \in Callers |-> "idle"] /\ req = [c \in Callers |-> NoCall]
      /\ found = [c \in Callers |-> NotFound] /\ calls = 0
      /\ instances = [n \in Names |-> [id |-> 0, status |-> "none"]]
    BY DEF Init
<1>3. calls \in 0 .. MaxCalls[faults]
    BY <1>2, BoundsAssumption
<1>4. MethodsOK
    BY <1>2, <1>3 DEF MethodsOK
<1> QED BY <1>1, <1>2, <1>4, TypeParts DEF Inv, Pending, Due, InTurn, Reached

LEMMA EntitledStays ==
    ASSUME HostOK, Kept, NEW v \in 0 .. lastId, NEW f, Entitled(v, f) PROVE Entitled(v, f)'
<1>1. v <= lastId
    BY DEF HostOK
<1> QED BY <1>1 DEF Entitled, Kept

LEMMA DueStays ==
    ASSUME HostOK, MethodsOK, Kept, NEW d \in Callers, Due(d),
           pc'[d] = pc[d], req'[d] = req[d], found'[d] = found[d]
    PROVE  Due(d)'
<1>1. found[d].id \in 0 .. lastId
    <2>1. lastId \in Nat
        BY BoundsAssumption DEF HostOK
    <2> QED BY <2>1 DEF MethodsOK, NotFound, Ids
<1>2. (pc[d] = "write" /\ req[d].op = "delete") => Entitled(found[d].id, req[d].force)'
    <2> SUFFICES ASSUME pc[d] = "write", req[d].op = "delete"
                 PROVE  Entitled(found[d].id, req[d].force)'
        OBVIOUS
    <2> PICK v \in 0 .. lastId : v = found[d].id
        BY <1>1
    <2> PICK f : f = req[d].force
        OBVIOUS
    <2>1. Entitled(v, f)
        BY DEF Due
    <2>2. Entitled(v, f)'
        BY <2>1, EntitledStays
    <2> QED BY <2>2
<1> QED BY <1>2 DEF Due

LEMMA LateDueStays ==
    ASSUME HostOK, Kept, lastId' \in Nat, NEW l, LateDue(l) PROVE LateDue(l)'
<1>1. lastId \in Nat /\ lastId <= lastId'
    BY BoundsAssumption DEF HostOK, Kept
<1>2. \A v \in 0 .. lastId : v \in 0 .. lastId'
    <2>1. \A m \in Nat, k \in Nat : m <= k => \A i \in 0 .. m : i \in 0 .. k
        OBVIOUS
    <2> QED BY <1>1, <2>1
<1>3. Sendable(l[3])'
    BY <1>2 DEF LateDue, Sendable
<1>4. l[3].call = "vm.delete" => l[3].vm \in 0 .. lastId
    <2>1. \A w : Sendable(w) /\ w.call = "vm.delete" => w.vm \in 0 .. lastId
        BY DEF Sendable
    <2> QED BY <2>1 DEF LateDue
<1>5. l[3].call = "vm.delete" => Entitled(l[3].vm, l[4].force)'
    BY <1>4, EntitledStays DEF LateDue
<1> QED BY <1>3, <1>5 DEF LateDue

\* A caller goes on to p with the request r and the record f.
Goes(c, p, r, f) ==
    /\ pc' = [pc EXCEPT ![c] = p]
    /\ req' = [req EXCEPT ![c] = r]
    /\ found' = [found EXCEPT ![c] = f]

LEMMA GoesTyped ==
    ASSUME Inv, UNCHANGED faults, HostOK', Kept, NEW c \in Callers,
           NEW p \in {"idle", "query", "write", "store", "dangling", "return"},
           NEW r \in Requests' \cup {NoCall},
           NEW f \in {NotFound} \cup [id : Ids', name : Names, on : BOOLEAN],
           Goes(c, p, r, f),
           instances' \in [Names -> [id : {0} \cup Ids',
                                     status : {"none", "running", "stopped", "deleted"}]],
           calls' \in 0 .. MaxCalls[faults]
    PROVE  MethodsOK'
<1>1. Ids \subseteq Ids' /\ Requests \subseteq Requests'
    BY IdsGrow, TypeParts DEF Inv, Kept, HostOK
<1>2. MethodsOK
    BY TypeParts DEF Inv
<1> QED BY <1>1, <1>2 DEF MethodsOK, Goes

\* What a step of one caller has to show.
LEMMA CallerKeepsInv ==
    ASSUME Inv, UNCHANGED faults, NEW c \in Callers,
           HostOK', UniqueNames', Kept, MethodsOK',
           \A d \in Callers \ {c} : pc'[d] = pc[d] /\ req'[d] = req[d] /\ found'[d] = found[d],
           Due(c)', \A l \in late' : l \in late \/ LateDue(l)',
           Serial => \/ pc[c] # "idle" \/ \A d \in Callers : pc[d] = "idle",
           Serial => late' = {} /\ Single(devices') /\ Reached(c)'
    PROVE  Inv'
<1>1. HostOK /\ MethodsOK /\ lastId' \in Nat
    BY TypeParts, BoundsAssumption DEF Inv, HostOK
<1>2. \A d \in Callers : Due(d)'
    BY <1>1, DueStays DEF Inv, Pending
<1>3. \A l \in late' : LateDue(l)'
    BY <1>1, LateDueStays DEF Inv, Pending
<1>4. Pending'
    BY <1>2, <1>3 DEF Inv, Pending
<1>5. InTurn'
    <2> SUFFICES ASSUME Serial
                 PROVE  /\ \A a, b \in Callers : pc'[a] # "idle" /\ pc'[b] # "idle" => a = b
                        /\ \A d \in Callers : Reached(d)'
        BY DEF InTurn, Serial
    <2>1. \A d \in Callers \ {c} : pc'[d] = "idle"
        BY DEF Inv, InTurn
    <2>2. \A d \in Callers \ {c} : Reached(d)'
        BY <2>1 DEF Reached
    <2> QED BY <2>1, <2>2
<1> QED BY <1>4, <1>5, TypeParts DEF Inv

-----------------------------------------------------------------------------
(* What each step of a caller does.                                        *)

LEMMA BeginKeepsInv == ASSUME Inv, UNCHANGED faults, NEW c \in Callers, Begin(c) PROVE Inv'
<1>1. PICK r \in Requests : req' = [req EXCEPT ![c] = r]
    BY DEF Begin
<1>2. /\ pc[c] = "idle" /\ pc' = [pc EXCEPT ![c] = "query"] /\ calls' = calls + 1
      /\ calls < MaxCalls[faults]
      /\ UNCHANGED <<zvols, vms, devices, lastId, late, found, instances>>
    BY DEF Begin, Goto, middleware
<1>3. HostOK /\ MethodsOK
    BY TypeParts DEF Inv
<1>4. HostOK' /\ UniqueNames' /\ Kept
    BY <1>2, <1>3, SameHost DEF Inv
<1>5. calls' \in 0 .. MaxCalls[faults]
    <2>1. MaxCalls[faults] \in Nat
        BY BoundsAssumption DEF Inv, Pending
    <2> QED BY <1>2, <1>3, <2>1 DEF MethodsOK
<1>6. /\ MethodsOK' /\ r # NoCall /\ req'[c] = r /\ pc'[c] = "query"
    <2>1. r # NoCall
        BY DEF Requests, NoCall
    <2>2. Requests' = Requests /\ Ids' = Ids
        BY <1>2 DEF Requests, Ids
    <2> QED BY <1>1, <1>2, <1>3, <1>5, <2>1, <2>2 DEF MethodsOK
<1>7. Due(c)' /\ Reached(c)'
    BY <1>6 DEF Due, Reached
<1>8. Serial => \A d \in Callers : pc[d] = "idle"
    BY DEF Begin, Serial
<1>9. \A d \in Callers \ {c} : pc'[d] = pc[d] /\ req'[d] = req[d] /\ found'[d] = found[d]
    BY <1>1, <1>2, <1>3 DEF MethodsOK
<1> QED BY <1>2, <1>4, <1>6, <1>7, <1>8, <1>9, CallerKeepsInv DEF Inv, InTurn

\* A caller that leaves its method.
LEMMA LeavesKeepsInv ==
    ASSUME Inv, UNCHANGED faults, NEW c \in Callers, Leaves(c), pc[c] # "idle",
           HostOK', UniqueNames', Kept,
           \A l \in late' : l \in late \/ LateDue(l)',
           Serial => late' = {} /\ Single(devices')
    PROVE  Inv'
<1>1. Goes(c, "idle", NoCall, NotFound) /\ UNCHANGED <<instances, calls>>
    BY DEF Leaves, Goto, Goes
<1>2. HostOK /\ MethodsOK
    BY TypeParts DEF Inv
<1>3. Ids \subseteq Ids'
    BY <1>2, IdsGrow, BoundsAssumption DEF Kept, HostOK
<1>4. /\ instances' \in [Names -> [id : {0} \cup Ids',
                                   status : {"none", "running", "stopped", "deleted"}]]
      /\ calls' \in 0 .. MaxCalls[faults]
    BY <1>1, <1>2, <1>3 DEF MethodsOK
<1>5. MethodsOK'
    BY <1>1, <1>4, GoesTyped
<1>6. pc'[c] = "idle" /\ req'[c] = NoCall
    BY <1>1, <1>2 DEF Goes, MethodsOK
<1>7. Due(c)' /\ Reached(c)'
    BY <1>6 DEF Due, Reached
<1>8. \A d \in Callers \ {c} : pc'[d] = pc[d] /\ req'[d] = req[d] /\ found'[d] = found[d]
    BY <1>1, <1>2 DEF Goes, MethodsOK
<1> QED BY <1>5, <1>7, <1>8, CallerKeepsInv

LEMMA FailsOrReturnsKeepsInv ==
    ASSUME Inv, UNCHANGED faults, NEW c \in Callers, pc[c] # "idle", Leaves(c),
           UNCHANGED middleware
    PROVE  Inv'
<1>1. UNCHANGED <<zvols, vms, devices, lastId, late>>
    BY DEF middleware
<1>2. HostOK' /\ UniqueNames' /\ Kept
    BY <1>1, SameHost, TypeParts DEF Inv
<1> QED BY <1>1, <1>2, LeavesKeepsInv DEF Inv, InTurn

\* A caller that goes on over a middleware that stays as it is.
LEMMA ResolvesKeepsInv ==
    ASSUME Inv, UNCHANGED faults, NEW c \in Callers, pc[c] # "idle",
           NEW p \in {"write", "store", "dangling", "return"},
           NEW f \in {NotFound} \cup {Found(v) : v \in DOMAIN vms},
           Resolves(c, f, p),
           Due(c)', Reached(c)'
    PROVE  Inv'
<1>1. /\ UNCHANGED <<zvols, vms, devices, lastId, late, req, instances, calls>>
      /\ found' = [found EXCEPT ![c] = f] /\ pc' = [pc EXCEPT ![c] = p]
    BY DEF Resolves, Goto, middleware
<1>2. HostOK /\ MethodsOK
    BY TypeParts DEF Inv
<1>3. HostOK' /\ UniqueNames' /\ Kept
    BY <1>1, <1>2, SameHost DEF Inv
<1>4. Ids' = Ids /\ Requests' = Requests
    BY <1>1 DEF Ids, Requests
<1>5. \A v \in DOMAIN vms : Found(v) \in [id : Ids, name : Names, on : BOOLEAN]
    BY <1>2 DEF Found, HostOK
<1>6. MethodsOK'
    BY <1>1, <1>2, <1>4, <1>5 DEF MethodsOK
<1>7. \A d \in Callers \ {c} : pc'[d] = pc[d] /\ req'[d] = req[d] /\ found'[d] = found[d]
    BY <1>1, <1>2 DEF MethodsOK
<1> QED BY <1>1, <1>3, <1>6, <1>7, CallerKeepsInv DEF Inv, InTurn

\* After the query the caller is where the query left it, its request as it was.
LEMMA ResolvesTo ==
    ASSUME MethodsOK, NEW c \in Callers, NEW p, NEW f, Resolves(c, f, p)
    PROVE  /\ pc'[c] = p /\ found'[c] = f /\ req'[c] = req[c]
           /\ UNCHANGED <<zvols, vms, devices>>
BY DEF MethodsOK, Resolves, Goto, middleware

LEMMA RequestKinds ==
    ASSUME MethodsOK, NEW c \in Callers
    PROVE  /\ req[c].op = "create_zvol" => req[c].zvol \in Zvols /\ req[c].size \in Sizes
           /\ req[c].op \in {"create_vm", "delete"} => req[c].name \in Names
           /\ req[c].op = "delete" => /\ req[c].zvol \in Zvols /\ req[c].force \in BOOLEAN
                                      /\ req[c].deleteZvol \in BOOLEAN
           /\ req[c].op = "attach" => req[c].ref \in Refs
           /\ req[c].op \in {"attach", "start", "stop", "status"} => req[c].vm \in Ids
           /\ req[c] = NoCall \/ req[c].op \in {"create_zvol", "create_vm", "attach", "start",
                                               "stop", "status", "delete"}
           /\ req[c].op # "none" => req[c] # NoCall
BY DEF MethodsOK, Requests, NoCall

LEMMA FoundIsNotNone ==
    ASSUME HostOK, NEW v \in DOMAIN vms PROVE Found(v) # NotFound /\ Found(v).id = v
<1>1. v \in Nat \ {0}
    BY BoundsAssumption DEF HostOK, Ids
<1> QED BY <1>1 DEF Found, NotFound

LEMMA QueryKeepsInv == ASSUME Inv, UNCHANGED faults, NEW c \in Callers, Query(c) PROVE Inv'
<1>1. pc[c] = "query" /\ HostOK /\ MethodsOK
    BY TypeParts DEF Inv, Query, QueryZvol, QueryVmName, QueryDevices, QueryVmId, QueryDelete
<1>2. CASE Leaves(c) /\ UNCHANGED middleware
    BY <1>1, <1>2, FailsOrReturnsKeepsInv
<1>3. CASE ~(Leaves(c) /\ UNCHANGED middleware) /\ QueryZvol(c)
    <2>1. \/ /\ zvols[req[c].zvol] # 0 /\ ~Smaller(req[c].zvol, req[c].size)
             /\ Resolves(c, NotFound, "return")
          \/ Resolves(c, NotFound, "write")
        BY <1>3 DEF QueryZvol
    <2>2. req[c].op = "create_zvol" /\ req[c] # NoCall
        BY <1>1, <1>3, RequestKinds DEF QueryZvol
    <2>3. CASE /\ zvols[req[c].zvol] # 0 /\ ~Smaller(req[c].zvol, req[c].size)
               /\ Resolves(c, NotFound, "return")
        <3>1. /\ pc'[c] = "return" /\ req'[c] = req[c] /\ UNCHANGED zvols
            BY <1>1, <2>3, ResolvesTo
        <3>2. zvols[req[c].zvol] # Unsized => zvols[req[c].zvol] >= req[c].size
            <4> PICK x : x = zvols[req[c].zvol]
                OBVIOUS
            <4>1. x \in Sizes \cup {0, Unsized} /\ req[c].size \in Sizes
                BY <1>1, <2>2, RequestKinds DEF HostOK
            <4>2. x # Unsized => x \in Nat /\ req[c].size \in Nat
                BY <4>1, SizesAssumption
            <4>3. x # Unsized => ~(x < req[c].size)
                BY <2>3 DEF Smaller
            <4> QED BY <4>2, <4>3
        <3>3. Due(c)' /\ Reached(c)'
            BY <2>2, <2>3, <3>1, <3>2 DEF Due, Reached, Done, Looks
        <3> QED BY <1>1, <2>3, <3>3, ResolvesKeepsInv
    <2>4. CASE Resolves(c, NotFound, "write")
        <3>1. pc'[c] = "write" /\ req'[c] = req[c]
            BY <1>1, <2>4, ResolvesTo
        <3>2. Due(c)' /\ Reached(c)'
            BY <2>2, <3>1 DEF Due, Reached
        <3> QED BY <1>1, <2>4, <3>2, ResolvesKeepsInv
    <2> QED BY <2>1, <2>3, <2>4
<1>4. CASE QueryVmName(c)
    <2>1. req[c].op = "create_vm" /\ req[c] # NoCall
        BY <1>1, <1>4, RequestKinds DEF QueryVmName
    <2>2. ASSUME NEW v \in Named(req[c].name), Resolves(c, Found(v), "store") PROVE Inv'
        <3>1. pc'[c] = "store" /\ req'[c] = req[c] /\ found'[c] = Found(v) /\ UNCHANGED vms
            BY <1>1, <2>2, ResolvesTo
        <3>2. v \in DOMAIN vms
            BY DEF Named
        <3>3. Due(c)' /\ Reached(c)'
            BY <1>1, <2>1, <3>1, <3>2, FoundIsNotNone DEF Due, Reached, Done, Named, Looks
        <3> QED BY <1>1, <2>2, <3>2, <3>3, ResolvesKeepsInv
    <2>3. CASE Resolves(c, NotFound, "write")
        <3>1. pc'[c] = "write" /\ req'[c] = req[c]
            BY <1>1, <2>3, ResolvesTo
        <3>2. Due(c)' /\ Reached(c)'
            BY <2>1, <3>1 DEF Due, Reached
        <3> QED BY <1>1, <2>3, <3>2, ResolvesKeepsInv
    <2> QED BY <1>4, <2>2, <2>3 DEF QueryVmName
<1>5. CASE QueryDevices(c)
    <2>1. req[c].op = "attach" /\ req[c] # NoCall
        BY <1>1, <1>5, RequestKinds DEF QueryDevices
    <2>2. CASE Attached(req[c].vm, req[c].ref) /\ Resolves(c, NotFound, "return")
        <3>1. pc'[c] = "return" /\ req'[c] = req[c] /\ UNCHANGED devices
            BY <1>1, <2>2, ResolvesTo
        <3>2. Due(c)' /\ Reached(c)'
            BY <2>1, <2>2, <3>1 DEF Due, Reached, Done, Attached, DevicesOf, Looks
        <3> QED BY <1>1, <2>2, <3>2, ResolvesKeepsInv
    <2>3. CASE ~Attached(req[c].vm, req[c].ref) /\ Resolves(c, NotFound, "write")
        <3>1. pc'[c] = "write" /\ req'[c] = req[c] /\ UNCHANGED devices
            BY <1>1, <2>3, ResolvesTo
        <3>2. Due(c)' /\ Reached(c)'
            BY <2>1, <2>3, <3>1 DEF Due, Reached, Attached, DevicesOf
        <3> QED BY <1>1, <2>3, <3>2, ResolvesKeepsInv
    <2> QED BY <1>5, <2>2, <2>3 DEF QueryDevices
<1>6. CASE ~(Leaves(c) /\ UNCHANGED middleware) /\ QueryVmId(c)
    <2>1. /\ req[c].op \in {"start", "stop", "status"} /\ req[c].vm \in DOMAIN vms
          /\ Resolves(c, Found(req[c].vm), IF req[c].op = "status" THEN "store" ELSE "write")
        BY <1>6 DEF QueryVmId
    <2> PICK p \in {"store", "write"}, v \in DOMAIN vms :
            /\ v = req[c].vm /\ Resolves(c, Found(v), p)
            /\ p = IF req[c].op = "status" THEN "store" ELSE "write"
        BY <2>1
    <2>2. pc'[c] = p /\ req'[c] = req[c] /\ found'[c] = Found(v) /\ UNCHANGED vms
        BY <1>1, ResolvesTo
    <2>3. req[c] # NoCall /\ Found(v) # NotFound /\ Found(v).id = v
        BY <1>1, <2>1, RequestKinds, FoundIsNotNone
    <2>4. Due(c)' /\ Reached(c)'
        BY <2>1, <2>2, <2>3 DEF Due, Reached, Done, Looked, Found
    <2> QED BY <1>1, <2>4, ResolvesKeepsInv
<1>7. CASE ~(Leaves(c) /\ UNCHANGED middleware) /\ QueryDelete(c)
    <2>1. req[c].op = "delete" /\ req[c] # NoCall
        BY <1>1, <1>7, RequestKinds DEF QueryDelete
    <2>2. ASSUME NEW v \in Named(req[c].name), MayDelete(c, v), Resolves(c, Found(v), "write")
          PROVE  Inv'
        <3>1. /\ pc'[c] = "write" /\ req'[c] = req[c] /\ found'[c] = Found(v) /\ UNCHANGED vms
            BY <1>1, <2>2, ResolvesTo
        <3>2. v \in DOMAIN vms /\ Found(v) # NotFound /\ Found(v).id = v
            BY <1>1, FoundIsNotNone DEF Named
        <3>3. Entitled(v, req[c].force)
            BY <2>2 DEF MayDelete, Entitled
        <3>4. Due(c)'
            BY <2>1, <3>1, <3>2, <3>3 DEF Due, Entitled
        <3>5. Reached(c)'
            BY <2>1, <2>2, <3>1, <3>2 DEF Reached, Named
        <3> QED BY <1>1, <2>2, <3>2, <3>4, <3>5, ResolvesKeepsInv
    <2>3. CASE Named(req[c].name) = {} /\ Resolves(c, NotFound, "dangling")
        <3>1. pc'[c] = "dangling" /\ req'[c] = req[c] /\ UNCHANGED vms
            BY <1>1, <2>3, ResolvesTo
        <3>2. Due(c)' /\ Reached(c)'
            BY <2>1, <2>3, <3>1 DEF Due, Reached, Done, Named
        <3> QED BY <1>1, <2>3, <3>2, ResolvesKeepsInv
    <2> QED BY <1>7, <2>2, <2>3 DEF QueryDelete
<1> QED BY <1>2, <1>3, <1>4, <1>5, <1>6, <1>7 DEF Query

\* What a method sends, and the right it has to.
LEMMA WriteFits ==
    ASSUME Inv, NEW c \in Callers, pc[c] = "write"
    PROVE  /\ Sendable(MethodWrite(c))
           /\ MethodWrite(c).call = "vm.delete" =>
                 /\ req[c].op = "delete" /\ MethodWrite(c).vm = found[c].id
                 /\ Entitled(found[c].id, req[c].force)
           /\ MethodWrite(c).call = "vm.device.create" => req[c].op = "attach"
           /\ req[c].op \in {"create_zvol", "create_vm", "attach", "start", "stop", "delete"}
<1>1. HostOK /\ MethodsOK /\ Due(c)
    BY TypeParts DEF Inv, Pending
<1>2. req[c].op \in {"create_zvol", "create_vm", "attach", "start", "stop", "delete"}
    BY <1>1, RequestKinds DEF Due
<1>3. found[c].id \in 0 .. lastId /\ \A i \in Ids : i \in 0 .. lastId
    <2>1. lastId \in Nat
        BY <1>1, BoundsAssumption DEF HostOK
    <2> QED BY <1>1, <2>1 DEF MethodsOK, NotFound, Ids
<1>4. CASE req[c].op = "create_zvol"
    BY <1>1, <1>4, RequestKinds DEF MethodWrite, Sendable
<1>5. CASE req[c].op = "create_vm"
    BY <1>1, <1>5, RequestKinds DEF MethodWrite, Sendable
<1>6. CASE req[c].op = "attach"
    BY <1>1, <1>3, <1>6, RequestKinds DEF MethodWrite, Sendable
<1>7. CASE req[c].op = "start"
    BY <1>1, <1>3, <1>7, RequestKinds DEF MethodWrite, Sendable
<1>8. CASE req[c].op = "stop"
    BY <1>1, <1>3, <1>8, RequestKinds DEF MethodWrite, Sendable
<1>9. CASE req[c].op = "delete"
    <2>1. MethodWrite(c) = [call |-> "vm.delete", vm |-> found[c].id, zvols |-> req[c].deleteZvol]
        BY <1>9 DEF MethodWrite
    <2>2. Entitled(found[c].id, req[c].force) /\ req[c].deleteZvol \in BOOLEAN
        BY <1>1, <1>9, RequestKinds DEF Due
    <2>3. Sendable(MethodWrite(c))
        BY <1>3, <2>1, <2>2 DEF Sendable
    <2> QED BY <1>9, <2>1, <2>2, <2>3
<1> QED BY <1>2, <1>4, <1>5, <1>6, <1>7, <1>8, <1>9

\* Taken in turn, a method's write adds no second device, and does what the method is for.
LEMMA WriteInTurn ==
    ASSUME Inv, Serial, NEW c \in Callers, pc[c] = "write",
           Requires(MethodWrite(c)), Effect(MethodWrite(c))
    PROVE  /\ Single(devices')
           /\ req'[c] = req[c] => Done(req[c])'
<1>1. HostOK /\ MethodsOK /\ UniqueNames /\ Single(devices) /\ Reached(c)
    BY TypeParts DEF Inv, InTurn
<1>2. req[c].op \in {"create_zvol", "create_vm", "attach", "start", "stop", "delete"}
    BY WriteFits
<1> PICK r : r = req[c]
    OBVIOUS
<1> PICK w : w = MethodWrite(c)
    OBVIOUS
<1>3. Requires(w) /\ Effect(w)
    OBVIOUS
<1>4. CASE r.op = "create_zvol"
    <2>1. w = [call |-> "pool.dataset.create", zvol |-> r.zvol, size |-> r.size]
        BY <1>4 DEF MethodWrite
    <2>2. SetZvols({r.zvol}, r.size) /\ UNCHANGED devices
        BY <1>3, <2>1 DEF Effect
    <2>3. r.zvol \in Zvols /\ r.size \in Nat
        BY <1>1, <1>4, RequestKinds, SizesAssumption
    <2>4. zvols'[r.zvol] >= r.size /\ zvols'[r.zvol] # 0
        BY <1>1, <1>4, <2>2, <2>3, RequestKinds, SizesAssumption DEF SetZvols
    <2>5. Done(r)'
        BY <1>4, <2>4 DEF Done
    <2> QED BY <1>1, <2>2, <2>5
<1>5. CASE r.op = "create_vm"
    <2>1. w = [call |-> "vm.create", name |-> r.name, managed |-> TRUE]
        BY <1>5 DEF MethodWrite
    <2>2. /\ vms' = [v \in DOMAIN vms \cup {lastId'} |->
                        IF v = lastId' THEN Vm(w.name, w.managed) ELSE vms[v]]
          /\ UNCHANGED devices /\ w.name = r.name
        <3>1. w.call = "vm.create" /\ w.name = r.name
            BY <2>1
        <3> QED BY <1>3, <3>1 DEF Effect
    <2>3. lastId' \in DOMAIN vms' /\ vms'[lastId'].name = r.name
        BY <2>2 DEF Vm
    <2>4. Done(r)'
        BY <1>5, <2>3 DEF Done, Named
    <2> QED BY <1>1, <2>2, <2>4
<1>6. CASE r.op = "attach"
    <2>1. w = [call |-> "vm.device.create", vm |-> r.vm, ref |-> r.ref]
        BY <1>6 DEF MethodWrite
    <2>2. devices' = devices \cup {Device(lastId', r.vm, r.ref)}
        BY <1>3, <2>1 DEF Effect
    <2>3. ~Attached(r.vm, r.ref)
        BY <1>1, <1>6 DEF Reached
    <2>4. Single(devices')
        BY <1>1, <2>2, <2>3 DEF Single, Attached, DevicesOf, Device
    <2>5. Attached(r.vm, r.ref)'
        <3>1. Device(lastId', r.vm, r.ref) \in devices'
            BY <2>2
        <3>2. \A i, u, ref : Device(i, u, ref).vm = u /\ Device(i, u, ref).ref = ref
            BY DEF Device
        <3> QED BY <3>1, <3>2 DEF Attached, DevicesOf
    <2>6. Done(r)'
        BY <1>6, <2>5 DEF Done
    <2> QED BY <2>4, <2>6
<1>7. CASE r.op \in {"start", "stop"}
    <2>1. w.call \in {"vm.start", "vm.stop"} /\ w.vm = r.vm
        BY <1>1, <1>7 DEF MethodWrite, Reached
    <2>2. r.vm \in DOMAIN vms /\ UNCHANGED devices /\ DOMAIN vms' = DOMAIN vms
        BY <1>3, <2>1 DEF Requires, Effect, SetOn
    <2>3. Done(r)'
        BY <1>7, <2>2 DEF Done
    <2> QED BY <1>1, <2>2, <2>3
<1>8. CASE r.op = "delete"
    <2>1. w = [call |-> "vm.delete", vm |-> found[c].id, zvols |-> r.deleteZvol]
        BY <1>8 DEF MethodWrite
    <2>2. /\ vms' = [v \in DOMAIN vms \ {found[c].id} |-> vms[v]]
          /\ devices' = devices \ DevicesOf(found[c].id)
        BY <1>3, <2>1 DEF Effect
    <2>3. found[c].id \in Named(r.name)
        BY <1>1, <1>8 DEF Reached
    <2>4. \A v \in DOMAIN vms' : vms'[v].name # r.name
        BY <1>1, <2>2, <2>3 DEF Named, UniqueNames
    <2>5. Done(r)'
        BY <1>8, <2>4 DEF Done, Named
    <2> QED BY <1>1, <2>2, <2>5 DEF Single
<1> QED BY <1>2, <1>4, <1>5, <1>6, <1>7, <1>8

LEMMA WriteKeepsInv == ASSUME Inv, UNCHANGED faults, NEW c \in Callers, Write(c) PROVE Inv'
<1>1. /\ pc[c] = "write" /\ Requires(MethodWrite(c)) /\ Effect(MethodWrite(c))
      /\ pc' = [pc EXCEPT ![c] = AfterWrite(req[c].op)]
      /\ UNCHANGED <<late, req, instances, calls>>
    BY DEF Write, Goto
<1>2. HostOK /\ MethodsOK /\ Due(c)
    BY TypeParts DEF Inv, Pending
<1>3. HostOK' /\ UniqueNames' /\ Kept
    BY <1>1, <1>2, WriteFits, EffectKeepsHost DEF Inv
<1>4. req[c].op \in {"create_zvol", "create_vm", "attach", "start", "stop", "delete"}
    BY <1>1, WriteFits
<1> PICK p \in {"store", "return"} : p = AfterWrite(req[c].op)
    BY DEF AfterWrite
<1>5. Ids \subseteq Ids' /\ Requests \subseteq Requests'
    BY <1>2, <1>3, IdsGrow, BoundsAssumption DEF Kept, HostOK
<1>6. PICK f \in {NotFound} \cup [id : Ids', name : Names, on : BOOLEAN] :
         /\ found' = [found EXCEPT ![c] = f]
         /\ p = "store" => f # NotFound
    <2>1. CASE req[c].op = "create_vm"
        <3>1. lastId' \in Ids'
            <4>1. lastId \in Nat
                BY <1>2, BoundsAssumption DEF HostOK
            <4>2. lastId' = lastId + 1
                BY <1>1, <2>1 DEF MethodWrite, Effect
            <4> QED BY <4>1, <4>2 DEF Ids
        <3>2. lastId' # 0
            BY <1>3, <3>1, BoundsAssumption DEF HostOK, Ids
        <3>3. req[c].name \in Names
            BY <1>2, <2>1, RequestKinds
        <3> DEFINE g == [id |-> lastId', name |-> req[c].name, on |-> FALSE]
        <3>4. found' = [found EXCEPT ![c] = g]
            BY <2>1 DEF Write
        <3>5. g \in [id : Ids', name : Names, on : BOOLEAN] /\ g # NotFound
            BY <3>1, <3>2, <3>3 DEF NotFound
        <3> QED BY <3>4, <3>5
    <2>2. CASE req[c].op # "create_vm"
        <3>1. found' = found
            BY <2>2 DEF Write
        <3>2. found' = [found EXCEPT ![c] = found[c]]
            BY <1>2, <3>1 DEF MethodsOK
        <3>3. found[c] \in {NotFound} \cup [id : Ids', name : Names, on : BOOLEAN]
            BY <1>2, <1>5 DEF MethodsOK
        <3>4. p = "store" => found[c] # NotFound
            BY <1>1, <1>2, <2>2 DEF AfterWrite, Due
        <3> QED BY <3>2, <3>3, <3>4
    <2> QED BY <2>1, <2>2
<1>7. req' = [req EXCEPT ![c] = req[c]] /\ req'[c] = req[c]
    BY <1>1, <1>2 DEF MethodsOK
<1>8. MethodsOK'
    <2>1. /\ pc' = [pc EXCEPT ![c] = p] /\ req' = req /\ found' = [found EXCEPT ![c] = f]
          /\ UNCHANGED <<instances, calls>>
        BY <1>1, <1>6
    <2> QED BY <1>2, <1>5, <1>6, <2>1 DEF MethodsOK
<1>9. pc'[c] = p /\ found'[c] = f
    BY <1>1, <1>2, <1>6 DEF MethodsOK
<1>10. Due(c)'
    BY <1>1, <1>2, <1>6, <1>7, <1>9 DEF Due
<1>11. Serial => Single(devices') /\ Reached(c)'
    <2>1. Serial => Single(devices') /\ Done(req[c])'
        BY <1>1, <1>7, WriteInTurn
    <2>2. p = "return" => req[c].op \notin Looks
        BY <1>4 DEF AfterWrite, Looks
    <2>3. (Serial /\ p = "store" /\ req[c].op \in Looks) => Looked(c)'
        <3>1. req[c].op \in Looks => req[c].op \in {"start", "stop"}
            BY <1>4 DEF Looks
        <3>2. req[c].op \in {"start", "stop"} => found' = found
            BY DEF Write
        <3>3. (Serial /\ req[c].op \in {"start", "stop"}) => found[c].id = req[c].vm
            BY <1>1 DEF Inv, InTurn, Reached
        <3> QED BY <1>7, <3>1, <3>2, <3>3 DEF Looked
    <2> QED BY <1>7, <1>9, <2>1, <2>2, <2>3 DEF Reached
<1>12. \A d \in Callers \ {c} : pc'[d] = pc[d] /\ req'[d] = req[d] /\ found'[d] = found[d]
    BY <1>1, <1>2, <1>6 DEF MethodsOK
<1> QED BY <1>1, <1>3, <1>8, <1>10, <1>11, <1>12, CallerKeepsInv DEF Inv, InTurn

\* A caller that gives up on a write that was carried out, or will be.
LEMMA GivenUpKeepsInv == ASSUME Inv, UNCHANGED faults, NEW c \in Callers, GivenUp(c) PROVE Inv'
<1>1. pc[c] = "write" /\ Leaves(c)
    BY DEF GivenUp, Rethrows
<1>2. HostOK /\ MethodsOK
    BY TypeParts DEF Inv
<1>3. CASE Requires(MethodWrite(c)) /\ Effect(MethodWrite(c)) /\ UNCHANGED late
    <2>1. HostOK' /\ UniqueNames' /\ Kept
        BY <1>1, <1>2, <1>3, WriteFits, EffectKeepsHost DEF Inv
    <2>2. Serial => late' = {} /\ Single(devices')
        BY <1>1, <1>3, WriteInTurn DEF Inv, InTurn
    <2> QED BY <1>1, <1>3, <2>1, <2>2, LeavesKeepsInv
<1>4. CASE Abandons(c, MethodWrite(c))
    <2>1. /\ "late" \in faults /\ UNCHANGED <<zvols, vms, devices, lastId>>
          /\ late' = late \cup {<<c, calls, MethodWrite(c), req[c]>>}
        BY <1>4 DEF Abandons
    <2>2. HostOK' /\ UniqueNames' /\ Kept
        BY <1>2, <2>1, SameHost DEF Inv
    <2> PICK l : l = <<c, calls, MethodWrite(c), req[c]>>
        OBVIOUS
    <2>3. l[3] = MethodWrite(c) /\ l[4] = req[c]
        OBVIOUS
    <2>4. LateDue(l)
        BY <1>1, <2>3, WriteFits DEF LateDue
    <2>5. LateDue(l)'
        BY <1>2, <2>2, <2>4, LateDueStays, BoundsAssumption DEF HostOK
    <2>6. ~Serial
        BY <2>1 DEF Serial
    <2> QED BY <1>1, <2>1, <2>2, <2>5, <2>6, LeavesKeepsInv
<1> QED BY <1>3, <1>4 DEF GivenUp

LEMMA StoreKeepsInv == ASSUME Inv, UNCHANGED faults, NEW c \in Callers, Store(c) PROVE Inv'
<1>1. /\ pc[c] = "store"
      /\ UNCHANGED <<zvols, vms, devices, lastId, late, req, found, calls>>
    BY DEF Store, middleware
<1>2. HostOK /\ MethodsOK /\ Due(c)
    BY TypeParts DEF Inv, Pending
<1>3. HostOK' /\ UniqueNames' /\ Kept
    BY <1>1, <1>2, SameHost DEF Inv
<1>4. Reread(c) \in [id : Ids, name : Names, on : BOOLEAN]
    <2>1. found[c] \in [id : Ids, name : Names, on : BOOLEAN]
        BY <1>1, <1>2 DEF MethodsOK, Due
    <2>2. found[c].id \in DOMAIN vms => Found(found[c].id) \in [id : Ids, name : Names, on : BOOLEAN]
        BY <1>2 DEF HostOK, Found
    <2> QED BY <2>1, <2>2 DEF Reread
<1>5. Ids' = Ids /\ Requests' = Requests
    BY <1>1 DEF Ids, Requests
<1>6. instances' \in [Names -> [id : {0} \cup Ids',
                                status : {"none", "running", "stopped", "deleted"}]]
    <2>1. PICK x \in [id : {0} \cup Ids, status : {"none", "running", "stopped", "deleted"}] :
              instances' = [instances EXCEPT ![Reread(c).name] = x]
        BY <1>4 DEF Store, Status
    <2> QED BY <1>2, <1>5, <2>1 DEF MethodsOK
<1>7. PICK p \in {"dangling", "return"} :
         /\ pc' = [pc EXCEPT ![c] = p]
         /\ p = "dangling" => req[c].op = "delete"
    BY DEF Store, Goto
<1>8. MethodsOK'
    BY <1>1, <1>2, <1>5, <1>6, <1>7 DEF MethodsOK
<1>9. pc'[c] = p
    BY <1>2, <1>7 DEF MethodsOK
<1>10. Due(c)'
    BY <1>1, <1>2, <1>7, <1>9 DEF Due
<1>11. Serial => Reached(c)'
    <2> PICK r : r = req[c]
        OBVIOUS
    <2>1. Serial => Done(r)
        BY <1>1 DEF Inv, InTurn, Reached
    <2>2. Done(r) => Done(r)'
        BY <1>1 DEF Done, Named, Attached, DevicesOf
    <2>3. ASSUME Serial, r.op \in Looks PROVE Recorded(r.vm)'
        <3>1. Looked(c) /\ r.vm \in DOMAIN vms /\ found[c].id = r.vm
            BY <1>1, <2>1, <2>3 DEF Inv, InTurn, Reached, Done, Looked, Looks
        <3>2. vms[r.vm] \in [name : Names, managed : BOOLEAN, on : BOOLEAN]
            BY <1>2, <3>1 DEF HostOK
        <3> PICK x : x = Reread(c)
            OBVIOUS
        <3>3. x.id = r.vm /\ x.name = vms[r.vm].name /\ (vms[r.vm].on => x.on)
            BY <2>3, <3>1 DEF Looked, Reread, Found, Looks
        <3>4. instances' = [instances EXCEPT ![x.name] = [id |-> x.id, status |-> Status(x)]]
            BY <2>3 DEF Store, Looks
        <3>5. instances'[x.name] = [id |-> x.id, status |-> Status(x)]
            BY <1>2, <3>2, <3>3, <3>4 DEF MethodsOK
        <3> QED BY <1>1, <3>3, <3>5 DEF Recorded, Status
    <2>4. r.op \in Looks => (Serial => Recorded(r.vm)')
        BY <2>3
    <2> QED BY <1>1, <1>9, <2>1, <2>2, <2>4 DEF Reached
<1>12. \A d \in Callers \ {c} : pc'[d] = pc[d] /\ req'[d] = req[d] /\ found'[d] = found[d]
    BY <1>1, <1>2, <1>7 DEF MethodsOK
<1> QED BY <1>1, <1>3, <1>8, <1>10, <1>11, <1>12, CallerKeepsInv DEF Inv, InTurn

LEMMA DanglingKeepsInv == ASSUME Inv, UNCHANGED faults, NEW c \in Callers, Dangling(c) PROVE Inv'
<1>1. /\ pc[c] = "dangling" /\ pc' = [pc EXCEPT ![c] = "return"]
      /\ UNCHANGED <<req, found, instances, calls>>
    BY DEF Dangling, Goto
<1>2. HostOK /\ MethodsOK /\ req[c].op = "delete"
    BY <1>1, TypeParts DEF Inv, Pending, Due
<1> PICK w : w = DanglingWrite(c)
    OBVIOUS
<1>3. Sendable(w) /\ w.call = "pool.dataset.delete"
    <2>1. req[c].zvol \in Zvols
        BY <1>2, RequestKinds
    <2> QED BY <2>1 DEF DanglingWrite, Sendable
<1>4. /\ HostOK' /\ UniqueNames' /\ Kept /\ UNCHANGED <<vms, devices>>
      /\ \A l \in late' : l \in late \/ LateDue(l)'
      /\ Serial => late' = {}
    <2>1. CASE Requires(w) /\ Effect(w) /\ UNCHANGED late
        BY <1>2, <1>3, <2>1, EffectKeepsHost DEF Inv, InTurn, Effect
    <2>2. CASE UNCHANGED middleware
        BY <1>2, <2>2, SameHost DEF Inv, InTurn, middleware
    <2>3. CASE Abandons(c, w)
        <3>1. /\ UNCHANGED <<zvols, vms, devices, lastId>> /\ ~Serial
              /\ late' = late \cup {<<c, calls, w, req[c]>>}
            BY <2>3 DEF Abandons, Serial
        <3>2. HostOK' /\ UniqueNames' /\ Kept
            BY <1>2, <3>1, SameHost DEF Inv
        <3> PICK l : l = <<c, calls, w, req[c]>>
            OBVIOUS
        <3>3. LateDue(l)
            BY <1>3 DEF LateDue
        <3>4. LateDue(l)'
            BY <1>2, <3>2, <3>3, LateDueStays, BoundsAssumption DEF HostOK
        <3> QED BY <3>1, <3>2, <3>4
    <2> QED BY <2>1, <2>2, <2>3 DEF Dangling
<1>5. Ids \subseteq Ids' /\ Requests \subseteq Requests'
    BY <1>2, <1>4, IdsGrow, BoundsAssumption DEF Kept, HostOK
<1>6. MethodsOK'
    BY <1>1, <1>2, <1>5 DEF MethodsOK
<1>7. pc'[c] = "return"
    BY <1>1, <1>2 DEF MethodsOK
<1>8. Due(c)'
    BY <1>1, <1>2, <1>7 DEF Due, Inv, Pending
<1>9. Serial => Reached(c)'
    <2>1. Serial => Named(req[c].name) = {}
        BY <1>1, <1>2 DEF Inv, InTurn, Reached, Done
    <2> QED BY <1>1, <1>2, <1>4, <1>7, <2>1 DEF Reached, Done, Named, Looks
<1>10. \A d \in Callers \ {c} : pc'[d] = pc[d] /\ req'[d] = req[d] /\ found'[d] = found[d]
    BY <1>1, <1>2 DEF MethodsOK
<1> QED BY <1>1, <1>4, <1>6, <1>8, <1>9, <1>10, CallerKeepsInv DEF Inv, InTurn

\* A guest that powers itself off, and what is carried out late.
LEMMA HostKeepsInv ==
    ASSUME Inv, UNCHANGED <<faults, pc, req, found, instances, calls>>,
           HostOK', UniqueNames', Kept, late' \subseteq late,
           Serial => /\ UNCHANGED <<zvols, devices, lastId>> /\ DOMAIN vms' = DOMAIN vms
                     /\ \A v \in DOMAIN vms : /\ vms'[v].name = vms[v].name
                                              /\ vms'[v].on => vms[v].on
    PROVE  Inv'
<1>1. HostOK /\ MethodsOK /\ lastId' \in Nat
    BY TypeParts, BoundsAssumption DEF Inv, HostOK
<1>2. Ids \subseteq Ids' /\ Requests \subseteq Requests'
    BY <1>1, IdsGrow, BoundsAssumption DEF Kept, HostOK
<1>3. MethodsOK'
    BY <1>1, <1>2 DEF MethodsOK
<1>4. \A d \in Callers : Due(d)'
    BY <1>1, DueStays DEF Inv, Pending
<1>5. \A l \in late' : LateDue(l)'
    BY <1>1, LateDueStays DEF Inv, Pending
<1>6. ASSUME Serial, NEW d \in Callers PROVE Reached(d)'
    <2> PICK r : r = req[d]
        OBVIOUS
    <2>1. \A n : Named(n)' = Named(n)
        BY <1>6 DEF Named
    <2>2. \A v, ref : Attached(v, ref)' <=> Attached(v, ref)
        BY <1>6 DEF Attached, DevicesOf
    <2>3. Done(r) => Done(r)'
        BY <1>6, <2>1, <2>2 DEF Done
    <2>4. (r.vm \in DOMAIN vms /\ Recorded(r.vm)) => Recorded(r.vm)'
        BY <1>6 DEF Recorded
    <2>5. (r.vm \in DOMAIN vms /\ Looked(d)) => Looked(d)'
        BY <1>6 DEF Looked
    <2>6. (Done(r) /\ r.op \in Looks) => r.vm \in DOMAIN vms
        BY DEF Done, Looks
    <2> QED BY <1>6, <2>1, <2>2, <2>3, <2>4, <2>5, <2>6 DEF Inv, InTurn, Reached
<1> QED BY <1>3, <1>4, <1>5, <1>6, TypeParts DEF Inv, Pending, InTurn, Serial

LEMMA Inductive == Inv /\ [Next]_vars => Inv'
<1> SUFFICES ASSUME Inv, [Next]_vars PROVE Inv'
    OBVIOUS
<1>0. HostOK /\ MethodsOK
    BY TypeParts DEF Inv
<1>1. CASE Next
    <2>1. Moves /\ UNCHANGED faults
        BY <1>1 DEF Next
    <2>2. ASSUME NEW c \in Callers, Method(c) PROVE Inv'
        <3>1. CASE Begin(c)
            BY <2>1, <3>1, BeginKeepsInv
        <3>2. CASE Query(c)
            BY <2>1, <3>2, QueryKeepsInv
        <3>3. CASE Write(c)
            BY <2>1, <3>3, WriteKeepsInv
        <3>4. CASE Fails(c) \/ Returns(c)
            BY <2>1, <3>4, FailsOrReturnsKeepsInv DEF Fails, Refused, ReadFails, Returns
        <3>5. CASE GivenUp(c)
            BY <2>1, <3>5, GivenUpKeepsInv
        <3>6. CASE Store(c)
            BY <2>1, <3>6, StoreKeepsInv
        <3>7. CASE Dangling(c)
            BY <2>1, <3>7, DanglingKeepsInv
        <3> QED BY <2>2, <3>1, <3>2, <3>3, <3>4, <3>5, <3>6, <3>7 DEF Method
    <2>3. ASSUME NEW v \in DOMAIN vms, PowersOff(v) PROVE Inv'
        <3>1. HostOK' /\ UniqueNames' /\ Kept /\ DOMAIN vms' = DOMAIN vms
            BY <1>0, <2>3, PowersOffKeepsHost DEF Inv
        <3>2. \A u \in DOMAIN vms : vms'[u].name = vms[u].name /\ (vms'[u].on => vms[u].on)
            BY <1>0, <2>3 DEF PowersOff, SetOn, HostOK
        <3> QED BY <2>1, <2>3, <3>1, <3>2, HostKeepsInv DEF PowersOff
    <2>4. ASSUME NEW l \in late, LateLands(l) PROVE Inv'
        <3>1. UNCHANGED <<pc, req, found, instances, calls>> /\ late' \subseteq late
            BY <2>4 DEF LateLands
        <3>2. HostOK' /\ UniqueNames' /\ Kept
            <4>1. Sendable(l[3])
                BY DEF Inv, Pending, LateDue
            <4>2. CASE Requires(l[3])
                BY <1>0, <2>4, <4>1, <4>2, EffectKeepsHost DEF LateLands, Inv
            <4>3. CASE ~Requires(l[3])
                BY <1>0, <2>4, <4>3, SameHost DEF LateLands, Inv
            <4> QED BY <4>2, <4>3
        <3>3. ~Serial
            BY DEF Inv, InTurn
        <3> QED BY <2>1, <3>1, <3>2, <3>3, HostKeepsInv
    <2> QED BY <2>1, <2>2, <2>3, <2>4 DEF Moves
<1>2. CASE UNCHANGED vars
    <2>1. UNCHANGED <<faults, zvols, vms, devices, lastId, late, pc, req, found, instances, calls>>
        BY <1>2 DEF vars, middleware
    <2>2. HostOK' /\ UniqueNames' /\ Kept
        BY <1>0, <2>1, SameHost DEF Inv
    <2> QED BY <2>1, <2>2, HostKeepsInv
<1> QED BY <1>1, <1>2

LEMMA Invariant == Spec => []Inv
BY Initially, Inductive, PTL DEF Spec

-----------------------------------------------------------------------------
\* The type invariant: every device belongs to a VM there is, and what a method holds is a
\* record of one there was (the middleware calls of truenas/vm.ts).
THEOREM TypeCorrect == Spec => []TypeOK
<1>1. Inv => TypeOK
    BY DEF Inv
<1> QED BY <1>1, Invariant, PTL

\* Methods taken in turn never attach a disk or a NIC twice, whatever fails or loses its
\* answer (attach_disk, attach_nic: "idempotent on the MAC").
THEOREM NothingTwice == Spec => []NoTwins
<1>1. Inv => NoTwins
    BY DEF Inv, InTurn, NoTwins, Single
<1> QED BY <1>1, Invariant, PTL

\* A method that returns has done what it says or found it done, or found a dataset
\* whose size it could not read; and what start, stop and status store never says
\* stopped of a VM that runs (truenas/vm.ts).
THEOREM ReturnsTrue == Spec => []AnswersTrue
<1>1. Inv => AnswersTrue
    BY DEF Inv, InTurn, Reached, AnswersTrue, ReturnsWhenDone
<1> QED BY <1>1, Invariant, PTL

\* Whatever overlaps or comes late: a VM without the marker is only ever removed by a
\* delete that asked for force (delete_vm).
THEOREM UnmanagedSpared == Spec => SparesUnmanaged
<1>1. ASSUME Inv, Next, NEW v \in DOMAIN vms, v \notin DOMAIN vms', ~vms[v].managed
      PROVE  Forced(v)
    <2>0. HostOK /\ MethodsOK
        BY <1>1, TypeParts DEF Inv
    <2>1. ASSUME NEW w, Sendable(w), Requires(w), Effect(w) PROVE w.call = "vm.delete" /\ w.vm = v
        BY <1>1, <2>0, <2>1, EffectKeepsHost DEF Inv
    <2>2. ASSUME NEW c \in Callers, Method(c) PROVE Forced(v)
        <3>1. CASE pc[c] = "write" /\ Requires(MethodWrite(c)) /\ Effect(MethodWrite(c))
            <4>1. MethodWrite(c).call = "vm.delete" /\ MethodWrite(c).vm = v
                BY <1>1, <2>1, <3>1, WriteFits
            <4>2. req[c].op = "delete" /\ found[c].id = v /\ Entitled(v, req[c].force)
                BY <1>1, <3>1, <4>1, WriteFits
            <4> QED BY <1>1, <4>2 DEF Entitled, Forced
        <3>2. CASE Dangling(c) /\ ~UNCHANGED vms
            <4>1. req[c].zvol \in Zvols
                BY <1>1, <2>0, <3>2, RequestKinds DEF Dangling, Inv, Pending, Due
            <4>2. Sendable(DanglingWrite(c)) /\ DanglingWrite(c).call = "pool.dataset.delete"
                BY <4>1 DEF DanglingWrite, Sendable
            <4>3. Requires(DanglingWrite(c)) /\ Effect(DanglingWrite(c))
                BY <3>2 DEF Dangling, Abandons, middleware
            <4> QED BY <2>1, <4>2, <4>3
        <3>3. ~UNCHANGED vms
            BY <1>1
        <3>4. CASE Write(c) \/ GivenUp(c)
            BY <3>1, <3>3, <3>4 DEF Write, GivenUp, Abandons
        <3> QED BY <2>2, <3>2, <3>3, <3>4 DEF Method, Begin, Query, QueryZvol, QueryVmName,
                QueryDevices, QueryVmId, QueryDelete, Resolves, Fails, Store, Returns, middleware
    <2>3. ASSUME NEW u \in DOMAIN vms, PowersOff(u) PROVE Forced(v)
        BY <1>1, <2>0, <2>3, PowersOffKeepsHost DEF Inv
    <2>4. ASSUME NEW l \in late, LateLands(l) PROVE Forced(v)
        <3>1. Requires(l[3]) /\ Effect(l[3]) /\ LateDue(l)
            BY <1>1, <2>4 DEF LateLands, Inv, Pending
        <3>2. l[3].call = "vm.delete" /\ l[3].vm = v
            BY <2>1, <3>1 DEF LateDue
        <3> QED BY <1>1, <3>1, <3>2 DEF LateDue, Entitled, Forced
    <2> QED BY <1>1, <2>2, <2>3, <2>4 DEF Next, Moves
<1>2. Inv /\ [Next]_vars =>
        [\A v \in DOMAIN vms : (v \notin DOMAIN vms' /\ ~vms[v].managed) => Forced(v)]_vars
    BY <1>1
<1> QED BY <1>2, Invariant, PTL DEF Spec, SparesUnmanaged
=============================================================================
