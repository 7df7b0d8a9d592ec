---------------------------- MODULE MCInventories ----------------------------
(***************************************************************************)
(* Two zones that share one link.  A workflow over a Talos node and a      *)
(* guest on Proxmox that may change, go, or come up on TrueNAS, and one of *)
(* two steps on Proxmox, with guests of one name too.  Two machines and    *)
(* two clusters whose names have one slug: a fleet at rest, one with a     *)
(* machine between two clusters, and an empty one.  Resources that are     *)
(* empty, nested, or hold braces, quotes and backslashes in their strings. *)
(* A TrueNAS host of either backend, with guests whose limits are written  *)
(* in all the ways there are, and a container.                             *)
(***************************************************************************)
EXTENDS InventoryWork

CONSTANTS za, zb, net

ZoneFaultCases == {{"lost"}, {"late"}}
ZoneCalls == [f \in ZoneFaultCases |-> IF "late" \in f THEN 4 ELSE 6]
ZoneFailures == [f \in ZoneFaultCases |-> IF "late" \in f THEN 1 ELSE 2]

-----------------------------------------------------------------------------
(* The fleet report.                                                       *)

Guest(id, name, state) ==
    [id |-> id, name |-> name, state |-> state, vcpus |-> 2, memoryMib |-> 4, ips |-> {"ip"}, macs |-> {"mac"}]
Nobody == [g \in {} |-> Null]

FleetSteps ==
    << [spec |-> "node", at |-> "talos"], [spec |-> "guest", at |-> "proxmox"], [spec |-> "vm", at |-> "truenas"] >>
ProxmoxSteps == << [spec |-> "guest", at |-> "proxmox"], [spec |-> "vm_spec", at |-> "proxmox"] >>

AFleet(talos, proxmox, truenas) ==
    [h \in {"talos", "proxmox", "truenas"} |->
        CASE h = "talos" -> talos [] h = "proxmox" -> proxmox [] h = "truenas" -> truenas]
Node(state) == "n1" :> Guest("n1", Null, state)
Web == "g1" :> Guest("g1", "web", "running")
AllFleets ==
    {AFleet(Node(s), w[1], w[2]) :
        s \in {Null, "running"}, w \in {<<Web, Nobody>>, <<Nobody, Web>>, <<Nobody, Nobody>>}}
Moved(f) ==
    {[f EXCEPT !["talos"]["n1"].state = "running"],
     [f EXCEPT !["proxmox"] = Nobody, !["truenas"] = f["proxmox"]]}

Twin(id, name, state, vcpus) == id :> [Guest(id, name, state) EXCEPT !.vcpus = vcpus]
ProxmoxFleets(names, ones, twos, counts) ==
    {"proxmox" :> (Twin("g1", "web", s, c) @@ Twin("g2", n, t, d)) :
        n \in names, s \in ones, t \in twos, c \in counts, d \in counts}
AllProxmox == ProxmoxFleets({Null, "web"}, {"running", "stopped"}, {Null, "stopped"}, {2, Null})
ProxmoxMoved(f) ==
    {[f EXCEPT !["proxmox"][g].state = "stopped"] : g \in DOMAIN f["proxmox"]}
      \cup {[f EXCEPT !["proxmox"][g].vcpus = Null] : g \in DOMAIN f["proxmox"]}

MCMoves ==
    [f \in AllFleets \cup AllProxmox |-> IF f \in AllFleets THEN Moved(f) ELSE ProxmoxMoved(f)]
MCSetups ==
    {[steps |-> FleetSteps, fleets |-> {AFleet(Node(Null), Web, Nobody)}, runs |-> 2, others |-> 2],
     [steps |-> ProxmoxSteps, fleets |-> ProxmoxFleets({Null, "web"}, {"running"}, {Null}, {2}),
      runs |-> 1, others |-> 1]}

-----------------------------------------------------------------------------
(* Omni.                                                                   *)

ClusterSlug == [c \in {"Prod", "prod"} |-> "prod"]

MachineStatus(cluster) == [cluster |-> cluster, connected |-> TRUE, label |-> Null, role |-> 0]
Resources(stati, members, identities, versions) ==
    [q \in {"machinestatus", "clustermachinestatus", "clustermachineidentity", "cluster"} |->
        CASE q = "machinestatus" -> stati [] q = "clustermachinestatus" -> members
          [] q = "clustermachineidentity" -> identities [] q = "cluster" -> versions]
AtRest ==
    Resources("m1" :> [MachineStatus("prod") EXCEPT !.role = 1] @@ "m2" :> MachineStatus(Null),
              "m1" :> [label |-> "controlplane", stage |-> 4, ready |-> TRUE],
              "m1" :> "cp1", "prod" :> "v1")
Moving ==
    Resources("m1" :> MachineStatus("Prod") @@ "m2" :> [MachineStatus("prod") EXCEPT !.role = 3],
              "m2" :> [label |-> Null, stage |-> 12, ready |-> FALSE],
              Nobody, "prod" :> "v1" @@ "Prod" :> "v1")
Empty == Resources(Nobody, Nobody, Nobody, Nobody)
MCOmniFleets == {AtRest, Moving, Empty}

Quoted(s) == << "{", "quote" >> \o s \o << "quote", "}" >>
Printable ==
    {<< "{", "}" >>, << "{", "x", "{", "}", "x", "}" >>,
     Quoted(<< "}", "{" >>), Quoted(<< "backslash", "quote", "}" >>),
     Quoted(<< "backslash", "backslash" >>),
     << "{" >> \o Quoted(<< "{" >>) \o << "{", "}", "}" >>}
Between == << "x" >>

-----------------------------------------------------------------------------
(* TrueNAS.                                                                *)

Unset == [cpu |-> Null, memory |-> Null]
Count(n) == [kind |-> "count", n |-> n]
Toks(t) == [kind |-> "set", toks |-> t]
Percent == [kind |-> "percent"]
Mem(num, den, unit) == [kind |-> "size", num |-> num, den |-> den, unit |-> unit]

Incus(id, type, state, limits) ==
    [id |-> id, name |-> id, type |-> type, status |-> state, limits |-> limits, cpu |-> Count(2),
     memory |-> Mem(536870912, 1, "B"),
     hwaddr |-> {[mac |-> "m1", upper |-> TRUE]}, volatile |-> {[mac |-> "m1", upper |-> FALSE]}]
Libvirt(id, state, vcpus, memory) ==
    [id |-> id, name |-> Null, status |-> state, vcpus |-> vcpus, memory |-> memory, mac |-> {}]

Limits ==
    {Unset,
     [cpu |-> Toks(<< <<0, 3>> >>), memory |-> Mem(3, 2, "GB")],
     [cpu |-> Toks(<< <<0, 0>>, <<2, 4>> >>), memory |-> Mem(512, 1, "MIB")],
     [cpu |-> Toks(<< <<3, 0>> >>), memory |-> Percent],
     [cpu |-> Percent, memory |-> Mem(1536, 1, "KIB")],
     [cpu |-> Count(0), memory |-> Mem(2, 1, "GIB")]}

\* A guest that tells nothing beside its limits.
Bare(g) == [g EXCEPT !.cpu = Null, !.memory = Null, !.hwaddr = {}, !.volatile = {}, !.id = Null]

IncusHosts ==
    {[backend |-> "incus",
      guests |-> "a" :> Incus(1, "VM", "RUNNING", l)
                 @@ "b" :> Bare(Incus(3, "VM", s, k))
                 @@ "c" :> Incus(5, "CONTAINER", "RUNNING", Unset)]
        : l \in Limits, k \in Limits, s \in {"STOPPED", "FROZEN", Null}}
LibvirtHosts ==
    {[backend |-> "libvirt",
      guests |-> "a" :> Libvirt(1, "RUNNING", n, m) @@ "b" :> Libvirt(2, s, 4, 4096)]
        : n \in {Null, 2}, m \in {Null, 2048}, s \in {"STOPPED", "PAUSED"}}

MCHosts == IncusHosts \cup LibvirtHosts
GuestMovesOf(g) ==
    {[g EXCEPT !["a"].status = "STOPPED"],
     [k \in DOMAIN g \ {"b"} |-> g[k]]}
AllGuests(b) ==
    LET first == {h.guests : h \in {k \in MCHosts : k.backend = b}}
        second == UNION {GuestMovesOf(g) : g \in first}
    IN  first \cup second \cup UNION {GuestMovesOf(g) : g \in second}
MCGuestMoves == [b \in {"incus", "libvirt"} |-> [g \in AllGuests(b) |-> GuestMovesOf(g)]]
Same == [id \in 0 .. 5 |-> id]
=============================================================================
