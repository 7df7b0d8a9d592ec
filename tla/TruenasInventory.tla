-------------------------- MODULE TruenasInventory --------------------------
(***************************************************************************)
(* The truenas/inventory model: one query for the guests, a best-effort    *)
(* system.info, the parsing of both backends' answers and the records.     *)
(*                                                                         *)
(* The host is external, and so are the session (TruenasRpc) and the       *)
(* engine's store.  Ids and names are numbers in the order of their        *)
(* spelling; MACs are written as [mac, upper].  Disks, models, bridges,    *)
(* autostart and descriptions are left out, and so are the units of memory *)
(* past GB, whose factors are past TLC's integers.                         *)
(***************************************************************************)
EXTENDS Integers, FiniteSets, FiniteSetsExt, Sequences

CONSTANTS
    Null,           \* no value
    Hosts,          \* [backend, guests] there may be at first, guests by key
    Moves,          \* by backend, the guests some may become
    Slug,           \* sanitizeInstanceName of an id
    Unknown,        \* the id of a guest that has none
    Endpoint,       \* the host's address, its name when it tells none
    MaxRuns,        \* bound: discoveries
    MaxChanges,     \* bound: changes of the guests
    MaxFailures     \* bound: calls and writes that fail

VARIABLES
    backend,    \* the host's guest backend
    guests,     \* the host's guests
    phase,      \* "idle", "query", "info", "vm" or "summary"
    raw,        \* the query's answer
    info,       \* the answer of system.info, Null when it failed
    left,       \* the guests yet to write
    vms,        \* the vm records, by name: [vm, run]
    summary,    \* the summary record: [roll-up, run], or Null
    outcome,    \* of the last run: "none", "ok" or "failed"
    queried,    \* the guests when the query of the last run was answered
    runs, changes, failures

host == <<backend, guests>>
work == <<raw, info, left>>
store == <<vms, summary>>
bounds == <<runs, changes, failures>>
vars == <<host, phase, work, store, outcome, queried, bounds>>

Or(v, default) == IF v = Null THEN default ELSE v
Range1(f) == {f[x] : x \in DOMAIN f}

-----------------------------------------------------------------------------
(* Numbers.                                                                *)

\* A token of a CPU set is <<lo, hi>>, a single id <<i, i>>.
TokenCount(tok) == IF tok[2] < tok[1] THEN Null ELSE tok[2] - tok[1] + 1

\* A limit of CPUs is Null, "percent", a count, or a sequence of tokens.
parseCpuCount(v) ==
    IF v = Null \/ v.kind = "percent" THEN Null
    ELSE IF v.kind = "count" THEN IF v.n > 0 THEN v.n ELSE Null
    ELSE IF \E i \in DOMAIN v.toks : TokenCount(v.toks[i]) = Null THEN Null
    ELSE MapThenSumSet(LAMBDA i : TokenCount(v.toks[i]), DOMAIN v.toks)

\* Bytes per unit over bytes per MiB, as a fraction.
factors(unit) ==
    CASE unit = "B"   -> <<1, 1048576>>   [] unit = "KIB" -> <<1, 1024>>
      [] unit = "KB"  -> <<125, 131072>>  [] unit = "MIB" -> <<1, 1>>
      [] unit = "MB"  -> <<15625, 16384>> [] unit = "GIB" -> <<1024, 1>>
      [] unit = "GB"  -> <<1953125, 2048>>

\* A limit of memory is Null, "percent", or num / den of a unit; the result is
\* rounded to the nearest MiB, up from the half.
parseMemoryToMib(v) ==
    IF v = Null \/ v.kind = "percent" \/ v.num = 0 THEN Null
    ELSE LET x == v.num * factors(v.unit)[1]
             d == v.den * factors(v.unit)[2]
         IN (2 * x + d) \div (2 * d)

normalizeState(rawStatus) ==
    CASE rawStatus = "RUNNING" -> "running"
      [] rawStatus = "STOPPED" -> "stopped"
      [] rawStatus \in {"FROZEN", "SUSPENDED", "PAUSED"} -> "suspended"
      [] OTHER -> "unknown"

-----------------------------------------------------------------------------
(* Guests.                                                                 *)

lower(macs) == {m.mac : m \in macs}

\* `limits` are of the guest's config, `cpu` and `memory` of the answer itself.
parseIncusInstance(inst) ==
    LET id == Or(Or(inst.id, inst.name), Unknown)
        vcpus == Or(parseCpuCount(inst.limits.cpu), parseCpuCount(inst.cpu))
        memoryMib == Or(parseMemoryToMib(inst.limits.memory), parseMemoryToMib(inst.memory))
        macs == lower(inst.hwaddr) \cup lower(inst.volatile)
    IN [id |-> id, name |-> Or(inst.name, id),
        state |-> normalizeState(Or(inst.status, "UNKNOWN")),
        vcpus |-> vcpus, memoryMib |-> memoryMib, macs |-> macs,
        notes |-> {f \in {"vcpus", "memory", "nics"} :
                      \/ f = "vcpus" /\ vcpus = Null
                      \/ f = "memory" /\ memoryMib = Null
                      \/ f = "nics" /\ macs = {}}]

\* `vcpus` and `memory` are numbers, the latter in MiB.
parseLibvirtVm(vm) ==
    LET id == Or(Or(vm.id, vm.name), Unknown)
    IN [id |-> id, name |-> Or(vm.name, id),
        state |-> normalizeState(Or(vm.status, "UNKNOWN")),
        vcpus |-> vm.vcpus, memoryMib |-> vm.memory, macs |-> lower(vm.mac),
        notes |-> IF vm.vcpus = Null THEN {"vcpus"} ELSE {}]

parseOne(kind, g) == IF kind = "libvirt" THEN parseLibvirtVm(g) ELSE parseIncusInstance(g)
buildVms(kind, instances) == {parseOne(kind, g) : g \in instances}

CountOf(found, states) == Cardinality({v \in found : v.state \in states})
Total(found, field) == MapThenSumSet(LAMBDA v : Or(v[field], 0), found)

buildSummary(found, systemInfo) ==
    [host |-> IF systemInfo = Null THEN Endpoint ELSE Or(systemInfo.hostname, Endpoint),
     truenasVersion |-> IF systemInfo = Null THEN "unknown" ELSE Or(systemInfo.version, "unknown"),
     totalVms |-> Cardinality(found),
     runningCount |-> CountOf(found, {"running"}),
     stoppedCount |-> CountOf(found, {"stopped"}),
     otherCount |-> CountOf(found, {"suspended", "unknown"}),
     totalVcpus |-> Total(found, "vcpus"),
     totalMemoryMib |-> Total(found, "memoryMib"),
     notes |-> IF systemInfo = Null THEN {"system.info"} ELSE {}]

-----------------------------------------------------------------------------
(* What a host may tell.                                                   *)

\* A set of CPUs names none of them twice.
CpuLimit(v) ==
    \/ v = Null
    \/ v.kind = "percent"
    \/ v.kind = "count" /\ v.n \in Nat
    \/ /\ v.kind = "set" /\ v.toks \in Seq(Nat \X Nat) /\ v.toks # << >>
       /\ \A i, j \in DOMAIN v.toks :
             i # j => (v.toks[i][1] .. v.toks[i][2]) \cap (v.toks[j][1] .. v.toks[j][2]) = {}
MemoryLimit(v) ==
    \/ v = Null
    \/ v.kind = "percent"
    \/ /\ v.kind = "size" /\ v.num \in Nat /\ v.den \in Nat \ {0}
       /\ v.unit \in {"B", "KIB", "KB", "MIB", "MB", "GIB", "GB"}
Tells(kind, g) ==
    IF kind = "libvirt" THEN {g.vcpus, g.memory} \subseteq Nat \cup {Null}
    ELSE /\ CpuLimit(g.limits.cpu) /\ CpuLimit(g.cpu)
         /\ MemoryLimit(g.limits.memory) /\ MemoryLimit(g.memory)

IsVm(kind, g) == kind = "libvirt" \/ g.type = "VM"
\* No two of a host's VMs have ids that are sanitized alike.
Tellable(kind, gs) ==
    /\ IsFiniteSet(DOMAIN gs)
    /\ \A k \in DOMAIN gs : IsVm(kind, gs[k]) =>
          /\ Tells(kind, gs[k])
          /\ \A l \in DOMAIN gs :
                /\ IsVm(kind, gs[l])
                /\ Slug[parseOne(kind, gs[k]).id] = Slug[parseOne(kind, gs[l]).id]
                => k = l

Assumptions ==
    /\ \A h \in Hosts : h.backend \in {"incus", "libvirt"} /\ h.guests \in DOMAIN Moves[h.backend]
    /\ \A b \in {"incus", "libvirt"} : \A g \in DOMAIN Moves[b] :
          Tellable(b, g) /\ Moves[b][g] \subseteq DOMAIN Moves[b]
    /\ {MaxRuns, MaxChanges, MaxFailures} \subseteq Nat

-----------------------------------------------------------------------------
(* The discovery.                                                          *)

Init ==
    /\ \E h \in Hosts : backend = h.backend /\ guests = h.guests
    /\ phase = "idle" /\ outcome = "none"
    /\ raw = {} /\ info = Null /\ left = {} /\ queried = guests
    /\ vms = [n \in {} |-> Null] /\ summary = Null
    /\ runs = 0 /\ changes = 0 /\ failures = 0

discover ==
    /\ phase = "idle" /\ runs < MaxRuns
    /\ phase' = "query" /\ runs' = runs + 1
    /\ UNCHANGED <<host, work, store, outcome, queried, changes, failures>>

\* What is asked for: the libvirt backend has no containers.
\* Mutant: the filter is left out.
Unfiltered(kind, g) == TRUE
queryParams(kind, g) == kind = "incus" => g.type = "VM"

Queried ==
    /\ phase = "query"
    /\ raw' = {g \in Range1(guests) : queryParams(backend, g)}
    /\ queried' = guests /\ phase' = "info"
    /\ UNCHANGED <<host, info, left, store, outcome, bounds>>

GoesOn(systemInfo) ==
    /\ info' = systemInfo
    /\ left' = buildVms(backend, raw)
    /\ phase' = "vm"
    /\ UNCHANGED <<host, raw, store, outcome, queried, runs, changes>>

\* system.info is best-effort.
Informed ==
    /\ phase = "info"
    /\ \E hostname \in {Null, "nas"} : GoesOn([hostname |-> hostname, version |-> "25.04"])
    /\ UNCHANGED failures

InfoFails ==
    /\ phase = "info" /\ failures < MaxFailures
    /\ failures' = failures + 1
    /\ GoesOn(Null)

Written == left = {}

writeVm ==
    /\ phase = "vm" /\ ~Written
    /\ \E v \in left :
         /\ \A w \in left : v.name <= w.name
         /\ vms' = [n \in DOMAIN vms \cup {Slug[v.id]} |->
                       IF n = Slug[v.id] THEN [vm |-> v, run |-> runs] ELSE vms[n]]
         /\ left' = left \ {v}
    /\ UNCHANGED <<host, phase, raw, info, summary, outcome, queried, bounds>>

writeSummary ==
    /\ phase = "vm" /\ Written
    /\ summary' = [of |-> buildSummary(buildVms(backend, raw), info), run |-> runs]
    /\ phase' = "idle" /\ outcome' = "ok"
    /\ UNCHANGED <<host, work, vms, queried, bounds>>

\* The session does not open, the query fails, a record is not written.
Fails ==
    /\ phase \in {"query", "vm"} /\ failures < MaxFailures
    /\ failures' = failures + 1
    /\ phase' = "idle" /\ outcome' = "failed"
    /\ UNCHANGED <<host, work, store, queried, runs, changes>>

HostChanges ==
    /\ changes < MaxChanges
    /\ \E g \in Moves[backend][guests] : guests' = g
    /\ changes' = changes + 1
    /\ UNCHANGED <<backend, phase, work, store, outcome, queried, runs, failures>>

Next ==
    \/ discover \/ Queried \/ Informed \/ InfoFails \/ writeVm \/ writeSummary \/ Fails
    \/ HostChanges

Spec == Init /\ [][Next]_vars

-----------------------------------------------------------------------------
(* Properties.                                                             *)

Counts == Nat \cup {Null}

\* The types of the discovery's state; a count of CPUs or MiB is never negative.
TypeOK ==
    /\ phase \in {"idle", "query", "info", "vm"}
    /\ outcome \in {"none", "ok", "failed"}
    /\ \A n \in DOMAIN vms :
         /\ vms[n].run \in 1..MaxRuns
         /\ vms[n].vm.vcpus \in Counts /\ vms[n].vm.memoryMib \in Counts
         /\ vms[n].vm.state \in {"running", "stopped", "suspended", "unknown"}
    /\ summary # Null => summary.of.totalVms \in Nat /\ summary.run \in 1..MaxRuns
    /\ runs \in 0..MaxRuns /\ changes \in 0..MaxChanges /\ failures \in 0..MaxFailures

Fresh == {n \in DOMAIN vms : vms[n].run = runs}

\* A discovery that returns has, whatever system.info did, one record of its own
\* for each VM the host had when it was asked, and none for anything else.
DiscoveredAll ==
    phase = "idle" /\ outcome = "ok" =>
        {vms[n].vm : n \in Fresh} = {parseOne(backend, g) : g \in {h \in Range1(queried) : IsVm(backend, h)}}

\* The roll-up never stands for guests whose records are not written, and that of
\* a discovery that just returned adds its records up, each in one of the counts.
SummaryTrue ==
    summary # Null =>
        LET S == summary.of
            Since == {n \in DOMAIN vms : vms[n].run >= summary.run}
            Sum(f) == MapThenSumSet(LAMBDA n : Or(vms[n].vm[f], 0), Fresh)
        IN /\ Cardinality(Since) >= S.totalVms
           /\ S.runningCount + S.stoppedCount + S.otherCount = S.totalVms
           /\ phase = "idle" /\ outcome = "ok" =>
                S.totalVcpus = Sum("vcpus") /\ S.totalMemoryMib = Sum("memoryMib")

\* A guest pinned to a set of CPUs has as many as the set has members.
CpusCounted ==
    backend = "incus" =>
        \A g \in raw :
            LET v == g.limits.cpu
            IN v # Null /\ v.kind = "set" =>
                 LET cpus == UNION {v.toks[i][1] .. v.toks[i][2] : i \in DOMAIN v.toks}
                 IN parseCpuCount(v) \in {Cardinality(cpus), Null}
=============================================================================
