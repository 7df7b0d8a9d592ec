----------------------------- MODULE HostHealth -----------------------------
(***************************************************************************)
(* The diagnostics of an illumos host, as helios/host takes them: a method *)
(* runs its probes one by one, each a command over ssh, goes on without    *)
(* the readings of a diagnostic that failed, and stores what it has.       *)
(* lookup throws at the first probe that fails.  health_check runs all the *)
(* diagnostics over one ssh master and draws a verdict from the readings.  *)
(*                                                                         *)
(* The host is external: it may change between any two probes.  seen is    *)
(* the history of the method's run: the states the host was in meanwhile.  *)
(***************************************************************************)
EXTENDS Integers, FiniteSets, Functions, FiniteSetsExt, SequencesExt

CONSTANTS
    Null,       \* no value
    Hosts,      \* the states of the host
    MaxCalls,   \* bound: methods called
    MaxChanges, \* bound: changes of the host
    MaxFailures \* bound: probes that fail though the host could answer

BoundsAssumption == {MaxCalls, MaxChanges, MaxFailures} \subseteq Nat
HostsAssumption ==
    /\ Null \notin Int \cup {"ok", "ns", "nc", "cr", "nr"}
    /\ \A h \in Hosts :
          /\ h.temp \in Int /\ IsFiniteSet(h.faults) /\ h.pools \in Seq(ToSet(h.pools))
          /\ h.scrub \in BOOLEAN /\ IsFiniteSet(DOMAIN h.idle) /\ h.idle \in [DOMAIN h.idle -> 0 .. 100]

NoCall == [op |-> "none"]

VARIABLES
    host,       \* the state of the host
    req,        \* the method called, with its arguments
    phase,      \* "idle", "probing", or "closing" the session
    todo,       \* the probes it has yet to run
    got,        \* the readings of the probes that were answered
    failed,     \* the probes that were not
    seen,
    unopened,   \* sessions whose master did not answer
    master,     \* whether the session's ssh master is there
    lingering,  \* masters left to end by their ControlPersist
    tempDirs,   \* temporary directories for the sockets of masters
    resources,  \* the latest resource of each kind
    about,      \* what it is about: the states of the host, the probes that failed
    calls, changes, failures

method == <<req, phase, todo, got, failed, seen>>
session == <<unopened, master, lingering, tempDirs>>
data == <<resources, about>>
counters == <<calls, changes, failures>>
vars == <<host, method, session, data, counters>>

Kinds == {"host_info", "thermal", "load_snapshot", "fault_state", "kernel_messages", "audit"}
NoReadings == [p \in {} |-> Null]

Init ==
    /\ host \in Hosts
    /\ req = NoCall /\ phase = "idle"
    /\ todo = << >> /\ got = NoReadings /\ failed = {} /\ seen = {}
    /\ unopened = 0 /\ master = FALSE /\ lingering = 0 /\ tempDirs = 0
    /\ resources = [k \in Kinds |-> Null]
    /\ about = [k \in Kinds |-> [seen |-> {}, failed |-> {}]]
    /\ calls = 0 /\ changes = 0 /\ failures = 0

-----------------------------------------------------------------------------
(* The probes, and what each reads of the host.                            *)

Thermal == << "prtdiag", "kstat", "ipmitoolTemperature", "ipmitoolFan" >>
Load == << "uptime", "prstat", "mpstat", "iostat", "vmstat" >>
Faults == << "fmadm", "fmdump" >>
Messages == << "syslog", "fmdLog" >>
Probes(r) ==
    CASE r.op = "lookup"       -> << "unameAll", "hostname", "prtconf", "psrinfo", "zpoolList",
                                     "os-release", "unameVersion" >>
      [] r.op = "thermal"      -> Thermal
      [] r.op = "load"         -> Load
      [] r.op = "faults"       -> Faults
      [] r.op = "messages"     -> Messages
      [] r.op = "health_check" -> << "true" >> \o Thermal \o Load \o Faults \o Messages
                                    \o << "zpoolStatus" >>

Sensor(kind, value, status) == [kind |-> kind, value |-> value, status |-> status]
\* A sensor that is not read has no value; only the BMC tells a status.
Temperature(h) == Sensor("temperature", IF h.sensor = "ns" THEN Null ELSE h.temp, h.sensor)
parsePrtdiag(h) == IF h.sensor = "ns" THEN {} ELSE {Sensor("temperature", h.temp, Null)}

Reading(p, h) ==
    CASE p \in {"prtdiag", "kstat"}    -> parsePrtdiag(h)
      [] p = "ipmitoolTemperature"    -> {Temperature(h)}
      [] p = "ipmitoolFan"            -> {Sensor("fan", 9000, h.fan)}
      [] p = "mpstat"                  -> h.idle
      [] p = "fmadm"                   -> h.faults
      [] p = "zpoolStatus"            -> h.scrub
      [] p = "zpoolList"              -> h.pools
      [] p \in {"unameAll", "unameVersion"} -> h.build
      [] OTHER                         -> "read"

\* ipmitool needs a BMC.
Answers(p, h) == h.reachable /\ (p \in {"ipmitoolTemperature", "ipmitoolFan"} => h.bmc)

\* What these print counts though they fail; a part of it may be missing.
CountsAnyway(p) == p \in {"prtdiag", "fmadm"}
\* lookup's probes throw, but for the one; so does the one that opens the master.
Required(p) == p = "true" \/ (req.op = "lookup" /\ p # "os-release")

-----------------------------------------------------------------------------
(* What a method makes of the readings.                                    *)

Read(g, p, default) == IF p \in DOMAIN g THEN g[p] ELSE default

Sensors(g) == UNION {Read(g, p, {}) : p \in ToSet(Thermal)}
\* ipmitool says "cr" of a sensor beyond its critical threshold: no part of the pattern.
AtThreshold == {"nc", "nr"}
tempSummary(sensors) ==
    LET temps == {s.value : s \in {t \in sensors : t.kind = "temperature" /\ t.value # Null}}
    IN  [hottestTempC   |-> IF temps = {} THEN Null ELSE Max(temps),
         anyAtThreshold |-> \E s \in sensors : s.value # Null /\ s.status \in AtThreshold]

gatherThermal(g) ==
    [summary |-> tempSummary(Sensors(g)), notes |-> ToSet(Thermal) \ (DOMAIN g \cup {"kstat"})]

\* The busy part of all cores together: cpuPctTotal is its mean.
parseMpstat(idle) == FoldFunction(+, 0, [c \in DOMAIN idle |-> 100 - idle[c]])
gatherLoad(g) ==
    [cpuPctTotal |-> IF "mpstat" \in DOMAIN g THEN parseMpstat(g["mpstat"]) ELSE Null,
     cores       |-> Cardinality(DOMAIN Read(g, "mpstat", NoReadings)),
     answered    |-> ToSet(Load) \cap DOMAIN g]

gatherFaults(g) == [activeFaults |-> Read(g, "fmadm", {}), count |-> Cardinality(Read(g, "fmadm", {}))]
gatherMessages(g) == [matchedCount |-> Cardinality(ToSet(Messages) \cap DOMAIN g)]
zpoolScrubInProgress(g) == Read(g, "zpoolStatus", FALSE)

Busy(load) == load.cpuPctTotal # Null /\ load.cpuPctTotal >= 70 * load.cores
\* Mutant: the load is looked at before the scrub that may cause it.
LoadFirst(thermal, load, faults, scrub) ==
    CASE faults.count > 0               -> "fault_present"
      [] thermal.summary.anyAtThreshold -> "thermal_alarm"
      [] Busy(load)                     -> "workload_driven"
      [] scrub                          -> "scrub_in_progress"
      [] OTHER                          -> "healthy"
deriveVerdict(thermal, load, faults, scrub) ==
    IF faults.count > 0 THEN "fault_present"
    ELSE IF thermal.summary.anyAtThreshold THEN "thermal_alarm"
    ELSE IF scrub THEN "scrub_in_progress"
    ELSE IF Busy(load) THEN "workload_driven"
    ELSE "healthy"

audit(g) ==
    [thermal |-> gatherThermal(g).summary,
     load    |-> gatherLoad(g),
     faults  |-> gatherFaults(g),
     messages |-> gatherMessages(g),
     verdict |-> deriveVerdict(gatherThermal(g), gatherLoad(g), gatherFaults(g),
                               zpoolScrubInProgress(g))]

\* The pool of that name, else the first, else the name.
parseRpool(pools) ==
    IF "rpool" \in ToSet(pools) THEN "rpool" ELSE IF pools # << >> THEN Head(pools) ELSE "rpool"

hostInfo(g) ==
    [uname |-> g["unameAll"], illumosBuild |-> g["unameVersion"],
     heliosRelease |-> Read(g, "os-release", Null), rpool |-> parseRpool(g["zpoolList"])]

\* The resource a method stores, and what is in it.
Stores(r) ==
    CASE r.op = "lookup"       -> << "host_info", hostInfo(got) >>
      [] r.op = "thermal"      -> << "thermal", gatherThermal(got) >>
      [] r.op = "load"         -> << "load_snapshot", gatherLoad(got) >>
      [] r.op = "faults"       -> << "fault_state", gatherFaults(got) >>
      [] r.op = "messages"     -> << "kernel_messages", gatherMessages(got) >>
      [] r.op = "health_check" -> << "audit", audit(got) >>

-----------------------------------------------------------------------------
(* The steps of a method.                                                  *)

Requests ==
    [op : {"lookup", "thermal", "load", "faults"}]
      \cup [op : {"messages", "health_check"}, regular : BOOLEAN]

MayFail == failures < MaxFailures /\ failures' = failures + 1

\* openSession makes its directory before it connects.
Call(r) ==
    /\ phase = "idle" /\ calls < MaxCalls
    /\ calls' = calls + 1
    /\ req' = r /\ phase' = "probing" /\ todo' = Probes(r) /\ seen' = {host}
    /\ tempDirs' = IF r.op = "health_check" THEN tempDirs + 1 ELSE tempDirs
    /\ UNCHANGED <<host, got, failed, unopened, master, lingering, data, changes, failures>>

Leaves == req' = NoCall /\ phase' = "idle" /\ todo' = << >> /\ got' = NoReadings /\ failed' = {} /\ seen' = {}

\* Whether it returns or throws, a check leaves its try block through the finally.
Ends ==
    IF master
    THEN phase' = "closing" /\ todo' = << >> /\ UNCHANGED <<req, got, failed, seen>>
    ELSE Leaves

\* The log has been read when its pattern turns out to be none.
BadPattern(p) == p \in ToSet(Messages) /\ ~req.regular

Answered ==
    /\ phase = "probing" /\ todo # << >>
    /\ LET p == Head(todo)
       IN  /\ Answers(p, host)
           /\ IF BadPattern(p) THEN Ends
              ELSE /\ got' = [q \in DOMAIN got \cup {p} |-> IF q = p THEN Reading(p, host) ELSE got[q]]
                   /\ todo' = Tail(todo)
                   /\ UNCHANGED <<req, phase, failed, seen>>
           /\ master' = (master \/ p = "true")
    /\ UNCHANGED <<host, unopened, lingering, tempDirs, data, counters>>

\* The probe fails, or its ssh is killed at the timeout; part of its output may be there.
Fails ==
    /\ phase = "probing" /\ todo # << >>
    /\ LET p == Head(todo)
       IN  /\ MayFail \/ (~Answers(p, host) /\ UNCHANGED failures)
           /\ IF Required(p) THEN Leaves
              ELSE /\ todo' = Tail(todo) /\ failed' = failed \cup {p}
                   /\ \E part \in IF CountsAnyway(p) /\ host.reachable THEN SUBSET Reading(p, host) ELSE {{}} :
                         got' = IF part = {} THEN got
                                ELSE [q \in DOMAIN got \cup {p} |-> IF q = p THEN part ELSE got[q]]
                   /\ UNCHANGED <<req, phase, seen>>
           \* The master may have come up though the first command failed.
           /\ lingering' \in IF p = "true" THEN {lingering, lingering + 1} ELSE {lingering}
           /\ unopened' = IF p = "true" THEN unopened + 1 ELSE unopened
    /\ UNCHANGED <<host, master, tempDirs, data, calls, changes>>

Stored ==
    /\ phase = "probing" /\ todo = << >>
    /\ LET s == Stores(req)
       IN  /\ resources' = [resources EXCEPT ![s[1]] = s[2]]
           /\ about' = [about EXCEPT ![s[1]] = [seen |-> seen, failed |-> failed]]
    /\ Ends
    /\ UNCHANGED <<host, session, counters>>

WriteFails ==
    /\ phase = "probing" /\ todo = << >> /\ MayFail
    /\ Ends
    /\ UNCHANGED <<host, session, data, calls, changes>>

\* Neither what ssh says nor whether the directory goes is looked at.
Closes ==
    /\ phase = "closing"
    /\ master' = FALSE
    /\ \/ lingering' = lingering /\ tempDirs' = tempDirs - 1 /\ UNCHANGED failures
       \/ lingering' = lingering + 1 /\ tempDirs' = tempDirs - 1 /\ MayFail
       \/ lingering' = lingering /\ tempDirs' = tempDirs /\ MayFail
    /\ Leaves
    /\ UNCHANGED <<host, unopened, data, calls, changes>>

\* Mutant: ControlPersist=yes.
Forever == FALSE
ControlPersist == TRUE
MasterEnds ==
    /\ lingering > 0 /\ ControlPersist
    /\ lingering' = lingering - 1
    /\ UNCHANGED <<host, method, unopened, master, tempDirs, data, counters>>

HostChanges ==
    /\ changes < MaxChanges
    /\ \E h \in Hosts, f \in DOMAIN host : h # host /\ h = [host EXCEPT ![f] = h[f]] /\ host' = h
    /\ changes' = changes + 1
    /\ seen' = IF phase = "idle" THEN seen ELSE seen \cup {host'}
    /\ UNCHANGED <<req, phase, todo, got, failed, session, data, calls, failures>>

Works == Answered \/ Fails \/ Stored \/ WriteFails \/ Closes
Next == (\E r \in Requests : Call(r)) \/ Works \/ MasterEnds \/ HostChanges

\* Every ssh ends, by its timeout if need be; a master nobody uses ends by itself.
Fairness == WF_vars(Works) /\ WF_vars(MasterEnds)

Spec == Init /\ [][Next]_vars /\ Fairness

-----------------------------------------------------------------------------
TypeOK ==
    /\ host \in Hosts /\ seen \subseteq Hosts
    /\ req = NoCall \/ req \in Requests
    /\ phase \in {"idle", "probing", "closing"} /\ (phase = "idle" <=> req = NoCall)
    /\ todo # << >> => phase = "probing" /\ failed \cap ToSet(todo) = {}
    /\ phase = "probing" => ToSet(Probes(req)) \subseteq DOMAIN got \cup failed \cup ToSet(todo)
    /\ master \in BOOLEAN /\ lingering \in 0 .. calls /\ tempDirs \in 0 .. calls
    /\ DOMAIN resources = Kinds /\ DOMAIN about = Kinds

\* What a verdict other than "healthy" is drawn from, and the probe that reads it.
Ranked == << "fault_present", "thermal_alarm", "scrub_in_progress", "workload_driven", "healthy" >>
Rank(v) == CHOOSE i \in 1 .. Len(Ranked) : Ranked[i] = v
Signals ==
    {<<"fault_present", "fmadm">>, <<"thermal_alarm", "ipmitoolTemperature">>,
     <<"thermal_alarm", "ipmitoolFan">>, <<"scrub_in_progress", "zpoolStatus">>,
     <<"workload_driven", "mpstat">>}
Shows(h, probe) ==
    CASE probe = "fmadm"                -> h.faults # {}
      [] probe = "ipmitoolTemperature" -> h.sensor \in {"nc", "nr"}
      [] probe = "ipmitoolFan"         -> h.fan \in {"nc", "nr"}
      [] probe = "zpoolStatus"         -> h.scrub
      [] probe = "mpstat"               -> FoldFunction(+, 0, h.idle) <= 30 * Cardinality(DOMAIN h.idle)

\* The verdict of an audit names what was so at some moment of the check, and a
\* signal that was there all the time is passed over only for one that is looked
\* at before it, or because its probe failed: "healthy" hides nothing that was read.
VerdictExplained ==
    LET a == resources["audit"]
        run == about["audit"]
    IN  a # Null =>
           /\ a.verdict # "healthy" =>
                 \E s \in Signals : s[1] = a.verdict /\ \E h \in run.seen : Shows(h, s[2])
           /\ \A s \in Signals :
                 (\A h \in run.seen : Shows(h, s[2])) =>
                    Rank(a.verdict) <= Rank(s[1]) \/ s[2] \in run.failed

\* lookup stores what the host was during its run, whatever its pools are called.
InfoExplained ==
    LET i == resources["host_info"]
        run == about["host_info"]
    IN  i # Null =>
           /\ \E h \in run.seen : i.rpool \in ToSet(h.pools) \/ h.pools = << >>
           /\ (\A h \in run.seen : "rpool" \in ToSet(h.pools)) => i.rpool = "rpool"
           /\ Cardinality(run.seen) = 1 => i.uname = i.illumosBuild

\* Between methods there is no session: a check that throws has closed it too. What
\* a session leaves behind is of one that never opened, or whose end failed.
SessionClosed ==
    phase = "idle" => ~master /\ tempDirs <= unopened + failures /\ lingering <= unopened + failures
=============================================================================
