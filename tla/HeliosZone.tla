----------------------------- MODULE HeliosZone -----------------------------
(***************************************************************************)
(* The zones and VNICs of an illumos host, as helios/zone and helios/dladm *)
(* manage them: each method is a sequence of commands, each run by its own *)
(* ssh, that throws at the first that fails, unless it tolerates that, and *)
(* ends by storing what it read.  Methods are called one after the other.  *)
(*                                                                         *)
(* The host and its operator are external.  The operator boots a zone only *)
(* when vnic_create has returned its link and nobody has asked for the     *)
(* link to be destroyed since.  What else may happen is fixed by faults,   *)
(* one of FaultCases:                                                      *)
(*   "lost"   a command is carried out and its ssh fails                   *)
(*   "late"   the local ssh is killed at its timeout and the command goes  *)
(*            on: it takes effect later, or not at all                     *)
(***************************************************************************)
EXTENDS Naturals, SequencesExt

CONSTANTS
    Zones, Links,
    FaultCases,
    MaxCalls,   \* bound per case: methods called
    MaxFailures \* bound per case: commands that fail though the host would accept them

ASSUME FaultsAssumption == \A f \in FaultCases : f \subseteq {"lost", "late"}
ASSUME BoundsAssumption == {MaxCalls, MaxFailures} \subseteq [FaultCases -> Nat]

Unknown == "unknown"
NoLink == "none"
ASSUME NamesAssumption == IsFiniteSet(Zones) /\ NoLink \notin Links
Host == "host"

VARIABLES
    faults,     \* what may happen in this behaviour
    links,      \* the VNICs of the host
    zones,      \* its zones
    late,       \* commands whose ssh was killed: <<call, command>>
    req,        \* the method called, with its arguments
    todo,       \* the commands it has yet to run
    got,        \* what it has read so far
    vnics,      \* the latest vnic resource of each link
    records,    \* the latest zone resource of each zone
    inventories, summary,   \* the latest of inventory
    ready,      \* links the operator knows to be in place
    gaveUp,     \* links and zones that a command given up on was about
    calls, failures

host == <<links, zones, late>>
method == <<req, todo, got>>
data == <<vnics, records, inventories, summary>>
counters == <<ready, gaveUp, calls, failures>>
vars == <<faults, host, method, data, counters>>

NoVnic == [here |-> FALSE, protected |-> "off", pinned |-> "off"]
NoZone == [state |-> "none", link |-> NoLink]
NoRecord == [state |-> Unknown, link |-> Unknown]
NoVnicRecord == [protected |-> Unknown, pinned |-> Unknown]
NoCall == [op |-> "none"]
Nothing == [zone |-> NoRecord, vnic |-> NoVnicRecord, listed |-> [z \in {} |-> Unknown]]

Configured == {z \in Zones : zones[z].state # "none"}
Running(l) == {z \in Zones : zones[z].state = "running" /\ zones[z].link = l}

Init ==
    /\ faults \in FaultCases
    /\ links = [l \in Links |-> NoVnic]
    /\ zones = [z \in Zones |-> NoZone]
    /\ late = {}
    /\ req = NoCall /\ todo = << >> /\ got = Nothing
    /\ vnics = [l \in Links |-> NoVnicRecord]
    /\ records = [z \in Zones |-> NoRecord]
    /\ inventories = [z \in Zones |-> Unknown] /\ summary = 0
    /\ ready = {} /\ gaveUp = {}
    /\ calls = 0 /\ failures = 0

-----------------------------------------------------------------------------
(* The host's side of a command.                                            *)

\* on: a link, a zone or the host; link: what "configure" puts into the zone.
Configure(z, l) == [do |-> "configure", on |-> z, link |-> l]
Command(do, on) == [do |-> do, on |-> on, link |-> NoLink]
OnLink == {"create-vnic", "protect", "pin", "delete-vnic"}
OnZone == {"configure", "install", "boot", "halt", "uninstall", "delete"}

Requires(c) ==
    CASE c.do = "create-vnic"           -> ~links[c.on].here
      [] c.do = "delete-vnic"           -> links[c.on].here /\ Running(c.on) = {}
      [] c.do \in {"protect", "pin"}    -> links[c.on].here
      [] c.do \in {"show-vnic", "show-linkprop"} -> links[c.on].here
      [] c.do = "configure"             -> zones[c.on].state = "none"
      [] c.do = "install"               -> zones[c.on].state = "configured"
      [] c.do = "boot"                  -> /\ zones[c.on].state = "installed"
                                           /\ links[zones[c.on].link].here
                                           /\ Running(zones[c.on].link) = {}
      [] c.do = "halt"                  -> zones[c.on].state = "running"
      [] c.do = "uninstall"             -> zones[c.on].state \in {"installed", "running"}
      [] c.do = "delete"                -> zones[c.on].state = "configured"
      [] c.do \in {"list", "export"}    -> zones[c.on].state # "none"
      [] OTHER                          -> TRUE

SetLink(l, v) == links' = [links EXCEPT ![l] = v] /\ UNCHANGED zones
SetZone(z, state) == zones' = [zones EXCEPT ![z].state = state] /\ UNCHANGED links

Effect(c) ==
    CASE c.do = "create-vnic" -> SetLink(c.on, [NoVnic EXCEPT !.here = TRUE])
      [] c.do = "delete-vnic" -> SetLink(c.on, NoVnic)
      [] c.do = "protect"     -> SetLink(c.on, [links[c.on] EXCEPT !.protected = "on"])
      [] c.do = "pin"         -> SetLink(c.on, [links[c.on] EXCEPT !.pinned = "on"])
      [] c.do = "configure"   -> /\ zones' = [zones EXCEPT ![c.on] = [state |-> "configured", link |-> c.link]]
                                 /\ UNCHANGED links
      [] c.do \in {"install", "halt"} -> SetZone(c.on, "installed")
      [] c.do = "boot"        -> SetZone(c.on, "running")
      [] c.do = "uninstall"   -> SetZone(c.on, "configured")
      [] c.do = "delete"      -> zones' = [zones EXCEPT ![c.on] = NoZone] /\ UNCHANGED links
      [] OTHER                -> UNCHANGED <<links, zones>>

-----------------------------------------------------------------------------
(* The methods.                                                            *)

Requests ==
    [op : {"vnic_create"}, link : Links, allowedIps : BOOLEAN]
      \cup [op : {"vnic_destroy"}, link : Links]
      \cup [op : {"create"}, name : Zones, link : Links]
      \cup [op : {"lookup", "install", "boot", "halt", "uninstall", "delete"}, name : Zones]
      \cup [op : {"list", "inventory"}]

Show(l) == << Command("show-vnic", l), Command("show-linkprop", l) >>
\* Mutant: the addresses are pinned first, and the rest is left out if there are none.
ProtectedIfPinned(r) ==
    << Command("create-vnic", r.link) >>
      \o (IF r.allowedIps THEN << Command("pin", r.link), Command("protect", r.link) >> ELSE << >>)
      \o Show(r.link)
vnic_create(r) ==
    << Command("create-vnic", r.link), Command("protect", r.link) >>
      \o (IF r.allowedIps THEN << Command("pin", r.link) >> ELSE << >>)
      \o Show(r.link)

Commands(r) ==
    CASE r.op = "vnic_create"  -> vnic_create(r)
      [] r.op = "vnic_destroy" -> << Command("delete-vnic", r.link) >>
      [] r.op = "create"       -> << Configure(r.name, r.link),
                                     Command("export", r.name), Command("list", r.name) >>
      [] r.op = "lookup"       -> << Command("list", r.name), Command("export", r.name) >>
      [] r.op = "uninstall"    -> << Command("list", r.name), Command("uninstall", r.name) >>
      [] r.op = "list"         -> << Command("list-all", Host) >>
      [] r.op = "inventory"    -> << Command("true", Host), Command("list-all", Host) >>
      [] OTHER                 -> << Command(r.op, r.name) >>

Call(r) ==
    /\ req = NoCall /\ calls < MaxCalls[faults]
    /\ r.op = "boot" => zones[r.name].link \in ready
    /\ req' = r /\ todo' = Commands(r)
    /\ ready' = IF r.op = "vnic_destroy" THEN ready \ {r.link} ELSE ready
    /\ calls' = calls + 1
    /\ UNCHANGED <<host, got, data, gaveUp, failures>>

Leaves == req' = NoCall /\ todo' = << >> /\ got' = Nothing

\* The failure of these is no failure of the method.
Tolerated(c) == c.do = "show-linkprop" \/ (req.op = "uninstall" /\ c.do = "list")
\* uninstall refuses a zone it sees running.
Refuses(c) == req.op = "uninstall" /\ c.do = "list" /\ zones[c.on].state = "running"

Listed == [z \in Configured |-> zones[z].state]

Learned(c) ==
    CASE c.do = "list"          -> [got EXCEPT !.zone.state = zones[c.on].state]
      [] c.do = "export"        -> [got EXCEPT !.zone.link = zones[c.on].link]
      [] c.do = "show-linkprop" -> [got EXCEPT !.vnic = [protected |-> links[c.on].protected,
                                                         pinned |-> links[c.on].pinned]]
      [] c.do = "list-all"      -> [got EXCEPT !.listed = Listed]
      [] OTHER                  -> got

\* inventory goes on with every zone of the list.
Gathers(c) ==
    IF req.op = "inventory" /\ c.do = "list-all"
    THEN [i \in 1 .. Cardinality(Configured) |-> Command("gather", SetToSeq(Configured)[i])]
    ELSE << >>

\* Mutant: a zone that does not run is skipped.
RunningInventoried(c) ==
    IF c.do = "gather" /\ got.listed[c.on] = "running"
    THEN [inventories EXCEPT ![c.on] = "running"] ELSE inventories
\* A zone is inventoried whatever can be gathered about it.
Inventoried(c) ==
    IF c.do = "gather" THEN [inventories EXCEPT ![c.on] = got.listed[c.on]] ELSE inventories

Runs ==
    /\ todo # << >>
    /\ LET c == Head(todo)
       IN  /\ Requires(c) /\ ~Refuses(c)
           /\ Effect(c)
           /\ got' = Learned(c)
           /\ todo' = Tail(todo) \o Gathers(c)
           /\ inventories' = Inventoried(c)
    /\ UNCHANGED <<late, req, vnics, records, summary, counters>>

MayFail == failures < MaxFailures[faults] /\ failures' = failures + 1

Fails ==
    /\ todo # << >>
    /\ LET c == Head(todo)
       IN  /\ c.do # "gather"
           /\ (~Requires(c) /\ UNCHANGED failures) \/ MayFail
           /\ IF Tolerated(c) THEN todo' = Tail(todo) /\ UNCHANGED <<req, got>> ELSE Leaves
    /\ UNCHANGED <<host, data, ready, gaveUp, calls>>

ThrowsIfRunning ==
    /\ todo # << >> /\ Refuses(Head(todo))
    /\ Leaves
    /\ UNCHANGED <<host, data, counters>>

Lost ==
    /\ "lost" \in faults /\ todo # << >>
    /\ LET c == Head(todo)
       IN  c.do \in OnLink \cup OnZone /\ Requires(c) /\ Effect(c)
    /\ Leaves
    /\ UNCHANGED <<late, data, counters>>

\* What a command given up on may still change behind a later method: its link, or
\* the link of the zone it configures or boots.
Concerned(c) == IF c.do \in OnLink \cup {"configure", "boot"} THEN {c.on} ELSE {}

Killed ==
    /\ "late" \in faults /\ todo # << >>
    /\ LET c == Head(todo)
       IN  /\ c.do \in OnLink \cup OnZone
           /\ late' = late \cup {<<calls, c>>}
           /\ gaveUp' = gaveUp \cup Concerned(c)
    /\ Leaves
    /\ UNCHANGED <<links, zones, data, ready, calls, failures>>

LateRuns ==
    /\ \E l \in late :
          /\ late' = late \ {l}
          /\ IF Requires(l[2]) THEN Effect(l[2]) ELSE UNCHANGED <<links, zones>>
    /\ UNCHANGED <<method, data, counters>>

lookupVnic == got.vnic

Returns ==
    /\ req # NoCall /\ todo = << >>
    /\ vnics' = IF req.op = "vnic_create" THEN [vnics EXCEPT ![req.link] = lookupVnic] ELSE vnics
    /\ ready' = IF req.op = "vnic_create" THEN ready \cup {req.link} ELSE ready
    /\ records' = CASE req.op \in {"create", "lookup"} -> [records EXCEPT ![req.name] = got.zone]
                     [] req.op = "list" -> [z \in Zones |->
                           IF z \in DOMAIN got.listed
                           THEN [state |-> got.listed[z], link |-> Unknown] ELSE records[z]]
                     [] OTHER -> records
    /\ summary' = IF req.op = "inventory" THEN Cardinality(DOMAIN got.listed) ELSE summary
    /\ Leaves
    /\ UNCHANGED <<host, inventories, gaveUp, calls, failures>>

Moves == (\E r \in Requests : Call(r)) \/ Runs \/ Fails \/ ThrowsIfRunning \/ Returns
         \/ Lost \/ Killed \/ LateRuns
Next == Moves /\ UNCHANGED faults

Spec == Init /\ [][Next]_vars

-----------------------------------------------------------------------------
Flag == {"on", "off"}
States == {"none", "configured", "installed", "running"}

TypeOK ==
    /\ links \in [Links -> [here : BOOLEAN, protected : Flag, pinned : Flag]]
    /\ \A l \in Links : links[l].here \/ links[l] = NoVnic
    /\ zones \in [Zones -> [state : States, link : Links \cup {NoLink}]]
    /\ \A z \in Zones : zones[z].state = "none" <=> zones[z].link = NoLink
    /\ req = NoCall \/ req \in Requests
    /\ req = NoCall => todo = << >> /\ got = Nothing
    /\ vnics \in [Links -> [protected : Flag \cup {Unknown}, pinned : Flag \cup {Unknown}]]
    /\ \A z \in Zones : records[z].state \in States \cup {Unknown}
    /\ inventories \in [Zones -> States \cup {Unknown}]
    /\ summary \in 0 .. Cardinality(Zones)
    /\ ready \subseteq Links /\ gaveUp \subseteq Links \cup Zones

\* A running zone is on a link with its protection set, however commands fail
\* or lose their answer ("a VNIC is never visible without anti-spoof"): vnic_create
\* does not return before, and repeating it after it threw does not make it return.
RunningZoneProtected ==
    \A z \in Zones :
       (zones[z].state = "running" /\ {z, zones[z].link} \cap gaveUp = {}) =>
          links[zones[z].link].protected = "on"
ZonesProtected == TypeOK /\ RunningZoneProtected

\* What a method stores when it returns is how things are on the host, as far as
\* it could be read; inventory has one record for every zone it counts.
Returned(r) == req = r /\ todo = << >> /\ req' = NoCall
RecordsTrue ==
    []["late" \notin faults => \A r \in Requests : Returned(r) =>
          /\ r.op = "vnic_create" =>
                vnics'[r.link] \in {NoVnicRecord, [protected |-> "on", pinned |-> links[r.link].pinned]}
          /\ r.op \in {"create", "lookup"} => records'[r.name] = zones[r.name]
          /\ r.op = "list" => \A z \in Configured : records'[z].state = zones[z].state
          /\ r.op = "inventory" =>
                /\ summary' = Cardinality(Configured)
                /\ \A z \in Configured : inventories'[z] = zones[z].state]_vars
=============================================================================
