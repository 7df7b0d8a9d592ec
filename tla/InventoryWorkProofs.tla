------------------------ MODULE InventoryWorkProofs -------------------------
(***************************************************************************)
(* Proofs about what is recorded of hosts and guests.                      *)
(*                                                                         *)
(* Of the zones and VNICs of a host, for any zones, links and bounds: a    *)
(* zone only runs on a link that is protected, whatever commands fail,     *)
(* lose their answer or come late; and what the methods store is how       *)
(* things are on the host, unless commands come late.                      *)
(*                                                                         *)
(* Of the fleet's report, for any workflows, hypervisors and guests: it    *)
(* drops no guest untold, has no row that is made up or of another run,    *)
(* and one row of a name, the one that tells most.                         *)
(*                                                                         *)
(* Of the inventory of a TrueNAS host, for any guests and limits: a        *)
(* completed one has a record of each VM there was, its roll-up adds up    *)
(* those records, and a pinned guest has as many CPUs as it is pinned to.  *)
(*                                                                         *)
(* Of the inventory of an Omni fleet, for any machines and clusters: a     *)
(* completed one has a record of each machine that stayed, its counts add  *)
(* up and its notes are of what does not fit; and of what omnictl prints,  *)
(* for any resources: it is split into those that arrived whole, or is an  *)
(* error.                                                                  *)
(***************************************************************************)
EXTENDS InventoryWork, FiniteSetTheorems, SequenceTheorems, NaturalsInduction, WellFoundedInduction, TLAPS

-----------------------------------------------------------------------------
(* Zones: the inductive invariant.                                         *)

HostTyped ==
    /\ links \in [Links -> [here : BOOLEAN, protected : Flag, pinned : Flag]]
    /\ zones \in [Zones -> [state : States, link : Links \cup {NoLink}]]
    /\ \A z \in Zones : zones[z].state = "none" <=> zones[z].link = NoLink
    /\ req \in Requests \cup {NoCall}

\* A command is about a link or a zone there may be.
Shaped(c) ==
    /\ c.do \in OnLink => c.on \in Links
    /\ c.do \in OnZone => c.on \in Zones
    /\ c.do = "configure" => c.link \in Links

\* A command that a method r may have yet to run.
Fits(c, r) ==
    /\ Shaped(c)
    /\ c.do \in OnLink => /\ r.op = IF c.do = "delete-vnic" THEN "vnic_destroy" ELSE "vnic_create"
                          /\ c.on = r.link
    /\ c.do = "boot" => r.op = "boot" /\ c.on = r.name
    /\ c.do = "configure" => r.op = "create"
    /\ c.do = "gather" => r.op = "inventory"
    /\ c.do = "show-linkprop" => r.op = "vnic_create"

TodoFits == \E S : todo \in Seq(S) /\ \A c \in S : Fits(c, req)

\* In place and protected, or a link that a command given up on was about.
Safe(l) == l \in gaveUp \/ (links[l].here = TRUE /\ links[l].protected = "on")

\* What is late was given up on.
LateFits ==
    \A m \in late :
        /\ Shaped(m[2])
        /\ m[2].do \in OnLink \cup {"configure", "boot"} => m[2].on \in gaveUp

SafeReady == \A l \in ready : l \in Links /\ Safe(l)
SafeZones ==
    \A z \in Zones : (zones[z].state = "running" /\ z \notin gaveUp) => Safe(zones[z].link)

\* The link of a zone about to be booted is ready, unless the zone went away or was given up on.
BootReady ==
    (req.op = "boot" /\ todo # << >>) =>
        \/ zones[req.name].link \in ready
        \/ zones[req.name].state = "none" \/ req.name \in gaveUp

\* vnic_create creates its link and protects it before anything else.
Creating ==
    req.op = "vnic_create" =>
        todo = Commands(req) \/ todo = Tail(Commands(req)) \/ Safe(req.link)
Destroying == req.op = "vnic_destroy" => req.link \notin ready

Inv ==
    /\ HostTyped /\ TodoFits /\ LateFits
    /\ SafeReady /\ SafeZones /\ BootReady /\ Creating /\ Destroying

-----------------------------------------------------------------------------
(* The commands of the methods.                                            *)

LEMMA Kinds ==
    ASSUME NEW r \in Requests
    PROVE  /\ r.op \in {"vnic_create", "vnic_destroy", "create"} => r.link \in Links
           /\ r.op = "vnic_create" => r.allowedIps \in BOOLEAN
           /\ r.op \in {"create", "lookup", "install", "boot", "halt", "uninstall", "delete"} =>
                 r.name \in Zones
           /\ r.op \in {"vnic_create", "vnic_destroy", "create", "lookup", "install", "boot", "halt",
                        "uninstall", "delete", "list", "inventory"}
BY DEF Requests

\* vnic_create begins with the VNIC and its protection.
LEMMA CreateFirst ==
    ASSUME NEW r \in Requests, r.op = "vnic_create"
    PROVE  \E later \in Seq({Command(d, r.link) : d \in {"pin", "show-vnic", "show-linkprop"}}) :
              /\ Commands(r) = << Command("create-vnic", r.link), Command("protect", r.link) >> \o later
              /\ later # << >>
<1> DEFINE S == {Command(d, r.link) : d \in {"pin", "show-vnic", "show-linkprop"}}
<1>1. Commands(r) = vnic_create(r)
    BY DEF Commands
<1>2. Show(r.link) \in Seq(S) /\ Show(r.link) # << >>
    BY DEF Show
<1>3. CASE r.allowedIps
    <2>1. << Command("pin", r.link) >> \in Seq(S)
        OBVIOUS
    <2> DEFINE later == << Command("pin", r.link) >> \o Show(r.link)
    <2>2. later \in Seq(S)
        BY <1>2, <2>1, ConcatProperties
    <2>3. later # << >>
        BY DEF Show
    <2>4. Commands(r) = << Command("create-vnic", r.link), Command("protect", r.link) >> \o later
        BY <1>1, <1>3 DEF vnic_create, Show
    <2> QED BY <2>2, <2>3, <2>4
<1>4. CASE ~r.allowedIps
    <2>1. Commands(r) = << Command("create-vnic", r.link), Command("protect", r.link) >> \o Show(r.link)
        BY <1>1, <1>4 DEF vnic_create, Show
    <2> QED BY <1>2, <2>1
<1> QED BY <1>3, <1>4

LEMMA CommandsFit ==
    ASSUME NEW r \in Requests
    PROVE  \E S : Commands(r) \in Seq(S) /\ \A c \in S : Fits(c, r)
<1> USE DEF Command, Configure, Fits, Shaped, OnLink, OnZone
<1>1. CASE r.op = "vnic_create"
    <2> DEFINE S == {Command(d, r.link) : d \in {"create-vnic", "protect", "pin", "show-vnic", "show-linkprop"}}
    <2>1. PICK later \in Seq({Command(d, r.link) : d \in {"pin", "show-vnic", "show-linkprop"}}) :
             Commands(r) = << Command("create-vnic", r.link), Command("protect", r.link) >> \o later
        BY <1>1, CreateFirst
    <2>2. later \in Seq(S) /\ << Command("create-vnic", r.link), Command("protect", r.link) >> \in Seq(S)
        OBVIOUS
    <2>3. Commands(r) \in Seq(S)
        BY <2>1, <2>2, ConcatProperties
    <2>4. \A c \in S : Fits(c, r)
        BY <1>1, Kinds
    <2> QED BY <2>3, <2>4
<1>2. CASE r.op = "vnic_destroy"
    <2> DEFINE S == {Command("delete-vnic", r.link)}
    <2>1. Commands(r) \in Seq(S)
        BY <1>2 DEF Commands
    <2>2. \A c \in S : Fits(c, r)
        BY <1>2, Kinds
    <2> QED BY <2>1, <2>2
<1>3. CASE r.op = "create"
    <2> DEFINE S == {Configure(r.name, r.link), Command("export", r.name), Command("list", r.name)}
    <2>1. Commands(r) = << Configure(r.name, r.link), Command("export", r.name), Command("list", r.name) >>
        BY <1>3 DEF Commands
    <2>2. \A c \in S : Fits(c, r)
        BY <1>3, Kinds
    <2>3. Commands(r) \in Seq(S)
        BY <2>1
    <2> QED BY <2>2, <2>3
<1>4. CASE r.op = "lookup"
    <2> DEFINE S == {Command("list", r.name), Command("export", r.name)}
    <2>1. Commands(r) \in Seq(S)
        BY <1>4 DEF Commands
    <2>2. \A c \in S : Fits(c, r)
        BY <1>4, Kinds
    <2> QED BY <2>1, <2>2
<1>5. CASE r.op \in {"list", "inventory"}
    <2> DEFINE S == {Command("list-all", Host), Command("true", Host)}
    <2>1. CASE r.op = "list"
        <3>1. Commands(r) = << Command("list-all", Host) >>
            BY <2>1 DEF Commands
        <3>2. Commands(r) \in Seq(S)
            BY <3>1
        <3>3. \A c \in S : Fits(c, r)
            OBVIOUS
        <3> QED BY <3>2, <3>3
    <2>2. CASE r.op = "inventory"
        <3>1. Commands(r) = << Command("true", Host), Command("list-all", Host) >>
            BY <2>2 DEF Commands
        <3>2. Commands(r) \in Seq(S)
            BY <3>1
        <3>3. \A c \in S : Fits(c, r)
            OBVIOUS
        <3> QED BY <3>2, <3>3
    <2> QED BY <1>5, <2>1, <2>2
<1>6. CASE r.op = "uninstall"
    <2> DEFINE S == {Command("list", r.name), Command("uninstall", r.name)}
    <2>1. Commands(r) \in Seq(S)
        BY <1>6 DEF Commands
    <2>2. \A c \in S : Fits(c, r)
        BY <1>6, Kinds
    <2> QED BY <2>1, <2>2
<1>7. CASE r.op \in {"install", "boot", "halt", "delete"}
    <2> DEFINE S == {Command(r.op, r.name)}
    <2>1. Commands(r) = << Command(r.op, r.name) >>
        BY <1>7 DEF Commands
    <2>2. Commands(r) \in Seq(S)
        BY <2>1
    <2>3. \A c \in S : Fits(c, r)
        BY <1>7, Kinds
    <2> QED BY <2>2, <2>3
<1> QED BY <1>1, <1>2, <1>3, <1>4, <1>5, <1>6, <1>7, Kinds

LEMMA NextCommand ==
    ASSUME TodoFits, todo # << >>
    PROVE  /\ Fits(Head(todo), req)
           /\ \E S : Tail(todo) \in Seq(S) /\ \A c \in S : Fits(c, req)
BY HeadTailProperties DEF TodoFits

\* A link that is in place and protected stays so, unless it is deleted.
Good(l) == links[l].here = TRUE /\ links[l].protected = "on"

LEMMA LinkEffect ==
    ASSUME HostTyped, NEW c, Shaped(c), c.do \in OnLink, Requires(c), Effect(c)
    PROVE  /\ links' \in [Links -> [here : BOOLEAN, protected : Flag, pinned : Flag]]
           /\ zones' = zones
           /\ \A l \in Links : l # c.on => links'[l] = links[l]
           /\ c.do = "delete-vnic" => Running(c.on) = {}
           /\ \A l \in Links : Good(l) => Good(l)' \/ (c.do = "delete-vnic" /\ l = c.on)
           /\ c.do = "protect" => Good(c.on)'
<1> USE DEF HostTyped, Flag, NoVnic, SetLink
<1>1. c.on \in Links /\ links[c.on] \in [here : BOOLEAN, protected : Flag, pinned : Flag]
    BY DEF Shaped
<1>2. CASE c.do = "create-vnic"
    <2>1. ~links[c.on].here
        BY <1>2 DEF Requires
    <2>2. links' = [links EXCEPT ![c.on] = [NoVnic EXCEPT !.here = TRUE]] /\ zones' = zones
        BY <1>2 DEF Effect
    <2>3. [NoVnic EXCEPT !.here = TRUE] \in [here : BOOLEAN, protected : Flag, pinned : Flag]
        OBVIOUS
    <2> QED BY <1>1, <1>2, <2>1, <2>2, <2>3 DEF Good
<1>3. CASE c.do = "protect"
    BY <1>1, <1>3 DEF Requires, Effect, Good
<1>4. CASE c.do = "pin"
    BY <1>1, <1>4, SMTT(30) DEF Requires, Effect, Good
<1>5. CASE c.do = "delete-vnic"
    <2>1. Running(c.on) = {}
        BY <1>5 DEF Requires
    <2>2. links' = [links EXCEPT ![c.on] = NoVnic] /\ zones' = zones
        BY <1>5 DEF Effect
    <2> QED BY <1>1, <1>5, <2>1, <2>2 DEF Good
<1> QED BY <1>2, <1>3, <1>4, <1>5 DEF OnLink

LEMMA ZoneEffect ==
    ASSUME HostTyped, NEW c, Shaped(c), c.do \notin OnLink, Requires(c), Effect(c)
    PROVE  /\ links' = links
           /\ zones' \in [Zones -> [state : States, link : Links \cup {NoLink}]]
           /\ \A z \in Zones : zones'[z].state = "none" <=> zones'[z].link = NoLink
           /\ \A z \in Zones :
                 zones'[z].state = "running" =>
                    /\ zones'[z].link = zones[z].link
                    /\ \/ zones[z].state = "running"
                       \/ c.do = "boot" /\ z = c.on /\ zones[z].state = "installed"
           /\ \A z \in Zones :
                 \/ zones'[z].state = "none"
                 \/ zones[z].state # "none" /\ zones'[z].link = zones[z].link
                 \/ c.do = "configure" /\ z = c.on
<1> USE DEF HostTyped, States, NoZone, SetZone
<1>1. c.do \in OnZone => c.on \in Zones /\ zones[c.on] \in [state : States, link : Links \cup {NoLink}]
    BY DEF Shaped
<1>2. CASE c.do = "configure"
    <2>1. c.on \in Zones /\ c.link \in Links /\ c.link # NoLink
        BY <1>2, NamesAssumption DEF Shaped, OnZone
    <2>2. zones[c.on].state = "none"
        BY <1>2 DEF Requires
    <2>3. /\ links' = links
          /\ zones' = [zones EXCEPT ![c.on] = [state |-> "configured", link |-> c.link]]
        BY <1>2 DEF Effect
    <2> QED BY <1>2, <2>1, <2>2, <2>3
<1>3. CASE c.do \in {"install", "halt"}
    BY <1>1, <1>3, SMTT(30) DEF Requires, Effect, OnZone
<1>4. CASE c.do = "boot"
    <2>1. zones[c.on].state = "installed"
        BY <1>4 DEF Requires
    <2>2. links' = links /\ zones' = [zones EXCEPT ![c.on].state = "running"]
        BY <1>4 DEF Effect
    <2> QED BY <1>1, <1>4, <2>1, <2>2 DEF OnZone
<1>5. CASE c.do = "uninstall"
    BY <1>1, <1>5 DEF Requires, Effect, OnZone
<1>6. CASE c.do = "delete"
    BY <1>1, <1>6 DEF Requires, Effect, OnZone
<1>7. CASE c.do \notin OnZone
    BY <1>7 DEF Effect, OnLink, OnZone
<1> QED BY <1>2, <1>3, <1>4, <1>5, <1>6, <1>7 DEF OnZone

\* What a command that takes effect does to the links in use: one that deletes a link
\* must have been given up on or come from a method whose link is not ready, and one
\* that boots a zone finds a safe link.
LEMMA HostStep ==
    ASSUME HostTyped, SafeZones, NEW c, Shaped(c), Requires(c), Effect(c), gaveUp' = gaveUp,
           c.do = "boot" =>
              (c.on \in gaveUp \/ (zones[c.on].state = "installed" => Safe(zones[c.on].link)))
    PROVE  /\ links' \in [Links -> [here : BOOLEAN, protected : Flag, pinned : Flag]]
           /\ zones' \in [Zones -> [state : States, link : Links \cup {NoLink}]]
           /\ \A z \in Zones : zones'[z].state = "none" <=> zones'[z].link = NoLink
           /\ SafeZones'
           /\ \A l \in Links : Safe(l) =>
                 Safe(l)' \/ (c.do = "delete-vnic" /\ l = c.on /\ l \notin gaveUp)
           /\ c.do = "protect" => Safe(c.on)'
           /\ \A z \in Zones :
                 \/ zones'[z].state = "none"
                 \/ zones[z].state # "none" /\ zones'[z].link = zones[z].link
                 \/ c.do = "configure" /\ z = c.on
<1>1. CASE c.do \in OnLink
    <2>1. /\ links' \in [Links -> [here : BOOLEAN, protected : Flag, pinned : Flag]]
          /\ zones' = zones
          /\ c.do = "delete-vnic" => Running(c.on) = {}
          /\ \A l \in Links : Good(l) => Good(l)' \/ (c.do = "delete-vnic" /\ l = c.on)
          /\ c.do = "protect" => Good(c.on)'
        BY <1>1, LinkEffect
    <2>2. \A l \in Links : Safe(l) =>
             Safe(l)' \/ (c.do = "delete-vnic" /\ l = c.on /\ l \notin gaveUp)
        BY <2>1 DEF Safe, Good
    <2>3. ASSUME NEW z \in Zones, zones'[z].state = "running", z \notin gaveUp
          PROVE  Safe(zones[z].link)'
        <3>1. PICK l : l = zones[z].link
            OBVIOUS
        <3>2. l \in Links /\ Safe(l) /\ z \in Running(l)
            BY <2>1, <2>3, <3>1 DEF SafeZones, HostTyped, Running, States
        <3>3. Safe(l)'
            BY <2>1, <2>2, <3>2
        <3> QED BY <2>1, <3>1, <3>3 DEF Safe
    <2>4. SafeZones'
        BY <2>3 DEF SafeZones
    <2>5. c.do = "protect" => Safe(c.on)'
        BY <2>1 DEF Safe, Good
    <2> QED BY <1>1, <2>1, <2>2, <2>4, <2>5 DEF HostTyped, OnLink
<1>2. CASE c.do \notin OnLink
    <2>1. /\ links' = links
          /\ zones' \in [Zones -> [state : States, link : Links \cup {NoLink}]]
          /\ \A z \in Zones : zones'[z].state = "none" <=> zones'[z].link = NoLink
          /\ \A z \in Zones :
                zones'[z].state = "running" =>
                   /\ zones'[z].link = zones[z].link
                   /\ \/ zones[z].state = "running"
                      \/ c.do = "boot" /\ z = c.on /\ zones[z].state = "installed"
          /\ \A z \in Zones :
                \/ zones'[z].state = "none"
                \/ zones[z].state # "none" /\ zones'[z].link = zones[z].link
                \/ c.do = "configure" /\ z = c.on
        BY <1>2, ZoneEffect
    <2>2. \A l \in Links : Safe(l) => Safe(l)'
        BY <2>1 DEF Safe
    <2>3. ASSUME NEW z \in Zones, zones'[z].state = "running", z \notin gaveUp
          PROVE  Safe(zones[z].link)'
        <3>1. Safe(zones[z].link)
            BY <2>1, <2>3 DEF SafeZones
        <3> QED BY <2>1, <2>3, <3>1 DEF Safe
    <2>4. SafeZones'
        BY <2>3 DEF SafeZones
    <2> QED BY <1>2, <2>1, <2>2, <2>4 DEF HostTyped, OnLink
<1> QED BY <1>1, <1>2

-----------------------------------------------------------------------------
(* The steps.                                                              *)

LEMMA Starts == Init => Inv
<1> SUFFICES ASSUME Init PROVE Inv
    OBVIOUS
<1>1. HostTyped
    BY DEF Init, HostTyped, NoVnic, NoZone, Flag, States
<1>2. TodoFits
    BY DEF Init, TodoFits
<1>3. SafeZones
    BY DEF Init, SafeZones, NoZone
<1> QED BY <1>1, <1>2, <1>3 DEF Init, Inv, LateFits, SafeReady, BootReady, Creating, Destroying, NoCall

\* What stays when nothing on the host changes.
LEMMA Frame ==
    ASSUME HostTyped, SafeReady, SafeZones, LateFits,
           UNCHANGED <<links, zones>>, gaveUp \subseteq gaveUp'
    PROVE  /\ \A l \in Links : Safe(l) => Safe(l)'
           /\ SafeZones'
           /\ late' \subseteq late => LateFits'
           /\ ready' \subseteq ready => SafeReady'
<1>1. \A l : Safe(l) => Safe(l)'
    BY DEF Safe
<1>2. ASSUME NEW z \in Zones, zones'[z].state = "running", z \notin gaveUp'
      PROVE  Safe(zones[z].link)'
    <2>1. Safe(zones[z].link)
        BY <1>2 DEF SafeZones
    <2> QED BY <2>1 DEF Safe
<1>3. SafeZones'
    BY <1>2 DEF SafeZones
<1> QED BY <1>1, <1>3 DEF LateFits, SafeReady

LEMMA CallKeeps == ASSUME Inv, NEW r \in Requests, Call(r) PROVE Inv'
<1> USE DEF Inv, Call, host
<1>1. HostTyped'
    BY DEF HostTyped
<1>2. TodoFits'
    BY CommandsFit DEF TodoFits
<1>3. SafeZones' /\ LateFits' /\ SafeReady'
    BY Frame
<1>4. BootReady'
    BY DEF BootReady
<1> QED BY <1>1, <1>2, <1>3, <1>4 DEF Creating, Destroying

\* The method ends, with nothing else changed on this side.
LEMMA LeavesKeep ==
    ASSUME Leaves
    PROVE  TodoFits' /\ BootReady' /\ Creating' /\ Destroying'
<1>1. TodoFits'
    BY DEF Leaves, TodoFits
<1> QED BY <1>1 DEF Leaves, BootReady, Creating, Destroying, NoCall

\* A command of the method in hand takes effect.
LEMMA OwnEffect ==
    ASSUME Inv, todo # << >>, Requires(Head(todo)), Effect(Head(todo)),
           UNCHANGED <<late, ready, gaveUp>>
    PROVE  /\ req' \in Requests \cup {NoCall} => HostTyped'
           /\ SafeZones' /\ SafeReady' /\ LateFits'
           /\ req.op = "vnic_create" => \A l \in Links : Safe(l) => Safe(l)'
           /\ Head(todo).do = "protect" => \A l : l = req.link => Safe(l)'
           /\ req' = req /\ todo' # << >> => BootReady'
<1> USE DEF Inv
<1>1. PICK c : c = Head(todo)
    OBVIOUS
<1>2. Fits(c, req)
    BY <1>1, NextCommand
<1>3. c.do = "boot" =>
         (c.on \in gaveUp \/ (zones[c.on].state = "installed" => Safe(zones[c.on].link)))
    BY <1>2 DEF Fits, BootReady, SafeReady
<1>4. /\ links' \in [Links -> [here : BOOLEAN, protected : Flag, pinned : Flag]]
      /\ zones' \in [Zones -> [state : States, link : Links \cup {NoLink}]]
      /\ \A z \in Zones : zones'[z].state = "none" <=> zones'[z].link = NoLink
      /\ SafeZones'
      /\ \A l \in Links : Safe(l) =>
            Safe(l)' \/ (c.do = "delete-vnic" /\ l = c.on /\ l \notin gaveUp)
      /\ c.do = "protect" => Safe(c.on)'
      /\ \A z \in Zones :
            \/ zones'[z].state = "none"
            \/ zones[z].state # "none" /\ zones'[z].link = zones[z].link
            \/ c.do = "configure" /\ z = c.on
    <2>1. Shaped(c) /\ Requires(c) /\ Effect(c)
        BY <1>1, <1>2 DEF Fits
    <2> QED BY <1>3, <2>1, HostStep
<1>5. req' \in Requests \cup {NoCall} => HostTyped'
    BY <1>4 DEF HostTyped
<1>6. SafeReady'
    BY <1>2, <1>4 DEF SafeReady, Fits, Destroying, OnLink
<1>7. LateFits'
    BY DEF LateFits
<1>8. req.op = "vnic_create" => \A l \in Links : Safe(l) => Safe(l)'
    BY <1>2, <1>4 DEF Fits, OnLink
<1>9. c.do = "protect" => \A l : l = req.link => Safe(l)'
    BY <1>2, <1>4 DEF Fits, OnLink
<1>10. ASSUME req' = req, req.op = "boot"
       PROVE  BootReady'
    <2>1. PICK n : n = req.name
        OBVIOUS
    <2>2. n \in Zones
        BY <1>10, <2>1, Kinds DEF HostTyped, NoCall
    <2>3. zones[n].link \in ready \/ zones[n].state = "none" \/ n \in gaveUp
        BY <1>10, <2>1 DEF BootReady
    <2>4. zones'[n].link \in ready' \/ zones'[n].state = "none" \/ n \in gaveUp'
        BY <1>2, <1>4, <1>10, <2>2, <2>3 DEF Fits
    <2> QED BY <1>10, <2>1, <2>4 DEF BootReady
<1>11. ASSUME req' = req, req.op # "boot"
       PROVE  BootReady'
    BY <1>11 DEF BootReady
<1> QED BY <1>1, <1>4, <1>5, <1>6, <1>7, <1>8, <1>9, <1>10, <1>11

\* vnic_create has its first two commands to run, or only the second, or its link is safe.
LEMMA CreatingSteps ==
    ASSUME req \in Requests, req.op = "vnic_create", Creating, todo # << >>
    PROVE  \/ Head(todo).do = "create-vnic" /\ Tail(todo) = Tail(Commands(req))
           \/ Head(todo).do = "protect" /\ Head(todo).on = req.link
           \/ Safe(req.link)
<1>1. PICK later \in Seq({Command(d, req.link) : d \in {"pin", "show-vnic", "show-linkprop"}}) :
         Commands(req) = << Command("create-vnic", req.link), Command("protect", req.link) >> \o later
    BY CreateFirst
<1>2. Len(Commands(req)) \in Nat /\ Len(Commands(req)) >= 2
    BY <1>1
<1>3. Commands(req)[1] = Command("create-vnic", req.link) /\ Commands(req)[2] = Command("protect", req.link)
    BY <1>1
<1>4. CASE todo = Commands(req)
    BY <1>3, <1>4 DEF Command
<1>5. CASE todo = Tail(Commands(req))
    <2>1. Head(todo) = Command("protect", req.link)
        BY <1>1, <1>5
    <2> QED BY <2>1 DEF Command
<1> QED BY <1>4, <1>5 DEF Creating

LEMMA GathersFit ==
    ASSUME NEW c
    PROVE  \E S : Gathers(c) \in Seq(S) /\ \A d \in S : Fits(d, req)
<1>1. CASE req.op = "inventory" /\ c.do = "list-all"
    <2>1. PICK n : n = Cardinality(Configured)
        OBVIOUS
    <2>2. n \in Nat
        <3>1. IsFiniteSet(Configured)
            BY NamesAssumption, FS_Subset DEF Configured
        <3> QED BY <2>1, <3>1, FS_CardinalityType
    <2> DEFINE S == {Command("gather", SetToSeq(Configured)[i]) : i \in 1 .. n}
    <2>3. Gathers(c) = [i \in 1 .. n |-> Command("gather", SetToSeq(Configured)[i])]
        BY <1>1, <2>1 DEF Gathers
    <2>4. Gathers(c) \in Seq(S)
        BY <2>2, <2>3
    <2>5. \A d \in S : Fits(d, req)
        BY <1>1 DEF Fits, Shaped, Command, OnLink, OnZone
    <2> QED BY <2>4, <2>5
<1>2. CASE ~(req.op = "inventory" /\ c.do = "list-all")
    <2>1. Gathers(c) \in Seq({})
        BY <1>2 DEF Gathers
    <2> QED BY <2>1
<1> QED BY <1>1, <1>2

LEMMA RunsKeep == ASSUME Inv, Runs PROVE Inv'
<1> USE DEF Inv, Runs, counters
<1>1. PICK c : c = Head(todo)
    OBVIOUS
<1>2. /\ HostTyped' /\ SafeZones' /\ SafeReady' /\ LateFits'
      /\ req.op = "vnic_create" => \A l \in Links : Safe(l) => Safe(l)'
      /\ c.do = "protect" => \A l : l = req.link => Safe(l)'
      /\ todo' # << >> => BootReady'
    BY <1>1, OwnEffect DEF HostTyped
<1>3. TodoFits'
    <2>1. PICK S : Tail(todo) \in Seq(S) /\ \A d \in S : Fits(d, req)
        BY NextCommand
    <2>2. PICK T : Gathers(c) \in Seq(T) /\ \A d \in T : Fits(d, req)
        BY GathersFit
    <2> DEFINE U == S \cup T
    <2>3. Tail(todo) \in Seq(U) /\ Gathers(c) \in Seq(U)
        BY <2>1, <2>2
    <2>4. Tail(todo) \o Gathers(c) \in Seq(U)
        BY <2>3, ConcatProperties
    <2>5. \A d \in U : Fits(d, req')
        BY <2>1, <2>2
    <2>6. todo' \in Seq(U)
        BY <1>1, <2>4
    <2> QED BY <2>5, <2>6 DEF TodoFits
<1>4. BootReady'
    BY <1>2 DEF BootReady
<1>5. Creating'
    <2>1. PICK r : r = req
        OBVIOUS
    <2> SUFFICES ASSUME r.op = "vnic_create"
                 PROVE  todo' = Tail(Commands(r)) \/ Safe(r.link)'
        BY <2>1 DEF Creating
    <2>2. r \in Requests /\ r.link \in Links
        BY <2>1, Kinds DEF HostTyped, NoCall
    <2>3. \/ c.do = "create-vnic" /\ Tail(todo) = Tail(Commands(r))
          \/ c.do = "protect"
          \/ Safe(r.link)
        BY <1>1, <2>1, <2>2, CreatingSteps
    <2>4. CASE c.do = "create-vnic" /\ Tail(todo) = Tail(Commands(r))
        <3>1. Gathers(c) = << >>
            BY <2>1 DEF Gathers
        <3>2. \E S : Tail(todo) \in Seq(S)
            BY NextCommand
        <3>3. todo' = Tail(todo)
            BY <1>1, <3>1, <3>2
        <3> QED BY <2>4, <3>3
    <2>5. CASE c.do = "protect"
        BY <1>2, <2>1, <2>5
    <2>6. CASE Safe(r.link)
        BY <1>2, <2>1, <2>2, <2>6
    <2> QED BY <2>3, <2>4, <2>5, <2>6
<1>6. Destroying'
    BY DEF Destroying
<1> QED BY <1>2, <1>3, <1>4, <1>5, <1>6

LEMMA FailsKeep == ASSUME Inv, Fails PROVE Inv'
<1> USE DEF Inv, Fails, host
<1>1. PICK c : c = Head(todo)
    OBVIOUS
<1>2. /\ SafeZones' /\ LateFits' /\ SafeReady'
      /\ \A l \in Links : Safe(l) => Safe(l)'
    BY Frame
<1>3. CASE Tolerated(c)
    <2>1. todo' = Tail(todo) /\ req' = req
        BY <1>1, <1>3
    <2>2. TodoFits'
        BY <2>1, NextCommand DEF TodoFits
    <2>3. Creating'
        <3>1. PICK r : r = req
            OBVIOUS
        <3> SUFFICES ASSUME r.op = "vnic_create"
                     PROVE  todo' = Tail(Commands(r)) \/ Safe(r.link)'
            BY <2>1, <3>1 DEF Creating
        <3>2. r \in Requests /\ r.link \in Links
            BY <3>1, Kinds DEF HostTyped, NoCall
        <3>3. Safe(r.link)
            BY <1>1, <1>3, <3>1, <3>2, CreatingSteps DEF Tolerated
        <3> QED BY <1>2, <3>2, <3>3
    <2>4. HostTyped' /\ BootReady' /\ Destroying'
        BY <2>1 DEF HostTyped, BootReady, Destroying
    <2> QED BY <1>2, <2>2, <2>3, <2>4
<1>4. CASE ~Tolerated(c)
    <2>1. Leaves
        BY <1>1, <1>4
    <2>2. HostTyped'
        BY <2>1 DEF HostTyped, Leaves
    <2> QED BY <1>2, <2>1, <2>2, LeavesKeep
<1> QED BY <1>3, <1>4

LEMMA ThrowsKeeps == ASSUME Inv, ThrowsIfRunning PROVE Inv'
<1> USE DEF Inv, ThrowsIfRunning, host, counters
<1>1. SafeZones' /\ LateFits' /\ SafeReady'
    BY Frame
<1>2. HostTyped'
    BY DEF HostTyped, Leaves
<1> QED BY <1>1, <1>2, LeavesKeep

LEMMA LostKeeps == ASSUME Inv, Lost PROVE Inv'
<1>1. todo # << >> /\ Requires(Head(todo)) /\ Effect(Head(todo)) /\ Leaves /\ UNCHANGED <<late, ready, gaveUp>>
    BY DEF Lost, counters
<1>2. HostTyped' /\ SafeZones' /\ SafeReady' /\ LateFits'
    BY <1>1, OwnEffect DEF Leaves
<1> QED BY <1>1, <1>2, LeavesKeep DEF Inv

LEMMA KilledKeeps == ASSUME Inv, Killed PROVE Inv'
<1> USE DEF Inv, Killed
<1>1. PICK c : c = Head(todo)
    OBVIOUS
<1>2. late' = late \cup {<<calls, c>>} /\ gaveUp' = gaveUp \cup Concerned(c)
    BY <1>1
<1>3. SafeZones' /\ SafeReady'
    BY <1>2, Frame
<1>4. LateFits'
    <2>1. Shaped(c)
        BY <1>1, NextCommand DEF Fits
    <2>2. c.do \in OnLink \cup {"configure", "boot"} => c.on \in gaveUp'
        BY <1>2 DEF Concerned
    <2>3. ASSUME NEW m \in late'
          PROVE  /\ Shaped(m[2])
                 /\ m[2].do \in OnLink \cup {"configure", "boot"} => m[2].on \in gaveUp'
        <3>1. CASE m \in late
            BY <1>2, <3>1 DEF LateFits
        <3>2. CASE m = <<calls, c>>
            BY <2>1, <2>2, <3>2
        <3> QED BY <1>2, <3>1, <3>2
    <2> QED BY <2>3 DEF LateFits
<1>5. HostTyped'
    BY DEF HostTyped, Leaves
<1> QED BY <1>3, <1>4, <1>5, LeavesKeep

LEMMA LateKeeps == ASSUME Inv, LateRuns PROVE Inv'
<1> USE DEF Inv, LateRuns, method, counters
<1>1. PICK m \in late :
         /\ late' = late \ {m}
         /\ IF Requires(m[2]) THEN Effect(m[2]) ELSE UNCHANGED <<links, zones>>
    OBVIOUS
<1>2. UNCHANGED <<req, todo, ready, gaveUp>>
    OBVIOUS
<1>3. TodoFits' /\ LateFits' /\ Destroying'
    BY <1>1, <1>2 DEF TodoFits, LateFits, Destroying
<1>4. CASE ~Requires(m[2])
    <2>1. UNCHANGED <<links, zones>>
        BY <1>1, <1>4
    <2>2. /\ SafeZones' /\ SafeReady'
          /\ \A l \in Links : Safe(l) => Safe(l)'
        BY <1>2, <2>1, Frame
    <2>3. HostTyped' /\ BootReady'
        BY <1>2, <2>1 DEF HostTyped, BootReady
    <2>4. Creating'
        BY <1>2, <2>2, Kinds DEF Creating, HostTyped, NoCall
    <2> QED BY <1>3, <2>2, <2>3, <2>4
<1>5. CASE Requires(m[2])
    <2>1. PICK c : c = m[2]
        OBVIOUS
    <2>2. Requires(c) /\ Effect(c) /\ Shaped(c)
        BY <1>1, <1>5, <2>1 DEF LateFits
    <2>3. c.do \in OnLink \cup {"configure", "boot"} => c.on \in gaveUp
        BY <2>1 DEF LateFits
    <2>4. /\ links' \in [Links -> [here : BOOLEAN, protected : Flag, pinned : Flag]]
          /\ zones' \in [Zones -> [state : States, link : Links \cup {NoLink}]]
          /\ \A z \in Zones : zones'[z].state = "none" <=> zones'[z].link = NoLink
          /\ SafeZones'
          /\ \A l \in Links : Safe(l) =>
                Safe(l)' \/ (c.do = "delete-vnic" /\ l = c.on /\ l \notin gaveUp)
          /\ \A z \in Zones :
                \/ zones'[z].state = "none"
                \/ zones[z].state # "none" /\ zones'[z].link = zones[z].link
                \/ c.do = "configure" /\ z = c.on
        BY <1>2, <2>2, <2>3, HostStep
    <2>5. \A l \in Links : Safe(l) => Safe(l)'
        BY <2>3, <2>4 DEF OnLink
    <2>6. HostTyped' /\ SafeReady'
        BY <1>2, <2>4, <2>5 DEF HostTyped, SafeReady
    <2>7. Creating'
        BY <1>2, <2>5, Kinds DEF Creating, HostTyped, NoCall
    <2>8. BootReady'
        BY <1>2, <2>3, <2>4, Kinds DEF BootReady, HostTyped, NoCall
    <2> QED BY <1>3, <2>4, <2>6, <2>7, <2>8
<1> QED BY <1>4, <1>5

LEMMA LongTail ==
    ASSUME NEW S, NEW s \in Seq(S), Len(s) > 2
    PROVE  s # << >> /\ Tail(s) # << >>
<1>1. s # << >>
    OBVIOUS
<1>2. Len(s) \in Nat /\ Len(Tail(s)) = Len(s) - 1
    BY <1>1, HeadTailProperties, LenProperties
<1>3. Len(Tail(s)) # Len(<< >>)
    <2>1. PICK n : n = Len(s)
        OBVIOUS
    <2>2. n \in Nat /\ n > 2
        BY <1>2, <2>1
    <2>3. n - 1 # 0
        BY <2>2
    <2>4. Len(<< >>) = 0
        OBVIOUS
    <2> QED BY <1>2, <2>1, <2>3, <2>4, Zenon
<1> QED BY <1>1, <1>3

LEMMA ReturnsKeep == ASSUME Inv, Returns PROVE Inv'
<1> USE DEF Inv, Returns, host
<1>1. LateFits' /\ SafeZones' /\ \A l \in Links : Safe(l) => Safe(l)'
    BY Frame
<1>2. req.op = "vnic_create" => req.link \in Links /\ Safe(req.link)
    <2> SUFFICES ASSUME req.op = "vnic_create" PROVE req.link \in Links /\ Safe(req.link)
        OBVIOUS
    <2>1. req \in Requests
        BY DEF HostTyped
    <2>2. PICK later \in Seq({Command(d, req.link) : d \in {"pin", "show-vnic", "show-linkprop"}}) :
             /\ Commands(req) = << Command("create-vnic", req.link), Command("protect", req.link) >> \o later
             /\ later # << >>
        BY <2>1, CreateFirst
    <2>3. Len(Commands(req)) \in Nat /\ Len(Commands(req)) > 2
        BY <2>2
    <2>4. Commands(req) # << >> /\ Tail(Commands(req)) # << >>
        <3>1. PICK S : Commands(req) \in Seq(S)
            BY <2>1, CommandsFit
        <3> QED BY <2>3, <3>1, LongTail
    <2> QED BY <2>1, <2>4, Kinds DEF Creating
<1>3. SafeReady'
    BY <1>1, <1>2 DEF SafeReady
<1>4. HostTyped'
    BY DEF HostTyped, Leaves
<1> QED BY <1>1, <1>3, <1>4, LeavesKeep

LEMMA Inductive == ASSUME Inv, [Next]_vars PROVE Inv'
<1>1. ASSUME NEW r \in Requests, Call(r) PROVE Inv'
    BY <1>1, CallKeeps
<1>2. CASE Runs
    BY <1>2, RunsKeep
<1>3. CASE Fails
    BY <1>3, FailsKeep
<1>4. CASE ThrowsIfRunning
    BY <1>4, ThrowsKeeps
<1>5. CASE Returns
    BY <1>5, ReturnsKeep
<1>6. CASE Lost
    BY <1>6, LostKeeps
<1>7. CASE Killed
    BY <1>7, KilledKeeps
<1>8. CASE LateRuns
    BY <1>8, LateKeeps
<1>9. CASE UNCHANGED vars
    BY <1>9 DEF vars, host, method, counters, Inv, HostTyped, TodoFits, LateFits, SafeReady, SafeZones,
                BootReady, Creating, Destroying, Safe
<1> QED BY <1>1, <1>2, <1>3, <1>4, <1>5, <1>6, <1>7, <1>8, <1>9 DEF Next, Moves

-----------------------------------------------------------------------------
(* What a method has read, and how far it is.                              *)

ZoneRecords == [state : States \cup {Unknown}, link : Links \cup {NoLink, Unknown}]
VnicRecords == [protected : Flag \cup {Unknown}, pinned : Flag \cup {Unknown}]
IsListing(f) == DOMAIN f \subseteq Zones /\ \A z \in DOMAIN f : f[z] \in States
GotTyped == \E f : IsListing(f) /\ got \in [zone : ZoneRecords, vnic : VnicRecords, listed : {f}]

\* Nothing moves on the host but what the method in hand does.
Alone == "late" \notin faults

CreateRests(r) ==
    {Commands(r), Tail(Commands(r)), << Command("pin", r.link) >> \o Show(r.link), Show(r.link),
     << Command("show-linkprop", r.link) >>}
CreatePlace(r) ==
    \/ todo \in CreateRests(r) /\ got.vnic = NoVnicRecord
    \/ /\ todo = << >>
       /\ Alone => got.vnic \in {NoVnicRecord, [protected |-> "on", pinned |-> links[r.link].pinned]}

ConfigurePlace(r) ==
    \/ todo = << Configure(r.name, r.link), Command("export", r.name), Command("list", r.name) >>
    \/ todo = << Command("export", r.name), Command("list", r.name) >>
    \/ todo = << Command("list", r.name) >> /\ (Alone => got.zone.link = zones[r.name].link)
    \/ todo = << >> /\ (Alone => got.zone = zones[r.name])

LookupPlace(r) ==
    \/ todo = << Command("list", r.name), Command("export", r.name) >>
    \/ todo = << Command("export", r.name) >> /\ (Alone => got.zone.state = zones[r.name].state)
    \/ todo = << >> /\ (Alone => got.zone = zones[r.name])

ListPlace(r) ==
    \/ todo = << Command("list-all", Host) >>
    \/ todo = << >> /\ (Alone => got.listed = Listed)

\* inventory goes through the zones it listed.
Gather(z) == Command("gather", z)
InventoryPlace(r) ==
    \/ todo \in {<< Command("true", Host), Command("list-all", Host) >>, << Command("list-all", Host) >>}
    \/ /\ todo \in Seq({Gather(z) : z \in DOMAIN got.listed})
       /\ Alone => got.listed = Listed
       /\ \A z \in DOMAIN got.listed :
             inventories[z] = got.listed[z] \/ \E i \in 1 .. Len(todo) : todo[i] = Gather(z)

UninstallPlace(r) ==
    todo \in {<< Command("list", r.name), Command("uninstall", r.name) >>, << Command("uninstall", r.name) >>,
              << >>}

Place ==
    /\ req.op = "vnic_create" => CreatePlace(req)
    /\ req.op = "create" => ConfigurePlace(req)
    /\ req.op = "lookup" => LookupPlace(req)
    /\ req.op = "list" => ListPlace(req)
    /\ req.op = "inventory" => InventoryPlace(req)
    /\ req.op = "uninstall" => UninstallPlace(req)
    /\ req.op \in {"install", "boot", "halt", "delete"} => todo \in {<< Command(req.op, req.name) >>, << >>}
    /\ req.op = "vnic_destroy" => todo \in {<< Command("delete-vnic", req.link) >>, << >>}
    /\ req.op = "none" => todo = << >> /\ got = Nothing

\* The rest of the type invariant, and what only late commands disturb.
DataTyped ==
    /\ \A l \in Links : links[l].here \/ links[l] = NoVnic
    /\ vnics \in [Links -> VnicRecords]
    /\ \A z \in Zones : records[z].state \in States \cup {Unknown}
    /\ records = [z \in Zones |-> records[z]]
    /\ inventories \in [Zones -> States \cup {Unknown}]
    /\ summary \in 0 .. Cardinality(Zones)
    /\ gaveUp \subseteq Links \cup Zones /\ ready \subseteq Links
Undisturbed == Alone => late = {} /\ gaveUp = {}

RecordInv == GotTyped /\ Place /\ DataTyped /\ Undisturbed

-----------------------------------------------------------------------------
(* What a command changes and teaches.                                      *)

Reads == {"show-vnic", "show-linkprop", "list", "export", "list-all", "true", "gather"}

LEMMA ReadsChangeNothing ==
    ASSUME NEW c, c.do \in Reads, Effect(c)
    PROVE  UNCHANGED <<links, zones>>
BY DEF Reads, Effect

LEMMA ListedFits == ASSUME HostTyped PROVE IsListing(Listed) /\ DOMAIN Listed = Configured
BY DEF IsListing, Listed, HostTyped, Configured

LEMMA GotFields ==
    ASSUME GotTyped
    PROVE  /\ got.zone \in ZoneRecords /\ got.vnic \in VnicRecords /\ IsListing(got.listed)
           /\ got = [zone |-> got.zone, vnic |-> got.vnic, listed |-> got.listed]
BY DEF GotTyped

\* What each command adds to what was read.
LEMMA LearnedAs ==
    ASSUME GotTyped, NEW c
    PROVE  /\ c.do = "list" =>
                 Learned(c) = [zone |-> [state |-> zones[c.on].state, link |-> got.zone.link],
                               vnic |-> got.vnic, listed |-> got.listed]
           /\ c.do = "export" =>
                 Learned(c) = [zone |-> [state |-> got.zone.state, link |-> zones[c.on].link],
                               vnic |-> got.vnic, listed |-> got.listed]
           /\ c.do = "show-linkprop" =>
                 Learned(c) = [zone |-> got.zone,
                               vnic |-> [protected |-> links[c.on].protected, pinned |-> links[c.on].pinned],
                               listed |-> got.listed]
           /\ c.do = "list-all" =>
                 Learned(c) = [zone |-> got.zone, vnic |-> got.vnic, listed |-> Listed]
           /\ c.do \notin {"list", "export", "show-linkprop", "list-all"} => Learned(c) = got
<1> DEFINE z == got.zone
           v == got.vnic
           f == got.listed
<1>1. got = [zone |-> z, vnic |-> v, listed |-> f] /\ z = [state |-> z.state, link |-> z.link]
    BY GotFields DEF ZoneRecords
<1>2. CASE c.do = "list"
    BY <1>1, <1>2 DEF Learned
<1>3. CASE c.do = "export"
    BY <1>1, <1>3 DEF Learned
<1>4. CASE c.do = "show-linkprop"
    BY <1>1, <1>4 DEF Learned
<1>5. CASE c.do = "list-all"
    BY <1>1, <1>5 DEF Learned
<1>6. CASE c.do \notin {"list", "export", "show-linkprop", "list-all"}
    BY <1>6 DEF Learned
<1> QED BY <1>2, <1>3, <1>4, <1>5, <1>6

LEMMA LearnedTyped ==
    ASSUME HostTyped, GotTyped, NEW c, got' = Learned(c),
           c.do \in {"list", "export"} => c.on \in Zones,
           c.do = "show-linkprop" => c.on \in Links
    PROVE  GotTyped'
<1> DEFINE Typed(z, v, f) == z \in ZoneRecords /\ v \in VnicRecords /\ IsListing(f)
<1>1. Typed(got.zone, got.vnic, got.listed)
    BY GotFields
<1>2. \E z, v, f : Typed(z, v, f) /\ got' = [zone |-> z, vnic |-> v, listed |-> f]
    <2>1. CASE c.do = "list"
        <3>1. [state |-> zones[c.on].state, link |-> got.zone.link] \in ZoneRecords
            BY <1>1, <2>1 DEF HostTyped, ZoneRecords
        <3> QED BY <1>1, <2>1, <3>1, LearnedAs
    <2>2. CASE c.do = "export"
        <3>1. [state |-> got.zone.state, link |-> zones[c.on].link] \in ZoneRecords
            BY <1>1, <2>2 DEF HostTyped, ZoneRecords
        <3> QED BY <1>1, <2>2, <3>1, LearnedAs
    <2>3. CASE c.do = "show-linkprop"
        <3>1. [protected |-> links[c.on].protected, pinned |-> links[c.on].pinned] \in VnicRecords
            BY <2>3 DEF HostTyped, VnicRecords
        <3> QED BY <1>1, <2>3, <3>1, LearnedAs
    <2>4. CASE c.do = "list-all"
        BY <1>1, <2>4, LearnedAs, ListedFits
    <2>5. CASE c.do \notin {"list", "export", "show-linkprop", "list-all"}
        BY <1>1, <2>5, LearnedAs, GotFields
    <2> QED BY <2>1, <2>2, <2>3, <2>4, <2>5
<1> QED BY <1>2 DEF GotTyped

-----------------------------------------------------------------------------
(* How far a method is after its next command.                             *)

\* Concatenations of the lengths that come up.
LEMMA OneAndTwo ==
    ASSUME NEW a, NEW b, NEW c
    PROVE  << a >> \o << b, c >> = << a, b, c >>
<1> DEFINE S == {a, b, c}
<1> DEFINE s == << a >>
           t == << b, c >>
           u == << a, b, c >>
<1>1. s \in Seq(S) /\ t \in Seq(S) /\ u \in Seq(S) /\ Len(s) = 1 /\ Len(t) = 2 /\ Len(u) = 3
    OBVIOUS
<1>2. /\ Len(s \o t) = 3 /\ s \o t \in Seq(S)
      /\ \A i \in 1 .. 3 : (s \o t)[i] = IF i <= 1 THEN s[i] ELSE t[i - 1]
    BY <1>1, ConcatProperties
<1>3. \A i \in 1 .. 3 : i = 1 \/ i = 2 \/ i = 3
    OBVIOUS
<1>4. \A i \in 1 .. 3 : (s \o t)[i] = u[i]
    BY <1>2, <1>3
<1> QED BY <1>1, <1>2, <1>4, SeqEqual

LEMMA TwoAndOne ==
    ASSUME NEW a, NEW b, NEW c
    PROVE  << a, b >> \o << c >> = << a, b, c >>
<1> DEFINE S == {a, b, c}
<1> DEFINE s == << a, b >>
           t == << c >>
           u == << a, b, c >>
<1>1. s \in Seq(S) /\ t \in Seq(S) /\ u \in Seq(S) /\ Len(s) = 2 /\ Len(t) = 1 /\ Len(u) = 3
    OBVIOUS
<1>2. /\ Len(s \o t) = 3 /\ s \o t \in Seq(S)
      /\ \A i \in 1 .. 3 : (s \o t)[i] = IF i <= 2 THEN s[i] ELSE t[i - 2]
    BY <1>1, ConcatProperties
<1>3. \A i \in 1 .. 3 : i = 1 \/ i = 2 \/ i = 3
    OBVIOUS
<1>4. \A i \in 1 .. 3 : (s \o t)[i] = u[i]
    BY <1>2, <1>3
<1> QED BY <1>1, <1>2, <1>4, SeqEqual

LEMMA TwoAndTwo ==
    ASSUME NEW a, NEW b, NEW c, NEW d
    PROVE  << a, b >> \o << c, d >> = << a, b, c, d >>
<1> DEFINE S == {a, b, c, d}
<1> DEFINE s == << a, b >>
           t == << c, d >>
           u == << a, b, c, d >>
<1>1. s \in Seq(S) /\ t \in Seq(S) /\ u \in Seq(S) /\ Len(s) = 2 /\ Len(t) = 2 /\ Len(u) = 4
    OBVIOUS
<1>2. /\ Len(s \o t) = 4 /\ s \o t \in Seq(S)
      /\ \A i \in 1 .. 4 : (s \o t)[i] = IF i <= 2 THEN s[i] ELSE t[i - 2]
    BY <1>1, ConcatProperties
<1>3. \A i \in 1 .. 4 : i = 1 \/ i = 2 \/ i = 3 \/ i = 4
    OBVIOUS
<1>4. \A i \in 1 .. 4 : (s \o t)[i] = u[i]
    BY <1>2, <1>3
<1> QED BY <1>1, <1>2, <1>4, SeqEqual

LEMMA ThreeAndTwo ==
    ASSUME NEW a, NEW b, NEW c, NEW d, NEW e
    PROVE  << a, b, c >> \o << d, e >> = << a, b, c, d, e >>
<1> DEFINE S == {a, b, c, d, e}
<1> DEFINE s == << a, b, c >>
           t == << d, e >>
           u == << a, b, c, d, e >>
<1>1. s \in Seq(S) /\ t \in Seq(S) /\ u \in Seq(S) /\ Len(s) = 3 /\ Len(t) = 2 /\ Len(u) = 5
    OBVIOUS
<1>2. /\ Len(s \o t) = 5 /\ s \o t \in Seq(S)
      /\ \A i \in 1 .. 5 : (s \o t)[i] = IF i <= 3 THEN s[i] ELSE t[i - 3]
    BY <1>1, ConcatProperties
<1>3. \A i \in 1 .. 5 : i = 1 \/ i = 2 \/ i = 3 \/ i = 4 \/ i = 5
    OBVIOUS
<1>4. \A i \in 1 .. 5 : (s \o t)[i] = u[i]
    BY <1>2, <1>3
<1> QED BY <1>1, <1>2, <1>4, SeqEqual

LEMMA CreateCommands ==
    ASSUME NEW r \in Requests, r.op = "vnic_create"
    PROVE  /\ Show(r.link) = << Command("show-vnic", r.link), Command("show-linkprop", r.link) >>
           /\ << Command("pin", r.link) >> \o Show(r.link) =
                 << Command("pin", r.link), Command("show-vnic", r.link), Command("show-linkprop", r.link) >>
           /\ \/ Commands(r) = << Command("create-vnic", r.link), Command("protect", r.link),
                                  Command("pin", r.link), Command("show-vnic", r.link),
                                  Command("show-linkprop", r.link) >>
              \/ Commands(r) = << Command("create-vnic", r.link), Command("protect", r.link),
                                  Command("show-vnic", r.link), Command("show-linkprop", r.link) >>
<1> DEFINE C == Command("create-vnic", r.link)
           P == Command("protect", r.link)
           A == Command("pin", r.link)
           V == Command("show-vnic", r.link)
           L == Command("show-linkprop", r.link)
<1>1. Commands(r) = << C, P >> \o (IF r.allowedIps THEN << A >> ELSE << >>) \o << V, L >>
    BY DEF Commands, vnic_create, Show
<1> HIDE DEF C, P, A, V, L
<1>2. Commands(r) = << C, P, A, V, L >> \/ Commands(r) = << C, P, V, L >>
    <2>1. CASE r.allowedIps
        <3>1. Commands(r) = (<< C, P >> \o << A >>) \o << V, L >>
            BY <1>1, <2>1
        <3>2. << C, P >> \o << A >> = << C, P, A >>
            BY TwoAndOne
        <3>3. << C, P, A >> \o << V, L >> = << C, P, A, V, L >>
            BY ThreeAndTwo
        <3> QED BY <3>1, <3>2, <3>3, Zenon
    <2>2. CASE ~r.allowedIps
        <3>1. Commands(r) = (<< C, P >> \o << >>) \o << V, L >>
            BY <1>1, <2>2
        <3>2. << C, P >> \o << >> = << C, P >>
            OBVIOUS
        <3>3. << C, P >> \o << V, L >> = << C, P, V, L >>
            BY TwoAndTwo
        <3> QED BY <3>1, <3>2, <3>3, Zenon
    <2> QED BY <2>1, <2>2
<1>3. << A >> \o << V, L >> = << A, V, L >>
    BY OneAndTwo
<1> QED BY <1>2, <1>3 DEF C, P, A, V, L, Show

\* A command goes from the front of what there is to do.
LEMMA TailOnly ==
    ASSUME TodoFits, Runs, NEW c, c = Head(todo), ~(req.op = "inventory" /\ c.do = "list-all")
    PROVE  /\ todo' = Tail(todo) /\ got' = Learned(c) /\ req' = req /\ inventories' = Inventoried(c)
           /\ c.do \in Reads => UNCHANGED <<links, zones>>
<1>1. Gathers(c) = << >>
    BY DEF Gathers
<1>2. \E S : Tail(todo) \in Seq(S)
    BY NextCommand DEF Runs
<1>3. Effect(c) /\ todo' = Tail(todo) \o Gathers(c) /\ got' = Learned(c) /\ inventories' = Inventoried(c)
    BY DEF Runs
<1>4. req' = req
    BY DEF Runs
<1> QED BY <1>1, <1>2, <1>3, <1>4, ReadsChangeNothing

LEMMA CreateNext ==
    ASSUME RecordInv, todo # << >>, NEW r \in Requests, r = req, r.op = "vnic_create"
    PROVE  /\ got.vnic = NoVnicRecord
           /\ \/ /\ Head(todo).do \in {"create-vnic", "protect", "pin", "show-vnic"}
                 /\ Tail(todo) \in CreateRests(r)
              \/ Head(todo) = Command("show-linkprop", r.link) /\ Tail(todo) = << >>
<1> DEFINE l == r.link
           C == Command("create-vnic", l)
           P == Command("protect", l)
           A == Command("pin", l)
           V == Command("show-vnic", l)
           L == Command("show-linkprop", l)
<1> HIDE DEF l, C, P, A, V, L
<1>1. PICK c : c = Head(todo)
    OBVIOUS
<1>3. todo \in CreateRests(r) /\ got.vnic = NoVnicRecord
    BY DEF RecordInv, Place, CreatePlace
<1>4. CreateRests(r) = {Commands(r), Tail(Commands(r)), << A, V, L >>, << V, L >>, << L >>}
    BY CreateCommands DEF CreateRests, l, A, V, L
<1>5. Commands(r) = << C, P, A, V, L >> \/ Commands(r) = << C, P, V, L >>
    BY CreateCommands DEF l, C, P, A, V, L
<1>7. \/ c \in {C, P, A, V} /\ Tail(todo) \in CreateRests(r)
      \/ c = L /\ Tail(todo) = << >>
    <2>1. CASE todo = Commands(r)
        <3>1. Head(<< C, P, A, V, L >>) = C /\ Head(<< C, P, V, L >>) = C
            OBVIOUS
        <3> QED BY <1>1, <1>4, <1>5, <2>1, <3>1, Zenon
    <2>2. CASE todo = Tail(Commands(r))
        <3>1. /\ Tail(<< C, P, A, V, L >>) = << P, A, V, L >>
              /\ Tail(<< C, P, V, L >>) = << P, V, L >>
            OBVIOUS
        <3>2. /\ Head(<< P, A, V, L >>) = P /\ Tail(<< P, A, V, L >>) = << A, V, L >>
              /\ Head(<< P, V, L >>) = P /\ Tail(<< P, V, L >>) = << V, L >>
            OBVIOUS
        <3>3. todo = << P, A, V, L >> \/ todo = << P, V, L >>
            BY <1>5, <2>2, <3>1, Zenon
        <3>4. c = P /\ Tail(todo) \in {<< A, V, L >>, << V, L >>}
            BY <1>1, <3>2, <3>3, Zenon
        <3> QED BY <1>4, <3>4, Zenon
    <2>3. CASE todo = << A, V, L >>
        <3>1. Head(<< A, V, L >>) = A /\ Tail(<< A, V, L >>) = << V, L >>
            OBVIOUS
        <3> QED BY <1>1, <1>4, <2>3, <3>1, Zenon
    <2>4. CASE todo = << V, L >>
        <3>1. Head(<< V, L >>) = V /\ Tail(<< V, L >>) = << L >>
            OBVIOUS
        <3> QED BY <1>1, <1>4, <2>4, <3>1, Zenon
    <2>5. CASE todo = << L >>
        <3>1. Head(<< L >>) = L /\ Tail(<< L >>) = << >>
            OBVIOUS
        <3> QED BY <1>1, <2>5, <3>1, Zenon
    <2> QED BY <1>3, <1>4, <2>1, <2>2, <2>3, <2>4, <2>5, Zenon
<1>8. c \in {C, P, A, V} => c.do \in {"create-vnic", "protect", "pin", "show-vnic"}
    BY DEF Command, C, P, A, V
<1> QED BY <1>1, <1>3, <1>7, <1>8 DEF L, l

LEMMA CreateRuns ==
    ASSUME Inv, RecordInv, Runs, NEW r \in Requests, r = req, r.op = "vnic_create"
    PROVE  /\ \/ todo' \in CreateRests(r) /\ got'.vnic = NoVnicRecord
              \/ /\ todo' = << >>
                 /\ Alone => got'.vnic \in {NoVnicRecord, [protected |-> "on", pinned |-> links'[r.link].pinned]}
           /\ got' = Learned(Head(todo))
           /\ Head(todo).do = "show-linkprop" => Head(todo).on \in Links
           /\ Head(todo).do \notin {"list", "export"}
<1>1. PICK c : c = Head(todo)
    OBVIOUS
<1>2. todo # << >>
    BY DEF Runs
<1>3. todo' = Tail(todo) /\ got' = Learned(c)
    BY <1>1, TailOnly DEF Inv
<1>4. CASE /\ c.do \in {"create-vnic", "protect", "pin", "show-vnic"}
           /\ Tail(todo) \in CreateRests(r)
    <2>1. got' = got
        BY <1>3, <1>4, LearnedAs DEF RecordInv
    <2> QED BY <1>1, <1>2, <1>3, <1>4, <2>1, CreateNext
<1>5. CASE c = Command("show-linkprop", r.link) /\ Tail(todo) = << >>
    <2> DEFINE l == r.link
    <2>1. c.do = "show-linkprop" /\ c.on = l
        BY <1>5 DEF Command
    <2> HIDE DEF l
    <2>2. got'.vnic = [protected |-> links[l].protected, pinned |-> links[l].pinned]
        BY <1>3, <2>1, LearnedAs DEF RecordInv
    <2>3. links' = links
        BY <1>1, <2>1, TailOnly DEF Inv, Reads
    <2>4. Safe(l)
        BY <1>1, <1>2, <2>1, CreatingSteps DEF Inv, l
    <2>5. Alone => links[l].protected = "on"
        BY <2>4 DEF Safe, RecordInv, Undisturbed
    <2>6. l \in Links
        BY Kinds DEF l
    <2> QED BY <1>1, <1>3, <1>5, <2>1, <2>2, <2>3, <2>5, <2>6 DEF l
<1> QED BY <1>1, <1>2, <1>4, <1>5, CreateNext

LEMMA ConfigureRuns ==
    ASSUME Inv, RecordInv, Runs, UNCHANGED faults, NEW r \in Requests, r = req, r.op = "create"
    PROVE  /\ ConfigurePlace(r)'
           /\ got' = Learned(Head(todo))
           /\ Head(todo).do # "show-linkprop"
           /\ Head(todo).do \in {"list", "export"} => Head(todo).on \in Zones
<1> DEFINE n == r.name
           C == Configure(n, r.link)
           E == Command("export", n)
           L == Command("list", n)
<1>0. /\ C.do = "configure"
      /\ E.do = "export" /\ E.on = n
      /\ L.do = "list" /\ L.on = n
    BY DEF Configure, Command
<1> HIDE DEF C, E, L
<1>1. PICK c : c = Head(todo)
    OBVIOUS
<1>2. n \in Zones
    BY Kinds
<1>3. \/ todo = << C, E, L >>
      \/ todo = << E, L >>
      \/ todo = << L >> /\ (Alone => got.zone.link = zones[n].link)
    BY DEF RecordInv, Place, ConfigurePlace, Runs, C, E, L
<1>4. /\ todo' = Tail(todo) /\ got' = Learned(c)
      /\ c.do \in Reads => UNCHANGED <<links, zones>>
    BY <1>1, TailOnly DEF Inv
<1>5. Alone' = Alone
    BY DEF Alone
<1>6. CASE todo = << C, E, L >>
    <2>1. Head(<< C, E, L >>) = C /\ Tail(<< C, E, L >>) = << E, L >>
        OBVIOUS
    <2>2. c = C /\ todo' = << E, L >>
        BY <1>1, <1>4, <1>6, <2>1, Zenon
    <2>3. c.do = "configure"
        BY <1>0, <2>2, Zenon
    <2> QED BY <1>1, <1>4, <2>2, <2>3 DEF ConfigurePlace, E, L
<1>7. CASE todo = << E, L >>
    <2>1. Head(<< E, L >>) = E /\ Tail(<< E, L >>) = << L >>
        OBVIOUS
    <2>2. c = E /\ todo' = << L >>
        BY <1>1, <1>4, <1>7, <2>1, Zenon
    <2>3. c.do = "export" /\ c.on = n
        BY <1>0, <2>2, Zenon
    <2>4. got'.zone.link = zones[n].link
        BY <1>4, <2>3, LearnedAs DEF RecordInv
    <2>5. zones' = zones
        BY <1>4, <2>3 DEF Reads
    <2> QED BY <1>1, <1>2, <1>4, <2>2, <2>3, <2>4, <2>5 DEF ConfigurePlace, L
<1>8. CASE todo = << L >>
    <2>1. Head(<< L >>) = L /\ Tail(<< L >>) = << >> /\ Len(<< L >>) = 1 /\ Len(<< C, E, L >>) = 3
          /\ Len(<< E, L >>) = 2
        OBVIOUS
    <2>2. c = L /\ todo' = << >>
        BY <1>1, <1>4, <1>8, <2>1, Zenon
    <2>3. c.do = "list" /\ c.on = n
        BY <1>0, <2>2, Zenon
    <2>4. Alone => got.zone.link = zones[n].link
        BY <1>3, <1>8, <2>1
    <2>5. zones' = zones
        BY <1>4, <2>3 DEF Reads
    <2>6. got'.zone = [state |-> zones[n].state, link |-> got.zone.link]
        BY <1>4, <2>3, LearnedAs DEF RecordInv
    <2>7. zones[n] = [state |-> zones[n].state, link |-> zones[n].link]
        BY <1>2 DEF Inv, HostTyped
    <2>8. Alone => got'.zone = zones[n]
        BY <2>4, <2>6, <2>7, Zenon
    <2> QED BY <1>1, <1>2, <1>4, <1>5, <2>2, <2>3, <2>5, <2>8 DEF ConfigurePlace
<1> QED BY <1>3, <1>6, <1>7, <1>8

LEMMA LookupRuns ==
    ASSUME Inv, RecordInv, Runs, UNCHANGED faults, NEW r \in Requests, r = req, r.op = "lookup"
    PROVE  /\ LookupPlace(r)'
           /\ got' = Learned(Head(todo))
           /\ Head(todo).do # "show-linkprop"
           /\ Head(todo).do \in {"list", "export"} => Head(todo).on \in Zones
<1> DEFINE n == r.name
           E == Command("export", n)
           L == Command("list", n)
<1>0. /\ E.do = "export" /\ E.on = n
      /\ L.do = "list" /\ L.on = n
    BY DEF Command
<1> HIDE DEF E, L
<1>1. PICK c : c = Head(todo)
    OBVIOUS
<1>2. n \in Zones
    BY Kinds
<1>3. \/ todo = << L, E >>
      \/ todo = << E >> /\ (Alone => got.zone.state = zones[n].state)
    BY DEF RecordInv, Place, LookupPlace, Runs, E, L
<1>4. /\ todo' = Tail(todo) /\ got' = Learned(c)
      /\ c.do \in Reads => UNCHANGED <<links, zones>>
    BY <1>1, TailOnly DEF Inv
<1>5. Alone' = Alone
    BY DEF Alone
<1>6. CASE todo = << L, E >>
    <2>1. Head(<< L, E >>) = L /\ Tail(<< L, E >>) = << E >>
        OBVIOUS
    <2>2. c = L /\ todo' = << E >>
        BY <1>1, <1>4, <1>6, <2>1, Zenon
    <2>3. c.do = "list" /\ c.on = n
        BY <1>0, <2>2, Zenon
    <2>4. got'.zone.state = zones[n].state
        BY <1>4, <2>3, LearnedAs DEF RecordInv
    <2>5. zones' = zones
        BY <1>4, <2>3 DEF Reads
    <2> QED BY <1>1, <1>2, <1>4, <2>2, <2>3, <2>4, <2>5 DEF LookupPlace, E
<1>7. CASE todo = << E >>
    <2>1. Head(<< E >>) = E /\ Tail(<< E >>) = << >> /\ Len(<< E >>) = 1 /\ Len(<< L, E >>) = 2
        OBVIOUS
    <2>2. c = E /\ todo' = << >>
        BY <1>1, <1>4, <1>7, <2>1, Zenon
    <2>3. c.do = "export" /\ c.on = n
        BY <1>0, <2>2, Zenon
    <2>4. Alone => got.zone.state = zones[n].state
        BY <1>3, <1>7, <2>1
    <2>5. zones' = zones
        BY <1>4, <2>3 DEF Reads
    <2>6. got'.zone = [state |-> got.zone.state, link |-> zones[n].link]
        BY <1>4, <2>3, LearnedAs DEF RecordInv
    <2>7. zones[n] = [state |-> zones[n].state, link |-> zones[n].link]
        BY <1>2 DEF Inv, HostTyped
    <2>8. Alone => got'.zone = zones[n]
        BY <2>4, <2>6, <2>7, Zenon
    <2> QED BY <1>1, <1>2, <1>4, <1>5, <2>2, <2>3, <2>5, <2>8 DEF LookupPlace
<1> QED BY <1>3, <1>6, <1>7


\* The list of a finite set has all its members, and nothing else.
LEMMA ListOfSet ==
    ASSUME NEW S, IsFiniteSet(S)
    PROVE  /\ Cardinality(S) \in Nat
           /\ \A i \in 1 .. Cardinality(S) : SetToSeq(S)[i] \in S
           /\ \A x \in S : \E i \in 1 .. Cardinality(S) : SetToSeq(S)[i] = x
<1> DEFINE n == Cardinality(S)
           D == 1 .. n
<1>1. n \in Nat /\ ExistsBijection(D, S)
    BY FS_CardinalityType
<1>2. IsFiniteSet(D) /\ Cardinality(D) = n
    BY <1>1, FS_Interval
<1> HIDE DEF n, D
<1>3. PICK g : g \in Bijection(D, S)
    BY <1>1 DEF ExistsBijection
<1>4. g \in [D -> S] /\ IsInjective(g)
    BY <1>3 DEF Bijection, Injection
<1>5. \E f \in [D -> S] : IsInjective(f)
    BY <1>4
<1> DEFINE f == SetToSeq(S)
<1>6. f \in [D -> S] /\ IsInjective(f)
    BY <1>5 DEF SetToSeq, n, D
<1> HIDE DEF f
<1>7. f \in Injection(D, S)
    BY <1>6 DEF Injection
<1>8. f \in Surjection(D, S)
    BY <1>2, <1>7, FS_Injection DEF n
<1>9. /\ \A i \in D : f[i] \in S
      /\ \A x \in S : \E i \in D : f[i] = x
    BY <1>6, <1>8 DEF Surjection
<1> QED BY <1>1, <1>9 DEF f, n, D

LEMMA ListRuns ==
    ASSUME Inv, RecordInv, Runs, UNCHANGED faults, NEW r \in Requests, r = req, r.op = "list"
    PROVE  /\ ListPlace(r)'
           /\ got' = Learned(Head(todo))
           /\ Head(todo).do = "list-all"
<1> DEFINE A == Command("list-all", Host)
<1>0. A.do = "list-all"
    BY DEF Command
<1> HIDE DEF A
<1>1. PICK c : c = Head(todo)
    OBVIOUS
<1>2. todo = << A >>
    BY DEF RecordInv, Place, ListPlace, Runs, A
<1>3. /\ todo' = Tail(todo) /\ got' = Learned(c)
      /\ c.do \in Reads => UNCHANGED <<links, zones>>
    BY <1>1, TailOnly DEF Inv
<1>4. Head(<< A >>) = A /\ Tail(<< A >>) = << >>
    OBVIOUS
<1>5. c = A /\ todo' = << >>
    BY <1>1, <1>2, <1>3, <1>4, Zenon
<1>6. c.do = "list-all"
    BY <1>0, <1>5, Zenon
<1>7. got'.listed = Listed
    BY <1>3, <1>6, LearnedAs DEF RecordInv
<1>8. zones' = zones
    BY <1>3, <1>6 DEF Reads
<1>9. Listed' = Listed
    BY <1>8 DEF Listed, Configured
<1> QED BY <1>1, <1>3, <1>5, <1>6, <1>7, <1>9 DEF ListPlace

LEMMA InventoryRuns ==
    ASSUME Inv, RecordInv, Runs, UNCHANGED faults, NEW r \in Requests, r = req, r.op = "inventory"
    PROVE  /\ InventoryPlace(r)'
           /\ got' = Learned(Head(todo))
           /\ Head(todo).do \in {"true", "list-all", "gather"}
           /\ Head(todo).do = "gather" => Head(todo).on \in DOMAIN got.listed
<1> DEFINE T == Command("true", Host)
           A == Command("list-all", Host)
<1>0. T.do = "true" /\ A.do = "list-all"
    BY DEF Command
<1> HIDE DEF T, A
<1>1. PICK c : c = Head(todo)
    OBVIOUS
<1>2. todo # << >> /\ got' = Learned(c) /\ Effect(c) /\ todo' = Tail(todo) \o Gathers(c)
      /\ inventories' = Inventoried(c)
    BY <1>1 DEF Runs
<1>3. ~(c.do = "list-all") => todo' = Tail(todo)
    BY <1>1, TailOnly DEF Inv
<1>4. Alone' = Alone
    BY DEF Alone
<1>5. CASE todo = << T, A >>
    <2>1. Head(<< T, A >>) = T /\ Tail(<< T, A >>) = << A >>
        OBVIOUS
    <2>2. c = T /\ Tail(todo) = << A >>
        BY <1>1, <1>5, <2>1, Zenon
    <2>3. c.do = "true"
        BY <1>0, <2>2, Zenon
    <2> QED BY <1>1, <1>2, <1>3, <2>2, <2>3 DEF InventoryPlace, A
<1>6. CASE todo = << A >>
    <2>1. Head(<< A >>) = A /\ Tail(<< A >>) = << >>
        OBVIOUS
    <2>2. c = A /\ Tail(todo) = << >>
        BY <1>1, <1>6, <2>1, Zenon
    <2>3. c.do = "list-all"
        BY <1>0, <2>2, Zenon
    <2>4. got'.listed = Listed
        BY <1>2, <2>3, LearnedAs DEF RecordInv
    <2>5. zones' = zones
        BY <1>2, <2>3, ReadsChangeNothing DEF Reads
    <2>6. Listed' = Listed
        BY <2>5 DEF Listed, Configured
    <2>7. DOMAIN Listed = Configured
        BY DEF Listed
    <2> DEFINE n == Cardinality(Configured)
               G == [i \in 1 .. n |-> Gather(SetToSeq(Configured)[i])]
    <2>8. IsFiniteSet(Configured)
        BY NamesAssumption, FS_Subset DEF Configured
    <2>9. Gathers(c) = G
        BY <2>3 DEF Gathers, Gather
    <2>10. n \in Nat
        BY <2>8, ListOfSet
    <2>11. G \in Seq({Gather(z) : z \in Configured})
        BY <2>8, <2>10, ListOfSet
    <2>12. Len(G) = n
        BY <2>10
    <2>13. \A z \in Configured : \E i \in 1 .. Len(G) : G[i] = Gather(z)
        BY <2>8, <2>12, ListOfSet
    <2> HIDE DEF n, G
    <2>14. << >> \o G = G
        BY <2>11, ConcatEmptySeq
    <2>15. todo' = G
        BY <1>2, <2>2, <2>9, <2>14, Zenon
    <2> QED BY <1>1, <1>2, <1>4, <2>3, <2>4, <2>6, <2>7, <2>11, <2>13, <2>15 DEF InventoryPlace
<1>7. CASE /\ todo \in Seq({Gather(z) : z \in DOMAIN got.listed})
           /\ Alone => got.listed = Listed
           /\ \A z \in DOMAIN got.listed :
                 inventories[z] = got.listed[z] \/ \E i \in 1 .. Len(todo) : todo[i] = Gather(z)
    <2> DEFINE D == DOMAIN got.listed
               S == {Gather(z) : z \in D}
    <2>1. /\ c \in S /\ Tail(todo) \in Seq(S) /\ Len(Tail(todo)) = Len(todo) - 1
          /\ Len(todo) \in Nat \ {0}
          /\ \A i \in 1 .. Len(todo) - 1 : Tail(todo)[i] = todo[i + 1]
          /\ c = todo[1]
        BY <1>1, <1>2, <1>7, HeadTailProperties, LenProperties, EmptySeq
    <2>2. PICK y \in D : c = Gather(y)
        BY <2>1
    <2>3. c.do = "gather" /\ c.on = y
        BY <2>2 DEF Gather, Command
    <2>4. got' = got
        BY <1>2, <2>3, LearnedAs DEF RecordInv
    <2>5. todo' = Tail(todo)
        BY <1>3, <2>3
    <2>6. zones' = zones
        BY <1>2, <2>3, ReadsChangeNothing DEF Reads
    <2>7. Listed' = Listed
        BY <2>6 DEF Listed, Configured
    <2>8. inventories' = [inventories EXCEPT ![y] = got.listed[y]]
        BY <1>2, <2>3 DEF Inventoried
    <2>9. y \in Zones /\ DOMAIN inventories = Zones
        BY GotFields DEF RecordInv, IsListing, DataTyped
    <2>10. ASSUME NEW z \in D
           PROVE  inventories'[z] = got.listed[z] \/ \E i \in 1 .. Len(todo') : todo'[i] = Gather(z)
        <3>1. CASE z = y
            BY <2>8, <2>9, <3>1
        <3>2. CASE z # y /\ inventories[z] = got.listed[z]
            BY <2>8, <3>2
        <3>3. CASE z # y /\ inventories[z] # got.listed[z]
            <4>1. PICK i \in 1 .. Len(todo) : todo[i] = Gather(z)
                BY <1>7, <3>3
            <4>2. i # 1
                <5>1. Gather(z).on = z
                    BY DEF Gather, Command
                <5>2. todo[1] = c
                    BY <2>1
                <5> QED BY <2>3, <3>3, <4>1, <5>1, <5>2, Zenon
            <4>3. i - 1 \in 1 .. Len(todo) - 1 /\ (i - 1) + 1 = i
                BY <2>1, <4>2
            <4>4. todo'[i - 1] = Gather(z) /\ i - 1 \in 1 .. Len(todo')
                BY <2>1, <2>5, <4>1, <4>3
            <4> QED BY <4>4
        <3> QED BY <3>1, <3>2, <3>3
    <2>11. InventoryPlace(r)'
        BY <1>4, <1>7, <2>1, <2>4, <2>5, <2>7, <2>10 DEF InventoryPlace
    <2> QED BY <1>1, <1>2, <2>3, <2>11
<1> QED BY <1>5, <1>6, <1>7 DEF RecordInv, Place, InventoryPlace, T, A


LEMMA UninstallRuns ==
    ASSUME Inv, RecordInv, Runs, NEW r \in Requests, r = req, r.op = "uninstall"
    PROVE  /\ UninstallPlace(r)'
           /\ got' = Learned(Head(todo))
           /\ Head(todo).do # "show-linkprop"
           /\ Head(todo).do \in {"list", "export"} => Head(todo).on \in Zones
<1> DEFINE n == r.name
           L == Command("list", n)
           U == Command("uninstall", n)
<1>0. L.do = "list" /\ L.on = n /\ U.do = "uninstall"
    BY DEF Command
<1> HIDE DEF L, U
<1>1. PICK c : c = Head(todo)
    OBVIOUS
<1>2. todo = << L, U >> \/ todo = << U >>
    BY DEF RecordInv, Place, UninstallPlace, Runs, L, U
<1>3. todo' = Tail(todo) /\ got' = Learned(c)
    BY <1>1, TailOnly DEF Inv
<1>4. /\ Head(<< L, U >>) = L /\ Tail(<< L, U >>) = << U >>
      /\ Head(<< U >>) = U /\ Tail(<< U >>) = << >>
    OBVIOUS
<1>5. \/ c = L /\ todo' = << U >>
      \/ c = U /\ todo' = << >>
    <2>1. CASE todo = << L, U >>
        BY <1>1, <1>3, <1>4, <2>1, Zenon
    <2>2. CASE todo = << U >>
        BY <1>1, <1>3, <1>4, <2>2, Zenon
    <2> QED BY <1>2, <2>1, <2>2, Zenon
<1>6. n \in Zones
    BY Kinds
<1> QED BY <1>0, <1>1, <1>3, <1>5, <1>6 DEF UninstallPlace, U

LEMMA OneCommandRuns ==
    ASSUME Inv, Runs, NEW c, todo = << c >>, c.do \in OnLink \cup OnZone
    PROVE  todo' = << >> /\ got' = Learned(c)
<1>1. Head(<< c >>) = c /\ Tail(<< c >>) = << >>
    OBVIOUS
<1> QED BY <1>1, TailOnly DEF Inv, OnLink, OnZone

LEMMA PlaceRuns ==
    ASSUME Inv, RecordInv, Runs, UNCHANGED faults
    PROVE  Place' /\ GotTyped'
<1>1. PICK r : r = req
    OBVIOUS
<1>2. r \in Requests \/ r = NoCall
    BY <1>1 DEF Inv, HostTyped
<1>3. r # NoCall
    BY <1>1 DEF RecordInv, Place, NoCall, Runs
<1>4. req' = r
    BY <1>1 DEF Runs
<1>5. HostTyped /\ GotTyped /\ TodoFits
    BY DEF Inv, RecordInv
<1>6. CASE r.op = "vnic_create"
    <2>1. CreatePlace(r)'
        BY <1>1, <1>2, <1>3, <1>6, CreateRuns DEF CreatePlace, Alone
    <2>2. GotTyped'
        BY <1>1, <1>2, <1>3, <1>5, <1>6, CreateRuns, LearnedTyped
    <2> QED BY <1>4, <1>6, <2>1, <2>2 DEF Place
<1>7. CASE r.op = "create"
    <2>1. ConfigurePlace(r)'
        BY <1>1, <1>2, <1>3, <1>7, ConfigureRuns
    <2>2. GotTyped'
        BY <1>1, <1>2, <1>3, <1>5, <1>7, ConfigureRuns, LearnedTyped
    <2> QED BY <1>4, <1>7, <2>1, <2>2 DEF Place
<1>8. CASE r.op = "lookup"
    <2>1. LookupPlace(r)'
        BY <1>1, <1>2, <1>3, <1>8, LookupRuns
    <2>2. GotTyped'
        BY <1>1, <1>2, <1>3, <1>5, <1>8, LookupRuns, LearnedTyped
    <2> QED BY <1>4, <1>8, <2>1, <2>2 DEF Place
<1>9. CASE r.op = "list"
    <2>1. ListPlace(r)'
        BY <1>1, <1>2, <1>3, <1>9, ListRuns
    <2>2. GotTyped'
        BY <1>1, <1>2, <1>3, <1>5, <1>9, ListRuns, LearnedTyped
    <2> QED BY <1>4, <1>9, <2>1, <2>2 DEF Place
<1>10. CASE r.op = "inventory"
    <2>1. InventoryPlace(r)'
        BY <1>1, <1>2, <1>3, <1>10, InventoryRuns
    <2>2. GotTyped'
        BY <1>1, <1>2, <1>3, <1>5, <1>10, InventoryRuns, LearnedTyped
    <2> QED BY <1>4, <1>10, <2>1, <2>2 DEF Place
<1>11. CASE r.op = "uninstall"
    <2>1. UninstallPlace(r)'
        BY <1>1, <1>2, <1>3, <1>11, UninstallRuns
    <2>2. GotTyped'
        BY <1>1, <1>2, <1>3, <1>5, <1>11, UninstallRuns, LearnedTyped
    <2> QED BY <1>4, <1>11, <2>1, <2>2 DEF Place
<1>12. CASE r.op \in {"install", "boot", "halt", "delete"}
    <2>1. todo = << Command(r.op, r.name) >> /\ Command(r.op, r.name).do = r.op
        BY <1>1, <1>12 DEF RecordInv, Place, Runs, Command
    <2>2. todo' = << >> /\ got' = got
        BY <1>5, <1>12, <2>1, OneCommandRuns, LearnedAs DEF OnZone
    <2> QED BY <1>4, <1>5, <1>12, <2>2 DEF Place, GotTyped
<1>13. CASE r.op = "vnic_destroy"
    <2>1. /\ todo = << Command("delete-vnic", r.link) >>
          /\ Command("delete-vnic", r.link).do = "delete-vnic"
        BY <1>1, <1>13 DEF RecordInv, Place, Runs, Command
    <2>2. todo' = << >> /\ got' = got
        BY <1>5, <2>1, OneCommandRuns, LearnedAs DEF OnLink
    <2> QED BY <1>4, <1>5, <1>13, <2>2 DEF Place, GotTyped
<1> QED BY <1>2, <1>3, <1>6, <1>7, <1>8, <1>9, <1>10, <1>11, <1>12, <1>13, Kinds

\* A link that is away has no properties.
LEMMA LinksWhole ==
    ASSUME HostTyped, NEW c, Shaped(c), Requires(c), Effect(c),
           \A l \in Links : links[l].here \/ links[l] = NoVnic
    PROVE  \A l \in Links : links'[l].here \/ links'[l] = NoVnic
<1> USE DEF HostTyped, SetLink, SetZone
<1>1. CASE c.do = "create-vnic"
    <2>1. links' = [links EXCEPT ![c.on] = [NoVnic EXCEPT !.here = TRUE]]
        BY <1>1 DEF Effect
    <2>2. [NoVnic EXCEPT !.here = TRUE].here = TRUE
        BY DEF NoVnic
    <2> HIDE DEF NoVnic
    <2> QED BY <2>1, <2>2
<1>2. CASE c.do = "protect"
    <2>1. links' = [links EXCEPT ![c.on] = [links[c.on] EXCEPT !.protected = "on"]] /\ links[c.on].here
        BY <1>2 DEF Effect, Requires
    <2> QED BY <2>1
<1>3. CASE c.do = "pin"
    <2>1. links' = [links EXCEPT ![c.on] = [links[c.on] EXCEPT !.pinned = "on"]] /\ links[c.on].here
        BY <1>3 DEF Effect, Requires
    <2> QED BY <2>1
<1>4. CASE c.do = "delete-vnic"
    <2>1. links' = [links EXCEPT ![c.on] = NoVnic]
        BY <1>4 DEF Effect
    <2> QED BY <2>1
<1>5. CASE c.do \notin OnLink
    <2>1. links' = links
        BY <1>5, ZoneEffect
    <2> QED BY <2>1
<1> QED BY <1>1, <1>2, <1>3, <1>4, <1>5 DEF OnLink

\* Only inventory gathers, and only what it listed.
LEMMA GatherListed ==
    ASSUME Inv, RecordInv, todo # << >>, Head(todo).do = "gather"
    PROVE  Head(todo).on \in DOMAIN got.listed
<1> DEFINE T == Command("true", Host)
           A == Command("list-all", Host)
<1>0. T.do = "true" /\ A.do = "list-all"
    BY DEF Command
<1> HIDE DEF T, A
<1>1. PICK c : c = Head(todo)
    OBVIOUS
<1>2. Fits(c, req)
    BY <1>1, NextCommand DEF Inv
<1>3. req.op = "inventory"
    BY <1>1, <1>2 DEF Fits
<1>4. /\ Head(<< T, A >>) = T
      /\ Head(<< A >>) = A
    OBVIOUS
<1>5. todo # << T, A >> /\ todo # << A >>
    BY <1>0, <1>4
<1>6. todo \in Seq({Gather(z) : z \in DOMAIN got.listed})
    BY <1>3, <1>5 DEF RecordInv, Place, InventoryPlace, T, A
<1>7. c \in {Gather(z) : z \in DOMAIN got.listed}
    BY <1>1, <1>6, HeadTailProperties
<1>8. PICK y \in DOMAIN got.listed : c = Gather(y)
    BY <1>7
<1>9. c.on = y
    BY <1>8 DEF Gather, Command
<1> QED BY <1>1, <1>8, <1>9

LEMMA DataRuns ==
    ASSUME Inv, RecordInv, Runs
    PROVE  DataTyped' /\ (UNCHANGED faults => Undisturbed')
<1>1. PICK c : c = Head(todo)
    OBVIOUS
<1>2. /\ Requires(c) /\ Effect(c) /\ inventories' = Inventoried(c)
      /\ UNCHANGED <<late, req, vnics, records, summary, ready, gaveUp>>
    BY <1>1 DEF Runs, counters
<1>3. Shaped(c)
    BY <1>1, NextCommand DEF Runs, Inv, Fits
<1>4. \A l \in Links : links'[l].here \/ links'[l] = NoVnic
    BY <1>2, <1>3, LinksWhole DEF Inv, RecordInv, DataTyped
<1>5. inventories' \in [Zones -> States \cup {Unknown}]
    <2>1. CASE c.do = "gather"
        <3>1. c.on \in DOMAIN got.listed
            BY <1>1, <2>1, GatherListed DEF Runs
        <3>2. c.on \in Zones /\ got.listed[c.on] \in States
            BY <3>1, GotFields DEF RecordInv, IsListing
        <3> QED BY <1>2, <2>1, <3>2 DEF Inventoried, RecordInv, DataTyped
    <2>2. CASE c.do # "gather"
        BY <1>2, <2>2 DEF Inventoried, RecordInv, DataTyped
    <2> QED BY <2>1, <2>2
<1>6. DataTyped'
    BY <1>2, <1>4, <1>5 DEF RecordInv, DataTyped
<1> QED BY <1>2, <1>6 DEF RecordInv, Undisturbed, Alone


LEMMA PlaceLeft == ASSUME Leaves PROVE Place' /\ GotTyped'
<1>1. req' = NoCall /\ todo' = << >> /\ got' = Nothing
    BY DEF Leaves
<1>2. Place'
    BY <1>1 DEF Place, NoCall
<1>3. IsListing([z \in {} |-> Unknown])
    BY DEF IsListing
<1>4. GotTyped'
    BY <1>1, <1>3 DEF GotTyped, Nothing, NoRecord, NoVnicRecord, ZoneRecords, VnicRecords
<1> QED BY <1>2, <1>4

LEMMA PlaceCalled ==
    ASSUME RecordInv, NEW r \in Requests, Call(r)
    PROVE  Place' /\ GotTyped'
<1>1. req' = r /\ todo' = Commands(r) /\ got' = got /\ req = NoCall
    BY DEF Call
<1>2. got = Nothing
    BY <1>1 DEF RecordInv, Place, NoCall
<1>3. r.op = "vnic_create" => CreatePlace(r)'
    BY <1>1, <1>2 DEF CreatePlace, CreateRests, Nothing
<1>4. r.op = "create" => ConfigurePlace(r)'
    BY <1>1 DEF ConfigurePlace, Commands
<1>5. r.op = "lookup" => LookupPlace(r)'
    BY <1>1 DEF LookupPlace, Commands
<1>6. r.op = "list" => ListPlace(r)'
    BY <1>1 DEF ListPlace, Commands
<1>7. r.op = "inventory" => InventoryPlace(r)'
    BY <1>1 DEF InventoryPlace, Commands
<1>8. r.op = "uninstall" => UninstallPlace(r)'
    BY <1>1 DEF UninstallPlace, Commands
<1>9. r.op \in {"install", "boot", "halt", "delete"} => todo' = << Command(r.op, r.name) >>
    BY <1>1 DEF Commands
<1>10. r.op = "vnic_destroy" => todo' = << Command("delete-vnic", r.link) >>
    BY <1>1 DEF Commands
<1>11. r.op # "none"
    BY Kinds
<1>12. Place'
    BY <1>1, <1>3, <1>4, <1>5, <1>6, <1>7, <1>8, <1>9, <1>10, <1>11 DEF Place
<1>13. GotTyped'
    BY <1>1 DEF RecordInv, GotTyped
<1> QED BY <1>12, <1>13

\* A command whose failure is tolerated teaches nothing.
LEMMA PlaceTolerated ==
    ASSUME Inv, RecordInv, UNCHANGED faults, todo # << >>, Tolerated(Head(todo)),
           todo' = Tail(todo), UNCHANGED <<host, req, got>>
    PROVE  Place' /\ GotTyped'
<1>1. PICK c, r : c = Head(todo) /\ r = req
    OBVIOUS
<1>2. req' = r /\ got' = got
    BY <1>1
<1>3. Fits(c, r)
    BY <1>1, NextCommand DEF Inv
<1>4. r \in Requests
    <2>1. r # NoCall
        BY <1>1 DEF RecordInv, Place, NoCall
    <2> QED BY <1>1, <2>1 DEF Inv, HostTyped
<1>5. GotTyped'
    BY <1>2 DEF RecordInv, GotTyped
<1>6. CASE c.do = "show-linkprop"
    <2>1. r.op = "vnic_create"
        BY <1>3, <1>6 DEF Fits
    <2>2. todo' = << >> /\ got.vnic = NoVnicRecord
        BY <1>1, <1>4, <1>6, <2>1, CreateNext
    <2>3. CreatePlace(r)'
        BY <1>2, <2>2 DEF CreatePlace
    <2> QED BY <1>2, <1>5, <2>1, <2>3 DEF Place
<1>7. CASE r.op = "uninstall" /\ c.do = "list"
    <2> DEFINE L == Command("list", r.name)
               U == Command("uninstall", r.name)
    <2>1. U.do # "list"
        BY DEF Command
    <2> HIDE DEF L, U
    <2>2. /\ Tail(<< L, U >>) = << U >>
          /\ Head(<< U >>) = U
        OBVIOUS
    <2>3. todo = << L, U >> \/ todo = << U >>
        BY <1>1, <1>7 DEF RecordInv, Place, UninstallPlace, L, U
    <2>4. todo' = << U >>
        BY <1>1, <1>7, <2>1, <2>2, <2>3
    <2>5. UninstallPlace(r)'
        BY <2>4 DEF UninstallPlace, U
    <2> QED BY <1>2, <1>5, <1>7, <2>5 DEF Place
<1> QED BY <1>1, <1>6, <1>7 DEF Tolerated

LEMMA ReturnsRecord ==
    ASSUME Inv, RecordInv, UNCHANGED faults, Returns
    PROVE  RecordInv'
<1>1. Place' /\ GotTyped' /\ UNCHANGED <<links, zones, late, inventories, gaveUp>>
    BY PlaceLeft DEF Returns, host
<1>2. req \in Requests
    BY DEF Returns, Inv, HostTyped
<1>3. got.zone \in ZoneRecords /\ got.vnic \in VnicRecords /\ IsListing(got.listed)
    BY GotFields DEF RecordInv
<1>4. vnics' \in [Links -> VnicRecords] /\ ready' \subseteq Links
    <2>1. CASE req.op = "vnic_create"
        <3>1. req.link \in Links
            BY <1>2, <2>1, Kinds
        <3>2. vnics' = [vnics EXCEPT ![req.link] = got.vnic] /\ ready' = ready \cup {req.link}
            BY <2>1 DEF Returns, lookupVnic
        <3> QED BY <1>3, <3>1, <3>2 DEF RecordInv, DataTyped
    <2>2. CASE req.op # "vnic_create"
        BY <2>2 DEF Returns, RecordInv, DataTyped
    <2> QED BY <2>1, <2>2
<1>5. /\ \A z \in Zones : records'[z].state \in States \cup {Unknown}
      /\ records' = [z \in Zones |-> records'[z]]
    <2>1. DOMAIN records = Zones
        <3>1. records = [z \in Zones |-> records[z]]
            BY DEF RecordInv, DataTyped
        <3> QED BY <3>1
    <2>2. CASE req.op \in {"create", "lookup"}
        <3>1. records' = [records EXCEPT ![req.name] = got.zone]
            BY <2>2 DEF Returns
        <3>2. \A z \in Zones : records'[z] = records[z] \/ records'[z] = got.zone
            BY <2>1, <3>1
        <3> QED BY <1>3, <2>1, <3>1, <3>2 DEF RecordInv, DataTyped, ZoneRecords
    <2>3. CASE req.op = "list"
        <3>1. records' = [z \in Zones |->
                             IF z \in DOMAIN got.listed
                             THEN [state |-> got.listed[z], link |-> Unknown] ELSE records[z]]
            BY <2>3 DEF Returns
        <3> QED BY <1>3, <3>1 DEF RecordInv, DataTyped, IsListing
    <2>4. CASE req.op \notin {"create", "lookup", "list"}
        <3>1. records' = records
            BY <2>4 DEF Returns
        <3> QED BY <3>1 DEF RecordInv, DataTyped
    <2> QED BY <2>2, <2>3, <2>4
<1>6. summary' \in 0 .. Cardinality(Zones)
    <2>1. IsFiniteSet(DOMAIN got.listed) /\ Cardinality(DOMAIN got.listed) <= Cardinality(Zones)
        BY <1>3, NamesAssumption, FS_Subset DEF IsListing
    <2>2. Cardinality(DOMAIN got.listed) \in Nat /\ Cardinality(Zones) \in Nat
        BY <2>1, NamesAssumption, FS_CardinalityType
    <2> QED BY <2>1, <2>2 DEF Returns, RecordInv, DataTyped
<1>7. DataTyped'
    BY <1>1, <1>4, <1>5, <1>6 DEF RecordInv, DataTyped
<1>8. Undisturbed'
    BY <1>1 DEF RecordInv, Undisturbed, Alone
<1> QED BY <1>1, <1>7, <1>8 DEF RecordInv

LEMMA RecordStep == ASSUME Inv, RecordInv, [Next]_vars PROVE RecordInv'
<1>1. UNCHANGED faults
    BY DEF Next, vars
<1>2. ASSUME NEW r \in Requests, Call(r) PROVE RecordInv'
    <2>1. UNCHANGED <<links, late, vnics, records, inventories, summary, gaveUp>> /\ ready' \subseteq ready
        BY <1>2 DEF Call, host, data
    <2>2. DataTyped' /\ Undisturbed'
        BY <1>1, <2>1 DEF RecordInv, DataTyped, Undisturbed, Alone
    <2> QED BY <1>2, <2>2, PlaceCalled DEF RecordInv
<1>3. CASE Runs
    BY <1>1, <1>3, PlaceRuns, DataRuns DEF RecordInv
<1>4. CASE Fails
    <2>1. UNCHANGED <<host, links, zones, late, vnics, records, inventories, summary, gaveUp, ready>>
        BY <1>4 DEF Fails, host, data
    <2>2. DataTyped' /\ Undisturbed'
        BY <1>1, <2>1 DEF RecordInv, DataTyped, Undisturbed, Alone
    <2>3. Leaves \/ (todo # << >> /\ Tolerated(Head(todo)) /\ todo' = Tail(todo) /\ UNCHANGED <<req, got>>)
        BY <1>4 DEF Fails
    <2>4. Place' /\ GotTyped'
        BY <1>1, <2>1, <2>3, PlaceLeft, PlaceTolerated
    <2> QED BY <2>2, <2>4 DEF RecordInv
<1>5. CASE ThrowsIfRunning
    <2>1. UNCHANGED <<links, late, vnics, records, inventories, summary, gaveUp, ready>> /\ Leaves
        BY <1>5 DEF ThrowsIfRunning, host, data, counters
    <2>2. DataTyped' /\ Undisturbed'
        BY <1>1, <2>1 DEF RecordInv, DataTyped, Undisturbed, Alone
    <2> QED BY <2>1, <2>2, PlaceLeft DEF RecordInv
<1>6. CASE Lost
    <2>1. PICK c : c = Head(todo) /\ Requires(c) /\ Effect(c)
        BY <1>6 DEF Lost
    <2>2. UNCHANGED <<late, vnics, records, inventories, summary, gaveUp, ready>> /\ Leaves
        BY <1>6 DEF Lost, data, counters
    <2>3. Shaped(c)
        BY <1>6, <2>1, NextCommand DEF Lost, Inv, Fits
    <2>4. \A l \in Links : links'[l].here \/ links'[l] = NoVnic
        BY <2>1, <2>3, LinksWhole DEF Inv, RecordInv, DataTyped
    <2>5. DataTyped' /\ Undisturbed'
        BY <1>1, <2>2, <2>4 DEF RecordInv, DataTyped, Undisturbed, Alone
    <2> QED BY <2>2, <2>5, PlaceLeft DEF RecordInv
<1>7. CASE Killed
    <2>1. PICK c : c = Head(todo) /\ gaveUp' = gaveUp \cup Concerned(c)
        BY <1>7 DEF Killed
    <2>2. /\ UNCHANGED <<links, vnics, records, inventories, summary, ready>> /\ Leaves
          /\ "late" \in faults
        BY <1>7 DEF Killed, data
    <2>3. Shaped(c)
        BY <1>7, <2>1, NextCommand DEF Killed, Inv, Fits
    <2>4. Concerned(c) \subseteq Links \cup Zones
        BY <2>3 DEF Concerned, Shaped, OnZone
    <2>5. DataTyped' /\ Undisturbed'
        BY <1>1, <2>1, <2>2, <2>4 DEF RecordInv, DataTyped, Undisturbed, Alone
    <2> QED BY <2>2, <2>5, PlaceLeft DEF RecordInv
<1>8. CASE LateRuns
    <2>1. PICK m \in late : IF Requires(m[2]) THEN Effect(m[2]) ELSE UNCHANGED <<links, zones>>
        BY <1>8 DEF LateRuns
    <2>2. UNCHANGED <<req, todo, got, vnics, records, inventories, summary, gaveUp, ready>>
        BY <1>8 DEF LateRuns, method, data, counters
    <2>3. ~Alone /\ ~Alone'
        BY <1>1, <2>1 DEF RecordInv, Undisturbed, Alone
    <2>4. \A l \in Links : links'[l].here \/ links'[l] = NoVnic
        <3>1. Shaped(m[2]) /\ HostTyped /\ \A l \in Links : links[l].here \/ links[l] = NoVnic
            BY <2>1 DEF Inv, LateFits, RecordInv, DataTyped
        <3>2. CASE Requires(m[2])
            BY <2>1, <3>1, <3>2, LinksWhole
        <3>3. CASE ~Requires(m[2])
            BY <2>1, <3>1, <3>3
        <3> QED BY <3>2, <3>3
    <2>5. DataTyped' /\ Undisturbed'
        BY <2>2, <2>3, <2>4 DEF RecordInv, DataTyped, Undisturbed
    <2>6. GotTyped'
        BY <2>2 DEF RecordInv, GotTyped
    <2>7. Place'
        BY <2>2, <2>3 DEF RecordInv, Place, CreatePlace, CreateRests, ConfigurePlace, LookupPlace, ListPlace,
              InventoryPlace, UninstallPlace
    <2> QED BY <2>5, <2>6, <2>7 DEF RecordInv
<1>9. CASE Returns
    BY <1>1, <1>9, ReturnsRecord
<1>10. CASE UNCHANGED vars
    BY <1>10 DEF vars, host, method, data, counters, RecordInv, GotTyped, DataTyped, Undisturbed, Alone, Place,
          CreatePlace, CreateRests, ConfigurePlace, LookupPlace, ListPlace, InventoryPlace, UninstallPlace,
          Listed, Configured
<1> QED BY <1>2, <1>3, <1>4, <1>5, <1>6, <1>7, <1>8, <1>9, <1>10 DEF Next, Moves


LEMMA RecordsStart == ASSUME Init PROVE RecordInv
<1>1. req = NoCall /\ todo = << >> /\ got = Nothing /\ late = {} /\ gaveUp = {} /\ ready = {}
    BY DEF Init
<1>2. GotTyped /\ Place
    <2>1. IsListing([z \in {} |-> Unknown])
        BY DEF IsListing
    <2> QED BY <1>1, <2>1 DEF GotTyped, Place, Nothing, NoRecord, NoVnicRecord, ZoneRecords, VnicRecords, NoCall
<1>3. Cardinality(Zones) \in Nat
    BY NamesAssumption, FS_CardinalityType
<1>4. DataTyped
    BY <1>1, <1>3 DEF Init, DataTyped, NoVnic, VnicRecords, NoVnicRecord, NoRecord
<1> QED BY <1>1, <1>2, <1>4 DEF RecordInv, Undisturbed

\* Between the last command of a method and its return.
LEMMA ReturnsKnown ==
    ASSUME Inv, RecordInv, Returns, Alone, NEW r \in Requests, r = req
    PROVE  /\ r.op = "vnic_create" =>
                 vnics'[r.link] \in {NoVnicRecord, [protected |-> "on", pinned |-> links[r.link].pinned]}
           /\ r.op \in {"create", "lookup"} => records'[r.name] = zones[r.name]
           /\ r.op = "list" => \A z \in Configured : records'[z].state = zones[z].state
           /\ r.op = "inventory" =>
                 /\ summary' = Cardinality(Configured)
                 /\ \A z \in Configured : inventories'[z] = zones[z].state
<1>1. todo = << >> /\ UNCHANGED inventories
    BY DEF Returns
<1>2. Configured = DOMAIN Listed /\ (\A z \in Configured : Listed[z] = zones[z].state) /\ Configured \subseteq Zones
    BY DEF Listed, Configured
<1>3. CASE r.op = "vnic_create"
    <2>1. got.vnic \in {NoVnicRecord, [protected |-> "on", pinned |-> links[r.link].pinned]}
        BY <1>3 DEF RecordInv, Place, CreatePlace
    <2>2. vnics' = [vnics EXCEPT ![r.link] = got.vnic] /\ DOMAIN vnics = Links /\ r.link \in Links
        BY <1>3, Kinds DEF Returns, lookupVnic, RecordInv, DataTyped
    <2> QED BY <1>3, <2>1, <2>2
<1>4. CASE r.op \in {"create", "lookup"}
    <2>1. got.zone = zones[r.name]
        BY <1>1, <1>4 DEF RecordInv, Place, ConfigurePlace, LookupPlace
    <2>2. records' = [records EXCEPT ![r.name] = got.zone] /\ r.name \in Zones
        BY <1>4, Kinds DEF Returns
    <2>3. DOMAIN records = Zones
        <3>1. records = [z \in Zones |-> records[z]]
            BY DEF RecordInv, DataTyped
        <3> QED BY <3>1
    <2> QED BY <1>4, <2>1, <2>2, <2>3
<1>5. CASE r.op = "list"
    <2>1. got.listed = Listed
        BY <1>1, <1>5 DEF RecordInv, Place, ListPlace
    <2>2. records' = [z \in Zones |->
                         IF z \in DOMAIN got.listed
                         THEN [state |-> got.listed[z], link |-> Unknown] ELSE records[z]]
        BY <1>5 DEF Returns
    <2>3. ASSUME NEW z \in Configured PROVE records'[z].state = zones[z].state
        <3>1. z \in Zones /\ z \in DOMAIN got.listed /\ got.listed[z] = zones[z].state
            BY <1>2, <2>1
        <3>2. records'[z] = [state |-> got.listed[z], link |-> Unknown]
            BY <2>2, <3>1
        <3> QED BY <3>1, <3>2
    <2> QED BY <1>5, <2>3
<1>6. CASE r.op = "inventory"
    <2>1. /\ got.listed = Listed
          /\ \A z \in DOMAIN got.listed :
                inventories[z] = got.listed[z] \/ \E i \in 1 .. Len(todo) : todo[i] = Gather(z)
        BY <1>1, <1>6 DEF RecordInv, Place, InventoryPlace
    <2>2. \A z \in Configured : inventories[z] = zones[z].state
        <3>1. 1 .. Len(todo) = {}
            BY <1>1
        <3> QED BY <1>2, <2>1, <3>1
    <2>3. summary' = Cardinality(Configured)
        BY <1>2, <1>6, <2>1 DEF Returns
    <2> QED BY <1>1, <1>6, <2>2, <2>3
<1> QED BY <1>3, <1>4, <1>5, <1>6, Kinds

-----------------------------------------------------------------------------
(* What a host is safe of, and what its records tell.                      *)

\* Whatever the number of zones and links, of calls and of failures, and whatever answers
\* are lost or commands come late: a zone that runs is on a link with its protection
\* set, unless a command given up on was about the one or the other; and every variable
\* has its type.
THEOREM RunningOnProtected == Spec => []ZonesProtected
<1>1. Inv => RunningZoneProtected
    BY DEF Inv, SafeZones, Safe, RunningZoneProtected
<1>2. Inv /\ RecordInv => TypeOK
    BY DEF Inv, HostTyped, RecordInv, DataTyped, Place, VnicRecords, NoCall, TypeOK
<1> QED BY <1>1, <1>2, Starts, RecordsStart, Inductive, RecordStep, PTL DEF Spec, ZonesProtected

\* Unless commands come late: what a method stores when it returns is how things are
\* on the host at that moment, as far as it could be read; inventory counts and records
\* every zone there is, whatever fails while it goes through them.
THEOREM RecordsAreTrue == Spec => RecordsTrue
<1>1. ASSUME Inv, RecordInv, [Next]_vars, Alone, NEW r \in Requests, Returned(r) PROVE Returns /\ r = req
    <2>1. req = r /\ todo = << >> /\ req' = NoCall /\ r # NoCall
        BY <1>1, Kinds DEF Returned, NoCall
    <2> QED BY <1>1, <2>1 DEF Next, Moves, Call, Runs, Fails, ThrowsIfRunning, Lost, Killed, LateRuns, method, vars
<1>2. Inv /\ RecordInv /\ [Next]_vars =>
        ("late" \notin faults => \A r \in Requests : Returned(r) =>
          /\ r.op = "vnic_create" =>
                vnics'[r.link] \in {NoVnicRecord, [protected |-> "on", pinned |-> links[r.link].pinned]}
          /\ r.op \in {"create", "lookup"} => records'[r.name] = zones[r.name]
          /\ r.op = "list" => \A z \in Configured : records'[z].state = zones[z].state
          /\ r.op = "inventory" =>
                /\ summary' = Cardinality(Configured)
                /\ \A z \in Configured : inventories'[z] = zones[z].state)
    BY <1>1, ReturnsKnown DEF Alone
<1> QED BY <1>2, Starts, RecordsStart, Inductive, RecordStep, PTL DEF Spec, RecordsTrue
-----------------------------------------------------------------------------
(* Induction.                                                              *)

LEMMA Least ==
    ASSUME NEW T, T \subseteq Nat, T # {}
    PROVE  \E m \in T : \A n \in T : m <= n
<1> DEFINE R == OpToRel(<, Nat)
<1>1. IsWellFoundedOn(R, Nat)
    BY NatLessThanWellFounded
<1>2. PICK x \in T : \A y \in T : <<y, x>> \notin R
    <2> HIDE DEF R
    <2> QED BY <1>1, WFMin
<1>3. \A y \in T : ~(y < x)
    BY <1>2 DEF OpToRel
<1> QED BY <1>3
-----------------------------------------------------------------------------
(* The rows of the fleet's report: what dedupeRows makes of them.          *)

NoRows == [best |-> << >>, passthrough |-> << >>]
Top(s) == CHOOSE x \in s : \A y \in s : x >= y
\* What the library's fold of Deduped gives for the rows in s.
Fold(it, rows, s) == IF s = {} THEN NoRows ELSE Fleet!Deduped(it[s \ {Top(s)}], rows[Top(s)])
Folds(it, rows, D) == it = [s \in SUBSET D |-> Fold(it, rows, s)]

LEMMA FoldsRows ==
    ASSUME NEW rows, NEW D, DOMAIN rows = D, NEW some, Folds(some, rows, D)
    PROVE  \E it : Folds(it, rows, D) /\ Fleet!dedupeRows(rows) = it[D].best \o it[D].passthrough
<1> DEFINE it == CHOOSE i : Folds(i, rows, D)
<1>1. Folds(it, rows, D)
    OBVIOUS
<1>2. Fleet!dedupeRows(rows) = it[D].best \o it[D].passthrough
    BY DEF Folds, Fold, NoRows, Top, Fleet!dedupeRows, Fleet!FoldLeft, Fleet!MapThenFoldSet, Fleet!Max
<1> HIDE DEF it
<1> QED BY <1>1, <1>2

LEMMA TopIs ==
    ASSUME NEW k \in Nat, NEW s \in SUBSET (1 .. k), k \in s
    PROVE  Top(s) = k
<1>1. \A y \in s : k >= y
    OBVIOUS
<1>2. Top(s) \in s /\ \A y \in s : Top(s) >= y
    BY <1>1 DEF Top
<1> DEFINE t == Top(s)
<1>3. t \in 1 .. k /\ t >= k
    BY <1>2
<1> HIDE DEF t
<1> QED BY <1>3 DEF t

LEMMA FoldsGrow ==
    ASSUME NEW rows, NEW k \in Nat, k # 0, NEW h, Folds(h, rows, 1 .. (k - 1))
    PROVE  \E it : Folds(it, rows, 1 .. k)
<1> DEFINE it == [s \in SUBSET (1 .. k) |-> IF k \in s THEN Fleet!Deduped(h[s \ {k}], rows[k]) ELSE h[s]]
<1>1. ASSUME NEW s \in SUBSET (1 .. k)
      PROVE  it[s] = Fold(it, rows, s)
    <2>1. s \ {k} \in SUBSET (1 .. (k - 1)) /\ s \ {k} \in SUBSET (1 .. k)
        OBVIOUS
    <2>2. it[s \ {k}] = h[s \ {k}]
        BY <2>1
    <2>3. CASE k \in s
        <3>1. Top(s) = k
            BY <2>3, TopIs
        <3>2. it[s] = Fleet!Deduped(h[s \ {k}], rows[k])
            BY <2>3
        <3> HIDE DEF it
        <3> QED BY <2>2, <2>3, <3>1, <3>2 DEF Fold
    <2>4. CASE k \notin s
        <3>1. s \in SUBSET (1 .. (k - 1)) /\ it[s] = h[s]
            BY <2>4
        <3>2. h[s] = Fold(h, rows, s)
            BY <3>1 DEF Folds
        <3>3. \A t \in SUBSET s : it[t] = h[t]
            BY <2>4
        <3>4. s \ {Top(s)} \in SUBSET s
            OBVIOUS
        <3> HIDE DEF it
        <3> QED BY <3>1, <3>2, <3>3, <3>4 DEF Fold
    <2> QED BY <2>3, <2>4
<1>2. it = [s \in SUBSET (1 .. k) |-> it[s]]
    OBVIOUS
<1> HIDE DEF it
<1> QED BY <1>1, <1>2 DEF Folds

LEMMA FoldsExist ==
    ASSUME NEW rows, NEW n \in Nat
    PROVE  \E it : Folds(it, rows, 1 .. n)
<1> DEFINE T == {m \in Nat : ~\E it : Folds(it, rows, 1 .. m)}
<1> SUFFICES ASSUME T # {} PROVE FALSE
    OBVIOUS
<1>1. PICK m \in T : \A j \in T : m <= j
    <2>1. T \subseteq Nat OBVIOUS
    <2> HIDE DEF T
    <2> QED BY <2>1, Least
<1>2. m \in Nat /\ ~\E it : Folds(it, rows, 1 .. m)
    OBVIOUS
<1>3. CASE m = 0
    <2> DEFINE it == [s \in SUBSET (1 .. 0) |-> NoRows]
    <2>1. \A s \in SUBSET (1 .. 0) : s = {}
        OBVIOUS
    <2>2. Folds(it, rows, 1 .. 0)
        BY <2>1 DEF Folds, Fold
    <2> HIDE DEF it
    <2> QED BY <1>2, <1>3, <2>2
<1>4. CASE m # 0
    <2>1. m - 1 \in Nat /\ ~(m <= m - 1)
        BY <1>2, <1>4
    <2>2. m - 1 \notin T
        <3> HIDE DEF T
        <3> QED BY <1>1, <2>1
    <2>3. PICK h : Folds(h, rows, 1 .. (m - 1))
        BY <2>1, <2>2
    <2> HIDE DEF T
    <2> QED BY <1>2, <1>4, <2>3, FoldsGrow
<1> QED BY <1>3, <1>4

LEMMA RichnessType ==
    ASSUME NEW r
    PROVE  Fleet!richness(r) \in Nat
<1> DEFINE told == {f \in {"vcpus", "memoryMib"} : r[f] # Null} \cup {f \in {"ips", "macs"} : r[f] # {}}
<1>1. Cardinality(told) \in Nat
    <2>1. IsFiniteSet({"vcpus", "memoryMib", "ips", "macs"})
        <3>1. IsFiniteSet({"macs"}) /\ IsFiniteSet({"macs"} \cup {"ips"})
            BY FS_Singleton, FS_AddElement
        <3>2. IsFiniteSet({"macs"} \cup {"ips"} \cup {"memoryMib"} \cup {"vcpus"})
            BY <3>1, FS_AddElement
        <3>3. {"macs"} \cup {"ips"} \cup {"memoryMib"} \cup {"vcpus"} = {"vcpus", "memoryMib", "ips", "macs"}
            OBVIOUS
        <3> QED BY <3>2, <3>3
    <2>2. told \subseteq {"vcpus", "memoryMib", "ips", "macs"}
        OBVIOUS
    <2> HIDE DEF told
    <2> QED BY <2>1, <2>2, FS_Subset, FS_CardinalityType
<1>2. Fleet!richness(r) = Fleet!Cardinality(told)
    BY DEF Fleet!richness
<1>3. Fleet!Cardinality(told) = Cardinality(told)
    BY DEF Fleet!Cardinality, Fleet!IsFiniteSet, Cardinality, IsFiniteSet
<1> HIDE DEF told
<1> QED BY <1>1, <1>2, <1>3

\* Rows so far, of which those with a name are each of another name.
Deduping(acc, R) ==
    /\ acc \in [best : Seq(R), passthrough : Seq(R)]
    /\ \A k \in 1 .. Len(acc.best) : acc.best[k].name # "unknown"
    /\ \A j, k \in 1 .. Len(acc.best) : Fleet!Key(acc.best[j]) = Fleet!Key(acc.best[k]) => j = k
    /\ \A k \in 1 .. Len(acc.passthrough) : acc.passthrough[k].name = "unknown"

\* What a row tells is not lost.
Outdoes(r, q) == Fleet!Key(r) = Fleet!Key(q) /\ Fleet!richness(r) >= Fleet!richness(q)
Covered(acc, q) ==
    \/ \E k \in 1 .. Len(acc.best) : Outdoes(acc.best[k], q)
    \/ \E k \in 1 .. Len(acc.passthrough) : Outdoes(acc.passthrough[k], q)

LEMMA Appended ==
    ASSUME NEW R, NEW s \in Seq(R), NEW r \in R
    PROVE  /\ Append(s, r) \in Seq(R) /\ Len(s) \in Nat /\ Len(Append(s, r)) = Len(s) + 1
           /\ \A k \in 1 .. Len(s) : Append(s, r)[k] = s[k] /\ s[k] \in R
           /\ Append(s, r)[Len(s) + 1] = r
OBVIOUS

LEMMA OutdoesItself ==
    ASSUME NEW r
    PROVE  Outdoes(r, r)
<1>1. Fleet!richness(r) \in Nat
    BY RichnessType
<1> QED BY <1>1 DEF Outdoes

LEMMA DedupedOne ==
    ASSUME NEW R, NEW acc, Deduping(acc, R), NEW r \in R
    PROVE  LET new == Fleet!Deduped(acc, r)
           IN  Deduping(new, R) /\ Covered(new, r) /\ \A q : Covered(acc, q) => Covered(new, q)
<1> DEFINE new == Fleet!Deduped(acc, r)
           best == acc.best
           rest == acc.passthrough
<1>1. best \in Seq(R) /\ rest \in Seq(R) /\ Len(best) \in Nat /\ DOMAIN best = 1 .. Len(best)
      /\ acc = [best |-> best, passthrough |-> rest]
    BY DEF Deduping
<1>2. CASE r.name = "unknown"
    <2>1. new = [best |-> best, passthrough |-> Append(rest, r)]
        BY <1>1, <1>2 DEF Fleet!Deduped
    <2>2. /\ Append(rest, r) \in Seq(R) /\ Len(rest) \in Nat /\ Len(Append(rest, r)) = Len(rest) + 1
          /\ \A k \in 1 .. Len(rest) : Append(rest, r)[k] = rest[k]
          /\ Append(rest, r)[Len(rest) + 1] = r
        <3> HIDE DEF rest
        <3> QED BY <1>1, Appended
    <2>3. new.best = best /\ new.passthrough = Append(rest, r)
        BY <2>1
    <2>4. Deduping(new, R)
        <3>1. new \in [best : Seq(R), passthrough : Seq(R)]
            BY <1>1, <2>1, <2>2
        <3>2. \A k \in 1 .. Len(rest) + 1 : k = Len(rest) + 1 \/ k \in 1 .. Len(rest)
            BY <2>2
        <3> HIDE DEF new
        <3> QED BY <1>2, <2>2, <2>3, <3>1, <3>2 DEF Deduping
    <2>5. \A k \in 1 .. Len(rest) : k \in 1 .. Len(rest) + 1
        BY <2>2
    <2>6. Len(rest) + 1 \in 1 .. Len(rest) + 1
        BY <2>2
    <2>7. Covered(new, r)
        <3> HIDE DEF new, rest
        <3> QED BY <2>2, <2>3, <2>6, OutdoesItself DEF Covered
    <2>8. ASSUME NEW q, Covered(acc, q) PROVE Covered(new, q)
        <3> HIDE DEF new
        <3> QED BY <2>2, <2>3, <2>5, <2>8 DEF Covered
    <2> QED BY <2>4, <2>7, <2>8
<1>3. CASE r.name # "unknown" /\ ~\E k \in DOMAIN best : Fleet!Key(best[k]) = Fleet!Key(r)
    <2>1. new = [best |-> Append(best, r), passthrough |-> rest]
        BY <1>1, <1>3 DEF Fleet!Deduped
    <2>2. /\ Append(best, r) \in Seq(R) /\ Len(Append(best, r)) = Len(best) + 1
          /\ \A k \in 1 .. Len(best) : Append(best, r)[k] = best[k]
          /\ Append(best, r)[Len(best) + 1] = r
        <3> HIDE DEF best
        <3> QED BY <1>1, Appended
    <2>3. new.best = Append(best, r) /\ new.passthrough = rest
        BY <2>1
    <2>4. Deduping(new, R)
        <3>1. new \in [best : Seq(R), passthrough : Seq(R)]
            BY <1>1, <2>1, <2>2
        <3>2. \A k \in 1 .. Len(best) + 1 : k = Len(best) + 1 \/ k \in 1 .. Len(best)
            BY <1>1
        <3>3. \A k \in 1 .. Len(new.best) : new.best[k].name # "unknown"
            <4> HIDE DEF new
            <4> QED BY <1>3, <2>2, <2>3, <3>2 DEF Deduping
        <3>4. \A j, k \in 1 .. Len(new.best) : Fleet!Key(new.best[j]) = Fleet!Key(new.best[k]) => j = k
            <4> HIDE DEF new
            <4> QED BY <1>1, <1>3, <2>2, <2>3, <3>2 DEF Deduping
        <3>5. \A k \in 1 .. Len(new.passthrough) : new.passthrough[k].name = "unknown"
            BY <2>3 DEF Deduping
        <3> HIDE DEF new
        <3> QED BY <3>1, <3>3, <3>4, <3>5 DEF Deduping
    <2>5. \A k \in 1 .. Len(best) : k \in 1 .. Len(best) + 1
        BY <1>1
    <2>6. Len(best) + 1 \in 1 .. Len(best) + 1
        BY <1>1
    <2>7. Covered(new, r)
        <3> HIDE DEF new, best
        <3> QED BY <2>2, <2>3, <2>6, OutdoesItself DEF Covered
    <2>8. ASSUME NEW q, Covered(acc, q) PROVE Covered(new, q)
        <3> HIDE DEF new
        <3> QED BY <2>2, <2>3, <2>5, <2>8 DEF Covered
    <2> QED BY <2>4, <2>7, <2>8
<1>4. CASE r.name # "unknown" /\ \E k \in DOMAIN best : Fleet!Key(best[k]) = Fleet!Key(r)
    <2> DEFINE cur == CHOOSE k \in DOMAIN best : Fleet!Key(best[k]) = Fleet!Key(r)
    <2>1. cur \in 1 .. Len(best) /\ Fleet!Key(best[cur]) = Fleet!Key(r)
        BY <1>1, <1>4
    <2>2. Fleet!richness(r) \in Nat /\ Fleet!richness(best[cur]) \in Nat
        BY RichnessType
    <2>3. CASE Fleet!Richer(r, best[cur])
        <3> DEFINE better == [best EXCEPT ![cur] = r]
        <3>1. new = [best |-> better, passthrough |-> rest]
            BY <1>1, <1>4, <2>3 DEF Fleet!Deduped
        <3>2. /\ better \in Seq(R) /\ Len(better) = Len(best)
              /\ \A k \in 1 .. Len(best) : better[k] = IF k = cur THEN r ELSE best[k]
            <4> HIDE DEF best, cur
            <4> QED BY <1>1, <2>1, ExceptSeq
        <3>3. new.best = better /\ new.passthrough = rest
            BY <3>1
        <3>4. Fleet!richness(r) > Fleet!richness(best[cur])
            BY <2>3 DEF Fleet!Richer
        <3> HIDE DEF better, cur
        <3>5. Deduping(new, R)
            <4>1. new \in [best : Seq(R), passthrough : Seq(R)]
                BY <1>1, <3>1, <3>2
            <4>2. \A k \in 1 .. Len(best) : Fleet!Key(better[k]) = Fleet!Key(best[k])
                BY <2>1, <3>2
            <4>3. \A k \in 1 .. Len(best) : better[k].name # "unknown"
                BY <1>4, <3>2 DEF Deduping
            <4>4. \A k \in 1 .. Len(rest) : rest[k].name = "unknown"
                BY DEF Deduping
            <4>5. \A j, k \in 1 .. Len(best) : Fleet!Key(better[j]) = Fleet!Key(better[k]) => j = k
                BY <4>2 DEF Deduping
            <4> HIDE DEF new, best
            <4> QED BY <3>2, <3>3, <4>1, <4>3, <4>4, <4>5 DEF Deduping
        <3>6. Covered(new, r)
            <4> HIDE DEF new, best
            <4> QED BY <2>1, <3>2, <3>3, OutdoesItself DEF Covered
        <3>7. ASSUME NEW q, Covered(acc, q) PROVE Covered(new, q)
            <4>1. CASE \E k \in 1 .. Len(best) : Outdoes(best[k], q)
                <5>1. PICK k \in 1 .. Len(best) : Outdoes(best[k], q)
                    BY <4>1
                <5>2. Fleet!richness(q) \in Nat
                    BY RichnessType
                <5>3. Outdoes(better[k], q)
                    <6>1. CASE k = cur
                        <7>1. better[k] = r
                            BY <3>2, <6>1
                        <7>2. Fleet!Key(r) = Fleet!Key(q) /\ Fleet!richness(best[cur]) >= Fleet!richness(q)
                            BY <2>1, <5>1, <6>1 DEF Outdoes
                        <7>3. Fleet!richness(r) >= Fleet!richness(q)
                            BY <2>2, <3>4, <5>2, <7>2
                        <7> QED BY <7>1, <7>2, <7>3 DEF Outdoes
                    <6>2. CASE k # cur
                        BY <3>2, <5>1, <6>2
                    <6> QED BY <6>1, <6>2
                <5> HIDE DEF new, best
                <5> QED BY <3>2, <3>3, <5>3 DEF Covered
            <4>2. CASE \E k \in 1 .. Len(rest) : Outdoes(rest[k], q)
                <5> HIDE DEF new
                <5> QED BY <3>3, <4>2 DEF Covered
            <4> QED BY <3>7, <4>1, <4>2 DEF Covered
        <3> QED BY <3>5, <3>6, <3>7
    <2>4. CASE ~Fleet!Richer(r, best[cur])
        <3>1. new = acc
            BY <1>1, <1>4, <2>4 DEF Fleet!Deduped
        <3>2. Outdoes(best[cur], r)
            <4>1. ~(Fleet!richness(r) > Fleet!richness(best[cur]))
                BY <2>4 DEF Fleet!Richer
            <4>2. Fleet!richness(best[cur]) >= Fleet!richness(r)
                BY <2>2, <4>1
            <4> QED BY <2>1, <4>2 DEF Outdoes
        <3>3. Covered(acc, r)
            BY <2>1, <3>2 DEF Covered
        <3> QED BY <3>1, <3>3
    <2> QED BY <2>3, <2>4
<1> QED BY <1>2, <1>3, <1>4

\* A row of each name, as rich as any of its name; the rows without a name are all there.
LEMMA DedupesRows ==
    ASSUME NEW R, NEW rows \in Seq(R)
    PROVE  LET out == Fleet!dedupeRows(rows)
           IN  /\ out \in Seq({rows[i] : i \in 1 .. Len(rows)})
               /\ \A j, k \in 1 .. Len(out) :
                     Fleet!Key(out[j]) = Fleet!Key(out[k]) /\ out[j].name # "unknown" => j = k
               /\ \A i \in 1 .. Len(rows) : \E k \in 1 .. Len(out) : Outdoes(out[k], rows[i])
<1> DEFINE n == Len(rows)
           Q == {rows[i] : i \in 1 .. n}
<1>1. n \in Nat /\ DOMAIN rows = 1 .. n
    OBVIOUS
<1>2. PICK it : Folds(it, rows, 1 .. n) /\ Fleet!dedupeRows(rows) = it[1 .. n].best \o it[1 .. n].passthrough
    <2> HIDE DEF n
    <2>1. PICK some : Folds(some, rows, 1 .. n)
        BY <1>1, FoldsExist
    <2> QED BY <1>1, <2>1, FoldsRows
<1> DEFINE Right(j) == Deduping(it[1 .. j], Q) /\ \A i \in 1 .. j : Covered(it[1 .. j], rows[i])
           T == {j \in 0 .. n : ~Right(j)}
<1>3. T = {}
    <2> SUFFICES ASSUME T # {} PROVE FALSE
        OBVIOUS
    <2>1. PICK m \in T : \A j \in T : m <= j
        <3>1. T \subseteq Nat OBVIOUS
        <3> HIDE DEF T
        <3> QED BY <3>1, Least
    <2>2. m \in 0 .. n /\ ~Right(m)
        OBVIOUS
    <2>3. \A s \in SUBSET (1 .. n) : it[s] = Fold(it, rows, s)
        BY <1>2 DEF Folds
    <2>4. CASE m = 0
        <3>1. it[1 .. 0] = NoRows
            <4>1. 1 .. 0 = {} /\ 1 .. 0 \in SUBSET (1 .. n)
                OBVIOUS
            <4> HIDE DEF n
            <4> QED BY <2>3, <4>1 DEF Fold
        <3>2. << >> \in Seq(Q) /\ Len(<< >>) = 0
            <4> HIDE DEF Q
            <4> QED BY EmptySeq
        <3>3. Deduping(NoRows, Q)
            <4>1. NoRows.best = << >> /\ NoRows.passthrough = << >> /\ NoRows \in [best : Seq(Q), passthrough : Seq(Q)]
                <5> HIDE DEF Q
                <5> QED BY <3>2 DEF NoRows
            <4> HIDE DEF Q
            <4> QED BY <3>2, <4>1 DEF Deduping
        <3>4. \A i \in 1 .. 0 : FALSE
            OBVIOUS
        <3>5. Right(0)
            <4> HIDE DEF Q
            <4> QED BY <3>1, <3>3, <3>4
        <3> QED BY <2>2, <2>4, <3>5
    <2>5. CASE m # 0
        <3> DEFINE k == m - 1
        <3>1. k \in 0 .. n /\ m \in 1 .. n /\ ~(m <= k) /\ m = k + 1 /\ m \in Nat
            BY <1>1, <2>2, <2>5
        <3>2. k \notin T
            <4> HIDE DEF T, k
            <4> QED BY <2>1, <3>1
        <3>3. Right(k)
            <4> HIDE DEF Right, k
            <4> QED BY <3>1, <3>2
        <3>4. (1 .. m) \ {m} = 1 .. k /\ m \in 1 .. m /\ 1 .. m \in SUBSET (1 .. n) /\ 1 .. m # {}
            <4>1. m \in 1 .. m /\ (1 .. m) \ {m} = 1 .. k
                BY <3>1
            <4>2. 1 .. m \in SUBSET (1 .. n)
                BY <3>1
            <4> QED BY <4>1, <4>2
        <3>5. Top(1 .. m) = m
            BY <3>1, <3>4, TopIs
        <3>6. it[1 .. m] = Fleet!Deduped(it[1 .. k], rows[m])
            <4> HIDE DEF k, n
            <4> QED BY <2>3, <3>4, <3>5 DEF Fold
        <3>7. rows[m] \in Q
            BY <3>1
        <3> DEFINE acc == it[1 .. k]
        <3>8. Deduping(acc, Q)
            BY <3>3
        <3>9. Deduping(it[1 .. m], Q) /\ Covered(it[1 .. m], rows[m]) /\ \A q : Covered(acc, q) => Covered(it[1 .. m], q)
            <4> HIDE DEF Q, acc, k
            <4>1. it[1 .. m] = Fleet!Deduped(acc, rows[m])
                BY <3>6 DEF acc
            <4> QED BY <3>7, <3>8, <4>1, DedupedOne
        <3>10. \A i \in 1 .. m : i = m \/ i \in 1 .. k
            BY <3>1
        <3>11. Right(m)
            <4>1. \A i \in 1 .. k : Covered(acc, rows[i])
                BY <3>3
            <4> HIDE DEF Q, acc, k
            <4> QED BY <3>9, <3>10, <4>1
        <3> QED BY <2>2, <3>11
    <2> QED BY <2>4, <2>5
<1>4. Right(n)
    <2>1. n \in 0 .. n
        BY <1>1
    <2> HIDE DEF Right, n
    <2> QED BY <1>3, <2>1
<1> DEFINE acc == it[1 .. n]
           best == acc.best
           rest == acc.passthrough
           out == best \o rest
<1>5. Deduping(acc, Q) /\ \A i \in 1 .. n : Covered(acc, rows[i])
    BY <1>4
<1>6. best \in Seq(Q) /\ rest \in Seq(Q) /\ Fleet!dedupeRows(rows) = out
    <2> HIDE DEF Q
    <2> QED BY <1>2, <1>5 DEF Deduping
<1>7. /\ Len(best) \in Nat /\ Len(rest) \in Nat
      /\ out \in Seq(Q) /\ Len(out) = Len(best) + Len(rest)
      /\ \A i \in 1 .. Len(best) + Len(rest) : out[i] = IF i <= Len(best) THEN best[i] ELSE rest[i - Len(best)]
    <2> HIDE DEF Q, best, rest
    <2> QED BY <1>6, ConcatProperties, LenProperties
<1> HIDE DEF Q, n, acc, out
<1>8. ASSUME NEW j \in 1 .. Len(out), NEW k \in 1 .. Len(out),
             Fleet!Key(out[j]) = Fleet!Key(out[k]), out[j].name # "unknown"
      PROVE  j = k
    <2>1. ASSUME NEW i \in 1 .. Len(out) PROVE i <= Len(best) \/ out[i].name = "unknown"
        <3> SUFFICES ASSUME ~(i <= Len(best)) PROVE out[i].name = "unknown"
            OBVIOUS
        <3>1. i - Len(best) \in 1 .. Len(rest) /\ out[i] = rest[i - Len(best)]
            <4> HIDE DEF best, rest
            <4> QED BY <1>7
        <3> QED BY <1>5, <3>1 DEF Deduping
    <2>2. out[k].name # "unknown"
        BY <1>8 DEF Fleet!Key
    <2>3. j \in 1 .. Len(best) /\ k \in 1 .. Len(best) /\ out[j] = best[j] /\ out[k] = best[k]
        <3>1. j <= Len(best) /\ k <= Len(best)
            BY <1>8, <2>1, <2>2
        <3> HIDE DEF best, rest
        <3> QED BY <1>7, <3>1
    <2> QED BY <1>5, <1>8, <2>3 DEF Deduping
<1>9. ASSUME NEW i \in 1 .. n PROVE \E k \in 1 .. Len(out) : Outdoes(out[k], rows[i])
    <2>1. Covered(acc, rows[i])
        BY <1>5
    <2>2. CASE \E k \in 1 .. Len(best) : Outdoes(best[k], rows[i])
        <3>1. PICK k \in 1 .. Len(best) : Outdoes(best[k], rows[i])
            BY <2>2
        <3>2. k \in 1 .. Len(out) /\ out[k] = best[k]
            <4> HIDE DEF best, rest
            <4> QED BY <1>7
        <3> QED BY <3>1, <3>2
    <2>3. CASE \E k \in 1 .. Len(rest) : Outdoes(rest[k], rows[i])
        <3>1. PICK k \in 1 .. Len(rest) : Outdoes(rest[k], rows[i])
            BY <2>3
        <3> DEFINE m == Len(best) + k
        <3>2. m \in 1 .. Len(out) /\ out[m] = rest[k]
            <4>1. m \in 1 .. Len(best) + Len(rest) /\ ~(m <= Len(best)) /\ m - Len(best) = k
                <5> HIDE DEF best, rest
                <5> QED BY <1>7
            <4> HIDE DEF best, rest, m
            <4> QED BY <1>7, <4>1
        <3> HIDE DEF m
        <3> QED BY <3>1, <3>2
    <2> QED BY <2>1, <2>2, <2>3 DEF Covered
<1> QED BY <1>6, <1>7, <1>8, <1>9 DEF Q, n

\* The beginnings of a sequence of sequences, joined.
Joins(g, ss, n) == g = [i \in 1 .. n |-> IF i = 1 THEN ss[i] ELSE g[i - 1] \o ss[i]]

LEMMA JoinsExist ==
    ASSUME NEW S, NEW n \in Nat \ {0}, NEW ss \in [1 .. n -> Seq(S)]
    PROVE  \E g \in [1 .. n -> Seq(S)] : Joins(g, ss, n)
<1> DEFINE Has(m) == \E g \in [1 .. m -> Seq(S)] : Joins(g, ss, m)
           T == {m \in 1 .. n : ~Has(m)}
<1> SUFFICES ASSUME T # {} PROVE FALSE
    <2>1. n \in 1 .. n OBVIOUS
    <2> QED BY <2>1
<1>1. PICK m \in T : \A j \in T : m <= j
    <2>1. T \subseteq Nat OBVIOUS
    <2> HIDE DEF T
    <2> QED BY <2>1, Least
<1>2. m \in 1 .. n /\ ~Has(m)
    OBVIOUS
<1>3. CASE m = 1
    <2> DEFINE g == [i \in 1 .. 1 |-> ss[1]]
    <2>1. g \in [1 .. 1 -> Seq(S)]
        <3>1. ss[1] \in Seq(S) OBVIOUS
        <3> QED BY <3>1
    <2>2. Joins(g, ss, 1)
        BY DEF Joins
    <2> QED BY <2>1, <2>2, <1>2, <1>3
<1>4. CASE m # 1
    <2>1. m - 1 \in 1 .. n /\ m - 1 \notin T
        <3>1. m - 1 \in 1 .. n /\ ~(m <= m - 1)
            <4> HIDE DEF T, Has
            <4> QED BY <1>2, <1>4
        <3> HIDE DEF T
        <3> QED BY <3>1, <1>1
    <2>2. PICK h \in [1 .. m - 1 -> Seq(S)] : Joins(h, ss, m - 1)
        BY <2>1
    <2> DEFINE g == [i \in 1 .. m |-> IF i = m THEN h[m - 1] \o ss[m] ELSE h[i]]
    <2>3. h[m - 1] \o ss[m] \in Seq(S)
        <3>1. h[m - 1] \in Seq(S) /\ ss[m] \in Seq(S)
            BY <2>1, <1>2
        <3> QED BY <3>1, ConcatProperties
    <2>4. g \in [1 .. m -> Seq(S)]
        BY <2>3, <1>2
    <2>5. ASSUME NEW i \in 1 .. m
          PROVE  g[i] = IF i = 1 THEN ss[i] ELSE g[i - 1] \o ss[i]
        <3>1. CASE i = m
            <4>1. g[i] = h[m - 1] \o ss[m]
                BY <3>1, <1>2
            <4>2. m - 1 \in 1 .. m /\ m - 1 # m
                BY <1>2, <2>1
            <4>3. g[m - 1] = h[m - 1]
                BY <4>2
            <4> HIDE DEF g
            <4> QED BY <4>1, <4>3, <3>1, <1>4
        <3>2. CASE i # m
            <4>1. i \in 1 .. m - 1
                BY <3>2, <1>2
            <4>2. h[i] = IF i = 1 THEN ss[i] ELSE h[i - 1] \o ss[i]
                BY <2>2, <4>1 DEF Joins
            <4>3. g[i] = h[i]
                BY <3>2
            <4>4. i # 1 => g[i - 1] = h[i - 1]
                <5> SUFFICES ASSUME i # 1 PROVE g[i - 1] = h[i - 1]
                    OBVIOUS
                <5>1. i - 1 \in 1 .. m /\ i - 1 # m
                    BY <4>1, <1>2
                <5> QED BY <5>1
            <4> HIDE DEF g
            <4> QED BY <4>2, <4>3, <4>4
        <3> QED BY <3>1, <3>2
    <2>6. Joins(g, ss, m)
        <3> DEFINE e == [i \in 1 .. m |-> IF i = 1 THEN ss[i] ELSE g[i - 1] \o ss[i]]
        <3>1. g = [i \in 1 .. m |-> g[i]] OBVIOUS
        <3>2. \A i \in 1 .. m : g[i] = e[i]
            <4> HIDE DEF g
            <4> QED BY <2>5
        <3>3. DOMAIN g = 1 .. m /\ DOMAIN e = 1 .. m
            OBVIOUS
        <3>4. g = e
            <4>1. e = [i \in 1 .. m |-> e[i]] OBVIOUS
            <4> HIDE DEF g, e
            <4> QED BY <3>1, <4>1, <3>2
        <3> QED BY <3>4 DEF Joins
    <2> QED BY <2>4, <2>6, <1>2
<1> QED BY <1>3, <1>4

\* The joined beginnings are sequences of the same elements, and hold all that was joined.
Collects(s, S, ss, n) ==
    /\ s \in Seq(S)
    /\ \A i \in 1 .. n : \A k \in 1 .. Len(ss[i]) : \E m \in 1 .. Len(s) : s[m] = ss[i][k]

LEMMA JoinsHold ==
    ASSUME NEW S, NEW n \in Nat \ {0}, NEW ss \in [1 .. n -> Seq(S)], NEW g, Joins(g, ss, n)
    PROVE  Collects(g[n], S, ss, n)
<1> DEFINE Holds(j) ==
              /\ g[j] \in Seq(S)
              /\ \A i \in 1 .. j : \A k \in 1 .. Len(ss[i]) :
                    \E m \in 1 .. Len(g[j]) : g[j][m] = ss[i][k]
           T == {j \in 1 .. n : ~Holds(j)}
<1>1. \A j \in 1 .. n : g[j] = IF j = 1 THEN ss[j] ELSE g[j - 1] \o ss[j]
    BY DEF Joins
<1>2. ASSUME T # {} PROVE FALSE
    <2>1. PICK j \in T : \A l \in T : j <= l
        <3>1. T \subseteq Nat OBVIOUS
        <3> HIDE DEF T
        <3> QED BY <3>1, <1>2, Least
    <2>2. j \in 1 .. n /\ ~Holds(j)
        OBVIOUS
    <2>3. ss[j] \in Seq(S)
        BY <2>2
    <2>4. CASE j = 1
        <3>1. g[1] = ss[1]
            BY <1>1
        <3>2. Holds(1)
            BY <3>1, <2>3, <2>4
        <3> QED BY <3>2, <2>2, <2>4
    <2>5. CASE j # 1
        <3>1. j - 1 \in 1 .. n /\ ~(j <= j - 1)
            <4> HIDE DEF T, Holds
            <4> QED BY <2>2, <2>5
        <3>2. Holds(j - 1)
            <4>1. j - 1 \notin T
                <5> HIDE DEF T
                <5> QED BY <3>1, <2>1
            <4> HIDE DEF Holds
            <4> QED BY <4>1, <3>1
        <3>3. g[j] = g[j - 1] \o ss[j]
            BY <1>1, <2>2, <2>5
        <3> DEFINE h == g[j - 1]  t == ss[j]
        <3>4. h \in Seq(S) /\ t \in Seq(S)
            BY <3>2, <2>3
        <3>5. /\ h \o t \in Seq(S) /\ Len(h \o t) = Len(h) + Len(t)
              /\ \A i \in 1 .. Len(h) + Len(t) :
                    (h \o t)[i] = IF i <= Len(h) THEN h[i] ELSE t[i - Len(h)]
            <4> HIDE DEF h, t
            <4> QED BY <3>4, ConcatProperties
        <3>6. Len(h) \in Nat /\ Len(t) \in Nat
            <4> HIDE DEF h, t
            <4> QED BY <3>4, LenProperties
        <3>7. ASSUME NEW i \in 1 .. j, NEW k \in 1 .. Len(ss[i])
              PROVE  \E m \in 1 .. Len(h \o t) : (h \o t)[m] = ss[i][k]
            <4>1. CASE i = j
                <5> DEFINE m == Len(h) + k
                <5>1. m \in 1 .. Len(h) + Len(t) /\ ~(m <= Len(h)) /\ m - Len(h) = k
                    <6>1. k \in 1 .. Len(t)
                        BY <4>1
                    <6> HIDE DEF h, t
                    <6> QED BY <6>1, <3>6
                <5>2. (h \o t)[m] = t[k]
                    <6> HIDE DEF h, t, m
                    <6> QED BY <5>1, <3>5
                <5>3. ss[i][k] = t[k]
                    BY <4>1
                <5> HIDE DEF h, t, m
                <5> QED BY <5>1, <5>2, <5>3, <3>5
            <4>2. CASE i # j
                <5>1. i \in 1 .. j - 1
                    <6>1. j \in Nat
                        BY <2>2
                    <6> QED BY <6>1, <4>2
                <5>2. PICK m \in 1 .. Len(h) : h[m] = ss[i][k]
                    BY <5>1, <3>2
                <5>3. m \in 1 .. Len(h) + Len(t) /\ m <= Len(h)
                    <6> HIDE DEF h, t
                    <6> QED BY <3>6
                <5> HIDE DEF h, t
                <5> QED BY <5>2, <5>3, <3>5
            <4> QED BY <4>1, <4>2
        <3>8. Holds(j)
            <4>1. g[j] \in Seq(S)
                BY <3>3, <3>5
            <4>2. \A i \in 1 .. j : \A k \in 1 .. Len(ss[i]) :
                     \E m \in 1 .. Len(g[j]) : g[j][m] = ss[i][k]
                BY <3>3, <3>7
            <4> QED BY <4>1, <4>2
        <3> QED BY <3>8, <2>2
    <2> QED BY <2>4, <2>5
<1>3. n \in 1 .. n
    OBVIOUS
<1>4. Holds(n)
    <2>1. n \notin T
        BY <1>2
    <2> HIDE DEF Holds
    <2> QED BY <2>1, <1>3
<1> QED BY <1>4 DEF Collects

\* What FlattenSeq returns.
LEMMA Flattened ==
    ASSUME NEW S, NEW ss \in Seq(Seq(S))
    PROVE  Collects(Fleet!FlattenSeq(ss), S, ss, Len(ss))
<1> DEFINE n == Len(ss)
<1>1. n \in Nat /\ ss \in [1 .. n -> Seq(S)]
    OBVIOUS
<1>2. CASE n = 0
    <2>1. Fleet!FlattenSeq(ss) = ss /\ ss = << >>
        BY <1>2 DEF Fleet!FlattenSeq
    <2> QED BY <2>1, <1>2 DEF Collects
<1>3. CASE n # 0
    <2>1. PICK h : Joins(h, ss, n)
        <3> HIDE DEF n
        <3> QED BY <1>1, <1>3, JoinsExist
    <2> DEFINE g == CHOOSE f : Joins(f, ss, n)
    <2>2. Joins(g, ss, n)
        <3> HIDE DEF n
        <3> QED BY <2>1
    <2>3. Fleet!FlattenSeq(ss) = g[n]
        BY <1>3 DEF Fleet!FlattenSeq, Joins
    <2> HIDE DEF g, n
    <2>4. n \in Nat \ {0} /\ ss \in [1 .. n -> Seq(S)]
        BY <1>1, <1>3
    <2>5. Collects(g[n], S, ss, n)
        BY <2>4, <2>2, JoinsHold
    <2>6. n = Len(ss)
        BY DEF n
    <2> QED BY <2>3, <2>5, <2>6
<1> QED BY <1>2, <1>3

-----------------------------------------------------------------------------
(* The fleet's report: the inductive invariant.  It is put together from   *)
(* predicates over values, of one step's state each.                       *)

\* All that a guest may ever be.
Everyone == UNION {UNION {{f[h][g] : g \in DOMAIN f[h]} : h \in DOMAIN f} : f \in DOMAIN FleetMoves}
Named == [name : {d.id : d \in Everyone}, version : Nat]
Version == [version : Nat, data : Everyone]
SpecNames == {"node", "guest", "vm_spec", "vm"}
AnyRow == {Fleet!rowFor(k, d) : k \in SpecNames, d \in Everyone}

\* The versions of the record of n.
Rising(vs) == \A i, j \in 1 .. Len(vs) : i < j => vs[i].version < vs[j].version
Shelved(n, vs) ==
    /\ vs \in Seq(Version) /\ Len(vs) \in 1 .. Kept /\ Rising(vs)
    /\ \A i \in 1 .. Len(vs) : vs[i].data.id = n

\* d was there during the run, by the name of the guest it is of if that one has stayed;
\* see and last are what was there then and what stayed, fl the guests that are there.
Ours(d, see, last, fl) == d \in see /\ (d.id \in last => fl[d.id].name = d.name)

\* What a handle's name and version stand for.
Newest(vs) == vs[Len(vs)].version
Handed(h, sto, see, last, fl) ==
    /\ h.name \in DOMAIN sto /\ h.version <= Newest(sto[h.name])
    /\ \A i \in 1 .. Len(sto[h.name]) :
          sto[h.name][i].version = h.version => Ours(sto[h.name][i].data, see, last, fl)
Fetched(sto, h) ==
    LET found == {i \in DOMAIN sto[h.name] : sto[h.name][i].version = h.version}
    IN  IF found = {} THEN Null ELSE sto[h.name][CHOOSE i \in found : TRUE].data

\* The guests of a hypervisor.
Guests(fl) == \A g \in DOMAIN fl : fl[g].id = g /\ fl[g] \in Everyone
There(fl) == {fl[g] : g \in DOMAIN fl}

\* A step: its status, what it has yet to write and the handles of what it wrote, the
\* records of its model, and its hypervisor.
StepTyped(st, hs, sto, see, last, fl) ==
    /\ st \in {"idle", "running", "writing", "succeeded", "failed"}
    /\ hs \in Seq(Named) /\ see \subseteq Everyone /\ last \subseteq DOMAIN fl /\ Guests(fl)
    /\ \A n \in DOMAIN sto : Shelved(n, sto[n])
StepHandles(hs, sto, see, last, fl) ==
    /\ \A i \in 1 .. Len(hs) : Handed(hs[i], sto, see, last, fl)
    /\ \A i, j \in 1 .. Len(hs) : hs[i].name = hs[j].name => i = j
StepLeft(w, hs, see, last, fl) ==
    /\ \A d \in w : Ours(d, see, last, fl) /\ \A i \in 1 .. Len(hs) : hs[i].name # d.id
    /\ \A d, e \in w : d.id = e.id => d = e
StepGoes(st, w, hs, see, last, fl) ==
    /\ st \in {"idle", "running"} => hs = << >> /\ w = {}
    /\ st = "running" => There(fl) \subseteq see
    /\ st \in {"writing", "succeeded"} =>
          \A g \in last : (\E i \in 1 .. Len(hs) : hs[i].name = g) \/ (\E d \in w : d.id = g)
    /\ st = "succeeded" => w = {}
Step(st, w, hs, sto, see, last, fl) ==
    /\ StepTyped(st, hs, sto, see, last, fl)
    /\ StepHandles(hs, sto, see, last, fl)
    /\ StepLeft(w, hs, see, last, fl)
    /\ StepGoes(st, w, hs, see, last, fl)

\* What a step has to do with the rows that were read.
Told(st, hs, sto, spec, read) ==
    /\ st \in {"succeeded", "failed"}
    /\ st = "succeeded" =>
          \A i \in 1 .. Len(hs) : Fetched(sto, hs[i]) # Null =>
             \E k \in 1 .. Len(read) : read[k] = Fleet!rowFor(spec, Fetched(sto, hs[i]))
-----------------------------------------------------------------------------
(* A step's records.                                                       *)

LEMMA Fetches ==
    ASSUME NEW sto, NEW h, Shelved(h.name, sto[h.name])
    PROVE  /\ Fetched(sto, h) # Null =>
                 \E i \in 1 .. Len(sto[h.name]) :
                    sto[h.name][i].version = h.version /\ Fetched(sto, h) = sto[h.name][i].data
           /\ \A i \in 1 .. Len(sto[h.name]) :
                 sto[h.name][i].version = h.version => Fetched(sto, h) = sto[h.name][i].data
<1> DEFINE vs == sto[h.name]
           found == {i \in DOMAIN vs : vs[i].version = h.version}
<1>1. vs \in Seq(Version) /\ DOMAIN vs = 1 .. Len(vs) /\ Len(vs) \in Nat /\ Rising(vs)
    BY DEF Shelved
<1>2. \A i \in 1 .. Len(vs) : vs[i].version \in Nat
    <2> SUFFICES ASSUME NEW i \in 1 .. Len(vs) PROVE vs[i].version \in Nat
        OBVIOUS
    <2> HIDE DEF vs
    <2>1. vs[i] \in Version
        BY <1>1
    <2> QED BY <2>1 DEF Version
<1>3. \A i, j \in found : i = j
    <2> SUFFICES ASSUME NEW i \in found, NEW j \in found, i # j PROVE FALSE
        OBVIOUS
    <2>1. i \in 1 .. Len(vs) /\ j \in 1 .. Len(vs) /\ vs[i].version = vs[j].version
        BY <1>1
    <2>2. i < j \/ j < i
        BY <1>1, <2>1
    <2> HIDE DEF vs
    <2> QED BY <1>1, <1>2, <2>1, <2>2 DEF Rising
<1>4. Fetched(sto, h) = IF found = {} THEN Null ELSE vs[CHOOSE i \in found : TRUE].data
    BY DEF Fetched
<1> DEFINE c == CHOOSE i \in found : TRUE
<1>5. found # {} => c \in found
    OBVIOUS
<1> HIDE DEF c
<1> QED BY <1>1, <1>3, <1>4, <1>5 DEF c

\* A version written, and the oldest collected.
Pushed(vs, d) ==
    Fleet!Newest(Append(vs, [version |-> IF vs = << >> THEN 1 ELSE vs[Len(vs)].version + 1, data |-> d]))

LEMMA Pushes ==
    ASSUME NEW vs \in Seq(Version), Rising(vs), Len(vs) <= Kept, NEW d \in Everyone
    PROVE  LET new == Pushed(vs, d)
               v == IF vs = << >> THEN 1 ELSE Newest(vs) + 1
           IN  /\ new \in Seq(Version) /\ Len(new) \in 1 .. Kept /\ Rising(new) /\ Newest(new) = v
               /\ v \in Nat /\ \A i \in 1 .. Len(vs) : vs[i].version < v
               /\ \A i \in 1 .. Len(new) :
                     \/ new[i] = [version |-> v, data |-> d]
                     \/ \E j \in 1 .. Len(vs) : new[i] = vs[j]
<1> DEFINE v == IF vs = << >> THEN 1 ELSE Newest(vs) + 1
           one == [version |-> v, data |-> d]
           n == Len(vs)
           all == Append(vs, one)
           new == Pushed(vs, d)
<1>1. n \in Nat /\ Kept \in Nat /\ Kept >= 1 /\ (vs = << >> <=> n = 0)
    <2>1. Kept \in Nat \ {0}
        BY FleetAssumption DEF Fleet!Assumptions
    <2> QED BY <2>1
<1>2. \A i \in 1 .. n : vs[i] \in Version /\ vs[i].version \in Nat
    <2> SUFFICES ASSUME NEW i \in 1 .. n PROVE vs[i] \in Version /\ vs[i].version \in Nat
        OBVIOUS
    <2>1. vs[i] \in Version
        OBVIOUS
    <2> QED BY <2>1 DEF Version
<1>3. v \in Nat /\ \A i \in 1 .. n : vs[i].version < v
    <2>1. CASE n = 0
        BY <1>1, <2>1
    <2>2. CASE n # 0
        <3>1. n \in 1 .. n /\ v = vs[n].version + 1
            BY <1>1, <2>2 DEF Newest
        <3>2. ASSUME NEW i \in 1 .. n PROVE vs[i].version <= vs[n].version
            <4>1. i = n \/ i < n
                BY <1>1
            <4>2. i < n => vs[i].version < vs[n].version
                BY <3>1 DEF Rising
            <4> HIDE DEF n
            <4> QED BY <1>2, <3>1, <4>1, <4>2
        <3> HIDE DEF v, n
        <3> QED BY <1>2, <3>1, <3>2
    <2> QED BY <2>1, <2>2
<1>4. one \in Version /\ one.version = v
    BY <1>3 DEF Version
<1>5. /\ all \in Seq(Version) /\ Len(all) = n + 1
      /\ \A i \in 1 .. n : all[i] = vs[i]
      /\ all[n + 1] = one
    <2> HIDE DEF one
    <2> QED BY <1>4
<1>6. new = IF n + 1 > Kept THEN Tail(all) ELSE all
    <2>1. new = Fleet!Newest(all)
        BY DEF Pushed, Newest
    <2> HIDE DEF all, new
    <2> QED BY <1>5, <2>1 DEF Fleet!Newest
<1>7. \A i, j \in 1 .. n + 1 : i < j => all[i].version < all[j].version
    <2> SUFFICES ASSUME NEW i \in 1 .. n + 1, NEW j \in 1 .. n + 1, i < j
                 PROVE  all[i].version < all[j].version
        OBVIOUS
    <2>1. i \in 1 .. n /\ (j = n + 1 \/ j \in 1 .. n)
        BY <1>1
    <2> HIDE DEF all, one, v, n
    <2>2. CASE j = n + 1
        BY <1>3, <1>4, <1>5, <2>1, <2>2
    <2>3. CASE j \in 1 .. n
        <3>1. vs[i].version < vs[j].version
            BY <2>1, <2>3 DEF Rising, n
        <3> QED BY <1>5, <2>1, <2>3, <3>1
    <2> QED BY <2>1, <2>2, <2>3
<1>8. \A i \in 1 .. n + 1 : all[i] = one \/ \E j \in 1 .. n : all[i] = vs[j]
    <2>1. \A i \in 1 .. n + 1 : i = n + 1 \/ i \in 1 .. n
        BY <1>1
    <2> HIDE DEF all, one, n
    <2> QED BY <1>5, <2>1
<1>9. n <= Kept
    OBVIOUS
<1> HIDE DEF all, one, v, n, new
<1>10. CASE n + 1 > Kept
    <2>1. new = Tail(all) /\ all # << >>
        <3>1. Len(all) # 0
            BY <1>1, <1>5
        <3> QED BY <1>6, <1>10, <3>1, EmptySeq
    <2>2. new \in Seq(Version) /\ Len(new) = n /\ \A i \in 1 .. n : new[i] = all[i + 1]
        <3>1. /\ Tail(all) \in Seq(Version) /\ Len(Tail(all)) = Len(all) - 1
              /\ \A i \in 1 .. Len(Tail(all)) : Tail(all)[i] = all[i + 1]
            BY <1>5, <2>1, HeadTailProperties
        <3>2. Len(all) - 1 = n
            BY <1>1, <1>5
        <3> QED BY <2>1, <3>1, <3>2
    <2>3. n = Kept
        BY <1>1, <1>9, <1>10
    <2>4. n \in 1 .. n /\ new[n] = one
        <3>1. n \in 1 .. n
            BY <1>1, <2>3
        <3> QED BY <1>5, <2>2, <3>1
    <2>5. Newest(new) = v
        BY <1>4, <2>2, <2>4 DEF Newest
    <2>6. Rising(new)
        <3>1. ASSUME NEW i \in 1 .. n, NEW j \in 1 .. n, i < j
              PROVE  new[i].version < new[j].version
            <4>1. i + 1 \in 1 .. n + 1 /\ j + 1 \in 1 .. n + 1 /\ i + 1 < j + 1
                BY <1>1, <3>1
            <4> QED BY <1>7, <2>2, <4>1
        <3> QED BY <2>2, <3>1 DEF Rising
    <2>7. \A i \in 1 .. n : new[i] = one \/ \E j \in 1 .. n : new[i] = vs[j]
        <3>1. \A i \in 1 .. n : i + 1 \in 1 .. n + 1
            BY <1>1
        <3> QED BY <1>8, <2>2, <3>1
    <2>8. Len(new) \in 1 .. Kept
        BY <1>1, <2>2, <2>3
    <2> QED BY <1>3, <2>2, <2>5, <2>6, <2>7, <2>8 DEF one, v, n, new
<1>11. CASE ~(n + 1 > Kept)
    <2>1. new = all
        BY <1>6, <1>11
    <2>2. Len(new) \in 1 .. Kept
        BY <1>1, <1>5, <1>11, <2>1
    <2>3. Newest(new) = v
        BY <1>4, <1>5, <2>1 DEF Newest
    <2>4. Rising(new)
        BY <1>5, <1>7, <2>1 DEF Rising
    <2>5. \A i \in 1 .. Len(new) : new[i] = one \/ \E j \in 1 .. n : new[i] = vs[j]
        BY <1>5, <1>8, <2>1
    <2> QED BY <1>3, <1>5, <2>1, <2>2, <2>3, <2>4, <2>5 DEF one, v, n, new
<1> QED BY <1>10, <1>11

LEMMA Shelves ==
    ASSUME NEW n, NEW vs, Shelved(n, vs) \/ vs = << >>, NEW d \in Everyone, d.id = n
    PROVE  /\ Shelved(n, Pushed(vs, d))
           /\ Newest(Pushed(vs, d)) = IF vs = << >> THEN 1 ELSE Newest(vs) + 1
           /\ Newest(Pushed(vs, d)) \in Nat
           /\ \A i \in 1 .. Len(vs) : vs[i].version < Newest(Pushed(vs, d))
           /\ \A i \in 1 .. Len(Pushed(vs, d)) :
                 \/ Pushed(vs, d)[i] = [version |-> Newest(Pushed(vs, d)), data |-> d]
                 \/ \E j \in 1 .. Len(vs) : Pushed(vs, d)[i] = vs[j]
<1>1. vs \in Seq(Version) /\ Len(vs) <= Kept /\ Rising(vs) /\ \A i \in 1 .. Len(vs) : vs[i].data.id = n
    <2>1. CASE Shelved(n, vs)
        <3>1. Kept \in Nat
            BY FleetAssumption DEF Fleet!Assumptions
        <3> QED BY <2>1, <3>1 DEF Shelved
    <2>2. CASE vs = << >>
        <3>1. Kept \in Nat
            BY FleetAssumption DEF Fleet!Assumptions
        <3>2. vs \in Seq(Version) /\ Len(vs) = 0
            BY <2>2, EmptySeq
        <3> QED BY <3>1, <3>2 DEF Rising
    <2> QED BY <2>1, <2>2
<1> DEFINE new == Pushed(vs, d)
           v == IF vs = << >> THEN 1 ELSE Newest(vs) + 1
<1>2. /\ new \in Seq(Version) /\ Len(new) \in 1 .. Kept /\ Rising(new) /\ Newest(new) = v
      /\ v \in Nat /\ \A i \in 1 .. Len(vs) : vs[i].version < v
      /\ \A i \in 1 .. Len(new) : new[i] = [version |-> v, data |-> d] \/ \E j \in 1 .. Len(vs) : new[i] = vs[j]
    BY <1>1, Pushes
<1>3. \A i \in 1 .. Len(new) : new[i].data.id = n
    <2> HIDE DEF new, v
    <2> QED BY <1>1, <1>2
<1>4. Shelved(n, new)
    <2> HIDE DEF new
    <2> QED BY <1>2, <1>3 DEF Shelved
<1> QED BY <1>2, <1>4

\* A handle keeps what it stands for when its record has a new version, or stands for
\* nothing any longer.
LEMMA Refiled ==
    ASSUME NEW sto, NEW new, NEW see, NEW last, NEW fl,
           NEW h \in Named, Handed(h, sto, see, last, fl), Shelved(h.name, sto[h.name]),
           h.name \in DOMAIN new,
           \/ new[h.name] = sto[h.name]
           \/ \E d \in Everyone : d.id = h.name /\ new[h.name] = Pushed(sto[h.name], d)
    PROVE  Handed(h, new, see, last, fl) /\ Fetched(new, h) \in {Null, Fetched(sto, h)}
<1>1. CASE new[h.name] = sto[h.name]
    BY <1>1 DEF Handed, Fetched
<1>2. CASE \E d \in Everyone : d.id = h.name /\ new[h.name] = Pushed(sto[h.name], d)
    <2>1. PICK d \in Everyone : d.id = h.name /\ new[h.name] = Pushed(sto[h.name], d)
        BY <1>2
    <2> DEFINE vs == sto[h.name]
               v == Newest(new[h.name])
    <2>2. /\ Shelved(h.name, new[h.name]) /\ v \in Nat
          /\ \A i \in 1 .. Len(vs) : vs[i].version < v
          /\ \A i \in 1 .. Len(new[h.name]) :
                new[h.name][i] = [version |-> v, data |-> d] \/ \E j \in 1 .. Len(vs) : new[h.name][i] = vs[j]
        BY <2>1, Shelves
    <2>3. h.version \in Nat /\ h.version <= Newest(vs)
        BY DEF Named, Handed
    <2>4. h.version < v
        <3>1. Len(vs) \in 1 .. Len(vs) /\ vs[Len(vs)] \in Version
            <4>1. vs \in Seq(Version) /\ Len(vs) \in 1 .. Kept
                BY DEF Shelved
            <4> HIDE DEF vs
            <4> QED BY <4>1
        <3>2. Newest(vs) \in Nat /\ Newest(vs) < v
            <4> HIDE DEF vs, v
            <4> QED BY <2>2, <3>1 DEF Newest, Version
        <3> HIDE DEF vs, v
        <3> QED BY <2>2, <2>3, <3>2
    <2>5. ASSUME NEW i \in 1 .. Len(new[h.name]), new[h.name][i].version = h.version
          PROVE  \E j \in 1 .. Len(vs) : vs[j] = new[h.name][i] /\ vs[j].version = h.version
        <3>1. new[h.name][i] # [version |-> v, data |-> d]
            <4> HIDE DEF v
            <4> QED BY <2>2, <2>3, <2>4, <2>5
        <3> HIDE DEF vs, v
        <3> QED BY <2>2, <2>5, <3>1
    <2>6. Handed(h, new, see, last, fl)
        <3>1. h.version <= Newest(new[h.name])
            <4> HIDE DEF vs
            <4> QED BY <2>2, <2>3, <2>4
        <3>2. \A i \in 1 .. Len(new[h.name]) :
                 new[h.name][i].version = h.version => Ours(new[h.name][i].data, see, last, fl)
            BY <2>5 DEF Handed
        <3> QED BY <3>1, <3>2 DEF Handed
    <2>7. Fetched(new, h) # Null => Fetched(new, h) = Fetched(sto, h)
        <3> SUFFICES ASSUME Fetched(new, h) # Null PROVE Fetched(new, h) = Fetched(sto, h)
            OBVIOUS
        <3>1. PICK i \in 1 .. Len(new[h.name]) :
                 new[h.name][i].version = h.version /\ Fetched(new, h) = new[h.name][i].data
            BY <2>2, Fetches
        <3>2. PICK j \in 1 .. Len(vs) : vs[j] = new[h.name][i] /\ vs[j].version = h.version
            BY <2>5, <3>1
        <3>3. Fetched(sto, h) = vs[j].data
            BY <3>2, Fetches
        <3> QED BY <3>1, <3>2, <3>3
    <2> QED BY <2>6, <2>7
<1> QED BY <1>1, <1>2

-----------------------------------------------------------------------------
(* What becomes of a step.                                                 *)

LEMMA StepStarts ==
    ASSUME NEW st, NEW w, NEW hs, NEW sto, NEW see, NEW last, NEW fl, Step(st, w, hs, sto, see, last, fl)
    PROVE  Step("running", {}, << >>, sto, There(fl), DOMAIN fl, fl)
<1>1. << >> \in Seq(Named) /\ Len(<< >>) = 0
    BY EmptySeq
<1>2. There(fl) \subseteq Everyone
    BY DEF Step, StepTyped, Guests, There
<1>3. StepTyped("running", << >>, sto, There(fl), DOMAIN fl, fl)
    BY <1>1, <1>2 DEF Step, StepTyped
<1>4. StepHandles(<< >>, sto, There(fl), DOMAIN fl, fl)
    BY <1>1 DEF StepHandles
<1>5. StepLeft({}, << >>, There(fl), DOMAIN fl, fl) /\ StepGoes("running", {}, << >>, There(fl), DOMAIN fl, fl)
    BY DEF StepLeft, StepGoes
<1> QED BY <1>3, <1>4, <1>5 DEF Step

LEMMA StepQueries ==
    ASSUME NEW w, NEW hs, NEW sto, NEW see, NEW last, NEW fl, Step("running", w, hs, sto, see, last, fl)
    PROVE  Step("writing", There(fl), hs, sto, see, last, fl)
<1>1. hs = << >> /\ Len(hs) = 0 /\ There(fl) \subseteq see /\ Guests(fl) /\ last \subseteq DOMAIN fl
    <2>1. hs = << >> /\ There(fl) \subseteq see /\ Guests(fl) /\ last \subseteq DOMAIN fl
        BY DEF Step, StepGoes, StepTyped
    <2> QED BY <2>1, EmptySeq
<1>2. StepLeft(There(fl), hs, see, last, fl)
    <2>1. \A d \in There(fl) : d.id \in DOMAIN fl /\ fl[d.id] = d
        BY <1>1 DEF Guests, There
    <2> QED BY <1>1, <2>1 DEF StepLeft, Ours
<1>3. \A g \in last : \E d \in There(fl) : d.id = g
    BY <1>1 DEF Guests, There
<1>4. StepGoes("writing", There(fl), hs, see, last, fl)
    BY <1>3 DEF StepGoes
<1> QED BY <1>2, <1>4 DEF Step, StepTyped

LEMMA StepSucceeds ==
    ASSUME NEW hs, NEW sto, NEW see, NEW last, NEW fl, Step("writing", {}, hs, sto, see, last, fl)
    PROVE  Step("succeeded", {}, hs, sto, see, last, fl)
BY DEF Step, StepTyped, StepGoes

LEMMA StepFails ==
    ASSUME NEW st, NEW w, NEW hs, NEW sto, NEW see, NEW last, NEW fl, Step(st, w, hs, sto, see, last, fl)
    PROVE  Step("failed", w, hs, sto, see, last, fl)
BY DEF Step, StepTyped, StepGoes

\* The versions of the record of n, if there are any.
Known(sto, n) == IF n \in DOMAIN sto THEN sto[n] ELSE << >>

LEMMA StepWrites ==
    ASSUME NEW w, NEW hs, NEW sto, NEW see, NEW last, NEW fl, Step("writing", w, hs, sto, see, last, fl), NEW d \in w,
           NEW new, new = Fleet!Put(sto, d.id, Pushed(Known(sto, d.id), d)),
           NEW h, h = [name |-> d.id, version |-> Newest(Pushed(Known(sto, d.id), d))]
    PROVE  Step("writing", w \ {d}, Append(hs, h), new, see, last, fl)
<1> DEFINE vs == Known(sto, d.id)
           more == Append(hs, h)
<1>1. hs \in Seq(Named) /\ see \subseteq Everyone /\ \A n \in DOMAIN sto : Shelved(n, sto[n])
    BY DEF Step, StepTyped
<1>2. d \in Everyone /\ Ours(d, see, last, fl) /\ \A i \in 1 .. Len(hs) : hs[i].name # d.id
    BY <1>1 DEF Step, StepLeft, Ours
<1>3. /\ Shelved(d.id, Pushed(vs, d)) /\ Newest(Pushed(vs, d)) \in Nat
      /\ \A i \in 1 .. Len(vs) : vs[i].version < Newest(Pushed(vs, d))
      /\ \A i \in 1 .. Len(Pushed(vs, d)) :
            \/ Pushed(vs, d)[i] = [version |-> Newest(Pushed(vs, d)), data |-> d]
            \/ \E j \in 1 .. Len(vs) : Pushed(vs, d)[i] = vs[j]
    <2>1. Shelved(d.id, vs) \/ vs = << >>
        BY <1>1 DEF Known
    <2>2. d.id = d.id
        OBVIOUS
    <2> HIDE DEF vs
    <2>3. CASE Shelved(d.id, vs)
        BY <1>2, <2>2, <2>3, Shelves
    <2>4. CASE vs = << >>
        BY <1>2, <2>2, <2>4, Shelves
    <2> QED BY <2>1, <2>3, <2>4
<1>4. /\ DOMAIN new = DOMAIN sto \cup {d.id} /\ new[d.id] = Pushed(vs, d)
      /\ \A n \in DOMAIN sto : n # d.id => new[n] = sto[n]
    BY DEF Fleet!Put
<1>5. h \in Named
    <2> HIDE DEF vs
    <2> QED BY <1>2, <1>3 DEF Named, vs
<1>6. /\ more \in Seq(Named) /\ Len(hs) \in Nat /\ Len(more) = Len(hs) + 1
      /\ \A i \in 1 .. Len(hs) : more[i] = hs[i] /\ hs[i] \in Named
      /\ more[Len(hs) + 1] = h
    BY <1>1, <1>5, Appended
<1>7. \A i \in 1 .. Len(hs) + 1 : i = Len(hs) + 1 \/ i \in 1 .. Len(hs)
    BY <1>6
<1>8. StepTyped("writing", more, new, see, last, fl)
    <2>1. \A n \in DOMAIN new : Shelved(n, new[n])
        BY <1>1, <1>3, <1>4
    <2> HIDE DEF more
    <2> QED BY <1>6, <2>1 DEF Step, StepTyped
<1>9. Handed(h, new, see, last, fl)
    <2>1. h.name = d.id /\ h.version = Newest(new[h.name]) /\ h.version \in Nat
        BY <1>3, <1>4
    <2>2. ASSUME NEW i \in 1 .. Len(new[h.name]), new[h.name][i].version = h.version
          PROVE  new[h.name][i].data = d
        <3>1. CASE \E j \in 1 .. Len(vs) : new[h.name][i] = vs[j]
            <4>1. PICK j \in 1 .. Len(vs) : new[h.name][i] = vs[j]
                BY <3>1
            <4>2. vs[j].version < h.version
                BY <1>3, <1>4, <2>1
            <4>3. vs[j].version = h.version
                BY <2>2, <4>1
            <4> QED BY <2>1, <4>2, <4>3
        <3>2. CASE ~\E j \in 1 .. Len(vs) : new[h.name][i] = vs[j]
            <4>1. new[h.name][i] = [version |-> Newest(Pushed(vs, d)), data |-> d]
                BY <1>3, <1>4, <2>1, <3>2
            <4> QED BY <4>1
        <3> QED BY <3>1, <3>2
    <2> QED BY <1>2, <1>4, <2>1, <2>2 DEF Handed
<1>10. ASSUME NEW i \in 1 .. Len(hs) PROVE Handed(hs[i], new, see, last, fl)
    <2>1. Handed(hs[i], sto, see, last, fl)
        BY DEF Step, StepHandles
    <2>2. hs[i].name \in DOMAIN sto /\ hs[i].name # d.id
        BY <1>2, <2>1 DEF Handed
    <2>3. new[hs[i].name] = sto[hs[i].name] /\ hs[i].name \in DOMAIN new
        BY <1>4, <2>2
    <2> QED BY <2>1, <2>3 DEF Handed
<1>11. StepHandles(more, new, see, last, fl)
    <2>1. \A i \in 1 .. Len(more) : Handed(more[i], new, see, last, fl)
        <3> HIDE DEF more
        <3> QED BY <1>6, <1>7, <1>9, <1>10
    <2>2. ASSUME NEW i \in 1 .. Len(more), NEW j \in 1 .. Len(more), more[i].name = more[j].name PROVE i = j
        <3>1. h.name = d.id
            OBVIOUS
        <3>2. \A k, l \in 1 .. Len(hs) : hs[k].name = hs[l].name => k = l
            BY DEF Step, StepHandles
        <3> HIDE DEF more
        <3> QED BY <1>2, <1>6, <1>7, <2>2, <3>1, <3>2
    <2> HIDE DEF more
    <2> QED BY <2>1, <2>2 DEF StepHandles
<1>12. StepLeft(w \ {d}, more, see, last, fl)
    <2>1. ASSUME NEW e \in w \ {d}, NEW i \in 1 .. Len(more) PROVE more[i].name # e.id
        <3>1. e.id # d.id /\ \A k \in 1 .. Len(hs) : hs[k].name # e.id
            BY DEF Step, StepLeft
        <3>2. h.name = d.id
            OBVIOUS
        <3> HIDE DEF more
        <3> QED BY <1>6, <1>7, <3>1, <3>2
    <2> HIDE DEF more
    <2> QED BY <2>1 DEF Step, StepLeft
<1>13. StepGoes("writing", w \ {d}, more, see, last, fl)
    <2>1. ASSUME NEW g \in last
          PROVE  (\E i \in 1 .. Len(more) : more[i].name = g) \/ (\E e \in w \ {d} : e.id = g)
        <3>1. (\E i \in 1 .. Len(hs) : hs[i].name = g) \/ (\E e \in w : e.id = g)
            BY DEF Step, StepGoes
        <3>2. CASE \E i \in 1 .. Len(hs) : hs[i].name = g
            <4>1. PICK i \in 1 .. Len(hs) : hs[i].name = g
                BY <3>2
            <4>2. i \in 1 .. Len(more) /\ more[i].name = g
                <5> HIDE DEF more
                <5> QED BY <1>6, <4>1
            <4> QED BY <4>2
        <3>3. CASE g = d.id
            <4>1. Len(hs) + 1 \in 1 .. Len(more) /\ more[Len(hs) + 1].name = g
                <5>1. h.name = d.id
                    OBVIOUS
                <5> HIDE DEF more
                <5> QED BY <1>6, <3>3, <5>1
            <4> QED BY <4>1
        <3> QED BY <3>1, <3>2, <3>3
    <2> HIDE DEF more
    <2> QED BY <2>1 DEF StepGoes
<1> QED BY <1>8, <1>11, <1>12, <1>13 DEF Step

\* Somebody else has the step's model discover.
Rediscovered(sto, fl) ==
    [n \in DOMAIN sto \cup DOMAIN fl |-> IF n \in DOMAIN fl THEN Pushed(Known(sto, n), fl[n]) ELSE sto[n]]

LEMMA StepOthers ==
    ASSUME NEW st, NEW w, NEW hs, NEW sto, NEW see, NEW last, NEW fl, Step(st, w, hs, sto, see, last, fl),
           NEW new, new = Rediscovered(sto, fl)
    PROVE  /\ Step(st, w, hs, new, see, last, fl)
           /\ \A i \in 1 .. Len(hs) : Fetched(new, hs[i]) \in {Null, Fetched(sto, hs[i])}
<1> USE DEF Rediscovered
<1>1. hs \in Seq(Named) /\ Guests(fl) /\ \A n \in DOMAIN sto : Shelved(n, sto[n])
    BY DEF Step, StepTyped
<1>2. \A i \in 1 .. Len(hs) : hs[i] \in Named
    BY <1>1
<1>3. ASSUME NEW n \in DOMAIN new PROVE Shelved(n, new[n])
    <2>1. CASE n \in DOMAIN fl
        <3>1. new[n] = Pushed(Known(sto, n), fl[n]) /\ fl[n] \in Everyone /\ fl[n].id = n
            BY <1>1, <2>1 DEF Guests
        <3>2. Shelved(n, Known(sto, n)) \/ Known(sto, n) = << >>
            BY <1>1 DEF Known
        <3> DEFINE vs == Known(sto, n)
        <3>3. CASE Shelved(n, vs)
            <4>1. Shelved(n, Pushed(vs, fl[n]))
                <5> HIDE DEF vs
                <5> QED BY <3>1, <3>3, Shelves
            <4> QED BY <3>1, <4>1
        <3>4. CASE vs = << >>
            <4>1. Shelved(n, Pushed(vs, fl[n]))
                <5> HIDE DEF vs
                <5> QED BY <3>1, <3>4, Shelves
            <4> QED BY <3>1, <4>1
        <3> QED BY <3>2, <3>3, <3>4
    <2>2. CASE n \notin DOMAIN fl
        BY <1>1, <2>2
    <2> QED BY <2>1, <2>2
<1>4. ASSUME NEW i \in 1 .. Len(hs)
      PROVE  Handed(hs[i], new, see, last, fl) /\ Fetched(new, hs[i]) \in {Null, Fetched(sto, hs[i])}
    <2>1. Handed(hs[i], sto, see, last, fl)
        BY DEF Step, StepHandles
    <2> DEFINE n == hs[i].name
    <2>2. n \in DOMAIN sto
        BY <2>1 DEF Handed
    <2>3. n \in DOMAIN new /\ Shelved(n, sto[n])
        BY <1>1, <2>2
    <2>4. \/ new[n] = sto[n]
          \/ \E d \in Everyone : d.id = n /\ new[n] = Pushed(sto[n], d)
        <3>1. CASE n \in DOMAIN fl
            <4>1. new[n] = Pushed(sto[n], fl[n]) /\ fl[n] \in Everyone /\ fl[n].id = n
                <5> HIDE DEF n
                <5> QED BY <1>1, <2>2, <3>1 DEF Guests, Known
            <4> QED BY <4>1
        <3>2. CASE n \notin DOMAIN fl
            BY <2>2, <3>2
        <3> QED BY <3>1, <3>2
    <2> QED BY <1>2, <2>1, <2>3, <2>4, Refiled
<1>5. StepTyped(st, hs, new, see, last, fl)
    BY <1>3 DEF Step, StepTyped
<1>6. StepHandles(hs, new, see, last, fl)
    BY <1>4 DEF Step, StepHandles
<1> QED BY <1>4, <1>5, <1>6 DEF Step

\* The guests of the step's hypervisor change.
LEMMA StepMoves ==
    ASSUME NEW st, NEW w, NEW hs, NEW sto, NEW see, NEW last, NEW fl, Step(st, w, hs, sto, see, last, fl),
           NEW new, Guests(new), NEW stay, stay = {g \in last \cap DOMAIN new : new[g].name = fl[g].name}
    PROVE  Step(st, w, hs, sto, see \cup There(new), stay, new)
<1>1. There(new) \subseteq Everyone
    BY DEF Guests, There
<1>2. ASSUME NEW d, Ours(d, see, last, fl) PROVE Ours(d, see \cup There(new), stay, new)
    BY <1>2 DEF Ours
<1>3. StepTyped(st, hs, sto, see \cup There(new), stay, new)
    BY <1>1 DEF Step, StepTyped
<1>4. StepHandles(hs, sto, see \cup There(new), stay, new)
    BY <1>2 DEF Step, StepHandles, Handed
<1>5. StepLeft(w, hs, see \cup There(new), stay, new)
    BY <1>2 DEF Step, StepLeft
<1>6. StepGoes(st, w, hs, see \cup There(new), stay, new)
    BY DEF Step, StepGoes
<1> QED BY <1>3, <1>4, <1>5, <1>6 DEF Step

LEMMA ToldStill ==
    ASSUME NEW st, NEW hs, NEW sto, NEW new, NEW spec, NEW read, Told(st, hs, sto, spec, read),
           \A i \in 1 .. Len(hs) : Fetched(new, hs[i]) \in {Null, Fetched(sto, hs[i])}
    PROVE  Told(st, hs, new, spec, read)
BY DEF Told

-----------------------------------------------------------------------------
(* The steps all together, and the report.                                 *)

Spot(s) == setup.steps[s].at
StepNow(s) == Step(status[s], writing[s], handles[s], store[s], seen[Spot(s)], lasting[Spot(s)], fleet[Spot(s)])
ToldNow(s) == Told(status[s], handles[s], store[s], setup.steps[s].spec, report.read)

\* A row of what a guest was during the run, from a step that came to its end.
Explained(r) ==
    \E s \in DOMAIN setup.steps :
       status[s] = "succeeded" /\ \E d \in seen[Spot(s)] : r = Fleet!rowFor(setup.steps[s].spec, d)

FleetTyped ==
    /\ fleet \in DOMAIN FleetMoves
    /\ setup.steps \in Seq([spec : SpecNames, at : DOMAIN fleet])
    /\ DOMAIN status = DOMAIN setup.steps /\ DOMAIN writing = DOMAIN setup.steps
    /\ DOMAIN handles = DOMAIN setup.steps /\ DOMAIN store = DOMAIN setup.steps
StepsGoOn == \A s \in DOMAIN setup.steps : StepNow(s)
Reported ==
    report # Null =>
       /\ report.read \in Seq(AnyRow) /\ report.rows = Fleet!dedupeRows(report.read)
       /\ \A i \in 1 .. Len(report.read) : Explained(report.read[i])
       /\ \A s \in DOMAIN setup.steps : ToldNow(s) /\ (status[s] = "failed" => report.skippedSteps > 0)
FleetInv == FleetTyped /\ StepsGoOn /\ Reported

LEMMA GuestsKnown ==
    ASSUME NEW f \in DOMAIN FleetMoves, NEW h \in DOMAIN f
    PROVE  Guests(f[h])
BY FleetAssumption DEF Fleet!Assumptions, Guests, Everyone

LEMMA Spots ==
    ASSUME FleetTyped, NEW s \in DOMAIN setup.steps
    PROVE  /\ Spot(s) \in DOMAIN fleet /\ setup.steps[s].spec \in SpecNames
           /\ DOMAIN setup.steps = 1 .. Len(setup.steps) /\ Len(setup.steps) \in Nat
<1>1. setup.steps \in Seq([spec : SpecNames, at : DOMAIN fleet])
    BY DEF FleetTyped
<1>2. DOMAIN setup.steps = 1 .. Len(setup.steps) /\ Len(setup.steps) \in Nat
    BY <1>1
<1>3. setup.steps[s] \in [spec : SpecNames, at : DOMAIN fleet]
    <2> DEFINE steps == setup.steps
    <2>1. steps \in Seq([spec : SpecNames, at : DOMAIN fleet]) /\ s \in 1 .. Len(steps)
        BY <1>1, <1>2
    <2> DEFINE T == [spec : SpecNames, at : DOMAIN fleet]
    <2>2. steps[s] \in T
        <3> HIDE DEF steps, T
        <3> QED BY <2>1, ElementOfSeq DEF T
    <2> QED BY <2>2
<1> QED BY <1>2, <1>3 DEF Spot

LEMMA FleetStarts ==
    ASSUME Fleet!Init
    PROVE  FleetInv
<1>1. /\ setup \in Setups /\ fleet \in setup.fleets /\ report = Null
      /\ status = [s \in DOMAIN setup.steps |-> "idle"] /\ writing = [s \in DOMAIN setup.steps |-> {}]
      /\ handles = [s \in DOMAIN setup.steps |-> << >>]
      /\ store = [s \in DOMAIN setup.steps |-> [n \in {} |-> << >>]]
      /\ seen = [h \in DOMAIN fleet |-> {}] /\ lasting = [h \in DOMAIN fleet |-> {}]
    BY DEF Fleet!Init, Fleet!S
<1>2. FleetTyped
    BY <1>1, FleetAssumption DEF FleetTyped, Fleet!Assumptions, SpecNames
<1>3. ASSUME NEW s \in DOMAIN setup.steps PROVE StepNow(s)
    <2>1. Spot(s) \in DOMAIN fleet /\ fleet \in DOMAIN FleetMoves
        BY <1>2, Spots DEF FleetTyped
    <2> DEFINE fl == fleet[Spot(s)]
               sto == [n \in {} |-> << >>]
    <2>2. Guests(fl)
        BY <2>1, GuestsKnown
    <2>3. << >> \in Seq(Named) /\ Len(<< >>) = 0
        BY EmptySeq
    <2>4. StepTyped("idle", << >>, sto, {}, {}, fl)
        <3>1. \A n \in DOMAIN sto : FALSE
            OBVIOUS
        <3> HIDE DEF fl, sto
        <3> QED BY <2>2, <2>3, <3>1 DEF StepTyped
    <2>5. StepHandles(<< >>, sto, {}, {}, fl) /\ StepLeft({}, << >>, {}, {}, fl) /\ StepGoes("idle", {}, << >>, {}, {}, fl)
        <3> HIDE DEF fl, sto
        <3> QED BY <2>3 DEF StepHandles, StepLeft, StepGoes
    <2>6. Step("idle", {}, << >>, sto, {}, {}, fl)
        <3> HIDE DEF fl, sto
        <3> QED BY <2>4, <2>5 DEF Step
    <2>7. status[s] = "idle" /\ writing[s] = {} /\ handles[s] = << >> /\ store[s] = sto /\ seen[Spot(s)] = {} /\ lasting[Spot(s)] = {}
        BY <1>1, <2>1
    <2> HIDE DEF sto
    <2> QED BY <2>6, <2>7 DEF StepNow
<1> QED BY <1>1, <1>2, <1>3 DEF FleetInv, StepsGoOn, Reported

\* What the report reads.
LEMMA RowsRead ==
    ASSUME FleetInv, \A s \in DOMAIN setup.steps : status[s] \in {"succeeded", "failed"}
    PROVE  /\ Fleet!Rows \in Seq(AnyRow) /\ \A i \in 1 .. Len(Fleet!Rows) : Explained(Fleet!Rows[i])
           /\ \A s \in DOMAIN setup.steps :
                 Told(status[s], handles[s], store[s], setup.steps[s].spec, Fleet!Rows)
<1> DEFINE D == DOMAIN setup.steps
           Q == {r \in AnyRow : Explained(r)}
           Row(s, h) == Fleet!rowFor(setup.steps[s].spec, Fetched(store[s], h))
<1>1. ASSUME NEW s \in D, status[s] = "succeeded"
      PROVE  /\ handles[s] \in Seq(Named) /\ DOMAIN handles[s] = 1 .. Len(handles[s]) /\ Len(handles[s]) \in Nat
             /\ \A i \in 1 .. Len(handles[s]) :
                   /\ Fleet!RowOf(s, handles[s][i]) \in Seq(Q)
                   /\ Fetched(store[s], handles[s][i]) # Null =>
                         Fleet!RowOf(s, handles[s][i]) = << Row(s, handles[s][i]) >>
    <2>1. StepNow(s) /\ FleetTyped
        BY DEF FleetInv, StepsGoOn
    <2>2. handles[s] \in Seq(Named) /\ \A n \in DOMAIN store[s] : Shelved(n, store[s][n])
        BY <2>1 DEF StepNow, Step, StepTyped
    <2>3. DOMAIN handles[s] = 1 .. Len(handles[s]) /\ Len(handles[s]) \in Nat
        BY <2>2
    <2>4. ASSUME NEW i \in 1 .. Len(handles[s])
          PROVE  /\ Fleet!RowOf(s, handles[s][i]) \in Seq(Q)
                 /\ Fetched(store[s], handles[s][i]) # Null =>
                       Fleet!RowOf(s, handles[s][i]) = << Row(s, handles[s][i]) >>
        <3> DEFINE h == handles[s][i]
                   d == Fetched(store[s], h)
        <3>1. Fleet!RowOf(s, h) = IF d = Null THEN << >> ELSE << Row(s, h) >>
            BY DEF Fleet!RowOf, Fleet!readHandle, Fetched, Fleet!SpecName
        <3>2. ASSUME d # Null PROVE Row(s, h) \in Q
            <4>1. Handed(h, store[s], seen[Spot(s)], lasting[Spot(s)], fleet[Spot(s)])
                BY <2>1 DEF StepNow, Step, StepHandles
            <4>2. Shelved(h.name, store[s][h.name])
                BY <2>2, <4>1 DEF Handed
            <4>3. PICK k \in 1 .. Len(store[s][h.name]) :
                     store[s][h.name][k].version = h.version /\ d = store[s][h.name][k].data
                BY <3>2, <4>2, Fetches, SMTT(30)
            <4>4. Ours(d, seen[Spot(s)], lasting[Spot(s)], fleet[Spot(s)])
                BY <4>1, <4>3 DEF Handed
            <4>5. d \in seen[Spot(s)] /\ seen[Spot(s)] \subseteq Everyone
                BY <2>1, <4>4 DEF Ours, StepNow, Step, StepTyped
            <4>6. setup.steps[s].spec \in SpecNames
                BY <2>1, Spots
            <4> HIDE DEF d
            <4>7. Fleet!rowFor(setup.steps[s].spec, d) \in AnyRow /\ Explained(Fleet!rowFor(setup.steps[s].spec, d))
                BY <1>1, <4>5, <4>6 DEF AnyRow, Explained
            <4> QED BY <4>7 DEF d
        <3> HIDE DEF Q, d, h, Row
        <3>3. << >> \in Seq(Q) /\ (d # Null => << Row(s, h) >> \in Seq(Q))
            BY <3>2
        <3>4. Fleet!RowOf(s, h) \in Seq(Q) /\ (d # Null => Fleet!RowOf(s, h) = << Row(s, h) >>)
            BY <3>1, <3>3
        <3> QED BY <3>4 DEF h, d
    <2> QED BY <2>2, <2>3, <2>4
<1>2. ASSUME NEW s \in D
      PROVE  /\ Fleet!RowsOf(s) \in Seq(Q)
             /\ status[s] = "succeeded" =>
                   \A i \in 1 .. Len(handles[s]) : Fetched(store[s], handles[s][i]) # Null =>
                      \E m \in 1 .. Len(Fleet!RowsOf(s)) : Fleet!RowsOf(s)[m] = Row(s, handles[s][i])
    <2>1. CASE status[s] = "succeeded"
        <3> DEFINE rs == [i \in DOMAIN handles[s] |-> Fleet!RowOf(s, handles[s][i])]
                   n == Len(handles[s])
        <3>1. Fleet!RowsOf(s) = Fleet!FlattenSeq(rs)
            BY <2>1 DEF Fleet!RowsOf, Fleet!Read
        <3>2. n \in Nat /\ DOMAIN rs = 1 .. n /\ \A i \in 1 .. n : rs[i] = Fleet!RowOf(s, handles[s][i]) /\ rs[i] \in Seq(Q)
            <4> HIDE DEF Q, Row
            <4> QED BY <1>1, <2>1
        <3>3. rs \in Seq(Seq(Q)) /\ Len(rs) = n
            <4>1. rs = [i \in 1 .. n |-> rs[i]]
                <5>1. DOMAIN handles[s] = 1 .. n
                    BY <1>1, <2>1
                <5> QED BY <5>1
            <4> HIDE DEF rs, n, Q
            <4> QED BY <3>2, <4>1
        <3>4. Collects(Fleet!FlattenSeq(rs), Q, rs, n)
            <4> HIDE DEF rs, Q, n
            <4> QED BY <3>3, Flattened
        <3>5. ASSUME NEW i \in 1 .. Len(handles[s]), Fetched(store[s], handles[s][i]) # Null
              PROVE  \E m \in 1 .. Len(Fleet!RowsOf(s)) : Fleet!RowsOf(s)[m] = Row(s, handles[s][i])
            <4>1. rs[i] = << Row(s, handles[s][i]) >>
                <5> HIDE DEF Q, Row, rs
                <5> QED BY <1>1, <2>1, <3>2, <3>5
            <4> HIDE DEF rs, Q, Row
            <4>2. 1 \in 1 .. Len(rs[i]) /\ rs[i][1] = Row(s, handles[s][i])
                BY <4>1
            <4>3. \E m \in 1 .. Len(Fleet!FlattenSeq(rs)) : Fleet!FlattenSeq(rs)[m] = rs[i][1]
                BY <3>4, <4>2 DEF Collects
            <4> QED BY <3>1, <4>2, <4>3
        <3>6. Fleet!RowsOf(s) \in Seq(Q)
            <4> HIDE DEF rs, Q
            <4> QED BY <3>1, <3>4 DEF Collects
        <3> HIDE DEF Q, Row
        <3> QED BY <3>5, <3>6
    <2>2. CASE status[s] # "succeeded"
        <3>1. Fleet!RowsOf(s) = << >>
            BY <2>2 DEF Fleet!RowsOf, Fleet!Read
        <3> HIDE DEF Q
        <3> QED BY <2>2, <3>1, EmptySeq
    <2> QED BY <2>1, <2>2
<1> DEFINE ss == [s \in D |-> Fleet!RowsOf(s)]
           n == Len(setup.steps)
<1>3. D = 1 .. n /\ n \in Nat
    <2>1. setup.steps \in Seq([spec : SpecNames, at : DOMAIN fleet])
        BY DEF FleetInv, FleetTyped
    <2> QED BY <2>1
<1>4. Fleet!Rows = Fleet!FlattenSeq(ss)
    BY DEF Fleet!Rows, Fleet!S
<1>5. ss \in Seq(Seq(Q)) /\ Len(ss) = n /\ \A s \in 1 .. n : ss[s] = Fleet!RowsOf(s)
    <2>1. ss = [s \in 1 .. n |-> ss[s]] /\ \A s \in 1 .. n : ss[s] = Fleet!RowsOf(s)
        BY <1>3
    <2>2. \A s \in 1 .. n : ss[s] \in Seq(Q)
        <3> HIDE DEF Q, Row, n
        <3> QED BY <1>2, <1>3, <2>1
    <2> HIDE DEF ss, Q, n
    <2> QED BY <1>3, <2>1, <2>2
<1>6. Collects(Fleet!Rows, Q, ss, n)
    <2> HIDE DEF ss, Q, n
    <2> QED BY <1>4, <1>5, Flattened
<1>7. Fleet!Rows \in Seq(Q)
    BY <1>6 DEF Collects
<1>8. \A i \in 1 .. Len(Fleet!Rows) : Fleet!Rows[i] \in Q
    <2> HIDE DEF Q
    <2> QED BY <1>7
<1>9. Fleet!Rows \in Seq(AnyRow)
    <2>1. Q \subseteq AnyRow
        OBVIOUS
    <2> HIDE DEF Q
    <2> QED BY <1>7, <2>1, SeqMonotonic
<1>10. ASSUME NEW s \in D
       PROVE  Told(status[s], handles[s], store[s], setup.steps[s].spec, Fleet!Rows)
    <2>1. ASSUME status[s] = "succeeded", NEW i \in 1 .. Len(handles[s]), Fetched(store[s], handles[s][i]) # Null
          PROVE  \E k \in 1 .. Len(Fleet!Rows) : Fleet!Rows[k] = Row(s, handles[s][i])
        <3> HIDE DEF Q, Row, ss, n
        <3>1. PICK m \in 1 .. Len(Fleet!RowsOf(s)) : Fleet!RowsOf(s)[m] = Row(s, handles[s][i])
            BY <1>2, <2>1
        <3>2. s \in 1 .. n /\ ss[s] = Fleet!RowsOf(s)
            BY <1>3, <1>5
        <3> QED BY <1>6, <3>1, <3>2 DEF Collects
    <2> QED BY <2>1 DEF Told
<1> HIDE DEF Row, ss, n
<1> QED BY <1>8, <1>9, <1>10

-----------------------------------------------------------------------------
(* The steps of the workflow and of the others.                            *)

LEMMA StartKeeps ==
    ASSUME FleetInv, Fleet!Start
    PROVE  FleetInv'
<1> DEFINE D == DOMAIN setup.steps
<1>1. /\ setup' = setup /\ fleet' = fleet /\ store' = store /\ report' = Null
      /\ status' = [s \in D |-> "running"] /\ writing' = [s \in D |-> {}] /\ handles' = [s \in D |-> << >>]
      /\ seen' = [h \in DOMAIN fleet |-> There(fleet[h])]
      /\ lasting' = [h \in DOMAIN fleet |-> DOMAIN fleet[h]]
    BY DEF Fleet!Start, Fleet!S, Fleet!GuestsOf, There
<1>2. FleetTyped'
    BY <1>1 DEF FleetInv, FleetTyped
<1>3. ASSUME NEW s \in D PROVE StepNow(s)'
    <2>1. StepNow(s) /\ Spot(s) \in DOMAIN fleet /\ Spot(s)' = Spot(s)
        BY <1>1, Spots DEF FleetInv, StepsGoOn, Spot
    <2>2. Step("running", {}, << >>, store[s], There(fleet[Spot(s)]), DOMAIN fleet[Spot(s)], fleet[Spot(s)])
        BY <2>1, StepStarts DEF StepNow
    <2>3. /\ status'[s] = "running" /\ writing'[s] = {} /\ handles'[s] = << >> /\ store'[s] = store[s]
          /\ seen'[Spot(s)] = There(fleet[Spot(s)]) /\ lasting'[Spot(s)] = DOMAIN fleet[Spot(s)]
          /\ fleet'[Spot(s)] = fleet[Spot(s)]
        BY <1>1, <2>1
    <2> QED BY <2>1, <2>2, <2>3 DEF StepNow
<1>4. StepsGoOn'
    BY <1>1, <1>3 DEF StepsGoOn
<1>5. Reported'
    BY <1>1 DEF Reported
<1> QED BY <1>2, <1>4, <1>5 DEF FleetInv

\* A step goes on while there is no report.
LEMMA OneGoesOn ==
    ASSUME FleetInv, NEW s \in DOMAIN setup.steps, status[s] \notin {"succeeded", "failed"},
           UNCHANGED <<setup, fleet, seen, lasting, report>>,
           FleetTyped',
           StepNow(s)',
           \A t \in DOMAIN setup.steps \ {s} :
              status'[t] = status[t] /\ writing'[t] = writing[t] /\ handles'[t] = handles[t] /\ store'[t] = store[t]
    PROVE  FleetInv'
<1>1. ASSUME NEW t \in DOMAIN setup.steps PROVE StepNow(t)'
    <2>1. CASE t = s
        BY <2>1
    <2>2. CASE t # s
        BY <2>2 DEF FleetInv, StepsGoOn, StepNow, Spot
    <2> QED BY <2>1, <2>2
<1>2. report = Null
    BY DEF FleetInv, Reported, ToldNow, Told
<1> QED BY <1>1, <1>2 DEF FleetInv, StepsGoOn, Reported

LEMMA QueryKeeps ==
    ASSUME FleetInv, NEW s \in DOMAIN setup.steps, Fleet!Query(s)
    PROVE  FleetInv'
<1>1. /\ status[s] = "running" /\ UNCHANGED <<setup, fleet, seen, lasting, report, handles, store>>
      /\ status' = [status EXCEPT ![s] = "writing"] /\ writing' = [writing EXCEPT ![s] = There(fleet[Spot(s)])]
    BY DEF Fleet!Query, Fleet!At, Spot, Fleet!GuestsOf, There, Fleet!history
<1>2. StepNow(s) /\ FleetTyped
    BY DEF FleetInv, StepsGoOn
<1>3. FleetTyped' /\ status'[s] = "writing" /\ writing'[s] = There(fleet[Spot(s)])
    BY <1>1, <1>2 DEF FleetTyped
<1>4. Step("writing", There(fleet[Spot(s)]), handles[s], store[s], seen[Spot(s)], lasting[Spot(s)], fleet[Spot(s)])
    BY <1>1, <1>2, StepQueries DEF StepNow
<1>5. StepNow(s)'
    BY <1>1, <1>3, <1>4 DEF StepNow, Spot
<1>6. \A t \in DOMAIN setup.steps \ {s} :
         status'[t] = status[t] /\ writing'[t] = writing[t] /\ handles'[t] = handles[t] /\ store'[t] = store[t]
    BY <1>1, <1>2 DEF FleetTyped
<1> QED BY <1>1, <1>3, <1>5, <1>6, OneGoesOn

LEMMA WriteKeeps ==
    ASSUME FleetInv, NEW s \in DOMAIN setup.steps, Fleet!Write(s)
    PROVE  FleetInv'
<1>1. status[s] = "writing" /\ UNCHANGED <<setup, fleet, seen, lasting, report, status>>
    BY DEF Fleet!Write, Fleet!history
<1>2. PICK d \in writing[s] :
         /\ store' = [store EXCEPT ![s] = Fleet!Put(@, d.id, Fleet!Written(s, d))]
         /\ handles' = [handles EXCEPT ![s] = Append(@, [name |-> d.id, version |-> Fleet!NextVersion(s, d.id)])]
         /\ writing' = [writing EXCEPT ![s] = @ \ {d}]
    BY DEF Fleet!Write, Fleet!Done
<1>3. StepNow(s) /\ FleetTyped
    BY DEF FleetInv, StepsGoOn
<1> DEFINE vs == Known(store[s], d.id)
           h == [name |-> d.id, version |-> Newest(Pushed(vs, d))]
           new == Fleet!Put(store[s], d.id, Pushed(vs, d))
<1>4. Fleet!Written(s, d) = Pushed(vs, d) /\ Fleet!Versions(s, d.id) = vs
    BY DEF Fleet!Written, Pushed, Fleet!Versions, Fleet!NextVersion, Known
<1>5. Fleet!NextVersion(s, d.id) = Newest(Pushed(vs, d))
    <2>1. Fleet!NextVersion(s, d.id) = IF vs = << >> THEN 1 ELSE Newest(vs) + 1
        BY <1>4 DEF Fleet!NextVersion, Newest
    <2>2. Shelved(d.id, vs) \/ vs = << >>
        BY <1>3 DEF StepNow, Step, StepTyped, Known
    <2>3. d \in Everyone
        BY <1>3 DEF StepNow, Step, StepTyped, StepLeft, Ours
    <2>4. d.id = d.id
        OBVIOUS
    <2> HIDE DEF vs
    <2>5. CASE Shelved(d.id, vs)
        BY <2>1, <2>3, <2>4, <2>5, Shelves
    <2>6. CASE vs = << >>
        BY <2>1, <2>3, <2>4, <2>6, Shelves
    <2> QED BY <2>2, <2>5, <2>6
<1>6. /\ FleetTyped' /\ writing'[s] = writing[s] \ {d} /\ handles'[s] = Append(handles[s], h)
      /\ store'[s] = new /\ status'[s] = "writing"
    <2> HIDE DEF vs
    <2> QED BY <1>1, <1>2, <1>3, <1>4, <1>5 DEF FleetTyped
<1>7. Step("writing", writing[s] \ {d}, Append(handles[s], h), new, seen[Spot(s)], lasting[Spot(s)], fleet[Spot(s)])
    BY <1>1, <1>3, StepWrites DEF StepNow
<1> HIDE DEF h, new, vs
<1>8. StepNow(s)'
    BY <1>1, <1>6, <1>7 DEF StepNow, Spot
<1>9. \A t \in DOMAIN setup.steps \ {s} :
         status'[t] = status[t] /\ writing'[t] = writing[t] /\ handles'[t] = handles[t] /\ store'[t] = store[t]
    BY <1>1, <1>2, <1>3 DEF FleetTyped
<1> QED BY <1>1, <1>6, <1>8, <1>9, OneGoesOn

LEMMA EndKeeps ==
    ASSUME FleetInv, NEW s \in DOMAIN setup.steps, Fleet!Succeeds(s) \/ Fleet!Fails(s)
    PROVE  FleetInv'
<1> DEFINE end == IF Fleet!Succeeds(s) THEN "succeeded" ELSE "failed"
<1>1. /\ status[s] \in {"running", "writing"} /\ UNCHANGED <<setup, fleet, seen, lasting, report, handles, store, writing>>
      /\ status' = [status EXCEPT ![s] = end]
      /\ end = "succeeded" => status[s] = "writing" /\ writing[s] = {}
    <2>1. CASE Fleet!Succeeds(s)
        BY <2>1 DEF Fleet!Succeeds, Fleet!history
    <2>2. CASE ~Fleet!Succeeds(s)
        BY <2>2 DEF Fleet!Fails, Fleet!history
    <2> QED BY <2>1, <2>2
<1>2. StepNow(s) /\ FleetTyped
    BY DEF FleetInv, StepsGoOn
<1>3. FleetTyped' /\ status'[s] = end
    <2> HIDE DEF end
    <2> QED BY <1>1, <1>2 DEF FleetTyped
<1>4. Step(end, writing[s], handles[s], store[s], seen[Spot(s)], lasting[Spot(s)], fleet[Spot(s)])
    <2>1. CASE end = "succeeded"
        <3> HIDE DEF end
        <3> QED BY <1>1, <1>2, <2>1, StepSucceeds DEF StepNow
    <2>2. CASE end = "failed"
        <3> HIDE DEF end
        <3> QED BY <1>2, <2>2, StepFails DEF StepNow
    <2> QED BY <2>1, <2>2
<1> HIDE DEF end
<1>5. StepNow(s)'
    BY <1>1, <1>3, <1>4 DEF StepNow, Spot
<1>6. \A t \in DOMAIN setup.steps \ {s} :
         status'[t] = status[t] /\ writing'[t] = writing[t] /\ handles'[t] = handles[t] /\ store'[t] = store[t]
    BY <1>1, <1>2 DEF FleetTyped
<1> QED BY <1>1, <1>3, <1>5, <1>6, OneGoesOn

LEMMA ReportKeeps ==
    ASSUME FleetInv, Fleet!Report
    PROVE  FleetInv'
<1>1. /\ \A s \in DOMAIN setup.steps : status[s] \in {"succeeded", "failed"}
      /\ UNCHANGED <<setup, fleet, status, writing, handles, store, seen, lasting>>
      /\ report' = [rows |-> Fleet!dedupeRows(Fleet!Rows), read |-> Fleet!Rows,
                    skippedSteps |-> Fleet!Cardinality({s \in DOMAIN setup.steps : ~(status[s] = "succeeded")})]
    BY DEF Fleet!Report, Fleet!Settled, Fleet!S, Fleet!Read, Fleet!history
<1>2. FleetTyped' /\ StepsGoOn'
    BY <1>1 DEF FleetInv, FleetTyped, StepsGoOn, StepNow, Spot
<1>3. /\ Fleet!Rows \in Seq(AnyRow) /\ \A i \in 1 .. Len(Fleet!Rows) : Explained(Fleet!Rows[i])
      /\ \A s \in DOMAIN setup.steps : Told(status[s], handles[s], store[s], setup.steps[s].spec, Fleet!Rows)
    BY <1>1, RowsRead
<1>4. ASSUME NEW s \in DOMAIN setup.steps, status[s] = "failed"
      PROVE  report'.skippedSteps > 0
    <2> DEFINE skipped == {t \in DOMAIN setup.steps : ~(status[t] = "succeeded")}
    <2>1. IsFiniteSet(skipped)
        <3>1. DOMAIN setup.steps = 1 .. Len(setup.steps) /\ Len(setup.steps) \in Nat
            BY Spots DEF FleetInv
        <3>2. IsFiniteSet(DOMAIN setup.steps)
            BY <3>1, FS_Interval
        <3> QED BY <3>2, FS_Subset
    <2>2. s \in skipped
        BY <1>4
    <2>3. report'.skippedSteps = Fleet!Cardinality(skipped)
        BY <1>1
    <2> HIDE DEF skipped
    <2>4. Fleet!Cardinality(skipped) = Cardinality(skipped)
        BY DEF Fleet!Cardinality, Fleet!IsFiniteSet, Cardinality, IsFiniteSet
    <2>5. Cardinality(skipped) \in Nat /\ Cardinality(skipped) # 0
        BY <2>1, <2>2, FS_CardinalityType, FS_EmptySet
    <2> QED BY <2>3, <2>4, <2>5
<1>5. \A r : Explained(r) => Explained(r)'
    BY <1>1 DEF Explained, Spot
<1>6. report'.read = Fleet!Rows /\ report'.rows = Fleet!dedupeRows(Fleet!Rows)
    BY <1>1
<1>7. Reported'
    <2>1. PICK rows : rows = Fleet!Rows
        OBVIOUS
    <2>2. rows \in Seq(AnyRow) /\ \A i \in 1 .. Len(rows) : Explained(rows[i])
        BY <1>3, <2>1
    <2>3. \A s \in DOMAIN setup.steps : Told(status[s], handles[s], store[s], setup.steps[s].spec, rows)
        BY <1>3, <2>1
    <2>4. report'.read = rows /\ report'.rows = Fleet!dedupeRows(rows)
        BY <1>6, <2>1
    <2>5. \A i \in 1 .. Len(rows) : Explained(rows[i])'
        BY <1>5, <2>2
    <2> QED BY <1>1, <1>4, <2>2, <2>3, <2>4, <2>5 DEF Reported, ToldNow
<1> QED BY <1>2, <1>7 DEF FleetInv

LEMMA OtherKeeps ==
    ASSUME FleetInv, NEW s \in DOMAIN setup.steps, Fleet!OtherDiscovery(s)
    PROVE  FleetInv'
<1> DEFINE fl == fleet[Spot(s)]
           new == [n \in DOMAIN store[s] \cup DOMAIN fl |->
                      IF n \in DOMAIN fl THEN Pushed(Known(store[s], n), fl[n]) ELSE store[s][n]]
<1>1. UNCHANGED <<setup, fleet, seen, lasting, report, status, writing, handles>>
    BY DEF Fleet!OtherDiscovery, Fleet!history
<1>2. StepNow(s) /\ FleetTyped
    BY DEF FleetInv, StepsGoOn
<1>3. store' = [store EXCEPT ![s] = new]
    <2>1. Guests(fl)
        BY <1>2 DEF StepNow, Step, StepTyped
    <2>2. \A n \in DOMAIN fl : Fleet!Written(s, fl[n]) = Pushed(Known(store[s], n), fl[n])
        <3> SUFFICES ASSUME NEW n \in DOMAIN fl PROVE Fleet!Written(s, fl[n]) = Pushed(Known(store[s], n), fl[n])
            OBVIOUS
        <3>1. fl[n].id = n
            BY <2>1 DEF Guests
        <3>2. PICK d : d = fl[n]
            OBVIOUS
        <3>3. Fleet!Written(s, d) = Pushed(Known(store[s], n), d)
            BY <3>1, <3>2 DEF Fleet!Written, Pushed, Fleet!Versions, Fleet!NextVersion, Known
        <3>4. Fleet!Written(s, fl[n]) = Fleet!Written(s, d)
            BY <3>2 DEF Fleet!Written, Fleet!Versions, Fleet!NextVersion
        <3> QED BY <3>2, <3>3, <3>4
    <2>3. store' = [store EXCEPT ![s] = [n \in DOMAIN store[s] \cup DOMAIN fl |->
                       IF n \in DOMAIN fl THEN Fleet!Written(s, fl[n]) ELSE store[s][n]]]
        BY <1>2 DEF Fleet!OtherDiscovery, Fleet!At, Spot, FleetTyped
    <2>4. [n \in DOMAIN store[s] \cup DOMAIN fl |-> IF n \in DOMAIN fl THEN Fleet!Written(s, fl[n]) ELSE store[s][n]] = new
        <3> HIDE DEF fl
        <3> QED BY <2>2
    <2> HIDE DEF new, fl
    <2> QED BY <2>3, <2>4
<1>4. FleetTyped' /\ store'[s] = new /\ \A t \in DOMAIN setup.steps \ {s} : store'[t] = store[t]
    <2> HIDE DEF new
    <2> QED BY <1>1, <1>2, <1>3 DEF FleetTyped
<1>5. /\ Step(status[s], writing[s], handles[s], new, seen[Spot(s)], lasting[Spot(s)], fl)
      /\ \A i \in 1 .. Len(handles[s]) : Fetched(new, handles[s][i]) \in {Null, Fetched(store[s], handles[s][i])}
    <2>1. Step(status[s], writing[s], handles[s], store[s], seen[Spot(s)], lasting[Spot(s)], fl)
        BY <1>2 DEF StepNow
    <2>2. new = Rediscovered(store[s], fl)
        BY DEF Rediscovered
    <2> HIDE DEF new, fl
    <2> QED BY <2>1, <2>2, StepOthers
<1> HIDE DEF new
<1>6. ASSUME NEW t \in DOMAIN setup.steps PROVE StepNow(t)'
    <2>1. CASE t = s
        BY <1>1, <1>4, <1>5, <2>1 DEF StepNow, Spot
    <2>2. CASE t # s
        BY <1>1, <1>4, <2>2 DEF FleetInv, StepsGoOn, StepNow, Spot
    <2> QED BY <2>1, <2>2
<1>7. \A r : Explained(r) => Explained(r)'
    BY <1>1 DEF Explained, Spot
<1>8. ASSUME NEW t \in DOMAIN setup.steps, ToldNow(t) PROVE ToldNow(t)'
    <2>1. CASE t = s
        <3>1. Told(status[s], handles[s], new, setup.steps[s].spec, report.read)
            BY <1>5, <1>8, <2>1, ToldStill DEF ToldNow
        <3> QED BY <1>1, <1>4, <2>1, <3>1 DEF ToldNow
    <2>2. CASE t # s
        BY <1>1, <1>4, <1>8, <2>2 DEF ToldNow
    <2> QED BY <2>1, <2>2
<1>9. Reported'
    <2> SUFFICES ASSUME report # Null PROVE Reported'
        BY <1>1 DEF Reported
    <2>1. /\ report.read \in Seq(AnyRow) /\ report.rows = Fleet!dedupeRows(report.read)
          /\ \A i \in 1 .. Len(report.read) : Explained(report.read[i])
          /\ \A t \in DOMAIN setup.steps : ToldNow(t) /\ (status[t] = "failed" => report.skippedSteps > 0)
        BY DEF FleetInv, Reported
    <2>2. Fleet!dedupeRows(report.read)' = Fleet!dedupeRows(report.read)
        BY <1>1 DEF Fleet!dedupeRows, Fleet!FoldLeft, Fleet!MapThenFoldSet, Fleet!Max, Fleet!Deduped, Fleet!Key, Fleet!Richer, Fleet!richness
    <2> QED BY <1>1, <1>7, <1>8, <2>1, <2>2 DEF Reported
<1> QED BY <1>1, <1>4, <1>6, <1>9 DEF FleetInv, StepsGoOn

LEMMA ChangeKeeps ==
    ASSUME FleetInv, Fleet!FleetChanges
    PROVE  FleetInv'
<1>1. UNCHANGED <<setup, report, status, writing, handles, store>>
    BY DEF Fleet!FleetChanges
<1>2. /\ fleet' \in FleetMoves[fleet]
      /\ seen' = [h \in DOMAIN fleet |-> seen[h] \cup There(fleet'[h])]
      /\ lasting' = [h \in DOMAIN fleet |-> {g \in lasting[h] \cap DOMAIN fleet'[h] : fleet'[h][g].name = fleet[h][g].name}]
    BY DEF Fleet!FleetChanges, There
<1>3. FleetTyped /\ fleet' \in DOMAIN FleetMoves /\ DOMAIN fleet' = DOMAIN fleet
    BY <1>2, FleetAssumption DEF FleetInv, FleetTyped, Fleet!Assumptions
<1>4. FleetTyped'
    BY <1>1, <1>3 DEF FleetTyped
<1>5. ASSUME NEW s \in DOMAIN setup.steps
      PROVE  StepNow(s)' /\ Spot(s)' = Spot(s) /\ Spot(s) \in DOMAIN fleet
    <2>1. StepNow(s) /\ Spot(s) \in DOMAIN fleet /\ Spot(s)' = Spot(s)
        BY <1>1, <1>3, Spots DEF FleetInv, StepsGoOn, Spot
    <2> DEFINE fl == fleet'[Spot(s)]
               stay == {g \in lasting[Spot(s)] \cap DOMAIN fl : fl[g].name = fleet[Spot(s)][g].name}
    <2>2. Guests(fl)
        BY <1>3, <2>1, GuestsKnown
    <2>3. Step(status[s], writing[s], handles[s], store[s], seen[Spot(s)] \cup There(fl), stay, fl)
        BY <2>1, <2>2, StepMoves DEF StepNow
    <2>4. seen'[Spot(s)] = seen[Spot(s)] \cup There(fl) /\ lasting'[Spot(s)] = stay
        BY <1>2, <2>1
    <2> HIDE DEF stay
    <2> QED BY <1>1, <2>1, <2>3, <2>4 DEF StepNow
<1>6. \A r : Explained(r) => Explained(r)'
    <2> SUFFICES ASSUME NEW r, Explained(r) PROVE Explained(r)'
        OBVIOUS
    <2>1. PICK s \in DOMAIN setup.steps :
             status[s] = "succeeded" /\ \E d \in seen[Spot(s)] : r = Fleet!rowFor(setup.steps[s].spec, d)
        BY DEF Explained
    <2>2. seen[Spot(s)] \subseteq seen'[Spot(s)']
        BY <1>2, <1>5
    <2>3. \E d \in seen'[Spot(s)'] : r = Fleet!rowFor(setup.steps[s].spec, d)
        BY <2>1, <2>2
    <2> QED BY <1>1, <2>1, <2>3 DEF Explained
<1>7. Reported'
    <2> SUFFICES ASSUME report # Null PROVE Reported'
        BY <1>1 DEF Reported
    <2>1. /\ report.read \in Seq(AnyRow) /\ report.rows = Fleet!dedupeRows(report.read)
          /\ \A i \in 1 .. Len(report.read) : Explained(report.read[i])
          /\ \A t \in DOMAIN setup.steps : ToldNow(t) /\ (status[t] = "failed" => report.skippedSteps > 0)
        BY DEF FleetInv, Reported
    <2>2. Fleet!dedupeRows(report.read)' = Fleet!dedupeRows(report.read)
        BY <1>1 DEF Fleet!dedupeRows, Fleet!FoldLeft, Fleet!MapThenFoldSet, Fleet!Max, Fleet!Deduped, Fleet!Key, Fleet!Richer, Fleet!richness
    <2>3. \A t \in DOMAIN setup.steps : ToldNow(t)'
        BY <1>1, <2>1 DEF ToldNow
    <2> QED BY <1>1, <1>6, <2>1, <2>2, <2>3 DEF Reported
<1> QED BY <1>1, <1>4, <1>5, <1>7 DEF FleetInv, StepsGoOn

-----------------------------------------------------------------------------
(* What the report's state tells.                                          *)

LEMMA FleetTypes ==
    ASSUME FleetInv
    PROVE  Fleet!TypeOK
<1> SUFFICES ASSUME NEW s \in DOMAIN setup.steps
             PROVE  /\ status[s] \in {"idle", "running", "writing", "succeeded", "failed"}
                    /\ \A i \in DOMAIN handles[s] :
                          /\ handles[s][i].name \in DOMAIN store[s]
                          /\ \A d \in writing[s] : d.id # handles[s][i].name
                          /\ \A j \in DOMAIN handles[s] : handles[s][i].name = handles[s][j].name => i = j
                    /\ \A n \in DOMAIN store[s] : Len(store[s][n]) \in 1 .. Kept
    BY DEF Fleet!TypeOK, Fleet!S
<1>1. StepNow(s)
    BY DEF FleetInv, StepsGoOn
<1>2. handles[s] \in Seq(Named)
    BY <1>1 DEF StepNow, Step, StepTyped
<1>3. DOMAIN handles[s] = 1 .. Len(handles[s])
    BY <1>2
<1>4. status[s] \in {"idle", "running", "writing", "succeeded", "failed"} /\ \A n \in DOMAIN store[s] : Len(store[s][n]) \in 1 .. Kept
    BY <1>1 DEF StepNow, Step, StepTyped, Shelved
<1>5. \A i \in 1 .. Len(handles[s]) :
         /\ handles[s][i].name \in DOMAIN store[s]
         /\ \A d \in writing[s] : d.id # handles[s][i].name
         /\ \A j \in 1 .. Len(handles[s]) : handles[s][i].name = handles[s][j].name => i = j
    BY <1>1 DEF StepNow, Step, StepHandles, StepLeft, Handed
<1> QED BY <1>3, <1>4, <1>5

\* The rows shown: one at least as rich for each row read, and none that was not read.
LEMMA RowsShown ==
    ASSUME FleetInv, report # Null
    PROVE  /\ \A r \in Fleet!Shown : Explained(r)
           /\ \A i \in 1 .. Len(report.read) : \E r \in Fleet!Shown : Outdoes(r, report.read[i])
           /\ \A i, j \in DOMAIN report.rows :
                 Fleet!Key(report.rows[i]) = Fleet!Key(report.rows[j]) /\ report.rows[i].name # "unknown" => i = j
           /\ DOMAIN report.read = 1 .. Len(report.read)
<1>1. report.read \in Seq(AnyRow) /\ report.rows = Fleet!dedupeRows(report.read) /\ \A i \in 1 .. Len(report.read) : Explained(report.read[i])
    BY DEF FleetInv, Reported
<1>2. PICK rows, out : rows = report.read /\ out = report.rows
    OBVIOUS
<1> DEFINE Q == {rows[i] : i \in 1 .. Len(rows)}
<1>3. /\ out \in Seq(Q)
      /\ \A j, k \in 1 .. Len(out) : Fleet!Key(out[j]) = Fleet!Key(out[k]) /\ out[j].name # "unknown" => j = k
      /\ \A i \in 1 .. Len(rows) : \E k \in 1 .. Len(out) : Outdoes(out[k], rows[i])
    <2>1. rows \in Seq(AnyRow) /\ out = Fleet!dedupeRows(rows)
        BY <1>1, <1>2
    <2> QED BY <2>1, DedupesRows
<1>4. DOMAIN out = 1 .. Len(out) /\ \A k \in 1 .. Len(out) : out[k] \in Q
    <2> HIDE DEF Q
    <2> QED BY <1>3
<1>5. DOMAIN report.read = 1 .. Len(report.read)
    BY <1>1
<1>6. \A r \in Fleet!Shown : \E k \in 1 .. Len(out) : r = out[k]
    BY <1>2, <1>4 DEF Fleet!Shown
<1>7. \A k \in 1 .. Len(out) : out[k] \in Fleet!Shown
    BY <1>2, <1>4 DEF Fleet!Shown
<1>8. \A q \in Q : Explained(q)
    BY <1>1, <1>2
<1>9. \A r \in Fleet!Shown : Explained(r)
    <2> HIDE DEF Q
    <2> QED BY <1>4, <1>6, <1>8
<1>10. \A i \in 1 .. Len(report.read) : \E r \in Fleet!Shown : Outdoes(r, report.read[i])
    <2> HIDE DEF Q
    <2> QED BY <1>2, <1>3, <1>7
<1>11. \A i, j \in DOMAIN report.rows :
          Fleet!Key(report.rows[i]) = Fleet!Key(report.rows[j]) /\ report.rows[i].name # "unknown" => i = j
    <2> HIDE DEF Q
    <2> QED BY <1>2, <1>3, <1>4
<1> QED BY <1>5, <1>9, <1>10, <1>11

LEMMA FleetShowsAll ==
    ASSUME FleetInv
    PROVE  Fleet!ShownAll
<1> SUFFICES ASSUME report # Null, NEW s \in DOMAIN setup.steps, NEW g \in lasting[Spot(s)], g \notin Fleet!Collected(s)
             PROVE  \/ status[s] = "failed" /\ report.skippedSteps > 0
                    \/ \E r \in Fleet!Shown :
                          Fleet!Key(r) = Fleet!Key(Fleet!rowFor(setup.steps[s].spec, fleet[Spot(s)][g]))
    BY DEF Fleet!ShownAll, Fleet!S, Fleet!At, Fleet!SpecName, Spot
<1>1. StepNow(s) /\ ToldNow(s) /\ (status[s] = "failed" => report.skippedSteps > 0) /\ setup.steps[s].spec \in SpecNames
    BY Spots DEF FleetInv, StepsGoOn, Reported
<1>2. CASE status[s] = "failed"
    BY <1>1, <1>2
<1>3. CASE status[s] = "succeeded"
    <2> DEFINE fl == fleet[Spot(s)]
    <2>1. handles[s] \in Seq(Named) /\ Guests(fl) /\ g \in DOMAIN fl /\ \A n \in DOMAIN store[s] : Shelved(n, store[s][n])
        BY <1>1 DEF StepNow, Step, StepTyped
    <2>2. PICK i \in 1 .. Len(handles[s]) : handles[s][i].name = g
        BY <1>1, <1>3 DEF StepNow, Step, StepGoes
    <2>3. DOMAIN handles[s] = 1 .. Len(handles[s])
        BY <2>1
    <2>4. PICK h : h = handles[s][i]
        OBVIOUS
    <2>5. Fetched(store[s], h) # Null
        <3>1. Fleet!readHandle(s, h) = Fetched(store[s], h)
            BY DEF Fleet!readHandle, Fetched
        <3>2. Fleet!readHandle(s, h) # Null
            <4>1. \A k \in DOMAIN handles[s] : Fleet!readHandle(s, handles[s][k]) = Null => handles[s][k].name \in Fleet!Collected(s)
                BY DEF Fleet!Collected
            <4>2. Fleet!readHandle(s, h) = Fleet!readHandle(s, handles[s][i])
                BY <2>4 DEF Fleet!readHandle
            <4> QED BY <2>2, <2>3, <4>1, <4>2
        <3> QED BY <3>1, <3>2
    <2>6. Handed(h, store[s], seen[Spot(s)], lasting[Spot(s)], fl)
        BY <1>1, <2>4 DEF StepNow, Step, StepHandles
    <2>7. Shelved(h.name, store[s][h.name])
        BY <2>1, <2>6 DEF Handed
    <2>8. PICK k \in 1 .. Len(store[s][h.name]) :
             store[s][h.name][k].version = h.version /\ Fetched(store[s], h) = store[s][h.name][k].data
        BY <2>5, <2>7, Fetches
    <2>9. PICK d : d = Fetched(store[s], h)
        OBVIOUS
    <2>10. d.id = g /\ d.name = fl[g].name /\ fl[g].id = g
        <3>1. d.id = g
            BY <2>2, <2>4, <2>7, <2>8, <2>9 DEF Shelved
        <3>2. Ours(d, seen[Spot(s)], lasting[Spot(s)], fl)
            BY <2>6, <2>8, <2>9 DEF Handed
        <3> QED BY <2>1, <3>1, <3>2, SMTT(30) DEF Ours, Guests
    <2>11. PICK m \in 1 .. Len(report.read) : report.read[m] = Fleet!rowFor(setup.steps[s].spec, d)
        BY <1>1, <1>3, <2>4, <2>5, <2>9 DEF ToldNow, Told
    <2>12. PICK r \in Fleet!Shown : Outdoes(r, report.read[m])
        BY RowsShown
    <2>13. Fleet!Key(r) = Fleet!Key(Fleet!rowFor(setup.steps[s].spec, d))
        BY <2>11, <2>12 DEF Outdoes
    <2>14. PICK spec, e : spec \in SpecNames /\ spec = setup.steps[s].spec /\ e = fl[g]
        BY <1>1
    <2>15. Fleet!Key(Fleet!rowFor(spec, d)) = Fleet!Key(Fleet!rowFor(spec, e))
        <3>1. d.id = e.id /\ d.name = e.name
            BY <2>10, <2>14
        <3>2. CASE spec = "node"
            BY <3>1, <3>2 DEF Fleet!Key, Fleet!rowFor, Fleet!normalizeNode, Fleet!Or
        <3>3. CASE spec = "guest"
            BY <3>1, <3>3 DEF Fleet!Key, Fleet!rowFor, Fleet!normalizeGuest, Fleet!Or
        <3>4. CASE spec = "vm_spec"
            BY <3>1, <3>4 DEF Fleet!Key, Fleet!rowFor, Fleet!normalizeVmSpec, Fleet!Or
        <3>5. CASE spec = "vm"
            BY <3>1, <3>5 DEF Fleet!Key, Fleet!rowFor, Fleet!normalizeVm, Fleet!Or
        <3> QED BY <2>14, <3>2, <3>3, <3>4, <3>5 DEF SpecNames
    <2> HIDE DEF fl
    <2>16. Fleet!Key(r) = Fleet!Key(Fleet!rowFor(setup.steps[s].spec, fl[g]))
        BY <2>13, <2>14, <2>15
    <2> QED BY <2>16 DEF fl
<1> QED BY <1>1, <1>2, <1>3 DEF ToldNow, Told

LEMMA FleetHolds ==
    ASSUME FleetInv
    PROVE  Fleet!TypeOK /\ Fleet!ShownAll /\ Fleet!RowsExplained /\ Fleet!OneRichRow
<1>1. Fleet!TypeOK /\ Fleet!ShownAll
    BY FleetTypes, FleetShowsAll
<1>2. Fleet!RowsExplained
    BY RowsShown DEF Fleet!RowsExplained, Explained, Spot, Fleet!S, Fleet!At, Fleet!SpecName
<1>3. Fleet!OneRichRow
    <2> SUFFICES ASSUME report # Null PROVE Fleet!OneRichRow
        BY DEF Fleet!OneRichRow
    <2>1. \A i \in DOMAIN report.read : \E r \in Fleet!Shown :
             Fleet!Key(r) = Fleet!Key(report.read[i]) /\ Fleet!richness(r) >= Fleet!richness(report.read[i])
        BY RowsShown DEF Outdoes
    <2> QED BY <2>1, RowsShown DEF Fleet!OneRichRow
<1> QED BY <1>1, <1>2, <1>3

\* The report of the fleet drops no guest untold, has no row that is made up or of
\* another run, and one row of a name, the one that tells most: whatever the steps, the
\* hypervisors and their guests, however many versions are kept and whatever fails.
THEOREM ReportsAreTrue == InventoriesSpec => []FleetTrue
<1> DEFINE Holds == part = "fleet" => FleetInv
<1>1. InventoriesInit => Holds
    BY FleetStarts DEF InventoriesInit
<1>2. Holds /\ [InventoriesNext]_workVars => Holds'
    <2> SUFFICES ASSUME Holds, [InventoriesNext]_workVars, (part = "fleet")' PROVE FleetInv'
        OBVIOUS
    <2>1. CASE UNCHANGED workVars
        <3>1. FleetInv /\ UNCHANGED <<setup, fleet, status, writing, handles, store, report, seen, lasting>>
            BY <2>1 DEF workVars, fleetVars
        <3> QED BY <3>1 DEF FleetInv, FleetTyped, StepsGoOn, StepNow, Spot, Reported, Explained, ToldNow
    <2>2. CASE part = "fleet" /\ Fleet!Next
        <3>1. FleetInv
            BY <2>2
        <3>2. CASE Fleet!Start
            BY <3>1, <3>2, StartKeeps
        <3>3. CASE Fleet!Report
            BY <3>1, <3>3, ReportKeeps
        <3>4. CASE Fleet!FleetChanges
            BY <3>1, <3>4, ChangeKeeps
        <3>5. ASSUME NEW s \in DOMAIN setup.steps,
                     Fleet!Query(s) \/ Fleet!Write(s) \/ Fleet!Succeeds(s) \/ Fleet!Fails(s) \/ Fleet!OtherDiscovery(s)
              PROVE  FleetInv'
            BY <3>1, <3>5, QueryKeeps, WriteKeeps, EndKeeps, OtherKeeps
        <3> QED BY <2>2, <3>2, <3>3, <3>4, <3>5 DEF Fleet!Next, Fleet!S
    <2> QED BY <2>1, <2>2 DEF InventoriesNext
<1>3. Holds => FleetTrue
    BY FleetHolds DEF FleetTrue
<1> QED BY <1>1, <1>2, <1>3, PTL DEF InventoriesSpec

-----------------------------------------------------------------------------
(* Sums over finite sets.                                                  *)

\* What the library's sum of f gives for the subsets of D, taking out one element after
\* the other in an order of its own.
Some(s) == CHOOSE x \in s : TRUE
Summed(it, f, s) == IF s = {} THEN 0 ELSE f[Some(s)] + it[s \ {Some(s)}]
Sums(it, f, D) == it = [s \in SUBSET D |-> Summed(it, f, s)]

\* A set of subsets has one that has none of them within it.
LEMMA SmallestOf ==
    ASSUME NEW D, IsFiniteSet(D), NEW Bad \in SUBSET (SUBSET D), Bad # {}
    PROVE  \E s \in Bad : \A t \in SUBSET s : t # s => t \notin Bad
<1> DEFINE T == {Cardinality(s) : s \in Bad}
<1>1. \A s \in Bad : IsFiniteSet(s) /\ Cardinality(s) \in Nat
    BY FS_Subset, FS_CardinalityType
<1>2. T \subseteq Nat /\ T # {}
    BY <1>1
<1>3. PICK m \in T : \A n \in T : m <= n
    <2> HIDE DEF T
    <2> QED BY <1>2, Least
<1>4. PICK s \in Bad : m = Cardinality(s)
    OBVIOUS
<1>5. ASSUME NEW t \in SUBSET s, t # s, t \in Bad PROVE FALSE
    <2>1. Cardinality(t) <= Cardinality(s) /\ Cardinality(t) # Cardinality(s)
        BY <1>1, <1>5, FS_Subset
    <2>2. Cardinality(t) \in T
        BY <1>5
    <2>3. Cardinality(s) \in Nat /\ Cardinality(t) \in Nat
        BY <1>1, <1>5
    <2> HIDE DEF T
    <2> QED BY <1>3, <1>4, <2>1, <2>2, <2>3
<1> QED BY <1>4, <1>5

\* Those of up to n elements.
UpTo(D, n) == {s \in SUBSET D : Cardinality(s) <= n}
SumsTo(it, f, D, n) == it = [s \in UpTo(D, n) |-> Summed(it, f, s)]

LEMMA SumsGrow ==
    ASSUME NEW D, IsFiniteSet(D), NEW f, NEW n \in Nat, n # 0, NEW h, SumsTo(h, f, D, n - 1)
    PROVE  \E it : SumsTo(it, f, D, n)
<1> DEFINE it == [s \in UpTo(D, n) |-> Summed(h, f, s)]
<1>1. ASSUME NEW s \in UpTo(D, n)
      PROVE  it[s] = Summed(it, f, s)
    <2>1. it[s] = Summed(h, f, s)
        OBVIOUS
    <2>2. CASE s = {}
        <3> HIDE DEF it
        <3> QED BY <2>1, <2>2 DEF Summed
    <2>3. CASE s # {}
        <3>1. Some(s) \in s
            BY <2>3 DEF Some
        <3> DEFINE t == s \ {Some(s)}
        <3>2. IsFiniteSet(s) /\ Cardinality(s) \in Nat /\ Cardinality(s) <= n
            BY FS_Subset, FS_CardinalityType DEF UpTo
        <3>3. Cardinality(t) = Cardinality(s) - 1
            BY <3>1, <3>2, FS_RemoveElement
        <3>4. t \in UpTo(D, n) /\ t \in UpTo(D, n - 1)
            <4>1. t \in SUBSET D
                BY DEF UpTo
            <4> HIDE DEF t
            <4> QED BY <3>2, <3>3, <4>1 DEF UpTo
        <3>5. it[t] = Summed(h, f, t) /\ h[t] = Summed(h, f, t)
            <4> HIDE DEF t
            <4> QED BY <3>4 DEF SumsTo
        <3> HIDE DEF it
        <3> QED BY <2>1, <2>3, <3>5 DEF Summed
    <2> QED BY <2>2, <2>3
<1>2. it = [s \in UpTo(D, n) |-> it[s]]
    OBVIOUS
<1> HIDE DEF it
<1> QED BY <1>1, <1>2 DEF SumsTo

LEMMA SumsExist ==
    ASSUME NEW D, IsFiniteSet(D), NEW f
    PROVE  \E it : Sums(it, f, D)
<1> DEFINE T == {m \in Nat : ~\E it : SumsTo(it, f, D, m)}
<1>1. T = {}
    <2> SUFFICES ASSUME T # {} PROVE FALSE
        OBVIOUS
    <2>1. PICK m \in T : \A j \in T : m <= j
        <3>1. T \subseteq Nat OBVIOUS
        <3> HIDE DEF T
        <3> QED BY <3>1, Least
    <2>2. m \in Nat /\ ~\E it : SumsTo(it, f, D, m)
        OBVIOUS
    <2>3. CASE m = 0
        <3> DEFINE it == [s \in UpTo(D, 0) |-> 0]
        <3>1. \A s \in UpTo(D, 0) : s = {}
            <4> SUFFICES ASSUME NEW s \in UpTo(D, 0) PROVE s = {}
                OBVIOUS
            <4>1. IsFiniteSet(s) /\ Cardinality(s) \in Nat /\ Cardinality(s) <= 0
                BY FS_Subset, FS_CardinalityType DEF UpTo
            <4> QED BY <4>1, FS_EmptySet
        <3>2. SumsTo(it, f, D, 0)
            BY <3>1 DEF SumsTo, Summed
        <3> HIDE DEF it
        <3> QED BY <2>2, <2>3, <3>2
    <2>4. CASE m # 0
        <3>1. m - 1 \in Nat /\ ~(m <= m - 1)
            BY <2>2, <2>4
        <3>2. m - 1 \notin T
            <4> HIDE DEF T
            <4> QED BY <2>1, <3>1
        <3>3. PICK h : SumsTo(h, f, D, m - 1)
            BY <3>1, <3>2
        <3> HIDE DEF T
        <3> QED BY <2>2, <2>4, <3>3, SumsGrow
    <2> QED BY <2>3, <2>4
<1>2. Cardinality(D) \in Nat
    BY FS_CardinalityType
<1>3. PICK it : SumsTo(it, f, D, Cardinality(D))
    BY <1>1, <1>2
<1>4. UpTo(D, Cardinality(D)) = SUBSET D
    BY FS_Subset DEF UpTo
<1> QED BY <1>3, <1>4 DEF Sums, SumsTo

\* The order does not matter.
Counting(f, D) == \A x \in D : f[x] \in Nat
Anyhow(it, f, D) ==
    /\ it[{}] = 0
    /\ \A s \in SUBSET D : it[s] \in Nat
    /\ \A s \in SUBSET D : \A x \in s : it[s] = f[x] + it[s \ {x}]

LEMMA SumsAnyhow ==
    ASSUME NEW D, IsFiniteSet(D), NEW f, Counting(f, D), NEW it, Sums(it, f, D)
    PROVE  Anyhow(it, f, D)
<1> DEFINE Fine(s) == it[s] \in Nat /\ \A x \in s : it[s] = f[x] + it[s \ {x}]
           Bad == {s \in SUBSET D : ~Fine(s)}
<1>1. \A s \in SUBSET D : it[s] = Summed(it, f, s)
    BY DEF Sums
<1>2. it[{}] = 0
    BY <1>1 DEF Summed
<1>3. Bad = {}
    <2> SUFFICES ASSUME Bad # {} PROVE FALSE
        OBVIOUS
    <2>1. PICK s \in Bad : \A t \in SUBSET s : t # s => t \notin Bad
        <3>1. Bad \in SUBSET (SUBSET D)
            OBVIOUS
        <3> HIDE DEF Bad
        <3> QED BY <3>1, SmallestOf
    <2>2. s \in SUBSET D /\ ~Fine(s)
        OBVIOUS
    <2>3. \A t \in SUBSET s : t # s => Fine(t)
        BY <2>1, <2>2
    <2>4. s # {}
        <3> SUFFICES ASSUME s = {} PROVE FALSE
            OBVIOUS
        <3>1. it[s] \in Nat /\ ~\E x \in s : TRUE
            BY <1>2
        <3> QED BY <2>2, <3>1
    <2> DEFINE c == Some(s)
    <2>5. c \in s /\ it[s] = f[c] + it[s \ {c}]
        BY <1>1, <2>2, <2>4 DEF Some, Summed
    <2> HIDE DEF c
    <2>6. it[s] \in Nat
        <3>1. s \ {c} \in SUBSET s /\ s \ {c} # s
            BY <2>5
        <3> QED BY <2>2, <2>3, <2>5, <3>1 DEF Counting
    <2>7. ASSUME NEW x \in s PROVE it[s] = f[x] + it[s \ {x}]
        <3>1. CASE x = c
            BY <2>5, <3>1
        <3>2. CASE x # c
            <4>1. x \in s \ {c} /\ c \in s \ {x}
                BY <2>5, <3>2
            <4>2. Fine(s \ {c}) /\ Fine(s \ {x})
                BY <2>3, <2>5
            <4>3. it[s \ {c}] = f[x] + it[(s \ {c}) \ {x}] /\ it[s \ {x}] = f[c] + it[(s \ {x}) \ {c}]
                BY <4>1, <4>2
            <4>4. (s \ {c}) \ {x} = (s \ {x}) \ {c}
                OBVIOUS
            <4>5. it[(s \ {c}) \ {x}] \in Nat
                BY <2>3, <2>5
            <4>6. f[x] \in Nat /\ f[c] \in Nat
                BY <2>2, <2>5 DEF Counting
            <4>7. \A a, b, r \in Nat : a + (b + r) = b + (a + r)
                OBVIOUS
            <4>8. it[s] = f[c] + (f[x] + it[(s \ {c}) \ {x}])
                BY <2>5, <4>3
            <4>9. f[x] + it[s \ {x}] = f[x] + (f[c] + it[(s \ {c}) \ {x}])
                BY <4>3, <4>4
            <4> QED BY <4>5, <4>6, <4>7, <4>8, <4>9
        <3> QED BY <3>1, <3>2
    <2> QED BY <2>2, <2>6, <2>7
<1> QED BY <1>2, <1>3 DEF Anyhow

\* Nor does it matter what is summed over, if the numbers are the same.
LEMMA SumsMatch ==
    ASSUME NEW D, IsFiniteSet(D), NEW E, IsFiniteSet(E), NEW b \in [D -> E],
           \A x, y \in D : b[x] = b[y] => x = y, \A e \in E : \E x \in D : b[x] = e,
           NEW f, NEW g, Counting(g, E), \A x \in D : f[x] = g[b[x]],
           NEW it, Sums(it, f, D), NEW jt, Sums(jt, g, E)
    PROVE  it[D] = jt[E]
<1> DEFINE Image(s) == {b[x] : x \in s}
           Bad == {s \in SUBSET D : it[s] # jt[Image(s)]}
<1>1. Counting(f, D)
    BY DEF Counting
<1>2. Anyhow(it, f, D)
    BY <1>1, SumsAnyhow
<1>3. Anyhow(jt, g, E)
    BY SumsAnyhow
<1>4. Bad = {}
    <2> SUFFICES ASSUME Bad # {} PROVE FALSE
        OBVIOUS
    <2>1. PICK s \in Bad : \A t \in SUBSET s : t # s => t \notin Bad
        <3>1. Bad \in SUBSET (SUBSET D)
            OBVIOUS
        <3> HIDE DEF Bad
        <3> QED BY <3>1, SmallestOf
    <2>2. s \in SUBSET D /\ it[s] # jt[Image(s)]
        OBVIOUS
    <2>3. \A t \in SUBSET s : t # s => it[t] = jt[Image(t)]
        BY <2>1, <2>2
    <2>4. CASE s = {}
        <3>1. Image(s) = {}
            BY <2>4
        <3> HIDE DEF Image
        <3> QED BY <1>2, <1>3, <2>2, <2>4, <3>1 DEF Anyhow
    <2>5. ASSUME NEW x \in s PROVE FALSE
        <3>1. Image(s) \ {b[x]} = Image(s \ {x})
            BY <2>2
        <3>2. Image(s) \in SUBSET E /\ b[x] \in Image(s)
            BY <2>2
        <3>3. s \ {x} \in SUBSET s /\ s \ {x} # s
            OBVIOUS
        <3>4. f[x] = g[b[x]]
            BY <2>2
        <3> HIDE DEF Image
        <3>5. it[s] = f[x] + it[s \ {x}]
            BY <1>2, <2>2 DEF Anyhow
        <3>6. jt[Image(s)] = g[b[x]] + jt[Image(s \ {x})]
            <4>1. jt[Image(s)] = g[b[x]] + jt[Image(s) \ {b[x]}]
                BY <1>3, <3>2 DEF Anyhow
            <4> QED BY <3>1, <4>1
        <3> QED BY <2>2, <2>3, <3>3, <3>4, <3>5, <3>6
    <2> QED BY <2>4, <2>5
<1>5. Image(D) = E
    OBVIOUS
<1>6. it[D] = jt[Image(D)]
    BY <1>4
<1> QED BY <1>5, <1>6

\* A sum of the sizes of sets that have nothing in common.
Apart(c, D) ==
    /\ \A x \in D : IsFiniteSet(c[x])
    /\ \A x, y \in D : x # y => c[x] \cap c[y] = {}
Joined(c, D) == UNION {c[x] : x \in D}
Sizes(f, c, D) == \A x \in D : f[x] = Cardinality(c[x])

LEMMA SumsCount ==
    ASSUME NEW D, IsFiniteSet(D), NEW c, Apart(c, D), NEW f, Sizes(f, c, D), NEW it, Sums(it, f, D)
    PROVE  it[D] = Cardinality(Joined(c, D)) /\ IsFiniteSet(Joined(c, D))
<1> DEFINE All(s) == UNION {c[x] : x \in s}
           Added(s) == it[s] = Cardinality(All(s)) /\ IsFiniteSet(All(s))
           Bad == {s \in SUBSET D : ~Added(s)}
<1>1. Counting(f, D)
    BY FS_CardinalityType DEF Counting, Apart, Sizes
<1>2. Anyhow(it, f, D)
    BY <1>1, SumsAnyhow
<1>3. Bad = {}
    <2> SUFFICES ASSUME Bad # {} PROVE FALSE
        OBVIOUS
    <2>1. PICK s \in Bad : \A t \in SUBSET s : t # s => t \notin Bad
        <3>1. Bad \in SUBSET (SUBSET D)
            OBVIOUS
        <3> HIDE DEF Bad
        <3> QED BY <3>1, SmallestOf
    <2>2. s \in SUBSET D /\ ~Added(s)
        OBVIOUS
    <2>3. \A t \in SUBSET s : t # s => Added(t)
        BY <2>1, <2>2
    <2>4. CASE s = {}
        <3>1. All(s) = {}
            BY <2>4
        <3> HIDE DEF All
        <3> QED BY <1>2, <2>2, <2>4, <3>1, FS_EmptySet DEF Anyhow
    <2>5. ASSUME NEW x \in s PROVE FALSE
        <3>1. All(s) = All(s \ {x}) \cup c[x]
            OBVIOUS
        <3>2. All(s \ {x}) \cap c[x] = {}
            BY <2>2 DEF Apart
        <3>3. Added(s \ {x})
            <4>1. s \ {x} \in SUBSET s /\ s \ {x} # s
                OBVIOUS
            <4> QED BY <2>3, <4>1
        <3>4. IsFiniteSet(c[x]) /\ f[x] = Cardinality(c[x]) /\ it[s] = f[x] + it[s \ {x}]
            BY <1>2, <2>2 DEF Anyhow, Apart, Sizes
        <3> HIDE DEF All
        <3>5. IsFiniteSet(All(s)) /\ Cardinality(All(s)) = Cardinality(All(s \ {x})) + Cardinality(c[x])
            <4> DEFINE A == All(s \ {x})
            <4>1. IsFiniteSet(A) /\ Cardinality(A) \in Nat /\ Cardinality(c[x]) \in Nat
                BY <3>3, <3>4, FS_CardinalityType
            <4>2. Cardinality(A \cap c[x]) = 0
                BY <3>2, FS_EmptySet
            <4> HIDE DEF A
            <4>3. IsFiniteSet(A \cup c[x])
                  /\ Cardinality(A \cup c[x]) = Cardinality(A) + Cardinality(c[x]) - Cardinality(A \cap c[x])
                BY <3>4, <4>1, FS_Union
            <4>4. Cardinality(A \cup c[x]) = Cardinality(A) + Cardinality(c[x])
                BY <4>1, <4>2, <4>3
            <4> QED BY <3>1, <4>3, <4>4 DEF A
        <3>6. Cardinality(c[x]) \in Nat /\ Cardinality(All(s \ {x})) \in Nat
            BY <3>3, <3>4, FS_CardinalityType
        <3> QED BY <2>2, <3>3, <3>4, <3>5, <3>6
    <2> QED BY <2>4, <2>5
<1> QED BY <1>3 DEF Joined

-----------------------------------------------------------------------------
(* What the parsers of a TrueNAS host make of its guests.                  *)

LEMMA SameCount == \A s : Truenas!Cardinality(s) = Cardinality(s) /\ (Truenas!IsFiniteSet(s) <=> IsFiniteSet(s))
BY DEF Truenas!Cardinality, Truenas!IsFiniteSet, Cardinality, IsFiniteSet

Tokens(toks) == [i \in DOMAIN toks |-> Truenas!TokenCount(toks[i])]
SumsTokens(it, toks) ==
    it = [s \in SUBSET (DOMAIN toks) |->
             IF s = {} THEN 0 ELSE Truenas!TokenCount(toks[Some(s)]) + it[s \ {Some(s)}]]

LEMMA TokensSummed ==
    ASSUME NEW v, v # Null, v.kind = "set",
           \A i \in DOMAIN v.toks : Truenas!TokenCount(v.toks[i]) # Null,
           NEW some, SumsTokens(some, v.toks)
    PROVE  \E it : SumsTokens(it, v.toks) /\ Truenas!parseCpuCount(v) = it[DOMAIN v.toks]
<1> DEFINE it == CHOOSE i : SumsTokens(i, v.toks)
<1>1. SumsTokens(it, v.toks)
    OBVIOUS
<1>2. Truenas!parseCpuCount(v) = it[DOMAIN v.toks]
    BY DEF SumsTokens, Some, Truenas!parseCpuCount, Truenas!MapThenSumSet, Truenas!MapThenFoldSet
<1> HIDE DEF it
<1> QED BY <1>1, <1>2

LEMMA TokensAre ==
    ASSUME NEW toks, NEW it
    PROVE  SumsTokens(it, toks) <=> Sums(it, Tokens(toks), DOMAIN toks)
<1>1. ASSUME NEW s \in SUBSET (DOMAIN toks), s # {}
      PROVE  Tokens(toks)[Some(s)] = Truenas!TokenCount(toks[Some(s)])
    BY <1>1 DEF Some, Tokens
<1> QED BY <1>1 DEF SumsTokens, Sums, Summed

Pinned(toks) == UNION {toks[i][1] .. toks[i][2] : i \in DOMAIN toks}

LEMMA SetsCounted ==
    ASSUME NEW v, v # Null, v.kind = "set", v.toks \in Seq(Nat \X Nat),
           \A i, j \in DOMAIN v.toks :
              i # j => (v.toks[i][1] .. v.toks[i][2]) \cap (v.toks[j][1] .. v.toks[j][2]) = {}
    PROVE  Truenas!parseCpuCount(v) \in {Cardinality(Pinned(v.toks)), Null} /\ IsFiniteSet(Pinned(v.toks))
<1> DEFINE toks == v.toks
           c == [i \in DOMAIN toks |-> toks[i][1] .. toks[i][2]]
<1>1. IsFiniteSet(DOMAIN toks)
    BY FS_Interval
<1>2. ASSUME NEW i \in DOMAIN toks PROVE toks[i] \in Nat \X Nat
    BY ElementOfSeq
<1>3. ASSUME NEW i \in DOMAIN toks
      PROVE  /\ IsFiniteSet(c[i])
             /\ Truenas!TokenCount(toks[i]) # Null => Truenas!TokenCount(toks[i]) = Cardinality(c[i])
    <2>1. PICK lo \in Nat, hi \in Nat : toks[i] = <<lo, hi>>
        BY <1>2
    <2>2. IsFiniteSet(lo .. hi) /\ Cardinality(lo .. hi) = IF lo > hi THEN 0 ELSE hi - lo + 1
        <3>1. lo \in Int /\ hi \in Int
            OBVIOUS
        <3> QED BY <3>1, FS_Interval
    <2>3. Truenas!TokenCount(toks[i]) = IF hi < lo THEN Null ELSE hi - lo + 1
        BY <2>1 DEF Truenas!TokenCount
    <2> QED BY <2>1, <2>2, <2>3
<1>4. Apart(c, DOMAIN toks) /\ Pinned(toks) = Joined(c, DOMAIN toks)
    BY <1>3 DEF Apart, Joined, Pinned
<1>5. IsFiniteSet(Pinned(toks))
    <2> DEFINE f == [i \in DOMAIN toks |-> Cardinality(c[i])]
    <2>1. Sizes(f, c, DOMAIN toks)
        BY DEF Sizes
    <2> HIDE DEF c, f, toks
    <2>2. PICK it : Sums(it, f, DOMAIN toks)
        BY <1>1, SumsExist
    <2> QED BY <1>1, <1>4, <2>1, <2>2, SumsCount
<1>6. CASE \E i \in DOMAIN toks : Truenas!TokenCount(toks[i]) = Null
    BY <1>5, <1>6 DEF Truenas!parseCpuCount
<1>7. CASE \A i \in DOMAIN toks : Truenas!TokenCount(toks[i]) # Null
    <2>1. PICK some : Sums(some, Tokens(toks), DOMAIN toks)
        BY <1>1, SumsExist
    <2>2. PICK it : SumsTokens(it, toks) /\ Truenas!parseCpuCount(v) = it[DOMAIN toks]
        BY <1>7, <2>1, TokensAre, TokensSummed
    <2>3. Sums(it, Tokens(toks), DOMAIN toks)
        BY <2>2, TokensAre
    <2>4. Sizes(Tokens(toks), c, DOMAIN toks)
        BY <1>3, <1>7 DEF Tokens, Sizes
    <2> HIDE DEF c, toks
    <2>5. it[DOMAIN toks] = Cardinality(Joined(c, DOMAIN toks))
        BY <1>1, <1>4, <2>3, <2>4, SumsCount
    <2> QED BY <1>4, <1>5, <2>2, <2>5 DEF toks
<1> QED BY <1>6, <1>7

LEMMA CpusAreNumbers ==
    ASSUME NEW v, Truenas!CpuLimit(v)
    PROVE  Truenas!parseCpuCount(v) \in Truenas!Counts
<1>1. CASE v = Null \/ v.kind = "percent"
    BY <1>1 DEF Truenas!parseCpuCount, Truenas!Counts
<1>2. CASE v # Null /\ v.kind = "count" /\ v.n \in Nat
    BY <1>2 DEF Truenas!parseCpuCount, Truenas!Counts
<1>3. CASE v # Null /\ v.kind = "set"
    <2>1. v.toks \in Seq(Nat \X Nat)
          /\ \A i, j \in DOMAIN v.toks :
               i # j => (v.toks[i][1] .. v.toks[i][2]) \cap (v.toks[j][1] .. v.toks[j][2]) = {}
        BY <1>3 DEF Truenas!CpuLimit
    <2>2. Truenas!parseCpuCount(v) \in {Cardinality(Pinned(v.toks)), Null} /\ IsFiniteSet(Pinned(v.toks))
        BY <1>3, <2>1, SetsCounted
    <2> QED BY <2>2, FS_CardinalityType DEF Truenas!Counts
<1> QED BY <1>1, <1>2, <1>3 DEF Truenas!CpuLimit

LEMMA Quotient ==
    ASSUME NEW a \in Nat, NEW b \in Nat \ {0}
    PROVE  a \div b \in Nat
OBVIOUS

LEMMA MemoryIsANumber ==
    ASSUME NEW v, Truenas!MemoryLimit(v)
    PROVE  Truenas!parseMemoryToMib(v) \in Truenas!Counts
<1>1. CASE v = Null \/ v.kind = "percent" \/ v.num = 0
    BY <1>1 DEF Truenas!parseMemoryToMib, Truenas!Counts
<1>2. CASE ~(v = Null \/ v.kind = "percent" \/ v.num = 0)
    <2> DEFINE f == Truenas!factors(v.unit)
               x == v.num * f[1]
               d == v.den * f[2]
    <2>1. v.num \in Nat /\ v.den \in Nat \ {0}
          /\ v.unit \in {"B", "KIB", "KB", "MIB", "MB", "GIB", "GB"}
        BY <1>2 DEF Truenas!MemoryLimit
    <2>2. f[1] \in Nat \ {0} /\ f[2] \in Nat \ {0}
        BY <2>1 DEF Truenas!factors
    <2> HIDE DEF f
    <2>3. x \in Nat /\ d \in Nat \ {0}
        BY <2>1, <2>2
    <2> HIDE DEF x, d
    <2>4. 2 * x + d \in Nat /\ 2 * d \in Nat \ {0}
        BY <2>3
    <2>5. (2 * x + d) \div (2 * d) \in Nat
        BY <2>4, Quotient
    <2>6. Truenas!parseMemoryToMib(v) = (2 * x + d) \div (2 * d)
        BY <1>2 DEF Truenas!parseMemoryToMib, x, d, f
    <2> QED BY <2>5, <2>6 DEF Truenas!Counts
<1> QED BY <1>1, <1>2

LEMMA ParsedTypes ==
    ASSUME NEW kind \in {"incus", "libvirt"}, NEW g, Truenas!Tells(kind, g)
    PROVE  /\ Truenas!parseOne(kind, g).vcpus \in Truenas!Counts
           /\ Truenas!parseOne(kind, g).memoryMib \in Truenas!Counts
           /\ Truenas!parseOne(kind, g).state \in {"running", "stopped", "suspended", "unknown"}
<1>1. \A s : Truenas!normalizeState(s) \in {"running", "stopped", "suspended", "unknown"}
    BY DEF Truenas!normalizeState
<1>2. \A v, w \in Truenas!Counts : Truenas!Or(v, w) \in Truenas!Counts
    BY DEF Truenas!Or
<1>3. CASE kind = "libvirt"
    <2>1. g.vcpus \in Truenas!Counts /\ g.memory \in Truenas!Counts
        BY <1>3 DEF Truenas!Tells, Truenas!Counts
    <2>2. Truenas!parseOne(kind, g) = Truenas!parseLibvirtVm(g)
        BY <1>3 DEF Truenas!parseOne
    <2> QED BY <1>1, <2>1, <2>2 DEF Truenas!parseLibvirtVm
<1>4. CASE kind = "incus"
    <2>1. /\ Truenas!CpuLimit(g.limits.cpu) /\ Truenas!CpuLimit(g.cpu)
          /\ Truenas!MemoryLimit(g.limits.memory) /\ Truenas!MemoryLimit(g.memory)
        BY <1>4 DEF Truenas!Tells
    <2>2. Truenas!Or(Truenas!parseCpuCount(g.limits.cpu), Truenas!parseCpuCount(g.cpu)) \in Truenas!Counts
        BY <1>2, <2>1, CpusAreNumbers
    <2>3. Truenas!Or(Truenas!parseMemoryToMib(g.limits.memory), Truenas!parseMemoryToMib(g.memory)) \in Truenas!Counts
        BY <1>2, <2>1, MemoryIsANumber
    <2>4. Truenas!parseOne(kind, g) = Truenas!parseIncusInstance(g)
        BY <1>4 DEF Truenas!parseOne
    <2> QED BY <1>1, <2>2, <2>3, <2>4 DEF Truenas!parseIncusInstance
<1> QED BY <1>3, <1>4

LEMMA FiniteRange ==
    ASSUME NEW f, IsFiniteSet(DOMAIN f)
    PROVE  IsFiniteSet({f[x] : x \in DOMAIN f})
<1> DEFINE g == [x \in DOMAIN f |-> f[x]]
<1>1. g \in Surjection(DOMAIN f, {f[x] : x \in DOMAIN f})
    BY DEF Surjection
<1> HIDE DEF g
<1> QED BY <1>1, FS_Surjection

\* The VMs a host tells of, and their records.
Asked(kind, gs) == {g \in Truenas!Range1(gs) : Truenas!queryParams(kind, g)}
Counted(v) ==
    /\ v.vcpus \in Truenas!Counts /\ v.memoryMib \in Truenas!Counts
    /\ v.state \in {"running", "stopped", "suspended", "unknown"}
Records(found) ==
    /\ IsFiniteSet(found)
    /\ \A v \in found : Counted(v)
    /\ \A v, w \in found : IdSlug[v.id] = IdSlug[w.id] => v = w

LEMMA AskedAreVms ==
    ASSUME NEW kind \in {"incus", "libvirt"}, NEW g
    PROVE  Truenas!queryParams(kind, g) <=> Truenas!IsVm(kind, g)
BY DEF Truenas!queryParams, Truenas!IsVm

LEMMA Builds ==
    ASSUME NEW kind \in {"incus", "libvirt"}, NEW gs, Truenas!Tellable(kind, gs)
    PROVE  /\ Records(Truenas!buildVms(kind, Asked(kind, gs)))
           /\ \A g \in Asked(kind, gs) : Truenas!Tells(kind, g)
<1> DEFINE asked == Asked(kind, gs)
           parsed == [g \in asked |-> Truenas!parseOne(kind, g)]
           found == Truenas!buildVms(kind, asked)
<1>1. IsFiniteSet(DOMAIN gs)
    BY SameCount DEF Truenas!Tellable
<1>2. IsFiniteSet(asked)
    <2>1. IsFiniteSet(Truenas!Range1(gs))
        BY <1>1, FiniteRange DEF Truenas!Range1
    <2> QED BY <2>1, FS_Subset DEF Asked
<1>3. IsFiniteSet(found)
    <2>1. DOMAIN parsed = asked /\ found = {parsed[g] : g \in DOMAIN parsed}
        BY DEF Truenas!buildVms
    <2> HIDE DEF parsed, found, asked
    <2> QED BY <1>2, <2>1, FiniteRange
<1>4. ASSUME NEW g \in asked
      PROVE  \E k \in DOMAIN gs : g = gs[k] /\ Truenas!IsVm(kind, g) /\ Truenas!Tells(kind, g)
    BY AskedAreVms DEF Asked, Truenas!Range1, Truenas!Tellable
<1>5. \A v \in found : \E g \in asked : v = Truenas!parseOne(kind, g)
    BY DEF Truenas!buildVms
<1>6. \A v \in found : Counted(v)
    <2> HIDE DEF found, asked
    <2> QED BY <1>4, <1>5, ParsedTypes DEF Counted
<1>7. ASSUME NEW v \in found, NEW w \in found, IdSlug[v.id] = IdSlug[w.id] PROVE v = w
    <2>1. PICK g \in asked, h \in asked : v = Truenas!parseOne(kind, g) /\ w = Truenas!parseOne(kind, h)
        BY <1>5
    <2>2. PICK k \in DOMAIN gs, l \in DOMAIN gs :
             g = gs[k] /\ h = gs[l] /\ Truenas!IsVm(kind, g) /\ Truenas!IsVm(kind, h)
        BY <1>4
    <2>3. k = l
        BY <1>7, <2>1, <2>2 DEF Truenas!Tellable
    <2> QED BY <2>1, <2>2, <2>3
<1> QED BY <1>3, <1>4, <1>6, <1>7 DEF Records

-----------------------------------------------------------------------------
(* Sums over guests and over their records.                                *)

Shares(found, field) == [v \in found |-> Truenas!Or(v[field], 0)]
SumsShares(it, found, field) ==
    it = [s \in SUBSET found |-> IF s = {} THEN 0 ELSE Truenas!Or(Some(s)[field], 0) + it[s \ {Some(s)}]]

LEMMA TotalSummed ==
    ASSUME NEW found, NEW field, NEW some, SumsShares(some, found, field)
    PROVE  \E it : SumsShares(it, found, field) /\ Truenas!Total(found, field) = it[found]
<1> DEFINE it == CHOOSE i : SumsShares(i, found, field)
<1>1. SumsShares(it, found, field)
    OBVIOUS
<1>2. Truenas!Total(found, field) = it[found]
    BY DEF SumsShares, Some, Truenas!Total, Truenas!MapThenSumSet, Truenas!MapThenFoldSet
<1> HIDE DEF it
<1> QED BY <1>1, <1>2

LEMMA SharesAre ==
    ASSUME NEW found, NEW field, NEW it
    PROVE  SumsShares(it, found, field) <=> Sums(it, Shares(found, field), found)
<1>1. ASSUME NEW s \in SUBSET found, s # {}
      PROVE  Shares(found, field)[Some(s)] = Truenas!Or(Some(s)[field], 0)
    BY <1>1 DEF Some, Shares
<1> QED BY <1>1 DEF SumsShares, Sums, Summed

RecordSum(w, names, field) == Truenas!MapThenSumSet(LAMBDA n : Truenas!Or(w[n].vm[field], 0), names)
RecordShares(w, names, field) == [n \in names |-> Truenas!Or(w[n].vm[field], 0)]
SumsRecords(it, w, names, field) ==
    it = [s \in SUBSET names |-> IF s = {} THEN 0 ELSE Truenas!Or(w[Some(s)].vm[field], 0) + it[s \ {Some(s)}]]

LEMMA RecordsSummed ==
    ASSUME NEW w, NEW names, NEW field, NEW some, SumsRecords(some, w, names, field)
    PROVE  \E it : SumsRecords(it, w, names, field) /\ RecordSum(w, names, field) = it[names]
<1> DEFINE it == CHOOSE i : SumsRecords(i, w, names, field)
<1>1. SumsRecords(it, w, names, field)
    OBVIOUS
<1>2. RecordSum(w, names, field) = it[names]
    BY DEF SumsRecords, Some, RecordSum, Truenas!MapThenSumSet, Truenas!MapThenFoldSet
<1> HIDE DEF it
<1> QED BY <1>1, <1>2

LEMMA RecordSharesAre ==
    ASSUME NEW w, NEW names, NEW field, NEW it
    PROVE  SumsRecords(it, w, names, field) <=> Sums(it, RecordShares(w, names, field), names)
<1>1. ASSUME NEW s \in SUBSET names, s # {}
      PROVE  RecordShares(w, names, field)[Some(s)] = Truenas!Or(w[Some(s)].vm[field], 0)
    BY <1>1 DEF Some, RecordShares
<1> QED BY <1>1 DEF SumsRecords, Sums, Summed

\* The records of found, under their names.
NameOf(v) == IdSlug[v.id]
Names(found) == {NameOf(v) : v \in found}
Stands(w, found) == \A v \in found : w[NameOf(v)].vm = v

LEMMA NamesMatch ==
    ASSUME NEW found, Records(found)
    PROVE  /\ IsFiniteSet(Names(found)) /\ Cardinality(Names(found)) = Cardinality(found)
           /\ Cardinality(found) \in Nat
<1> DEFINE b == [v \in found |-> NameOf(v)]
<1>1. b \in Injection(found, Names(found)) /\ b \in Surjection(found, Names(found))
    BY DEF Injection, Surjection, IsInjective, Names, NameOf, Records
<1>2. IsFiniteSet(found)
    BY DEF Records
<1> HIDE DEF b
<1> QED BY <1>1, <1>2, FS_Surjection, FS_CardinalityType

LEMMA TotalsAgree ==
    ASSUME NEW found, Records(found), NEW w, Stands(w, found), NEW field \in {"vcpus", "memoryMib"}
    PROVE  Truenas!Total(found, field) = RecordSum(w, Names(found), field)
<1> DEFINE names == Names(found)
           b == [v \in found |-> NameOf(v)]
           f == Shares(found, field)
           g == RecordShares(w, names, field)
<1>1. IsFiniteSet(found) /\ IsFiniteSet(names)
    BY NamesMatch DEF Records
<1>2. b \in [found -> names]
    BY DEF Names
<1>3. (\A x, y \in found : b[x] = b[y] => x = y) /\ (\A e \in names : \E x \in found : b[x] = e)
    BY DEF Names, NameOf, Records
<1>4. \A v \in found : b[v] \in names /\ w[b[v]].vm = v
    BY DEF Names, Stands
<1>5. \A v \in found : v[field] \in Truenas!Counts
    BY DEF Records, Counted
<1>6. \A v \in found : f[v] = g[b[v]] /\ f[v] \in Nat
    <2> SUFFICES ASSUME NEW v \in found PROVE f[v] = g[b[v]] /\ f[v] \in Nat
        OBVIOUS
    <2>1. w[b[v]].vm[field] = v[field] /\ b[v] \in names
        BY <1>4
    <2> HIDE DEF b, names
    <2>2. g[b[v]] = Truenas!Or(w[b[v]].vm[field], 0)
        BY <2>1 DEF RecordShares
    <2> QED BY <1>5, <2>1, <2>2 DEF Shares, Truenas!Or, Truenas!Counts
<1>7. Counting(g, names)
    <2> HIDE DEF b, names, f, g
    <2> QED BY <1>3, <1>6 DEF Counting
<1> HIDE DEF names, b, f, g
<1>8. PICK some : Sums(some, f, found)
    BY <1>1, SumsExist
<1>9. PICK other : Sums(other, g, names)
    BY <1>1, SumsExist
<1>10. PICK it : SumsShares(it, found, field) /\ Truenas!Total(found, field) = it[found]
    BY <1>8, SharesAre, TotalSummed DEF f
<1>11. PICK jt : SumsRecords(jt, w, names, field) /\ RecordSum(w, names, field) = jt[names]
    BY <1>9, RecordSharesAre, RecordsSummed DEF g
<1>12. Sums(it, f, found) /\ Sums(jt, g, names)
    BY <1>10, <1>11, SharesAre, RecordSharesAre DEF f, g
<1>13. \A x \in found : f[x] = g[b[x]]
    BY <1>6
<1>14. it[found] = jt[names]
    BY <1>1, <1>2, <1>3, <1>7, <1>12, <1>13, SumsMatch
<1> QED BY <1>10, <1>11, <1>14 DEF names

LEMMA StatesAddUp ==
    ASSUME NEW found, Records(found)
    PROVE  /\ Truenas!CountOf(found, {"running"}) + Truenas!CountOf(found, {"stopped"})
                + Truenas!CountOf(found, {"suspended", "unknown"}) = Truenas!Cardinality(found)
           /\ Truenas!Cardinality(found) \in Nat
<1> DEFINE A == {v \in found : v.state \in {"running"}}
           B == {v \in found : v.state \in {"stopped"}}
           C == {v \in found : v.state \in {"suspended", "unknown"}}
<1>1. A \cap B = {} /\ (A \cup B) \cap C = {} /\ found = (A \cup B) \cup C
    BY DEF Records, Counted
<1>2. IsFiniteSet(found) /\ A \in SUBSET found /\ B \in SUBSET found /\ C \in SUBSET found
    BY DEF Records
<1>3. /\ Truenas!CountOf(found, {"running"}) = Cardinality(A)
      /\ Truenas!CountOf(found, {"stopped"}) = Cardinality(B)
      /\ Truenas!CountOf(found, {"suspended", "unknown"}) = Cardinality(C)
      /\ Truenas!Cardinality(found) = Cardinality(found)
    BY SameCount DEF Truenas!CountOf
<1> HIDE DEF A, B, C
<1>4. IsFiniteSet(A) /\ IsFiniteSet(B) /\ IsFiniteSet(C) /\ IsFiniteSet(A \cup B)
    BY <1>2, FS_Subset, FS_Union
<1>5. /\ Cardinality(A) \in Nat /\ Cardinality(B) \in Nat /\ Cardinality(C) \in Nat
      /\ Cardinality(A \cup B) \in Nat /\ Cardinality(found) \in Nat
    BY <1>2, <1>4, FS_CardinalityType
<1>6. Cardinality(A \cap B) = 0 /\ Cardinality((A \cup B) \cap C) = 0
    BY <1>1, FS_EmptySet
<1>7. Cardinality(A \cup B) = Cardinality(A) + Cardinality(B) - Cardinality(A \cap B)
    BY <1>4, FS_Union
<1>8. Cardinality((A \cup B) \cup C) = Cardinality(A \cup B) + Cardinality(C) - Cardinality((A \cup B) \cap C)
    BY <1>4, FS_Union
<1>9. Cardinality(found) = Cardinality(A \cup B) + Cardinality(C) - Cardinality((A \cup B) \cap C)
    BY <1>1, <1>8
<1> QED BY <1>3, <1>5, <1>6, <1>7, <1>9

-----------------------------------------------------------------------------
(* A discovery of a TrueNAS host.                                          *)

Found(kind, answer) == Truenas!buildVms(kind, answer)
Ended == phase = "idle" /\ outcome = "ok"

\* Types, as far as they depend on nothing but bounds.
TruenasTyped ==
    /\ phase \in {"idle", "query", "info", "vm"} /\ outcome \in {"none", "ok", "failed"}
    /\ runs \in 0 .. MaxRuns /\ changes \in 0 .. MaxChanges /\ failures \in 0 .. MaxErrors

HostKnown(kind, gs, was) ==
    /\ kind \in {"incus", "libvirt"}
    /\ gs \in DOMAIN GuestMoves[kind] /\ was \in DOMAIN GuestMoves[kind]

VmsTyped(w, r) ==
    /\ IsFiniteSet(DOMAIN w)
    /\ \A n \in DOMAIN w : w[n].run \in 1 .. r /\ Counted(w[n].vm)

\* A run that has yet to write left of found.
Writes(w, left, found, r) ==
    /\ left \subseteq found /\ Stands(w, found \ left)
    /\ {n \in DOMAIN w : w[n].run = r} = Names(found \ left)

\* A roll-up stands for records that are there, and adds its counts up.
WrittenSince(w, r) == {n \in DOMAIN w : w[n].run >= r}
Summarised(sum, w, r) ==
    /\ sum.run \in 1 .. r
    /\ sum.of.totalVms \in Nat
    /\ Cardinality(WrittenSince(w, sum.run)) >= sum.of.totalVms
    /\ sum.of.runningCount + sum.of.stoppedCount + sum.of.otherCount = sum.of.totalVms

AskedNow ==
    /\ raw \in {{}, Asked(backend, queried)}
    /\ phase \in {"info", "vm"} \/ Ended => raw = Asked(backend, queried)
WritesNow ==
    /\ phase \in {"query", "info"} => \A n \in DOMAIN vms : vms[n].run # runs
    /\ phase = "vm" \/ Ended => Writes(vms, unwritten, Found(backend, raw), runs)
EndsNow ==
    Ended => unwritten = {} /\ rollUp = [of |-> Truenas!buildSummary(Found(backend, raw), info), run |-> runs]

Active == phase \in {"query", "info", "vm"} \/ Ended => runs # 0

TruenasInv ==
    /\ Active
    /\ TruenasTyped /\ HostKnown(backend, guests, queried) /\ VmsTyped(vms, runs)
    /\ AskedNow /\ WritesNow /\ EndsNow
    /\ rollUp # Null => Summarised(rollUp, vms, runs)

LEMMA Knows ==
    ASSUME NEW kind, NEW gs, NEW was, HostKnown(kind, gs, was)
    PROVE  /\ kind \in {"incus", "libvirt"}
           /\ Truenas!Tellable(kind, gs) /\ Truenas!Tellable(kind, was)
           /\ \A new \in GuestMoves[kind][gs] : HostKnown(kind, new, was)
BY TruenasAssumption DEF HostKnown, Truenas!Assumptions

LEMMA FoundRecords ==
    ASSUME TruenasInv
    PROVE  /\ Records(Found(backend, raw))
           /\ \A g \in raw : Truenas!Tells(backend, g)
<1>1. CASE raw = {}
    <2>1. Found(backend, raw) = {}
        BY <1>1 DEF Found, Truenas!buildVms
    <2> QED BY <1>1, <2>1, FS_EmptySet DEF Records
<1>2. CASE raw = Asked(backend, queried)
    BY <1>2, Knows, Builds DEF TruenasInv, Found
<1> QED BY <1>1, <1>2 DEF TruenasInv, AskedNow

LEMMA TruenasStarts ==
    ASSUME Truenas!Init
    PROVE  TruenasInv
<1> USE DEF Truenas!Init
<1>1. TruenasTyped
    BY TruenasAssumption DEF TruenasTyped, Truenas!Assumptions
<1>2. HostKnown(backend, guests, queried)
    BY TruenasAssumption DEF HostKnown, Truenas!Assumptions
<1>3. VmsTyped(vms, runs)
    <2>1. DOMAIN vms = {}
        OBVIOUS
    <2> QED BY <2>1, FS_EmptySet DEF VmsTyped
<1>4. AskedNow /\ WritesNow /\ EndsNow
    BY DEF AskedNow, WritesNow, EndsNow, Ended
<1> QED BY <1>1, <1>2, <1>3, <1>4 DEF TruenasInv, Active, Ended

LEMMA DiscoverKeeps ==
    ASSUME TruenasInv, Truenas!discover
    PROVE  TruenasInv'
<1> USE DEF Truenas!discover, Truenas!host, Truenas!work, Truenas!store
<1>1. TruenasTyped' /\ HostKnown(backend, guests, queried)' /\ runs \in Nat /\ runs' = runs + 1
    BY TruenasAssumption DEF TruenasInv, TruenasTyped, Truenas!Assumptions
<1>2. VmsTyped(vms, runs)' /\ \A n \in DOMAIN vms : vms[n].run # runs'
    BY <1>1 DEF TruenasInv, VmsTyped
<1>3. AskedNow' /\ WritesNow' /\ EndsNow'
    BY <1>2 DEF TruenasInv, AskedNow, WritesNow, EndsNow, Ended
<1>4. rollUp # Null => Summarised(rollUp, vms, runs')
    BY <1>1 DEF TruenasInv, Summarised
<1>5. Active'
    BY <1>1 DEF Active
<1> QED BY <1>1, <1>2, <1>3, <1>4, <1>5 DEF TruenasInv

LEMMA QueriedKeeps ==
    ASSUME TruenasInv, Truenas!Queried
    PROVE  TruenasInv'
<1> USE DEF Truenas!Queried, Truenas!host, Truenas!store, Truenas!bounds
<1>1. TruenasTyped' /\ HostKnown(backend, guests, queried)' /\ VmsTyped(vms, runs)'
    BY DEF TruenasInv, TruenasTyped, HostKnown
<1>2. AskedNow'
    BY DEF AskedNow, Asked
<1>3. WritesNow' /\ EndsNow'
    BY DEF TruenasInv, WritesNow, EndsNow, Ended
<1>4. Active'
    BY DEF TruenasInv, Active, Ended
<1> QED BY <1>1, <1>2, <1>3, <1>4 DEF TruenasInv

LEMMA InformedKeeps ==
    ASSUME TruenasInv, Truenas!Informed \/ Truenas!InfoFails
    PROVE  TruenasInv'
<1>1. PICK systemInfo : Truenas!GoesOn(systemInfo)
    BY DEF Truenas!Informed, Truenas!InfoFails
<1>2. phase = "info" /\ failures' \in 0 .. MaxErrors
    BY TruenasAssumption DEF TruenasInv, TruenasTyped, Truenas!Assumptions, Truenas!Informed, Truenas!InfoFails
<1> USE DEF Truenas!GoesOn, Truenas!host, Truenas!store
<1>3. /\ phase' = "vm" /\ unwritten' = Found(backend, raw) /\ runs' = runs
      /\ UNCHANGED <<backend, guests, raw, vms, rollUp, outcome, queried>>
    BY <1>1 DEF Found
<1>4. TruenasTyped' /\ HostKnown(backend, guests, queried)' /\ VmsTyped(vms, runs)'
    BY <1>1, <1>2 DEF TruenasInv, TruenasTyped
<1>5. AskedNow' /\ EndsNow'
    BY <1>2, <1>3 DEF TruenasInv, AskedNow, EndsNow, Ended
<1>6. WritesNow'
    <2>1. Writes(vms, unwritten', Found(backend, raw), runs)
        <3>1. \A n \in DOMAIN vms : vms[n].run # runs
            BY <1>2 DEF TruenasInv, WritesNow
        <3> QED BY <1>3, <3>1 DEF Writes, Stands, Names
    <2> QED BY <1>3, <2>1 DEF WritesNow, Ended
<1>7. Active'
    BY <1>2, <1>3 DEF TruenasInv, Active, Ended
<1> QED BY <1>3, <1>4, <1>5, <1>6, <1>7 DEF TruenasInv

\* The record of v, written in run r.
Filed(w, v, r) == [n \in DOMAIN w \cup {NameOf(v)} |-> IF n = NameOf(v) THEN [vm |-> v, run |-> r] ELSE w[n]]

LEMMA Files ==
    ASSUME NEW found, Records(found), NEW w, NEW r \in Nat, r >= 1, VmsTyped(w, r),
           NEW left, Writes(w, left, found, r), NEW v \in left, NEW x, x = Filed(w, v, r)
    PROVE  /\ VmsTyped(x, r) /\ Writes(x, left \ {v}, found, r)
           /\ \A sum : Summarised(sum, w, r) => Summarised(sum, x, r)
<1> DEFINE name == NameOf(v)
<1>1. v \in found /\ Counted(v) /\ left \subseteq found
    BY DEF Writes, Records
<1>2. /\ DOMAIN x = DOMAIN w \cup {name}
      /\ x[name] = [vm |-> v, run |-> r] /\ x[name].vm = v /\ x[name].run = r
      /\ \A n \in DOMAIN w \ {name} : x[n] = w[n]
    BY DEF Filed
<1>3. VmsTyped(x, r)
    <2>1. IsFiniteSet(DOMAIN x)
        BY <1>2, FS_AddElement DEF VmsTyped
    <2> HIDE DEF name
    <2>2. ASSUME NEW n \in DOMAIN x PROVE x[n].run \in 1 .. r /\ Counted(x[n].vm)
        <3>1. CASE n = name
            BY <1>1, <1>2, <3>1
        <3>2. CASE n # name
            BY <1>2, <3>2 DEF VmsTyped
        <3> QED BY <3>1, <3>2
    <2> QED BY <2>1, <2>2 DEF VmsTyped
<1>4. Writes(x, left \ {v}, found, r)
    <2> DEFINE done == found \ left
    <2>1. found \ (left \ {v}) = done \cup {v}
        BY <1>1
    <2>2. Stands(x, done \cup {v})
        <3>1. ASSUME NEW u \in done PROVE x[NameOf(u)].vm = u
            <4>1. NameOf(u) # name
                BY <1>1 DEF Records, NameOf
            <4>2. NameOf(u) \in DOMAIN w
                BY DEF Writes, Names
            <4>3. w[NameOf(u)].vm = u
                BY DEF Writes, Stands
            <4> HIDE DEF name
            <4> QED BY <1>2, <4>1, <4>2, <4>3
        <3> HIDE DEF done
        <3> QED BY <1>2, <3>1 DEF Stands
    <2>3. Names(done \cup {v}) = Names(done) \cup {name}
        BY DEF Names
    <2>4. {n \in DOMAIN x : x[n].run = r} = Names(done) \cup {name}
        <3>1. {n \in DOMAIN w : w[n].run = r} = Names(done)
            BY DEF Writes
        <3> HIDE DEF name, done
        <3> QED BY <1>2, <3>1
    <2> HIDE DEF done, name
    <2> QED BY <1>1, <2>1, <2>2, <2>3, <2>4 DEF Writes
<1>5. ASSUME NEW sum, Summarised(sum, w, r) PROVE Summarised(sum, x, r)
    <2>1. sum.run \in 1 .. r
        BY <1>5 DEF Summarised
    <2> HIDE DEF name
    <2>2. WrittenSince(w, sum.run) \in SUBSET WrittenSince(x, sum.run)
        <3> SUFFICES ASSUME NEW n \in DOMAIN w, w[n].run >= sum.run
                     PROVE  n \in DOMAIN x /\ x[n].run >= sum.run
            BY DEF WrittenSince
        <3>1. CASE n = name
            BY <1>2, <2>1, <3>1
        <3>2. CASE n # name
            BY <1>2, <3>2
        <3> QED BY <3>1, <3>2
    <2>3. IsFiniteSet(WrittenSince(x, sum.run)) /\ IsFiniteSet(WrittenSince(w, sum.run))
        <3>1. WrittenSince(x, sum.run) \in SUBSET (DOMAIN x) /\ WrittenSince(w, sum.run) \in SUBSET (DOMAIN w)
            BY DEF WrittenSince
        <3> QED BY <1>3, <3>1, FS_Subset DEF VmsTyped
    <2>4. Cardinality(WrittenSince(x, sum.run)) >= Cardinality(WrittenSince(w, sum.run))
        BY <2>2, <2>3, FS_Subset
    <2>5. Cardinality(WrittenSince(x, sum.run)) \in Nat /\ Cardinality(WrittenSince(w, sum.run)) \in Nat
        BY <2>3, FS_CardinalityType
    <2>6. sum.of.totalVms \in Nat /\ Cardinality(WrittenSince(w, sum.run)) >= sum.of.totalVms
        BY <1>5 DEF Summarised
    <2>7. Cardinality(WrittenSince(x, sum.run)) >= sum.of.totalVms
        BY <2>4, <2>5, <2>6
    <2> QED BY <1>5, <2>7 DEF Summarised
<1> QED BY <1>3, <1>4, <1>5

LEMMA WriteVmKeeps ==
    ASSUME TruenasInv, Truenas!writeVm
    PROVE  TruenasInv'
<1> USE DEF Truenas!writeVm, Truenas!host, Truenas!bounds
<1>1. PICK v \in unwritten : vms' = Filed(vms, v, runs) /\ unwritten' = unwritten \ {v}
    BY DEF Filed, NameOf
<1>2. /\ phase = "vm" /\ phase' = phase /\ runs' = runs
      /\ UNCHANGED <<backend, guests, raw, info, rollUp, outcome, queried>>
    OBVIOUS
<1> DEFINE found == Found(backend, raw)
<1>3. Records(found) /\ VmsTyped(vms, runs) /\ Writes(vms, unwritten, found, runs)
    BY <1>2, FoundRecords DEF TruenasInv, WritesNow
<1>4. runs \in Nat /\ runs >= 1
    <2>1. runs \in Nat
        BY TruenasAssumption DEF TruenasInv, TruenasTyped, Truenas!Assumptions
    <2>2. CASE runs = 0
        BY <1>2, <2>2 DEF TruenasInv, Active
    <2> QED BY <2>1, <2>2
<1> HIDE DEF found
<1>5. /\ VmsTyped(vms', runs) /\ Writes(vms', unwritten', found, runs)
      /\ \A sum : Summarised(sum, vms, runs) => Summarised(sum, vms', runs)
    BY <1>1, <1>3, <1>4, Files
<1>6. TruenasTyped' /\ HostKnown(backend, guests, queried)'
    BY DEF TruenasInv, TruenasTyped
<1>7. AskedNow' /\ WritesNow' /\ EndsNow'
    BY <1>2, <1>5 DEF TruenasInv, AskedNow, WritesNow, EndsNow, Ended, found
<1> QED BY <1>2, <1>5, <1>6, <1>7 DEF TruenasInv, Active, Ended

LEMMA WriteSummaryKeeps ==
    ASSUME TruenasInv, Truenas!writeSummary
    PROVE  TruenasInv'
<1> USE DEF Truenas!writeSummary, Truenas!host, Truenas!work, Truenas!bounds, Truenas!Written
<1> DEFINE found == Found(backend, raw)
           sum == [of |-> Truenas!buildSummary(found, info), run |-> runs]
<1>1. /\ phase = "vm" /\ unwritten = {} /\ phase' = "idle" /\ outcome' = "ok" /\ rollUp' = sum
      /\ UNCHANGED <<backend, guests, raw, info, unwritten, vms, queried, runs>>
    BY DEF Found
<1>2. Records(found) /\ VmsTyped(vms, runs) /\ Writes(vms, unwritten, found, runs)
    BY <1>1, FoundRecords DEF TruenasInv, WritesNow
<1>3. runs \in Nat /\ runs >= 1
    BY <1>1, TruenasAssumption DEF TruenasInv, TruenasTyped, Active, Truenas!Assumptions
<1>4. Summarised(sum, vms, runs)
    <2>1. WrittenSince(vms, runs) = Names(found)
        <3>1. found \ unwritten = found
            BY <1>1
        <3>2. {n \in DOMAIN vms : vms[n].run = runs} = Names(found)
            BY <1>2, <3>1 DEF Writes
        <3>3. \A n \in DOMAIN vms : vms[n].run \in 1 .. runs
            BY <1>2 DEF VmsTyped
        <3>4. \A n \in DOMAIN vms : vms[n].run >= runs <=> vms[n].run = runs
            BY <1>3, <3>3
        <3> QED BY <3>2, <3>4 DEF WrittenSince
    <2>2. Cardinality(Names(found)) = Cardinality(found) /\ Cardinality(found) \in Nat
        BY <1>2, NamesMatch
    <2>3. /\ sum.run = runs
          /\ sum.of.totalVms = Truenas!Cardinality(found)
          /\ sum.of.runningCount = Truenas!CountOf(found, {"running"})
          /\ sum.of.stoppedCount = Truenas!CountOf(found, {"stopped"})
          /\ sum.of.otherCount = Truenas!CountOf(found, {"suspended", "unknown"})
        BY DEF Truenas!buildSummary
    <2> HIDE DEF found, sum
    <2>4. sum.of.totalVms = Cardinality(found)
        BY <2>3, SameCount
    <2>5. sum.of.runningCount + sum.of.stoppedCount + sum.of.otherCount = sum.of.totalVms
        BY <1>2, <2>3, StatesAddUp
    <2> QED BY <1>3, <2>1, <2>2, <2>3, <2>4, <2>5 DEF Summarised
<1> HIDE DEF found, sum
<1>5. TruenasTyped' /\ HostKnown(backend, guests, queried)' /\ VmsTyped(vms, runs)'
    BY <1>1 DEF TruenasInv, TruenasTyped
<1>6. AskedNow' /\ WritesNow' /\ EndsNow'
    BY <1>1, <1>2 DEF TruenasInv, AskedNow, WritesNow, EndsNow, Ended, found, sum
<1> QED BY <1>1, <1>3, <1>4, <1>5, <1>6 DEF TruenasInv, Active

LEMMA TruenasFails ==
    ASSUME TruenasInv, Truenas!Fails
    PROVE  TruenasInv'
<1> USE DEF Truenas!Fails, Truenas!host, Truenas!work, Truenas!store
<1>1. phase' = "idle" /\ outcome' = "failed"
      /\ UNCHANGED <<backend, guests, raw, info, unwritten, vms, rollUp, queried, runs>>
    OBVIOUS
<1>2. TruenasTyped' /\ HostKnown(backend, guests, queried)' /\ VmsTyped(vms, runs)'
    BY <1>1, TruenasAssumption DEF TruenasInv, TruenasTyped, Truenas!Assumptions
<1>3. AskedNow' /\ WritesNow' /\ EndsNow'
    BY <1>1 DEF TruenasInv, AskedNow, WritesNow, EndsNow, Ended
<1> QED BY <1>1, <1>2, <1>3 DEF TruenasInv, Active, Ended

LEMMA HostChangeKeeps ==
    ASSUME TruenasInv, Truenas!HostChanges
    PROVE  TruenasInv'
<1> USE DEF Truenas!HostChanges, Truenas!work, Truenas!store
<1>1. UNCHANGED <<backend, phase, outcome, raw, info, unwritten, vms, rollUp, queried, runs>>
    OBVIOUS
<1>2. TruenasTyped' /\ VmsTyped(vms, runs)'
    BY <1>1, TruenasAssumption DEF TruenasInv, TruenasTyped, Truenas!Assumptions
<1>3. HostKnown(backend, guests, queried)'
    BY <1>1, Knows DEF TruenasInv
<1>4. AskedNow' /\ WritesNow' /\ EndsNow'
    BY <1>1 DEF TruenasInv, AskedNow, WritesNow, EndsNow, Ended
<1> QED BY <1>1, <1>2, <1>3, <1>4 DEF TruenasInv, Active, Ended

LEMMA TruenasTypes ==
    ASSUME TruenasInv
    PROVE  Truenas!TypeOK
<1>1. runs \in Nat /\ MaxRuns \in Nat /\ runs <= MaxRuns
    BY TruenasAssumption DEF TruenasInv, TruenasTyped, Truenas!Assumptions
<1>2. \A n \in DOMAIN vms : vms[n].run \in 1 .. MaxRuns
    BY <1>1 DEF TruenasInv, VmsTyped
<1>3. \A n \in DOMAIN vms : Counted(vms[n].vm)
    BY DEF TruenasInv, VmsTyped
<1>4. rollUp # Null => rollUp.of.totalVms \in Nat /\ rollUp.run \in 1 .. MaxRuns
    BY <1>1 DEF TruenasInv, Summarised
<1> QED BY <1>2, <1>3, <1>4 DEF TruenasInv, TruenasTyped, Counted, Truenas!TypeOK

LEMMA FreshNames ==
    ASSUME TruenasInv, Ended
    PROVE  /\ Truenas!Fresh = Names(Found(backend, raw)) /\ Stands(vms, Found(backend, raw))
           /\ raw = Asked(backend, queried)
<1>1. Writes(vms, unwritten, Found(backend, raw), runs) /\ unwritten = {}
    BY DEF TruenasInv, WritesNow, EndsNow
<1>2. Found(backend, raw) \ unwritten = Found(backend, raw)
    BY <1>1
<1> QED BY <1>1, <1>2 DEF TruenasInv, AskedNow, Writes, Truenas!Fresh

LEMMA TruenasDiscovers ==
    ASSUME TruenasInv
    PROVE  Truenas!DiscoveredAll
<1> SUFFICES ASSUME Ended PROVE Truenas!DiscoveredAll
    BY DEF Truenas!DiscoveredAll, Ended
<1> DEFINE found == Found(backend, raw)
<1>1. Truenas!Fresh = Names(found) /\ Stands(vms, found) /\ raw = Asked(backend, queried)
    BY FreshNames
<1>2. {vms[n].vm : n \in Names(found)} = found
    <2> HIDE DEF found
    <2> QED BY <1>1 DEF Names, Stands
<1>3. backend \in {"incus", "libvirt"}
    BY DEF TruenasInv, HostKnown
<1>4. raw = {h \in Truenas!Range1(queried) : Truenas!IsVm(backend, h)}
    BY <1>1, <1>3, AskedAreVms DEF Asked
<1>5. found = {Truenas!parseOne(backend, g) : g \in raw}
    BY DEF Found, Truenas!buildVms
<1> HIDE DEF found
<1> QED BY <1>1, <1>2, <1>4, <1>5 DEF Truenas!DiscoveredAll

LEMMA TruenasSums ==
    ASSUME TruenasInv
    PROVE  Truenas!SummaryTrue
<1> SUFFICES ASSUME rollUp # Null PROVE Truenas!SummaryTrue
    BY DEF Truenas!SummaryTrue
<1>1. Summarised(rollUp, vms, runs)
    BY DEF TruenasInv
<1>2. Truenas!Cardinality({n \in DOMAIN vms : vms[n].run >= rollUp.run}) >= rollUp.of.totalVms
    BY <1>1, SameCount DEF Summarised, WrittenSince
<1>3. ASSUME Ended
      PROVE  /\ rollUp.of.totalVcpus = RecordSum(vms, Truenas!Fresh, "vcpus")
             /\ rollUp.of.totalMemoryMib = RecordSum(vms, Truenas!Fresh, "memoryMib")
    <2> DEFINE found == Found(backend, raw)
    <2>1. Truenas!Fresh = Names(found) /\ Stands(vms, found) /\ Records(found)
        BY <1>3, FreshNames, FoundRecords
    <2>2. rollUp = [of |-> Truenas!buildSummary(found, info), run |-> runs]
        BY <1>3 DEF TruenasInv, EndsNow
    <2> HIDE DEF found
    <2>3. rollUp.of.totalVcpus = Truenas!Total(found, "vcpus")
          /\ rollUp.of.totalMemoryMib = Truenas!Total(found, "memoryMib")
        BY <2>2 DEF Truenas!buildSummary
    <2>4. /\ Truenas!Total(found, "vcpus") = RecordSum(vms, Names(found), "vcpus")
          /\ Truenas!Total(found, "memoryMib") = RecordSum(vms, Names(found), "memoryMib")
        BY <2>1, TotalsAgree
    <2> QED BY <2>1, <2>3, <2>4
<1>4. rollUp.of.runningCount + rollUp.of.stoppedCount + rollUp.of.otherCount = rollUp.of.totalVms
    BY <1>1 DEF Summarised
<1> QED BY <1>2, <1>3, <1>4 DEF Truenas!SummaryTrue, Ended, RecordSum

LEMMA TruenasCountsCpus ==
    ASSUME TruenasInv
    PROVE  Truenas!CpusCounted
<1> SUFFICES ASSUME backend = "incus", NEW g \in raw,
                    g.limits.cpu # Null, g.limits.cpu.kind = "set"
             PROVE  Truenas!parseCpuCount(g.limits.cpu) \in {Truenas!Cardinality(Pinned(g.limits.cpu.toks)), Null}
    BY DEF Truenas!CpusCounted, Pinned
<1> DEFINE v == g.limits.cpu
<1>1. Truenas!CpuLimit(v)
    BY FoundRecords, SMTT(30) DEF Truenas!Tells
<1>2. v.toks \in Seq(Nat \X Nat)
      /\ \A i, j \in DOMAIN v.toks :
           i # j => (v.toks[i][1] .. v.toks[i][2]) \cap (v.toks[j][1] .. v.toks[j][2]) = {}
    BY <1>1 DEF Truenas!CpuLimit
<1>3. Truenas!parseCpuCount(v) \in {Cardinality(Pinned(v.toks)), Null}
    BY <1>2, SetsCounted
<1> QED BY <1>3, SameCount

\* A TrueNAS inventory that completes has one record for each VM there was, whatever its
\* limits are written like; its roll-up adds these up, and never stands for records that
\* are not there: for any host whose VMs have names apart and sets of CPUs without repeats,
\* whatever fails and whatever becomes of the guests meanwhile.
THEOREM TruenasInventoriesAreTrue == InventoriesSpec => []TruenasTrue
<1> DEFINE Stated == part = "truenas" => TruenasInv
<1>1. InventoriesInit => Stated
    BY TruenasStarts DEF InventoriesInit
<1>2. Stated /\ [InventoriesNext]_workVars => Stated'
    <2> SUFFICES ASSUME Stated, [InventoriesNext]_workVars, (part = "truenas")' PROVE TruenasInv'
        OBVIOUS
    <2>1. CASE UNCHANGED workVars
        <3>1. TruenasInv /\ UNCHANGED <<failures, runs, changes, phase, truenasVars>>
            BY <2>1 DEF workVars, shared, vars, counters, truenasVars
        <3> QED BY <3>1 DEF TruenasInv, TruenasTyped, AskedNow, WritesNow, EndsNow, Active, Ended, truenasVars
    <2>2. CASE part = "truenas" /\ Truenas!Next
        <3>1. TruenasInv
            BY <2>2
        <3> QED BY <2>2, <3>1, DiscoverKeeps, QueriedKeeps, InformedKeeps, WriteVmKeeps, WriteSummaryKeeps,
                   TruenasFails, HostChangeKeeps DEF Truenas!Next
    <2>3. CASE part # "truenas" /\ UNCHANGED part
        BY <2>3
    <2> QED BY <2>1, <2>2, <2>3 DEF InventoriesNext
<1>3. Stated => TruenasTrue
    BY TruenasTypes, TruenasDiscovers, TruenasSums, TruenasCountsCpus DEF TruenasTrue
<1> QED BY <1>1, <1>2, <1>3, PTL DEF InventoriesSpec

-----------------------------------------------------------------------------
(* What is merged of the answers of an Omni fleet.                         *)

Enrolled(told) == DOMAIN told["machinestatus"]
Grouped(told) == DOMAIN told["cluster"]

LEMMA SameCountOmni == \A s : Omni!Cardinality(s) = Cardinality(s) /\ (Omni!IsFiniteSet(s) <=> IsFiniteSet(s))
BY DEF Omni!Cardinality, Omni!IsFiniteSet, Cardinality, IsFiniteSet

LEMMA NodeIs ==
    ASSUME NEW told, NEW m, NEW at
    PROVE  /\ Omni!buildNode(told, m, at).id = m /\ Omni!buildNode(told, m, at).at = at
           /\ Omni!buildNode(told, m, at).cluster = told["machinestatus"][m].cluster
           /\ Omni!buildNode(told, m, at).stage =
                 IF m \in DOMAIN told["clustermachinestatus"]
                 THEN Omni!decodeStage(told["clustermachinestatus"][m].stage) ELSE "unassigned"
BY DEF Omni!buildNode

LEMMA NodesAre ==
    ASSUME NEW told, NEW at
    PROVE  /\ \A n \in Omni!Nodes(told, at) :
                 n.id \in Enrolled(told) /\ n.at = at /\ n = Omni!buildNode(told, n.id, at)
           /\ \A m \in Enrolled(told) : \E n \in Omni!Nodes(told, at) : n.id = m
<1>1. ASSUME NEW n \in Omni!Nodes(told, at)
      PROVE  n.id \in Enrolled(told) /\ n.at = at /\ n = Omni!buildNode(told, n.id, at)
    <2>1. PICK m \in Enrolled(told) : n = Omni!buildNode(told, m, at)
        BY DEF Omni!Nodes, Enrolled
    <2> QED BY <2>1, NodeIs
<1>2. ASSUME NEW m \in Enrolled(told)
      PROVE  \E n \in Omni!Nodes(told, at) : n.id = m
    <2>1. Omni!buildNode(told, m, at) \in Omni!Nodes(told, at)
        BY DEF Omni!Nodes, Enrolled
    <2> QED BY <2>1, NodeIs
<1> QED BY <1>1, <1>2

LEMMA MergedIs ==
    ASSUME NEW told, NEW at
    PROVE  LET I == Omni!mergeInventory(told, at)
               N == Omni!Nodes(told, at)
           IN  /\ DOMAIN I = {"nodes", "clusters", "summary"} /\ I.nodes = N
               /\ I.clusters = {Omni!ClusterRecord(N, name, at) : name \in Grouped(told)}
               /\ I.summary.totalNodes = Cardinality(N)
               /\ I.summary.notes = Omni!Notes(told, N)
               /\ I.summary.at = at
BY SameCountOmni DEF Omni!mergeInventory, Grouped

LEMMA ClusterIs ==
    ASSUME NEW N, NEW name, NEW at
    PROVE  LET r == Omni!ClusterRecord(N, name, at)
           IN  r.name = name /\ r.at = at /\ r.machineCount = Cardinality(Omni!Members(N, name))
BY SameCountOmni DEF Omni!ClusterRecord

\* One node for each machine that has a status.
LEMMA NodesCounted ==
    ASSUME NEW told, NEW at, IsFiniteSet(Enrolled(told))
    PROVE  /\ IsFiniteSet(Omni!Nodes(told, at))
           /\ Cardinality(Omni!Nodes(told, at)) = Cardinality(Enrolled(told))
<1> DEFINE N == Omni!Nodes(told, at)
           b == [m \in Enrolled(told) |-> Omni!buildNode(told, m, at)]
<1>1. \A m \in Enrolled(told) : b[m] \in N /\ b[m].id = m
    BY NodeIs DEF Omni!Nodes, Enrolled
<1>2. \A n \in N : \E m \in Enrolled(told) : b[m] = n
    BY NodesAre
<1>3. b \in [Enrolled(told) -> N]
    BY <1>1
<1> HIDE DEF b, N
<1>4. b \in Bijection(Enrolled(told), N)
    BY <1>1, <1>2, <1>3 DEF Bijection, Injection, Surjection, IsInjective
<1> QED BY <1>4, FS_Bijection DEF ExistsBijection, N

\* A run has written all nodes, or all clusters, but those it has yet to write.
NodesWritten(w, rest, merge, r) ==
    /\ rest \subseteq merge.nodes
    /\ \A n \in merge.nodes \ rest : n.id \in DOMAIN w /\ w[n.id] = n
    /\ \A m \in DOMAIN w : w[m].at = r => w[m] \in merge.nodes \ rest
ClustersWritten(w, rest, merge, r) ==
    /\ rest \subseteq merge.clusters
    /\ \A c \in merge.clusters \ rest : Slug[c.name] \in DOMAIN w /\ w[Slug[c.name]].at = r
    /\ \A s \in DOMAIN w : w[s].at = r => w[s] \in merge.clusters \ rest
NodesTyped(w, r) ==
    DOMAIN w \subseteq Machines /\ \A m \in DOMAIN w : w[m].id = m /\ w[m].at \in 1 .. r
ClustersTyped(w, r) == \A s \in DOMAIN w : Slug[w[s].name] = s /\ w[s].at \in 1 .. r

AnswersTyped(a) ==
    /\ DOMAIN a \subseteq Omni!Queries
    /\ "machinestatus" \in DOMAIN a => Enrolled(a) \subseteq Machines
    /\ "cluster" \in DOMAIN a => Grouped(a) \subseteq Clusters

-----------------------------------------------------------------------------
(* The counts of the clusters' records.                                    *)

Own(w, r) == {c \in DOMAIN Slug : \E s \in DOMAIN w : w[s].name = c /\ w[s].at = r}
MachineSum(w, own) == Omni!MapThenSumSet(LAMBDA c : w[Slug[c]].machineCount, own)
MachineCounts(w, own) == [c \in own |-> w[Slug[c]].machineCount]
SumsMachines(it, w, own) ==
    it = [s \in SUBSET own |-> IF s = {} THEN 0 ELSE w[Slug[Some(s)]].machineCount + it[s \ {Some(s)}]]

LEMMA MachinesSummed ==
    ASSUME NEW w, NEW own, NEW some, SumsMachines(some, w, own)
    PROVE  \E it : SumsMachines(it, w, own) /\ MachineSum(w, own) = it[own]
<1> DEFINE it == CHOOSE i : SumsMachines(i, w, own)
<1>1. SumsMachines(it, w, own)
    OBVIOUS
<1>2. MachineSum(w, own) = it[own]
    BY DEF SumsMachines, Some, MachineSum, Omni!MapThenSumSet, Omni!MapThenFoldSet
<1> HIDE DEF it
<1> QED BY <1>1, <1>2

LEMMA MachineCountsAre ==
    ASSUME NEW w, NEW own, NEW it
    PROVE  SumsMachines(it, w, own) <=> Sums(it, MachineCounts(w, own), own)
<1>1. ASSUME NEW s \in SUBSET own, s # {}
      PROVE  MachineCounts(w, own)[Some(s)] = w[Slug[Some(s)]].machineCount
    BY <1>1 DEF Some, MachineCounts
<1> QED BY <1>1 DEF SumsMachines, Sums, Summed

\* The records of this run's clusters that are still there are those of the merge.
LEMMA OwnAre ==
    ASSUME NEW told, NEW r, NEW w, ClustersTyped(w, r),
           ClustersWritten(w, {}, Omni!mergeInventory(told, r), r),
           NEW c \in Own(w, r)
    PROVE  /\ Slug[c] \in DOMAIN w /\ c \in Grouped(told)
           /\ w[Slug[c]].name = c
           /\ w[Slug[c]].machineCount = Cardinality(Omni!Members(Omni!Nodes(told, r), c))
<1> DEFINE N == Omni!Nodes(told, r)
<1>1. PICK s \in DOMAIN w : w[s].name = c /\ w[s].at = r
    BY DEF Own
<1>2. s = Slug[c]
    BY <1>1 DEF ClustersTyped
<1>3. w[s] \in {Omni!ClusterRecord(N, name, r) : name \in Grouped(told)}
    BY <1>1, MergedIs DEF ClustersWritten
<1>4. PICK name \in Grouped(told) : w[s] = Omni!ClusterRecord(N, name, r)
    BY <1>3
<1> HIDE DEF N
<1>5. name = c /\ w[s].machineCount = Cardinality(Omni!Members(N, c))
    BY <1>1, <1>4, ClusterIs
<1> QED BY <1>1, <1>2, <1>4, <1>5 DEF N

LEMMA MachinesCounted ==
    ASSUME NEW told, NEW r, NEW w, ClustersTyped(w, r),
           ClustersWritten(w, {}, Omni!mergeInventory(told, r), r),
           IsFiniteSet(Enrolled(told))
    PROVE  LET U == UNION {Omni!Members(Omni!Nodes(told, r), c) : c \in Own(w, r)}
           IN  IsFiniteSet(U) /\ MachineSum(w, Own(w, r)) = Cardinality(U)
<1> DEFINE N == Omni!Nodes(told, r)
           own == Own(w, r)
           members == [c \in own |-> Omni!Members(N, c)]
           counts == MachineCounts(w, own)
<1>1. IsFiniteSet(own)
    <2>1. own \in SUBSET Clusters
        BY OmniAssumption DEF Own, Omni!Assumptions
    <2>2. IsFiniteSet(Clusters)
        BY OmniAssumption, SameCountOmni DEF Omni!Assumptions
    <2> HIDE DEF own
    <2> QED BY <2>1, <2>2, FS_Subset
<1>2. IsFiniteSet(N)
    BY NodesCounted
<1>3. \A c \in own : counts[c] = Cardinality(members[c])
    BY OwnAre DEF MachineCounts
<1>4. \A c \in own : members[c] \in SUBSET N
    BY DEF Omni!Members
<1>5. \A c, d \in own : c # d => members[c] \cap members[d] = {}
    BY DEF Omni!Members
<1>6. Joined(members, own) = UNION {Omni!Members(N, c) : c \in own}
    BY DEF Joined
<1> HIDE DEF own, counts, members, N
<1>7. Apart(members, own) /\ Sizes(counts, members, own)
    BY <1>2, <1>3, <1>4, <1>5, FS_Subset DEF Apart, Sizes
<1>8. PICK first : Sums(first, counts, own)
    BY <1>1, SumsExist
<1>9. PICK it : SumsMachines(it, w, own) /\ MachineSum(w, own) = it[own]
    <2>1. SumsMachines(first, w, own)
        BY <1>8, MachineCountsAre DEF counts
    <2> QED BY <2>1, MachinesSummed
<1>10. Sums(it, counts, own)
    BY <1>9, MachineCountsAre DEF counts
<1>11. it[own] = Cardinality(Joined(members, own)) /\ IsFiniteSet(Joined(members, own))
    BY <1>1, <1>7, <1>10, SumsCount
<1> QED BY <1>6, <1>9, <1>11 DEF own, N

Hidden(N, own) ==
    {n \in N : \E c \in Clusters :
        n.cluster # c /\ n.cluster \in Clusters /\ Slug[c] = Slug[n.cluster] /\ c \in own}
Noted(N, notes) == {n \in N : <<"unknown-cluster", n.id>> \in notes}
Free(N) == {n \in N : n.cluster = Null}

LEMMA NotedAre ==
    ASSUME NEW told, NEW r
    PROVE  LET N == Omni!Nodes(told, r)
           IN  \A n \in N : n \in Noted(N, Omni!Notes(told, N)) <=> n.cluster \notin Grouped(told) \cup {Null}
<1> DEFINE N == Omni!Nodes(told, r)
<1>1. \A n, o \in N : n.id = o.id => n = o
    BY NodesAre
<1> HIDE DEF N
<1> SUFFICES ASSUME NEW n \in N
             PROVE  n \in Noted(N, Omni!Notes(told, N)) <=> n.cluster \notin Grouped(told) \cup {Null}
    BY DEF N
<1>2. ASSUME n \in Noted(N, Omni!Notes(told, N)) PROVE n.cluster \notin Grouped(told) \cup {Null}
    <2>1. <<"unknown-cluster", n.id>> \in Omni!Notes(told, N)
        BY <1>2 DEF Noted
    <2>2. CASE <<"unknown-cluster", n.id>>
               \in {<<"unknown-cluster", o.id>> : o \in {p \in N : p.cluster \notin DOMAIN told["cluster"] \cup {Null}}}
        <3>1. PICK o \in N : o.cluster \notin DOMAIN told["cluster"] \cup {Null} /\ o.id = n.id
            BY <2>2
        <3> QED BY <1>1, <3>1 DEF Grouped
    <2>3. CASE <<"unknown-cluster", n.id>>
               \in {<<"no-status", o.id>> : o \in {p \in N : p.cluster # Null /\ p.stage = "unassigned"}}
        BY <2>3
    <2> QED BY <2>1, <2>2, <2>3 DEF Omni!Notes
<1>3. ASSUME n.cluster \notin Grouped(told) \cup {Null} PROVE n \in Noted(N, Omni!Notes(told, N))
    BY <1>3 DEF Noted, Omni!Notes, Grouped
<1> QED BY <1>2, <1>3

\* A machine is counted by the record of its cluster, or it is in none, its cluster was not
\* returned, or the record was written over by that of a cluster of the same slug.
LEMMA CountsAdd ==
    ASSUME NEW told, NEW r, NEW w, ClustersTyped(w, r),
           ClustersWritten(w, {}, Omni!mergeInventory(told, r), r),
           IsFiniteSet(Enrolled(told)), Grouped(told) \subseteq Clusters
    PROVE  LET N == Omni!Nodes(told, r)
               own == Own(w, r)
           IN  MachineSum(w, own)
                  = Cardinality(N)
                    - Cardinality(Hidden(N, own) \cup Noted(N, Omni!Notes(told, N)) \cup Free(N))
<1> DEFINE N == Omni!Nodes(told, r)
           own == Own(w, r)
           U == UNION {Omni!Members(N, c) : c \in own}
           rest == Hidden(N, own) \cup Noted(N, Omni!Notes(told, N)) \cup Free(N)
<1>1. IsFiniteSet(U) /\ MachineSum(w, own) = Cardinality(U)
    BY MachinesCounted
<1>2. \A c \in own : Slug[c] \in DOMAIN w /\ c \in Grouped(told) /\ w[Slug[c]].name = c
    BY OwnAre
<1>3. \A name \in Grouped(told) :
          Slug[name] \in DOMAIN w /\ w[Slug[name]].name \in own /\ Slug[w[Slug[name]].name] = Slug[name]
    <2> SUFFICES ASSUME NEW name \in Grouped(told)
                 PROVE  Slug[name] \in DOMAIN w /\ w[Slug[name]].name \in own /\ Slug[w[Slug[name]].name] = Slug[name]
        OBVIOUS
    <2> DEFINE c == Omni!ClusterRecord(N, name, r)
    <2>1. c \in Omni!mergeInventory(told, r).clusters /\ c.name = name
        BY MergedIs, ClusterIs
    <2> HIDE DEF c, N, own
    <2>2. Slug[name] \in DOMAIN w /\ w[Slug[name]].at = r
        BY <2>1 DEF ClustersWritten
    <2>3. Slug[w[Slug[name]].name] = Slug[name]
        BY <2>2 DEF ClustersTyped
    <2>4. w[Slug[name]] \in Omni!mergeInventory(told, r).clusters
        BY <2>2 DEF ClustersWritten
    <2>5. w[Slug[name]].name \in Grouped(told)
        <3>1. PICK d \in Grouped(told) : w[Slug[name]] = Omni!ClusterRecord(N, d, r)
            BY <2>4, MergedIs DEF N
        <3> QED BY <3>1, ClusterIs
    <2>6. DOMAIN Slug = Clusters
        BY OmniAssumption DEF Omni!Assumptions
    <2>7. w[Slug[name]].name \in own
        BY <2>2, <2>5, <2>6 DEF own, Own
    <2> QED BY <2>2, <2>3, <2>7
<1>4. Null \notin Clusters /\ own \subseteq Clusters
    BY OmniAssumption DEF Omni!Assumptions, Own
<1>5. \A n \in N : n \in Noted(N, Omni!Notes(told, N)) <=> n.cluster \notin Grouped(told) \cup {Null}
    BY NotedAre
<1>6. \A n \in N : n \in U <=> n.cluster \in own
    BY DEF Omni!Members
<1>7. U \subseteq N /\ rest \subseteq N
    BY DEF Omni!Members, Hidden, Noted, Free
<1>8. \A n \in N : n \in Free(N) <=> n.cluster = Null
    BY DEF Free
<1> HIDE DEF own, U
<1>9. \A n \in N : n \in Hidden(N, own) <=>
         \E c \in Clusters : n.cluster # c /\ n.cluster \in Clusters /\ Slug[c] = Slug[n.cluster] /\ c \in own
    BY DEF Hidden
<1> HIDE DEF N
<1>10. ASSUME NEW n \in N PROVE n \in rest <=> n \notin U
    <2>1. CASE n.cluster = Null
        BY <1>4, <1>6, <1>8, <2>1
    <2>2. CASE n.cluster \notin Grouped(told) \cup {Null}
        BY <1>2, <1>5, <1>6, <2>2
    <2>3. CASE n.cluster \in Grouped(told)
        <3>1. n \notin Free(N) /\ n \notin Noted(N, Omni!Notes(told, N)) /\ n.cluster \in Clusters
            BY <1>4, <1>5, <1>8, <2>3
        <3>2. ASSUME n \in Hidden(N, own), n.cluster \in own PROVE FALSE
            <4>1. PICK c \in own : n.cluster # c /\ Slug[c] = Slug[n.cluster]
                BY <1>9, <3>2
            <4> QED BY <1>2, <3>2, <4>1
        <3>3. ASSUME n.cluster \notin own PROVE n \in Hidden(N, own)
            <4>1. w[Slug[n.cluster]].name \in own /\ Slug[w[Slug[n.cluster]].name] = Slug[n.cluster]
                BY <1>3, <2>3
            <4> QED BY <1>4, <1>9, <3>1, <3>3, <4>1
        <3> QED BY <1>6, <3>1, <3>2, <3>3
    <2> QED BY <2>1, <2>2, <2>3
<1> HIDE DEF rest
<1>11. N \ U = rest /\ N \cap U = U
    BY <1>7, <1>10
<1>12. IsFiniteSet(N)
    BY NodesCounted DEF N
<1>13. Cardinality(rest) = Cardinality(N) - Cardinality(U)
    <2>1. Cardinality(N \ U) = Cardinality(N) - Cardinality(N \cap U)
        BY <1>12, FS_Difference
    <2> DEFINE D == N \ U
               C == N \cap U
    <2>2. D = rest /\ C = U /\ Cardinality(D) = Cardinality(N) - Cardinality(C)
        BY <1>11, <2>1
    <2> HIDE DEF D, C
    <2> QED BY <2>2
<1>14. Cardinality(N) \in Nat /\ Cardinality(U) \in Nat
    BY <1>1, <1>12, FS_CardinalityType
<1>15. MachineSum(w, own) = Cardinality(N) - Cardinality(rest)
    BY <1>1, <1>13, <1>14
<1> QED BY <1>15 DEF rest, own, N

-----------------------------------------------------------------------------
(* A discovery of an Omni fleet.                                           *)

Unwritten(w, r) == \A x \in DOMAIN w : w[x].at # r
Answered(a, resources, present, same) ==
    /\ AnswersTyped(a)
    /\ present \subseteq Enrolled(resources)
    /\ "machinestatus" \in DOMAIN a => present \subseteq Enrolled(a)
    /\ same => \A q \in DOMAIN a : a[q] = resources[q]
MergedOf(a, merge, r) == DOMAIN a = Omni!Queries /\ merge = Omni!mergeInventory(a, r)

\* The summary is of as many records as there are of its run, and none is later.
Backed(w, sum) ==
    /\ Cardinality({m \in DOMAIN w : w[m].at = sum.at}) = sum.totalNodes
    /\ \A m \in DOMAIN w : w[m].at <= sum.at

OmniTyped ==
    /\ runs \in Nat /\ phase \in {"idle", "querying", "writing"} /\ (phase # "idle" => runs # 0)
    /\ DOMAIN toWrite = {"nodes", "clusters", "summary"}
    /\ Omni!Holdable(omni)
    /\ NodesTyped(nodes, runs) /\ ClustersTyped(clusters, runs)
    /\ toWrite.nodes \subseteq merged.nodes /\ toWrite.clusters \subseteq merged.clusters
    /\ omniSummary # Null => omniSummary.at \in 1 .. runs
Summarising == omniSummary # Null => omniSummary.at # runs
Querying ==
    phase = "querying" => Unwritten(nodes, runs) /\ Unwritten(clusters, runs) /\ Summarising
Writing ==
    phase = "writing" =>
       /\ MergedOf(answers, merged, runs) /\ Summarising /\ toWrite.summary = merged.summary
       /\ NodesWritten(nodes, toWrite.nodes, merged, runs)
       /\ ClustersWritten(clusters, toWrite.clusters, merged, runs)
Completing ==
    Omni!Completed =>
       /\ MergedOf(answers, merged, runs) /\ omniSummary = merged.summary
       /\ NodesWritten(nodes, {}, merged, runs) /\ ClustersWritten(clusters, {}, merged, runs)
Lately == phase = "querying" /\ omniSummary # Null /\ omniSummary.at = runs - 1

OmniInv ==
    /\ OmniTyped /\ Answered(answers, omni, registered, still)
    /\ Querying /\ Writing /\ Completing
    /\ Omni!Completed \/ Lately => Backed(nodes, omniSummary)

LEMMA OmniStarts ==
    ASSUME Omni!Init PROVE OmniInv
<1> USE DEF Omni!Init
<1>1. Omni!Holdable(omni)
    BY OmniAssumption DEF Omni!Assumptions
<1>2. OmniTyped
    BY <1>1 DEF OmniTyped, Omni!Empty, Omni!Nothing, NodesTyped, ClustersTyped
<1>3. Answered(answers, omni, registered, still)
    BY DEF Answered, AnswersTyped, Omni!Empty
<1> QED BY <1>2, <1>3 DEF OmniInv, Querying, Writing, Completing, Lately, Omni!Completed

LEMMA DiscoverOmniKeeps ==
    ASSUME OmniInv, Omni!Discover PROVE OmniInv'
<1> USE DEF Omni!Discover, Omni!stored
<1>1. /\ phase = "idle" /\ phase' = "querying" /\ runs' = runs + 1
      /\ UNCHANGED <<omni, nodes, clusters, omniSummary>>
    OBVIOUS
<1>2. runs \in Nat /\ NodesTyped(nodes, runs) /\ ClustersTyped(clusters, runs)
    BY DEF OmniInv, OmniTyped
<1>3. NodesTyped(nodes, runs') /\ ClustersTyped(clusters, runs')
    BY <1>1, <1>2 DEF NodesTyped, ClustersTyped
<1>4. Unwritten(nodes, runs') /\ Unwritten(clusters, runs')
    BY <1>1, <1>2 DEF NodesTyped, ClustersTyped, Unwritten
<1>5. OmniTyped'
    BY <1>1, <1>2, <1>3 DEF OmniInv, OmniTyped, Omni!Nothing
<1>6. Summarising'
    BY <1>1, <1>2 DEF OmniInv, OmniTyped, Summarising
<1>7. Answered(answers, omni, registered, still)'
    BY DEF Answered, AnswersTyped, Omni!Empty, Enrolled
<1>8. ASSUME Lately' PROVE Backed(nodes, omniSummary)'
    <2>1. Omni!Completed
        BY <1>1, <1>2, <1>8 DEF Lately, Omni!Completed
    <2> QED BY <1>1, <2>1 DEF OmniInv
<1> QED BY <1>1, <1>4, <1>5, <1>6, <1>7, <1>8 DEF OmniInv, Querying, Writing, Completing, Omni!Completed

LEMMA QueryAnsweredKeeps ==
    ASSUME OmniInv, NEW q \in Omni!Queries, Omni!QueryAnswered(q) PROVE OmniInv'
<1> USE DEF Omni!QueryAnswered, Omni!stored, Omni!history
<1>1. /\ phase = "querying" /\ q \notin DOMAIN answers /\ answers' = Omni!Put(answers, q, omni[q])
      /\ UNCHANGED <<omni, phase, merged, toWrite, nodes, clusters, omniSummary, registered, still, runs>>
    OBVIOUS
<1>2. Omni!Holdable(omni) /\ Answered(answers, omni, registered, still)
    BY DEF OmniInv, OmniTyped
<1>3. DOMAIN answers' = DOMAIN answers \cup {q} /\ answers'[q] = omni[q]
      /\ \A x \in DOMAIN answers : answers'[x] = answers[x]
    <2> DEFINE v == omni[q]
    <2> HIDE DEF v
    <2>1. /\ DOMAIN Omni!Put(answers, q, v) = DOMAIN answers \cup {q} /\ Omni!Put(answers, q, v)[q] = v
          /\ \A x \in DOMAIN answers : x # q => Omni!Put(answers, q, v)[x] = answers[x]
        BY DEF Omni!Put
    <2> QED BY <1>1, <2>1 DEF v
<1>4. Answered(answers', omni, registered, still)
    <2>1. AnswersTyped(answers')
        BY <1>2, <1>3 DEF AnswersTyped, Answered, Enrolled, Grouped, Omni!Holdable
    <2>2. "machinestatus" \in DOMAIN answers' => registered \subseteq Enrolled(answers')
        BY <1>2, <1>3 DEF Answered, Enrolled
    <2>3. still => \A x \in DOMAIN answers' : answers'[x] = omni[x]
        BY <1>2, <1>3 DEF Answered
    <2> QED BY <1>2, <2>1, <2>2, <2>3 DEF Answered
<1>5. OmniTyped'
    BY <1>1 DEF OmniInv, OmniTyped
<1>6. Querying'
    BY <1>1 DEF OmniInv, Querying, Summarising
<1> QED BY <1>1, <1>4, <1>5, <1>6 DEF OmniInv, Writing, Completing, Lately, Omni!Completed

LEMMA QueryFailsKeeps ==
    ASSUME OmniInv, NEW q \in Omni!Queries, Omni!QueryFails(q) PROVE OmniInv'
<1>1. /\ phase = "querying" /\ phase' = "idle"
      /\ UNCHANGED <<omni, answers, merged, toWrite, nodes, clusters, omniSummary, registered, still, runs>>
    BY DEF Omni!QueryFails, Omni!Rejects, Omni!stored, Omni!history
<1>2. OmniTyped' /\ Answered(answers, omni, registered, still)'
    BY <1>1 DEF OmniInv, OmniTyped
<1>3. ~Omni!Completed'
    BY <1>1 DEF OmniInv, Querying, Summarising, Omni!Completed
<1> QED BY <1>1, <1>2, <1>3 DEF OmniInv, Querying, Writing, Completing, Lately

LEMMA MergeKeeps ==
    ASSUME OmniInv, Omni!Merge PROVE OmniInv'
<1>1. /\ phase = "querying" /\ phase' = "writing" /\ DOMAIN answers = Omni!Queries
      /\ merged' = Omni!mergeInventory(answers, runs) /\ toWrite' = merged'
      /\ UNCHANGED <<omni, answers, nodes, clusters, omniSummary, registered, still, runs>>
    BY DEF Omni!Merge, Omni!stored, Omni!history
<1>2. OmniTyped' /\ Answered(answers, omni, registered, still)'
    <2>1. DOMAIN toWrite' = {"nodes", "clusters", "summary"}
        BY <1>1, MergedIs
    <2> QED BY <1>1, <2>1 DEF OmniInv, OmniTyped
<1>3. Unwritten(nodes, runs) /\ Unwritten(clusters, runs) /\ Summarising
    BY <1>1 DEF OmniInv, Querying
<1>4. NodesWritten(nodes, merged'.nodes, merged', runs)
      /\ ClustersWritten(clusters, merged'.clusters, merged', runs)
    BY <1>3 DEF Unwritten, NodesWritten, ClustersWritten
<1>5. Writing'
    BY <1>1, <1>3, <1>4 DEF Writing, MergedOf, Summarising
<1> QED BY <1>1, <1>2, <1>5 DEF OmniInv, Querying, Completing, Lately, Omni!Completed

\* What a write does to the records, told of the records alone.
LEMMA PutsNode ==
    ASSUME NEW a, NEW r \in Nat, r # 0, AnswersTyped(a), DOMAIN a = Omni!Queries,
           NEW merge, merge = Omni!mergeInventory(a, r),
           NEW w, NodesTyped(w, r), NEW rest, NodesWritten(w, rest, merge, r), NEW n \in rest
    PROVE  LET x == Omni!Put(w, n.id, n)
           IN  NodesTyped(x, r) /\ NodesWritten(x, rest \ {n}, merge, r)
<1> DEFINE x == Omni!Put(w, n.id, n)
           id == n.id
<1>1. n \in merge.nodes /\ n \in Omni!Nodes(a, r)
    BY MergedIs DEF NodesWritten
<1>2. id \in Machines /\ n.at = r
    <2>1. n.id \in Enrolled(a) /\ n.at = r
        BY <1>1, NodesAre
    <2> QED BY <2>1 DEF AnswersTyped, Omni!Queries
<1>3. DOMAIN x = DOMAIN w \cup {id} /\ x[id] = n /\ \A m \in DOMAIN w : m # id => x[m] = w[m]
    BY DEF Omni!Put
<1>4. \A o \in merge.nodes : o.id = id => o = n
    BY <1>1, MergedIs, NodesAre
<1> HIDE DEF x
<1>5. NodesTyped(x, r)
    <2>1. ASSUME NEW m \in DOMAIN x PROVE x[m].id = m /\ x[m].at \in 1 .. r
        <3>1. CASE m = id
            BY <1>2, <1>3, <3>1
        <3>2. CASE m # id
            BY <1>3, <3>2 DEF NodesTyped
        <3> QED BY <3>1, <3>2
    <2> QED BY <1>2, <1>3, <2>1 DEF NodesTyped
<1>6. NodesWritten(x, rest \ {n}, merge, r)
    <2>1. ASSUME NEW o \in merge.nodes \ (rest \ {n}) PROVE o.id \in DOMAIN x /\ x[o.id] = o
        <3>1. CASE o = n
            BY <1>3, <3>1
        <3>2. CASE o # n
            <4>1. o.id # id /\ o.id \in DOMAIN w /\ w[o.id] = o
                BY <1>4, <3>2 DEF NodesWritten
            <4> QED BY <1>3, <4>1
        <3> QED BY <3>1, <3>2
    <2>2. ASSUME NEW m \in DOMAIN x, x[m].at = r PROVE x[m] \in merge.nodes \ (rest \ {n})
        <3>1. CASE m = id
            BY <1>1, <1>3, <3>1
        <3>2. CASE m # id
            BY <1>3, <2>2, <3>2 DEF NodesWritten
        <3> QED BY <3>1, <3>2
    <2> QED BY <2>1, <2>2 DEF NodesWritten
<1> QED BY <1>5, <1>6 DEF x

LEMMA PutsCluster ==
    ASSUME NEW a, NEW r \in Nat, r # 0,
           NEW merge, merge = Omni!mergeInventory(a, r),
           NEW w, ClustersTyped(w, r), NEW rest, ClustersWritten(w, rest, merge, r), NEW c \in rest
    PROVE  LET x == Omni!Put(w, Slug[c.name], c)
           IN  ClustersTyped(x, r) /\ ClustersWritten(x, rest \ {c}, merge, r)
<1> DEFINE s == Slug[c.name]
           x == Omni!Put(w, s, c)
<1>1. c \in merge.clusters /\ c.at = r
    <2>1. c \in merge.clusters
        BY DEF ClustersWritten
    <2>2. PICK name \in Grouped(a) : c = Omni!ClusterRecord(Omni!Nodes(a, r), name, r)
        BY <2>1, MergedIs
    <2> QED BY <2>1, <2>2, ClusterIs
<1>2. s = Slug[c.name]
    OBVIOUS
<1>3. DOMAIN x = DOMAIN w \cup {s} /\ x[s] = c /\ \A t \in DOMAIN w : t # s => x[t] = w[t]
    BY DEF Omni!Put
<1> HIDE DEF x, s
<1>4. ClustersTyped(x, r)
    <2>1. ASSUME NEW t \in DOMAIN x PROVE Slug[x[t].name] = t /\ x[t].at \in 1 .. r
        <3>1. CASE t = s
            BY <1>1, <1>2, <1>3, <3>1
        <3>2. CASE t # s
            BY <1>3, <3>2 DEF ClustersTyped
        <3> QED BY <3>1, <3>2
    <2> QED BY <2>1 DEF ClustersTyped
<1>5. ClustersWritten(x, rest \ {c}, merge, r)
    <2>1. ASSUME NEW d \in merge.clusters \ (rest \ {c}) PROVE Slug[d.name] \in DOMAIN x /\ x[Slug[d.name]].at = r
        <3>1. CASE Slug[d.name] = s
            BY <1>1, <1>3, <3>1
        <3>2. CASE Slug[d.name] # s
            <4>1. d # c
                BY <1>2, <3>2
            <4>2. Slug[d.name] \in DOMAIN w /\ w[Slug[d.name]].at = r
                BY <4>1 DEF ClustersWritten
            <4> QED BY <1>3, <3>2, <4>2
        <3> QED BY <3>1, <3>2
    <2>2. ASSUME NEW t \in DOMAIN x, x[t].at = r PROVE x[t] \in merge.clusters \ (rest \ {c})
        <3>1. CASE t = s
            BY <1>1, <1>3, <3>1
        <3>2. CASE t # s
            BY <1>3, <2>2, <3>2 DEF ClustersWritten
        <3> QED BY <3>1, <3>2
    <2> QED BY <2>1, <2>2 DEF ClustersWritten
<1> QED BY <1>4, <1>5 DEF x, s

\* Once the nodes are written there is one record of this run for each.
LEMMA AllWritten ==
    ASSUME NEW a, NEW r \in Nat, AnswersTyped(a), DOMAIN a = Omni!Queries,
           NEW merge, merge = Omni!mergeInventory(a, r),
           NEW w, NodesTyped(w, r), NodesWritten(w, {}, merge, r)
    PROVE  Backed(w, merge.summary)
<1>1. IsFiniteSet(Enrolled(a))
    <2>1. Enrolled(a) \in SUBSET Machines
        BY DEF AnswersTyped, Omni!Queries
    <2>2. IsFiniteSet(Machines)
        BY OmniAssumption, SameCountOmni DEF Omni!Assumptions
    <2> QED BY <2>1, <2>2, FS_Subset
<1> DEFINE N == Omni!Nodes(a, r)
<1>2. merge.summary.at = r /\ merge.summary.totalNodes = Cardinality(N) /\ merge.nodes = N
    BY MergedIs
<1>3. \A m \in Enrolled(a) : m \in DOMAIN w /\ w[m].at = r
    <2> SUFFICES ASSUME NEW m \in Enrolled(a) PROVE m \in DOMAIN w /\ w[m].at = r
        OBVIOUS
    <2>1. PICK n \in N : n.id = m /\ n.at = r
        BY NodesAre
    <2> QED BY <1>2, <2>1 DEF NodesWritten
<1>4. \A m \in DOMAIN w : w[m].at = r => m \in Enrolled(a)
    <2> SUFFICES ASSUME NEW m \in DOMAIN w, w[m].at = r PROVE m \in Enrolled(a)
        OBVIOUS
    <2>1. w[m] \in N /\ w[m].id = m
        BY <1>2 DEF NodesWritten, NodesTyped
    <2> QED BY <2>1, NodesAre
<1>5. {m \in DOMAIN w : w[m].at = r} = Enrolled(a)
    BY <1>3, <1>4
<1>6. Cardinality(N) = Cardinality(Enrolled(a))
    BY <1>1, NodesCounted
<1>7. \A m \in DOMAIN w : w[m].at <= r
    BY DEF NodesTyped
<1> DEFINE E == {m \in DOMAIN w : w[m].at = merge.summary.at}
<1>8. E = Enrolled(a)
    BY <1>2, <1>5
<1>9. Cardinality(E) = merge.summary.totalNodes
    <2> HIDE DEF E, N
    <2> QED BY <1>2, <1>6, <1>8
<1> HIDE DEF N
<1> QED BY <1>2, <1>7, <1>9 DEF Backed

LEMMA WriteNodeKeeps ==
    ASSUME OmniInv, Omni!WriteNode PROVE OmniInv'
<1>1. PICK n \in toWrite.nodes :
          nodes' = Omni!Put(nodes, n.id, n) /\ toWrite' = [toWrite EXCEPT !.nodes = @ \ {n}]
    BY DEF Omni!WriteNode
<1>2. /\ phase = "writing"
      /\ UNCHANGED <<omni, phase, answers, merged, clusters, omniSummary, registered, still, runs>>
    BY DEF Omni!WriteNode, Omni!history
<1>3. /\ runs \in Nat /\ runs # 0 /\ MergedOf(answers, merged, runs) /\ AnswersTyped(answers)
      /\ NodesTyped(nodes, runs) /\ NodesWritten(nodes, toWrite.nodes, merged, runs)
      /\ ClustersWritten(clusters, toWrite.clusters, merged, runs)
      /\ toWrite.summary = merged.summary
    BY <1>2 DEF OmniInv, OmniTyped, Writing, Answered
<1>4. /\ DOMAIN toWrite' = {"nodes", "clusters", "summary"}
      /\ toWrite'.nodes = toWrite.nodes \ {n} /\ toWrite'.clusters = toWrite.clusters
      /\ toWrite'.summary = toWrite.summary
    BY <1>1 DEF OmniInv, OmniTyped
<1>5. NodesTyped(nodes', runs) /\ NodesWritten(nodes', toWrite'.nodes, merged, runs)
    BY <1>1, <1>3, <1>4, PutsNode DEF MergedOf
<1>6. OmniTyped'
    BY <1>2, <1>4, <1>5 DEF OmniInv, OmniTyped
<1>7. Writing'
    BY <1>2, <1>3, <1>4, <1>5 DEF OmniInv, Writing, Summarising
<1> QED BY <1>2, <1>6, <1>7 DEF OmniInv, Querying, Completing, Lately, Omni!Completed

LEMMA WriteClusterKeeps ==
    ASSUME OmniInv, Omni!WriteCluster PROVE OmniInv'
<1>1. PICK c \in toWrite.clusters :
          clusters' = Omni!Put(clusters, Slug[c.name], c) /\ toWrite' = [toWrite EXCEPT !.clusters = @ \ {c}]
    BY DEF Omni!WriteCluster
<1>2. /\ phase = "writing"
      /\ UNCHANGED <<omni, phase, answers, merged, nodes, omniSummary, registered, still, runs>>
    BY DEF Omni!WriteCluster, Omni!history
<1>3. /\ runs \in Nat /\ runs # 0 /\ MergedOf(answers, merged, runs)
      /\ ClustersTyped(clusters, runs) /\ NodesWritten(nodes, toWrite.nodes, merged, runs)
      /\ ClustersWritten(clusters, toWrite.clusters, merged, runs)
      /\ toWrite.summary = merged.summary
    BY <1>2 DEF OmniInv, OmniTyped, Writing
<1>4. /\ DOMAIN toWrite' = {"nodes", "clusters", "summary"}
      /\ toWrite'.clusters = toWrite.clusters \ {c} /\ toWrite'.nodes = toWrite.nodes
      /\ toWrite'.summary = toWrite.summary
    BY <1>1 DEF OmniInv, OmniTyped
<1>5. ClustersTyped(clusters', runs) /\ ClustersWritten(clusters', toWrite'.clusters, merged, runs)
    BY <1>1, <1>3, <1>4, PutsCluster DEF MergedOf
<1>6. OmniTyped'
    BY <1>2, <1>4, <1>5 DEF OmniInv, OmniTyped
<1>7. Writing'
    BY <1>2, <1>3, <1>4, <1>5 DEF OmniInv, Writing, Summarising
<1> QED BY <1>2, <1>6, <1>7 DEF OmniInv, Querying, Completing, Lately, Omni!Completed

LEMMA WriteOmniSummaryKeeps ==
    ASSUME OmniInv, Omni!WriteSummary PROVE OmniInv'
<1>1. /\ phase = "writing" /\ phase' = "idle" /\ toWrite.nodes = {} /\ toWrite.clusters = {}
      /\ omniSummary' = toWrite.summary
      /\ UNCHANGED <<omni, answers, merged, toWrite, nodes, clusters, registered, still, runs>>
    BY DEF Omni!WriteSummary, Omni!SummaryNext, Omni!history
<1>2. /\ runs \in Nat /\ runs # 0 /\ MergedOf(answers, merged, runs) /\ AnswersTyped(answers)
      /\ NodesTyped(nodes, runs) /\ NodesWritten(nodes, {}, merged, runs)
      /\ ClustersWritten(clusters, {}, merged, runs)
      /\ omniSummary' = merged.summary
    BY <1>1 DEF OmniInv, OmniTyped, Writing, Answered
<1>3. Backed(nodes, omniSummary')
    BY <1>2, AllWritten DEF MergedOf
<1>4. omniSummary'.at = runs
    BY <1>2, MergedIs DEF MergedOf
<1>5. OmniTyped'
    BY <1>1, <1>2, <1>4 DEF OmniInv, OmniTyped
<1>6. Completing'
    BY <1>1, <1>2 DEF Completing
<1> QED BY <1>1, <1>3, <1>5, <1>6 DEF OmniInv, Querying, Writing, Lately

LEMMA OmniWriteFails ==
    ASSUME OmniInv, Omni!WriteFails PROVE OmniInv'
<1>1. /\ phase = "writing" /\ phase' = "idle"
      /\ UNCHANGED <<omni, answers, merged, toWrite, nodes, clusters, omniSummary, registered, still, runs>>
    BY DEF Omni!WriteFails, Omni!stored, Omni!history
<1>2. OmniTyped' /\ Answered(answers, omni, registered, still)'
    BY <1>1 DEF OmniInv, OmniTyped
<1>3. ~Omni!Completed'
    BY <1>1 DEF OmniInv, Writing, Summarising, Omni!Completed
<1> QED BY <1>1, <1>2, <1>3 DEF OmniInv, Querying, Writing, Completing, Lately

\* What changes is still registered by ids, in clusters by their names.
LEMMA ChangesHoldable ==
    ASSUME NEW q \in Omni!Queries, Omni!Holdable(omni), NEW new \in Omni!Changes(q)
    PROVE  Omni!Holdable([omni EXCEPT ![q] = new])
<1>1. ASSUME q = "machinestatus" PROVE DOMAIN new \subseteq Machines
    <2>1. new \in {Omni!Put(omni[q], m, Omni!Status(c)) : m \in Machines, c \in DOMAIN omni["cluster"] \cup {Null}}
                   \cup {Omni!Drop(omni[q], m) : m \in DOMAIN omni[q]}
                   \cup {[omni[q] EXCEPT ![m].connected = ~@] : m \in DOMAIN omni[q]}
        BY <1>1 DEF Omni!Changes
    <2>2. DOMAIN omni[q] \subseteq Machines
        BY <1>1 DEF Omni!Holdable
    <2>3. CASE new \in {Omni!Put(omni[q], m, Omni!Status(c)) : m \in Machines, c \in DOMAIN omni["cluster"] \cup {Null}}
        <3>1. PICK m \in Machines, c \in DOMAIN omni["cluster"] \cup {Null} :
                 new = Omni!Put(omni[q], m, Omni!Status(c))
            BY <2>3
        <3>2. DOMAIN new = DOMAIN omni[q] \cup {m}
            BY <3>1 DEF Omni!Put
        <3> QED BY <2>2, <3>2
    <2>4. CASE new \in {Omni!Drop(omni[q], m) : m \in DOMAIN omni[q]}
        BY <2>2, <2>4 DEF Omni!Drop
    <2>5. CASE new \in {[omni[q] EXCEPT ![m].connected = ~@] : m \in DOMAIN omni[q]}
        BY <2>2, <2>5
    <2> QED BY <2>1, <2>3, <2>4, <2>5
<1>2. ASSUME q = "cluster" PROVE DOMAIN new \subseteq Clusters
    <2>1. new \in {Omni!Put(omni[q], c, "v1") : c \in Clusters} \cup {Omni!Drop(omni[q], c) : c \in DOMAIN omni[q]}
        BY <1>2 DEF Omni!Changes
    <2>2. DOMAIN omni[q] \subseteq Clusters
        BY <1>2 DEF Omni!Holdable
    <2> QED BY <2>1, <2>2 DEF Omni!Put, Omni!Drop
<1> QED BY <1>1, <1>2 DEF Omni!Holdable, Omni!Queries

LEMMA OmniChangesKeep ==
    ASSUME OmniInv, Omni!OmniChanges PROVE OmniInv'
<1>1. PICK q \in Omni!Queries : \E new \in Omni!Changes(q) : omni' = [omni EXCEPT ![q] = new]
    BY DEF Omni!OmniChanges
<1>2. /\ registered' = registered \cap Enrolled(omni') /\ still' = FALSE
      /\ UNCHANGED <<phase, answers, merged, toWrite, nodes, clusters, omniSummary, runs>>
    BY DEF Omni!OmniChanges, Omni!run, Omni!stored, Enrolled
<1>3. Omni!Holdable(omni')
    BY <1>1, ChangesHoldable DEF OmniInv, OmniTyped
<1>4. Answered(answers, omni, registered, still)'
    BY <1>2 DEF OmniInv, Answered
<1>5. OmniTyped'
    BY <1>2, <1>3 DEF OmniInv, OmniTyped
<1> QED BY <1>2, <1>4, <1>5 DEF OmniInv, Querying, Writing, Completing, Summarising, Lately, Omni!Completed

LEMMA OmniTypes ==
    ASSUME OmniInv PROVE Omni!TypeOK
<1>1. OmniTyped /\ Answered(answers, omni, registered, still)
    BY DEF OmniInv
<1>2. phase = "writing" => DOMAIN answers = Omni!Queries /\ merged.summary.at = runs
    <2> SUFFICES ASSUME phase = "writing" PROVE DOMAIN answers = Omni!Queries /\ merged.summary.at = runs
        OBVIOUS
    <2>1. DOMAIN answers = Omni!Queries /\ merged = Omni!mergeInventory(answers, runs)
        BY DEF OmniInv, Writing, MergedOf
    <2> QED BY <2>1, MergedIs
<1> QED BY <1>1, <1>2
        DEF OmniTyped, Answered, AnswersTyped, NodesTyped, ClustersTyped, Omni!TypeOK, Omni!Holdable

LEMMA OmniDiscovers ==
    ASSUME OmniInv PROVE Omni!DiscoveredAll
<1> SUFFICES ASSUME Omni!Completed, NEW m \in registered PROVE m \in DOMAIN nodes /\ nodes[m].at = runs
    BY DEF Omni!DiscoveredAll
<1>1. MergedOf(answers, merged, runs) /\ NodesWritten(nodes, {}, merged, runs)
      /\ Answered(answers, omni, registered, still)
    BY DEF OmniInv, Completing
<1>2. m \in Enrolled(answers)
    BY <1>1 DEF Answered, MergedOf, Omni!Queries
<1>3. PICK n \in Omni!Nodes(answers, runs) : n.id = m /\ n.at = runs
    BY <1>2, NodesAre
<1>4. n \in merged.nodes
    BY <1>1, MergedIs DEF MergedOf
<1> QED BY <1>1, <1>3, <1>4 DEF NodesWritten

LEMMA OmniSummaries ==
    ASSUME OmniInv PROVE Omni!SummaryLast
<1> SUFFICES ASSUME Omni!Completed \/ Lately
             PROVE  /\ Omni!Cardinality({m \in DOMAIN nodes : nodes[m].at = omniSummary.at}) = omniSummary.totalNodes
                    /\ \A m \in DOMAIN nodes : nodes[m].at <= omniSummary.at
    BY DEF Omni!SummaryLast, Lately
<1>1. Backed(nodes, omniSummary)
    BY DEF OmniInv
<1> DEFINE E == {m \in DOMAIN nodes : nodes[m].at = omniSummary.at}
<1>2. Cardinality(E) = omniSummary.totalNodes
    BY <1>1 DEF Backed
<1>3. Omni!Cardinality(E) = omniSummary.totalNodes
    <2> HIDE DEF E
    <2> QED BY <1>2, SameCountOmni
<1> QED BY <1>1, <1>3 DEF Backed

LEMMA OmniCounts ==
    ASSUME OmniInv PROVE Omni!CountsAgree
<1> SUFFICES ASSUME Omni!Completed
             PROVE  MachineSum(clusters, Own(clusters, runs))
                       = omniSummary.totalNodes
                         - Omni!Cardinality(Hidden(merged.nodes, Own(clusters, runs))
                              \cup Noted(merged.nodes, omniSummary.notes) \cup Free(merged.nodes))
    BY DEF Omni!CountsAgree, MachineSum, Own, Hidden, Noted, Free
<1>1. /\ MergedOf(answers, merged, runs) /\ omniSummary = merged.summary
      /\ ClustersTyped(clusters, runs) /\ ClustersWritten(clusters, {}, merged, runs)
      /\ AnswersTyped(answers)
    BY DEF OmniInv, OmniTyped, Completing, Answered
<1>2. IsFiniteSet(Enrolled(answers)) /\ Grouped(answers) \subseteq Clusters
    <2>1. Enrolled(answers) \in SUBSET Machines /\ Grouped(answers) \subseteq Clusters
        BY <1>1 DEF AnswersTyped, MergedOf, Omni!Queries
    <2>2. IsFiniteSet(Machines)
        BY OmniAssumption, SameCountOmni DEF Omni!Assumptions
    <2> QED BY <2>1, <2>2, FS_Subset
<1> DEFINE N == Omni!Nodes(answers, runs)
           own == Own(clusters, runs)
<1>3. ClustersWritten(clusters, {}, Omni!mergeInventory(answers, runs), runs)
    BY <1>1 DEF MergedOf
<1>4. MachineSum(clusters, own)
         = Cardinality(N) - Cardinality(Hidden(N, own) \cup Noted(N, Omni!Notes(answers, N)) \cup Free(N))
    BY <1>1, <1>2, <1>3, CountsAdd
<1>5. merged.nodes = N /\ omniSummary.totalNodes = Cardinality(N) /\ omniSummary.notes = Omni!Notes(answers, N)
    BY <1>1, MergedIs DEF MergedOf
<1> HIDE DEF N, own
<1> QED BY <1>4, <1>5, SameCountOmni DEF own

LEMMA StagesTold == \A stage : Omni!decodeStage(stage) # "unassigned"
BY DEF Omni!decodeStage

LEMMA OmniNotes ==
    ASSUME OmniInv PROVE Omni!NotesExplained
<1> SUFFICES ASSUME Omni!Completed PROVE Omni!NotesExplained
    BY DEF Omni!NotesExplained
<1>1. /\ MergedOf(answers, merged, runs) /\ omniSummary = merged.summary
      /\ Answered(answers, omni, registered, still)
    BY DEF OmniInv, Completing
<1> DEFINE N == Omni!Nodes(answers, runs)
<1>2. merged.nodes = N /\ omniSummary.notes = Omni!Notes(answers, N)
    BY <1>1, MergedIs DEF MergedOf
<1>3. ASSUME NEW n \in N, n.cluster # Null, n.stage = "unassigned"
      PROVE  \E note \in omniSummary.notes : note[2] = n.id
    <2>1. <<"no-status", n.id>> \in omniSummary.notes
        BY <1>2, <1>3 DEF Omni!Notes
    <2> QED BY <2>1
<1>4. ASSUME still, NEW note \in omniSummary.notes
      PROVE  LET c == omni["machinestatus"][note[2]].cluster
             IN  c # Null /\ (c \notin DOMAIN omni["cluster"] \/ note[2] \notin DOMAIN omni["clustermachinestatus"])
    <2>1. /\ answers["machinestatus"] = omni["machinestatus"]
          /\ answers["clustermachinestatus"] = omni["clustermachinestatus"]
          /\ answers["cluster"] = omni["cluster"]
        BY <1>1, <1>4 DEF Answered, MergedOf, Omni!Queries
    <2>2. PICK n \in N : /\ note[2] = n.id
                         /\ \/ n.cluster \notin DOMAIN answers["cluster"] \cup {Null}
                            \/ n.cluster # Null /\ n.stage = "unassigned"
        BY <1>2 DEF Omni!Notes
    <2>3. n = Omni!buildNode(answers, n.id, runs)
        BY NodesAre
    <2>4. n.cluster = answers["machinestatus"][n.id].cluster
          /\ n.stage = IF n.id \in DOMAIN answers["clustermachinestatus"]
                       THEN Omni!decodeStage(answers["clustermachinestatus"][n.id].stage) ELSE "unassigned"
        BY <2>3, NodeIs
    <2>5. n.stage = "unassigned" => n.id \notin DOMAIN answers["clustermachinestatus"]
        BY <2>4, StagesTold
    <2> QED BY <2>1, <2>2, <2>4, <2>5
<1> QED BY <1>2, <1>3, <1>4 DEF Omni!NotesExplained

LEMMA OmniKeeps ==
    ASSUME OmniInv, Omni!Next PROVE OmniInv'
BY DiscoverOmniKeeps, QueryAnsweredKeeps, QueryFailsKeeps, MergeKeeps, WriteNodeKeeps, WriteClusterKeeps,
   WriteOmniSummaryKeeps, OmniWriteFails, OmniChangesKeep DEF Omni!Next

LEMMA OmniHolds ==
    ASSUME OmniInv
    PROVE  Omni!TypeOK /\ Omni!DiscoveredAll /\ Omni!SummaryLast /\ Omni!CountsAgree /\ Omni!NotesExplained
BY OmniTypes, OmniDiscovers, OmniSummaries, OmniCounts, OmniNotes

-----------------------------------------------------------------------------
(* What omnictl prints.                                                    *)

LEMMA JoinsAgree ==
    ASSUME NEW n \in Nat, NEW k \in 1 .. n, NEW ss, NEW ts, NEW g, Joins(g, ss, n), NEW h, Joins(h, ts, k),
           \A j \in 1 .. k : ts[j] = ss[j]
    PROVE  \A j \in 1 .. k : h[j] = g[j]
<1> DEFINE T == {j \in 1 .. k : h[j] # g[j]}
<1> SUFFICES ASSUME T # {} PROVE FALSE
    OBVIOUS
<1>1. PICK m \in T : \A j \in T : m <= j
    <2>1. T \subseteq Nat OBVIOUS
    <2> HIDE DEF T
    <2> QED BY <2>1, Least
<1>2. m \in 1 .. k /\ h[m] # g[m] /\ m \in 1 .. n
    OBVIOUS
<1>3. h[m] = IF m = 1 THEN ts[m] ELSE h[m - 1] \o ts[m]
    BY <1>2 DEF Joins
<1>4. g[m] = IF m = 1 THEN ss[m] ELSE g[m - 1] \o ss[m]
    BY <1>2 DEF Joins
<1>5. CASE m = 1
    BY <1>2, <1>3, <1>4, <1>5
<1>6. CASE m # 1
    <2>1. m - 1 \in 1 .. k /\ ~(m <= m - 1)
        BY <1>2, <1>6
    <2>2. h[m - 1] = g[m - 1]
        BY <1>1, <2>1
    <2> HIDE DEF T
    <2> QED BY <1>2, <1>3, <1>4, <1>6, <2>2
<1> QED BY <1>5, <1>6

\* The first k objects as they are printed.
Printed(os, k) == Json!Output(SubSeq(os, 1, k))
Joining(os) == [k \in 1 .. Len(os) |-> os[k] \o Separator]

LEMMA Widened ==
    ASSUME NEW S, NEW T, S \subseteq T, NEW s \in Seq(S)
    PROVE  s \in Seq(T) /\ Len(s) \in Nat
OBVIOUS

LEMMA ObjectsAre ==
    /\ \A o \in Objects : o \in Seq(Json!Chars) /\ Len(o) \in Nat /\ o # << >> /\ o[1] = "{"
    /\ Separator \in Seq(Json!Chars) /\ Separator \in Seq({"x"}) /\ Len(Separator) \in Nat
<1>1. Separator \in Seq({"x"}) /\ \A o \in Objects : o \in Seq(Json!Chars) /\ o # << >> /\ o[1] = "{"
    BY OmniAssumption DEF Json!Assumptions, Json!Resource
<1>2. Separator \in Seq(Json!Chars)
    <2>1. {"x"} \subseteq Json!Chars
        BY DEF Json!Chars
    <2> QED BY <1>1, <2>1, Widened
<1>3. Len(Separator) \in Nat
    BY <1>2, Widened
<1>4. \A o \in Objects : Len(o) \in Nat
    BY <1>1, Widened
<1> QED BY <1>1, <1>2, <1>3, <1>4

LEMMA JoiningType ==
    ASSUME NEW os \in Seq(Objects)
    PROVE  Joining(os) \in Seq(Seq(Json!Chars)) /\ Joining(os) \in [1 .. Len(os) -> Seq(Json!Chars)]
           /\ Len(Joining(os)) = Len(os)
<1>1. ASSUME NEW k \in 1 .. Len(os) PROVE os[k] \o Separator \in Seq(Json!Chars)
    <2>1. os[k] \in Objects
        OBVIOUS
    <2>2. os[k] \in Seq(Json!Chars)
        BY <2>1, ObjectsAre
    <2> QED BY <2>2, ObjectsAre, ConcatProperties
<1>2. Joining(os) \in [1 .. Len(os) -> Seq(Json!Chars)]
    BY <1>1 DEF Joining
<1>3. Len(os) \in Nat
    OBVIOUS
<1> DEFINE n == Len(os)
           js == Joining(os)
           S == Seq(Json!Chars)
<1> HIDE DEF n, js, S
<1>4. js \in [1 .. n -> S] /\ n \in Nat
    BY <1>2, <1>3 DEF n, js, S
<1>5. js \in Seq(S) /\ Len(js) = n
    BY <1>4
<1> QED BY <1>2, <1>5 DEF n, js, S

\* The output of any of its beginnings is where its joining is so far.
LEMMA OutputJoins ==
    ASSUME NEW os \in Seq(Objects), Len(os) # 0
    PROVE  \E g : /\ g \in [1 .. Len(os) -> Seq(Json!Chars)] /\ Joins(g, Joining(os), Len(os))
                  /\ Json!Output(os) = g[Len(os)]
<1> DEFINE n == Len(os)
           js == Joining(os)
<1>1. n \in Nat \ {0} /\ js \in [1 .. n -> Seq(Json!Chars)] /\ Len(js) = n
    BY JoiningType
<1> HIDE DEF n, js
<1>2. PICK h \in [1 .. n -> Seq(Json!Chars)] : Joins(h, js, n)
    BY <1>1, JoinsExist
<1> DEFINE g == CHOOSE f : Joins(f, js, n)
<1>3. Joins(g, js, n)
    BY <1>2
<1>4. Json!Output(os) = Json!FlattenSeq(js)
    BY DEF Json!Output, Joining, js
<1>5. Json!FlattenSeq(js) = g[n]
    BY <1>1 DEF Json!FlattenSeq, Joins
<1> HIDE DEF g
<1>6. \A j \in 1 .. n : g[j] = h[j]
    BY <1>1, <1>2, <1>3, JoinsAgree
<1>7. g = h
    BY <1>2, <1>3, <1>6 DEF Joins
<1>8. g \in [1 .. n -> Seq(Json!Chars)] /\ Joins(g, js, n) /\ Json!Output(os) = g[n]
    BY <1>2, <1>3, <1>4, <1>5, <1>7
<1> QED BY <1>8 DEF n, js

LEMMA PrintedGrows ==
    ASSUME NEW os \in Seq(Objects)
    PROVE  /\ Printed(os, 0) = << >> /\ Printed(os, Len(os)) = Json!Output(os)
           /\ \A k \in 0 .. Len(os) : Printed(os, k) \in Seq(Json!Chars)
           /\ \A k \in 1 .. Len(os) : Printed(os, k) = Printed(os, k - 1) \o (os[k] \o Separator)
<1> DEFINE n == Len(os)
<1>1. n \in Nat
    OBVIOUS
<1>2. \A k \in 1 .. n : SubSeq(os, 1, k) \in Seq(Objects) /\ Len(SubSeq(os, 1, k)) = k
                        /\ \A j \in 1 .. k : SubSeq(os, 1, k)[j] = os[j]
    BY SubSeqProperties
<1>3. Printed(os, 0) = << >>
    <2>1. SubSeq(os, 1, 0) = << >>
        BY SubSeqProperties
    <2>2. Joining(<< >>) = << >>
        BY DEF Joining
    <2>3. Json!Output(<< >>) = Json!FlattenSeq(Joining(<< >>))
        BY DEF Json!Output, Joining
    <2>4. Json!FlattenSeq(<< >>) = << >>
        BY DEF Json!FlattenSeq
    <2> QED BY <2>1, <2>2, <2>3, <2>4 DEF Printed
<1>4. Printed(os, n) = Json!Output(os)
    <2>1. SubSeq(os, 1, n) = os
        BY SubSeqFull
    <2> HIDE DEF n
    <2> QED BY <2>1 DEF Printed
<1>5. ASSUME n # 0
      PROVE  /\ \A k \in 1 .. n : Printed(os, k) \in Seq(Json!Chars)
             /\ \A k \in 1 .. n : Printed(os, k) = Printed(os, k - 1) \o (os[k] \o Separator)
    <2>1. PICK g : g \in [1 .. n -> Seq(Json!Chars)] /\ Joins(g, Joining(os), n)
        BY <1>5, OutputJoins
    <2>2. ASSUME NEW k \in 1 .. n PROVE Printed(os, k) = g[k]
        <3> DEFINE ps == SubSeq(os, 1, k)
        <3>1. ps \in Seq(Objects) /\ Len(ps) = k /\ k # 0 /\ \A j \in 1 .. k : ps[j] = os[j]
            BY <1>2
        <3> HIDE DEF ps
        <3>2. PICK h : Joins(h, Joining(ps), k) /\ Json!Output(ps) = h[k]
            BY <3>1, OutputJoins
        <3>3. \A j \in 1 .. k : Joining(ps)[j] = Joining(os)[j]
            <4>1. \A j \in 1 .. k : j \in 1 .. Len(ps) /\ j \in 1 .. Len(os)
                BY <1>1, <3>1
            <4> QED BY <3>1, <4>1 DEF Joining
        <3>4. h[k] = g[k]
            <4>1. k \in 1 .. k /\ n \in Nat
                BY <1>1
            <4> HIDE DEF n
            <4> QED BY <2>1, <3>2, <3>3, <4>1, JoinsAgree
        <3> QED BY <3>2, <3>4 DEF Printed, ps
    <2>3. ASSUME NEW k \in 1 .. n PROVE Printed(os, k) = Printed(os, k - 1) \o (os[k] \o Separator)
        <3>1. g[k] = IF k = 1 THEN Joining(os)[k] ELSE g[k - 1] \o Joining(os)[k]
            BY <2>1 DEF Joins
        <3>2. Joining(os)[k] = os[k] \o Separator /\ Joining(os)[k] \in Seq(Json!Chars)
            BY JoiningType DEF Joining
        <3>3. CASE k = 1
            <4>1. << >> \o Joining(os)[k] = Joining(os)[k]
                BY <3>2, ConcatEmptySeq
            <4>2. k - 1 = 0
                BY <3>3
            <4>3. Printed(os, k - 1) = << >>
                BY <1>3, <4>2
            <4> HIDE DEF n
            <4> QED BY <2>2, <3>1, <3>2, <3>3, <4>1, <4>3
        <3>4. CASE k # 1
            <4>1. k - 1 \in 1 .. n
                BY <3>4
            <4> QED BY <2>2, <3>1, <3>2, <3>4, <4>1
        <3> QED BY <3>3, <3>4
    <2> HIDE DEF n
    <2> QED BY <2>1, <2>2, <2>3
<1>6. << >> \in Seq(Json!Chars)
    OBVIOUS
<1> HIDE DEF n
<1>7. \A k \in 0 .. n : Printed(os, k) \in Seq(Json!Chars)
    <2> TAKE k \in 0 .. n
    <2>1. CASE k = 0
        BY <1>3, <1>6, <2>1
    <2>2. CASE k # 0
        <3>1. k \in 1 .. n /\ n # 0
            BY <1>1, <2>2
        <3> QED BY <1>5, <3>1
    <2> QED BY <2>1, <2>2
<1>8. \A k \in 1 .. n : Printed(os, k) = Printed(os, k - 1) \o (os[k] \o Separator)
    <2> TAKE k \in 1 .. n
    <2>1. n # 0
        BY <1>1
    <2> QED BY <1>5, <2>1
<1> QED BY <1>3, <1>4, <1>7, <1>8 DEF n

\* How far the first k objects go.
Span(os, k) == Len(Printed(os, k))

LEMMA Spans ==
    ASSUME NEW os \in Seq(Objects)
    PROVE  /\ Span(os, 0) = 0
           /\ \A k \in 0 .. Len(os) : Span(os, k) \in Nat
           /\ \A k \in 1 .. Len(os) :
                 /\ os[k] \in Objects /\ Len(os[k]) \in Nat
                 /\ Span(os, k) = Span(os, k - 1) + Len(os[k]) + Len(Separator)
                 /\ \A p \in 1 .. Span(os, k - 1) : Printed(os, k)[p] = Printed(os, k - 1)[p]
                 /\ \A p \in 1 .. Len(os[k]) : Printed(os, k)[Span(os, k - 1) + p] = os[k][p]
                 /\ \A p \in 1 .. Len(Separator) :
                       Printed(os, k)[Span(os, k - 1) + Len(os[k]) + p] = "x"
<1>1. Span(os, 0) = 0
    <2>1. Printed(os, 0) = << >> /\ Len(<< >>) = 0
        BY PrintedGrows
    <2> QED BY <2>1 DEF Span
<1>2. \A k \in 0 .. Len(os) : Span(os, k) \in Nat
    BY PrintedGrows, LenProperties DEF Span
<1>3. ASSUME NEW k \in 1 .. Len(os)
      PROVE  /\ os[k] \in Objects /\ Len(os[k]) \in Nat
             /\ Span(os, k) = Span(os, k - 1) + Len(os[k]) + Len(Separator)
             /\ \A p \in 1 .. Span(os, k - 1) : Printed(os, k)[p] = Printed(os, k - 1)[p]
             /\ \A p \in 1 .. Len(os[k]) : Printed(os, k)[Span(os, k - 1) + p] = os[k][p]
             /\ \A p \in 1 .. Len(Separator) : Printed(os, k)[Span(os, k - 1) + Len(os[k]) + p] = "x"
    <2> DEFINE a == Printed(os, k - 1)
               o == os[k]
               b == o \o Separator
    <2>1. k - 1 \in 0 .. Len(os) /\ k \in 0 .. Len(os) /\ o \in Objects
        OBVIOUS
    <2>2. a \in Seq(Json!Chars) /\ Printed(os, k) = a \o b
        BY <2>1, PrintedGrows
    <2>3. o \in Seq(Json!Chars) /\ Separator \in Seq(Json!Chars) /\ Separator \in Seq({"x"})
        BY <2>1, ObjectsAre
    <2> HIDE DEF a, o
    <2>4. /\ b \in Seq(Json!Chars) /\ Len(b) = Len(o) + Len(Separator)
          /\ \A p \in 1 .. Len(o) : b[p] = o[p]
          /\ \A p \in 1 .. Len(Separator) : b[Len(o) + p] = Separator[p]
        BY <2>3
    <2>5. \A p \in 1 .. Len(Separator) : Separator[p] = "x"
        <3> TAKE p \in 1 .. Len(Separator)
        <3>1. Separator[p] \in {"x"}
            BY <2>3
        <3> QED BY <3>1
    <2> HIDE DEF b
    <2>6. /\ Len(a \o b) = Len(a) + Len(b)
          /\ \A p \in 1 .. Len(a) : (a \o b)[p] = a[p]
          /\ \A p \in 1 .. Len(b) : (a \o b)[Len(a) + p] = b[p]
          /\ Len(a) \in Nat
        <3>1. Len(a) \in Nat /\ Len(b) \in Nat
            BY <2>2, <2>4, LenProperties
        <3>2. /\ Len(a \o b) = Len(a) + Len(b)
              /\ \A i \in 1 .. Len(a) + Len(b) : (a \o b)[i] = IF i <= Len(a) THEN a[i] ELSE b[i - Len(a)]
            <4>1. a \in Seq(Json!Chars) /\ b \in Seq(Json!Chars)
                BY <2>2, <2>4
            <4>2. Len(a \o b) = Len(a) + Len(b)
                BY <4>1, ConcatProperties
            <4>3. \A i \in 1 .. Len(a) + Len(b) : (a \o b)[i] = IF i <= Len(a) THEN a[i] ELSE b[i - Len(a)]
                BY <4>1, ConcatProperties
            <4> QED BY <4>2, <4>3
        <3>3. ASSUME NEW p \in 1 .. Len(b) PROVE (a \o b)[Len(a) + p] = b[p]
            <4>1. Len(a) + p \in 1 .. Len(a) + Len(b) /\ ~(Len(a) + p <= Len(a)) /\ (Len(a) + p) - Len(a) = p
                BY <3>1
            <4> QED BY <3>2, <4>1
        <3>4. ASSUME NEW p \in 1 .. Len(a) PROVE (a \o b)[p] = a[p]
            BY <3>1, <3>2
        <3> QED BY <3>1, <3>2, <3>3, <3>4
    <2>7. Len(o) \in Nat /\ Len(Separator) \in Nat
        BY <2>1, ObjectsAre DEF o
    <2>8. Span(os, k) = Len(a) + Len(o) + Len(Separator)
        BY <2>2, <2>4, <2>6, <2>7 DEF Span
    <2>9. \A p \in 1 .. Len(o) : Printed(os, k)[Len(a) + p] = o[p]
        BY <2>2, <2>4, <2>6, <2>7
    <2>10. \A p \in 1 .. Len(Separator) : Printed(os, k)[Len(a) + Len(o) + p] = "x"
        <3> TAKE p \in 1 .. Len(Separator)
        <3>1. Len(o) + p \in 1 .. Len(b) /\ Len(a) + (Len(o) + p) = Len(a) + Len(o) + p
            BY <2>4, <2>6, <2>7
        <3>2. (a \o b)[Len(a) + (Len(o) + p)] = b[Len(o) + p]
            BY <2>6, <3>1
        <3> QED BY <2>2, <2>4, <2>5, <3>1, <3>2
    <2> QED BY <2>1, <2>2, <2>6, <2>7, <2>8, <2>9, <2>10 DEF a, o, Span
<1> QED BY <1>1, <1>2, <1>3

\* What was printed stays.
LEMMA Begins ==
    ASSUME NEW os \in Seq(Objects), NEW k \in 0 .. Len(os)
    PROVE  \A l \in k .. Len(os) :
               /\ Span(os, k) <= Span(os, l)
               /\ \A p \in 1 .. Span(os, k) : Printed(os, l)[p] = Printed(os, k)[p]
<1> DEFINE n == Len(os)
           Kept1(l) == /\ Span(os, k) <= Span(os, l)
                       /\ \A p \in 1 .. Span(os, k) : Printed(os, l)[p] = Printed(os, k)[p]
           T == {l \in k .. n : ~Kept1(l)}
<1>1. n \in Nat /\ \A l \in 0 .. n : Span(os, l) \in Nat
    BY Spans
<1> SUFFICES ASSUME T # {} PROVE FALSE
    OBVIOUS
<1>2. PICK m \in T : \A l \in T : m <= l
    <2>1. T \subseteq Nat
        BY <1>1
    <2> HIDE DEF T
    <2> QED BY <2>1, Least
<1>3. m \in k .. n /\ ~Kept1(m)
    OBVIOUS
<1>4. m # k
    BY <1>1, <1>3
<1>5. m - 1 \in k .. n /\ m \in 1 .. n /\ ~(m <= m - 1) /\ m - 1 \in 0 .. n
    BY <1>1, <1>3, <1>4
<1>6. Kept1(m - 1)
    <2>1. m - 1 \notin T
        <3> HIDE DEF T, n
        <3> QED BY <1>2, <1>5
    <2> HIDE DEF Kept1, n
    <2> QED BY <1>5, <2>1
<1>7. /\ Span(os, m) = Span(os, m - 1) + Len(os[m]) + Len(Separator) /\ Len(os[m]) \in Nat
      /\ \A p \in 1 .. Span(os, m - 1) : Printed(os, m)[p] = Printed(os, m - 1)[p]
    BY <1>5, Spans
<1>8. Span(os, k) <= Span(os, m)
    <2>1. Span(os, m - 1) \in Nat /\ Span(os, k) \in Nat /\ Span(os, m) \in Nat /\ Len(Separator) \in Nat
        <3>1. m - 1 \in 0 .. n /\ k \in 0 .. n /\ m \in 0 .. n
            BY <1>1, <1>5
        <3> HIDE DEF n
        <3> QED BY <1>1, <3>1, ObjectsAre
    <2>2. Span(os, k) <= Span(os, m - 1)
        BY <1>6
    <2> QED BY <1>7, <2>1, <2>2
<1>9. ASSUME NEW p \in 1 .. Span(os, k) PROVE Printed(os, m)[p] = Printed(os, k)[p]
    <2>1. p \in 1 .. Span(os, m - 1)
        BY <1>1, <1>5, <1>6
    <2> QED BY <1>6, <1>7, <2>1
<1> QED BY <1>3, <1>8, <1>9

LEMMA OutputChars ==
    ASSUME NEW os \in Seq(Objects), NEW k \in 1 .. Len(os)
    PROVE  /\ Span(os, k) <= Len(Json!Output(os)) /\ Len(Json!Output(os)) = Span(os, Len(os))
           /\ \A p \in 1 .. Len(os[k]) : Json!Output(os)[Span(os, k - 1) + p] = os[k][p]
           /\ \A p \in 1 .. Len(Separator) : Json!Output(os)[Span(os, k - 1) + Len(os[k]) + p] = "x"
<1> DEFINE n == Len(os)
           before == Span(os, k - 1)
<1>1. Json!Output(os) = Printed(os, n) /\ Len(Json!Output(os)) = Span(os, n)
    BY PrintedGrows DEF Span
<1>2. k \in 0 .. n /\ n \in k .. n /\ k - 1 \in 0 .. n
    OBVIOUS
<1>3. Span(os, k) <= Span(os, n) /\ \A p \in 1 .. Span(os, k) : Printed(os, n)[p] = Printed(os, k)[p]
    BY <1>2, Begins
<1>4. /\ Span(os, k) = before + Len(os[k]) + Len(Separator)
      /\ Len(os[k]) \in Nat /\ Len(Separator) \in Nat /\ before \in Nat
    BY <1>2, Spans, ObjectsAre
<1>5. /\ \A p \in 1 .. Len(os[k]) : Printed(os, k)[before + p] = os[k][p]
      /\ \A p \in 1 .. Len(Separator) : Printed(os, k)[before + Len(os[k]) + p] = "x"
    BY Spans
<1> HIDE DEF n, before
<1>6. ASSUME NEW p \in 1 .. Len(os[k]) PROVE Json!Output(os)[before + p] = os[k][p]
    <2>1. before + p \in 1 .. Span(os, k)
        BY <1>4
    <2> QED BY <1>1, <1>3, <1>5, <2>1
<1>7. ASSUME NEW p \in 1 .. Len(Separator) PROVE Json!Output(os)[before + Len(os[k]) + p] = "x"
    <2>1. before + Len(os[k]) + p \in 1 .. Span(os, k)
        BY <1>4
    <2> QED BY <1>1, <1>3, <1>5, <2>1
<1> QED BY <1>1, <1>3, <1>6, <1>7 DEF n, before

-----------------------------------------------------------------------------
(* How an object is read.                                                  *)

ReadsTo(it, o, m) == it = [n \in 0 .. m |-> IF n = 0 THEN Json!Before ELSE Json!Read(it[n - 1], o[n])]

LEMMA ReadsExist ==
    ASSUME NEW o, NEW m \in Nat
    PROVE  \E it : ReadsTo(it, o, m)
<1> DEFINE T == {l \in Nat : ~\E it : ReadsTo(it, o, l)}
<1> SUFFICES ASSUME T # {} PROVE FALSE
    OBVIOUS
<1>1. PICK l \in T : \A j \in T : l <= j
    <2>1. T \subseteq Nat OBVIOUS
    <2> HIDE DEF T
    <2> QED BY <2>1, Least
<1>2. l \in Nat /\ ~\E it : ReadsTo(it, o, l)
    OBVIOUS
<1>3. CASE l = 0
    <2> DEFINE it == [n \in 0 .. 0 |-> Json!Before]
    <2>1. ReadsTo(it, o, 0)
        BY DEF ReadsTo
    <2> HIDE DEF it
    <2> QED BY <1>2, <1>3, <2>1
<1>4. CASE l # 0
    <2>1. l - 1 \in Nat /\ ~(l <= l - 1)
        BY <1>2, <1>4
    <2>2. l - 1 \notin T
        <3> HIDE DEF T
        <3> QED BY <1>1, <2>1
    <2>3. PICK h : ReadsTo(h, o, l - 1)
        BY <2>1, <2>2
    <2> DEFINE it == [n \in 0 .. l |-> IF n = l THEN Json!Read(h[l - 1], o[l]) ELSE h[n]]
    <2>4. ASSUME NEW n \in 0 .. l
          PROVE  it[n] = IF n = 0 THEN Json!Before ELSE Json!Read(it[n - 1], o[n])
        <3>1. CASE n = l
            <4>1. l - 1 \in 0 .. l /\ l - 1 # l
                BY <1>2, <1>4
            <4>2. it[l - 1] = h[l - 1] /\ it[l] = Json!Read(h[l - 1], o[l])
                BY <1>2, <4>1
            <4> HIDE DEF it
            <4> QED BY <1>4, <3>1, <4>2
        <3>2. CASE n # l
            <4>1. n \in 0 .. l - 1 /\ it[n] = h[n]
                BY <1>2, <3>2
            <4>2. h[n] = IF n = 0 THEN Json!Before ELSE Json!Read(h[n - 1], o[n])
                BY <2>3, <4>1 DEF ReadsTo
            <4>3. n # 0 => it[n - 1] = h[n - 1]
                BY <1>2, <4>1
            <4> HIDE DEF it
            <4> QED BY <4>1, <4>2, <4>3
        <3> QED BY <3>1, <3>2
    <2>5. it = [n \in 0 .. l |-> it[n]]
        OBVIOUS
    <2>6. ReadsTo(it, o, l)
        <3> HIDE DEF it
        <3> QED BY <2>4, <2>5 DEF ReadsTo
    <2> HIDE DEF it, T
    <2> QED BY <1>2, <2>6
<1> QED BY <1>3, <1>4

LEMMA ReadingIs ==
    ASSUME NEW o \in Seq(Json!Chars)
    PROVE  /\ Json!Reading(o)[0] = Json!Before
           /\ \A n \in 1 .. Len(o) : Json!Reading(o)[n] = Json!Read(Json!Reading(o)[n - 1], o[n])
<1> DEFINE m == Len(o)
           it == CHOOSE f : ReadsTo(f, o, m)
<1>1. m \in Nat
    OBVIOUS
<1>2. ReadsTo(it, o, m)
    <2> HIDE DEF m
    <2> QED BY <1>1, ReadsExist
<1>3. Json!Reading(o) = it
    BY DEF Json!Reading, ReadsTo
<1> HIDE DEF it, m
<1>4. it[0] = Json!Before
    <2>1. 0 \in 0 .. m
        BY <1>1
    <2> QED BY <1>2, <2>1 DEF ReadsTo
<1>5. \A n \in 1 .. m : it[n] = Json!Read(it[n - 1], o[n])
    <2> TAKE n \in 1 .. m
    <2>1. n \in 0 .. m /\ n # 0
        BY <1>1
    <2> QED BY <1>2, <2>1 DEF ReadsTo
<1> QED BY <1>3, <1>4, <1>5 DEF m

ReaderStates == {s \in [depth : Int, inString : BOOLEAN, escaped : BOOLEAN] : s.escaped => s.inString}

LEMMA ReadType ==
    ASSUME NEW s \in ReaderStates, NEW c
    PROVE  Json!Read(s, c) \in ReaderStates
<1> DEFINE step == CASE c = "{" -> 1 [] c = "}" -> -1 [] OTHER -> 0
<1>1. step \in Int
    OBVIOUS
<1> HIDE DEF step
<1>2. CASE s.inString
    BY <1>2 DEF Json!Read, ReaderStates
<1>3. CASE ~s.inString
    <2>1. Json!Read(s, c) = [s EXCEPT !.inString = c = "quote", !.depth = @ + step]
        BY <1>3 DEF Json!Read, step
    <2>2. s.depth + step \in Int /\ ~s.escaped /\ s \in [depth : Int, inString : BOOLEAN, escaped : BOOLEAN]
        BY <1>1, <1>3 DEF ReaderStates
    <2>3. Json!Read(s, c) \in [depth : Int, inString : BOOLEAN, escaped : BOOLEAN]
        BY <2>1, <2>2
    <2>4. ~Json!Read(s, c).escaped
        BY <2>1, <2>2
    <2> QED BY <2>3, <2>4 DEF ReaderStates
<1> QED BY <1>2, <1>3

LEMMA ReadingType ==
    ASSUME NEW o \in Seq(Json!Chars)
    PROVE  \A n \in 0 .. Len(o) : Json!Reading(o)[n] \in ReaderStates
<1> DEFINE m == Len(o)
           T == {n \in 0 .. m : Json!Reading(o)[n] \notin ReaderStates}
<1> SUFFICES ASSUME T # {} PROVE FALSE
    OBVIOUS
<1>1. PICK n \in T : \A j \in T : n <= j
    <2>1. T \subseteq Nat OBVIOUS
    <2> HIDE DEF T
    <2> QED BY <2>1, Least
<1>2. n \in 0 .. m /\ Json!Reading(o)[n] \notin ReaderStates
    OBVIOUS
<1>3. n # 0
    <2>1. Json!Before \in ReaderStates
        BY DEF Json!Before, ReaderStates
    <2> QED BY <1>2, <2>1, ReadingIs
<1>4. n - 1 \in 0 .. m /\ n \in 1 .. m /\ ~(n <= n - 1)
    BY <1>2, <1>3
<1>5. Json!Reading(o)[n - 1] \in ReaderStates
    <2>1. n - 1 \notin T
        <3> HIDE DEF T, m
        <3> QED BY <1>1, <1>4
    <2> HIDE DEF m
    <2> QED BY <1>4, <2>1
<1> QED BY <1>2, <1>4, <1>5, ReadingIs, ReadType

-----------------------------------------------------------------------------
(* The scan.                                                               *)

Beginning(os, t) ==
    /\ t \in Seq(Json!Chars) /\ Len(t) \in 0 .. Len(Json!Output(os))
    /\ \A p \in 1 .. Len(t) : t[p] = Json!Output(os)[p]

\* At position p, after k objects: before the next one or in it.
BetweenObjects(os, k, p, state, from) ==
    /\ state = Json!Before /\ from = 0
    /\ p - 1 <= Span(os, k) /\ (k = 0 \/ Span(os, k) - Len(Separator) <= p - 1)
InObject(os, k, p, state, from) ==
    /\ k < Len(os) /\ p - 1 - Span(os, k) \in 1 .. Len(os[k + 1]) - 1
    /\ state = Json!Reading(os[k + 1])[p - 1 - Span(os, k)] /\ from = Span(os, k) + 1

\* The character before which an object is open, or is not.
LEMMA Opened ==
    ASSUME NEW os \in Seq(Objects), NEW k \in 0 .. Len(os), NEW p \in Nat, NEW state, NEW from,
           InObject(os, k, p, state, from)
    PROVE  state.depth > 0 /\ state \in ReaderStates
<1> DEFINE o == os[k + 1]
           j == p - 1 - Span(os, k)
<1>1. o \in Objects /\ k + 1 \in 1 .. Len(os)
    BY DEF InObject
<1>2. o \in Seq(Json!Chars) /\ Len(o) \in Nat
    BY <1>1, ObjectsAre
<1>3. j \in 1 .. Len(o) - 1 /\ state = Json!Reading(o)[j]
    BY DEF InObject
<1> HIDE DEF j, o
<1>4. Json!Reading(o)[j].depth > 0
    BY <1>1, <1>3, OmniAssumption DEF Json!Assumptions, Json!Resource
<1>5. j \in 0 .. Len(o)
    BY <1>2, <1>3
<1> QED BY <1>2, <1>3, <1>4, <1>5, ReadingType

\* Between objects: the character is one of a separator or the first of the next object.
LEMMA BetweenGoesOn ==
    ASSUME NEW os \in Seq(Objects), NEW t, Beginning(os, t), NEW k \in 0 .. Len(os),
           NEW p \in 1 .. Len(t), BetweenObjects(os, k, p, Json!Before, 0)
    PROVE  \/ t[p] = "x" /\ BetweenObjects(os, k, p + 1, Json!Before, 0)
           \/ t[p] = "{" /\ InObject(os, k, p + 1, Json!Read(Json!Before, t[p]), p)
<1> DEFINE n == Len(os)
<1>1. /\ n \in Nat /\ Len(t) \in Nat /\ Len(Separator) \in Nat
      /\ \A l \in 0 .. n : Span(os, l) \in Nat
      /\ t[p] = Json!Output(os)[p]
    <2>1. n \in Nat
        OBVIOUS
    <2>2. Len(t) \in Nat /\ t[p] = Json!Output(os)[p]
        BY DEF Beginning
    <2>3. Len(Separator) \in Nat
        BY ObjectsAre
    <2>4. \A l \in 0 .. n : Span(os, l) \in Nat
        BY Spans
    <2> QED BY <2>1, <2>2, <2>3, <2>4
<1>5. Span(os, k) \in Nat /\ p \in Nat
    <2>1. k \in 0 .. n
        OBVIOUS
    <2>2. Len(t) \in Nat /\ \A l \in 0 .. n : Span(os, l) \in Nat
        BY <1>1
    <2> HIDE DEF n
    <2> QED BY <2>1, <2>2
<1>2. p - 1 <= Span(os, k) /\ (k = 0 \/ Span(os, k) - Len(Separator) <= p - 1)
    BY DEF BetweenObjects
<1>3. CASE p - 1 < Span(os, k)
    <2>1. k # 0
        BY <1>1, <1>3, Spans
    <2>2. k \in 1 .. n /\ k - 1 \in 0 .. n
        BY <1>1, <2>1
    <2>3. Span(os, k) = Span(os, k - 1) + Len(os[k]) + Len(Separator) /\ Len(os[k]) \in Nat
        BY <2>2, Spans
    <2> DEFINE j == p - (Span(os, k - 1) + Len(os[k]))
    <2>4. Span(os, k) \in Nat /\ Span(os, k - 1) \in Nat /\ p \in Nat
        BY <1>1, <2>2
    <2>5. j \in 1 .. Len(Separator) /\ Span(os, k - 1) + Len(os[k]) + j = p
        <3> HIDE DEF n
        <3>1. Len(Separator) \in Nat /\ Span(os, k) - Len(Separator) <= p - 1
            BY <1>1, <1>2, <2>1
        <3> DEFINE a == Span(os, k - 1)
                   b == Span(os, k)
                   l == Len(os[k])
                   c == Len(Separator)
        <3>2. a \in Nat /\ b \in Nat /\ l \in Nat /\ c \in Nat /\ p \in Nat /\ b = a + l + c
              /\ b - c <= p - 1 /\ p - 1 < b
            BY <1>3, <2>3, <2>4, <3>1
        <3>3. j = p - (a + l)
            OBVIOUS
        <3> HIDE DEF a, b, l, c, j
        <3>4. j \in 1 .. c /\ a + l + j = p
            BY <3>2, <3>3
        <3> QED BY <3>4 DEF a, l, c
    <2>6. Json!Output(os)[Span(os, k - 1) + Len(os[k]) + j] = "x"
        <3> HIDE DEF j
        <3> QED BY <2>2, <2>5, OutputChars
    <2>7. t[p] = "x"
        BY <1>1, <2>5, <2>6
    <2> QED BY <1>1, <1>2, <1>3, <2>4, <2>7 DEF BetweenObjects
<1>4. CASE p - 1 = Span(os, k)
    <2>1. k < n
        <3>1. ASSUME k = n PROVE FALSE
            <4>1. Len(Json!Output(os)) = Span(os, n)
                BY PrintedGrows DEF Span
            <4>2. Len(t) <= Span(os, n)
                BY <4>1 DEF Beginning
            <4> QED BY <1>1, <1>4, <3>1, <4>2
        <3> QED BY <1>1, <3>1
    <2> DEFINE o == os[k + 1]
    <2>2. k + 1 \in 1 .. n /\ (k + 1) - 1 = k /\ o \in Objects
        BY <1>1, <2>1, SMTT(30)
    <2>3. /\ o \in Seq(Json!Chars) /\ Len(o) \in Nat /\ o # << >> /\ o[1] = "{"
          /\ \A i \in 1 .. Len(o) - 1 : Json!Reading(o)[i].depth > 0
          /\ Json!Reading(o)[Len(o)] = Json!Before
        BY <2>2, ObjectsAre, OmniAssumption DEF Json!Assumptions, Json!Resource
    <2>4. \A i \in 1 .. Len(o) : Json!Output(os)[Span(os, k) + i] = o[i]
        BY <2>2, OutputChars
    <2> HIDE DEF o
    <2>5. Len(o) >= 1
        <3>1. Len(o) # 0
            <4>1. o \in Seq(Json!Chars) /\ o # << >>
                BY <2>3
            <4> QED BY <4>1, EmptySeq
        <3>2. Len(o) \in Nat
            BY <2>3
        <3> QED BY <3>1, <3>2
    <2>6. t[p] = "{"
        <3>1. 1 \in 1 .. Len(o) /\ Span(os, k) + 1 = p
            <4>1. Span(os, k) \in Nat /\ Len(o) \in Nat
                BY <1>1, <2>3
            <4> QED BY <1>4, <2>5, <4>1
        <3> QED BY <1>1, <2>3, <2>4, <3>1
    <2>7. Json!Reading(o)[1] = Json!Read(Json!Before, "{")
        <3>1. 1 \in 1 .. Len(o) /\ 1 - 1 = 0
            <4>1. Len(o) \in Nat
                BY <2>3
            <4> QED BY <2>5, <4>1
        <3> QED BY <2>3, <3>1, ReadingIs
    <2>8. Len(o) # 1
        <3> SUFFICES ASSUME Len(o) = 1 PROVE FALSE
            OBVIOUS
        <3>1. Json!Read(Json!Before, "{").depth = 1
            BY DEF Json!Read, Json!Before
        <3>2. Json!Before.depth = 0
            BY DEF Json!Before
        <3>3. Json!Reading(o)[Len(o)] = Json!Before
            BY <2>3
        <3>4. Json!Reading(o)[1] = Json!Before
            BY <3>3
        <3>5. Json!Read(Json!Before, "{") = Json!Before
            BY <2>7, <3>4
        <3>6. Json!Read(Json!Before, "{").depth = Json!Before.depth
            BY <3>5
        <3>7. 1 = 0
            BY <3>1, <3>2, <3>6
        <3> QED BY <3>7
    <2>9. InObject(os, k, p + 1, Json!Read(Json!Before, t[p]), p)
        <3>1. (p + 1) - 1 - Span(os, k) = 1 /\ 1 \in 1 .. Len(o) - 1 /\ p = Span(os, k) + 1
            <4>1. Len(o) \in Nat
                BY <2>3
            <4>2. 1 \in 1 .. Len(o) - 1
                <5> DEFINE l == Len(o)
                <5>1. l \in Nat /\ l >= 1 /\ l # 1
                    BY <2>5, <2>8, <4>1
                <5> HIDE DEF l
                <5>2. 1 \in 1 .. l - 1
                    BY <5>1
                <5> QED BY <5>2 DEF l
            <4>3. (p + 1) - 1 - Span(os, k) = 1 /\ p = Span(os, k) + 1
                BY <1>4, <1>5
            <4> QED BY <4>2, <4>3
        <3> QED BY <2>1, <2>6, <2>7, <3>1 DEF InObject, o
    <2> QED BY <2>6, <2>9
<1> HIDE DEF n
<1>6. p - 1 < Span(os, k) \/ p - 1 = Span(os, k)
    BY <1>2, <1>5
<1> QED BY <1>3, <1>4, <1>6

\* In an object: it stays open, or this is its last character and all of it has been read.
LEMMA InObjectGoesOn ==
    ASSUME NEW os \in Seq(Objects), NEW t, Beginning(os, t), NEW k \in 0 .. Len(os),
           NEW p \in 1 .. Len(t), NEW state, NEW from, InObject(os, k, p, state, from)
    PROVE  LET next == Json!Read(state, t[p])
           IN  \/ next.depth > 0 /\ InObject(os, k, p + 1, next, from)
               \/ /\ k + 1 \in 0 .. Len(os) /\ next = Json!Before
                  /\ BetweenObjects(os, k + 1, p + 1, Json!Before, 0)
                  /\ SubSeq(t, from, p) = os[k + 1]
<1> DEFINE o == os[k + 1]
           a == Span(os, k)
           b == Span(os, k + 1)
           l == Len(o)
           c == Len(Separator)
           j == p - 1 - a
           next == Json!Read(state, t[p])
<1>1. k + 1 \in 1 .. Len(os) /\ k + 1 \in 0 .. Len(os) /\ (k + 1) - 1 = k /\ o \in Objects /\ k < Len(os)
    BY DEF InObject
<1>2. o \in Seq(Json!Chars) /\ l \in Nat /\ c \in Nat
    BY <1>1, ObjectsAre
<1>3. a \in Nat /\ p \in Nat
    <2>1. Len(t) \in Nat
        BY DEF Beginning
    <2>2. a \in Nat
        BY Spans
    <2> QED BY <2>1, <2>2
<1>4. j \in 1 .. l - 1 /\ state = Json!Reading(o)[j] /\ from = a + 1
    BY DEF InObject
<1>5. b = a + l + c
    BY <1>1, Spans
<1>6. \A i \in 1 .. l : Json!Output(os)[a + i] = o[i]
    BY <1>1, OutputChars
<1>7. Json!Reading(o)[l] = Json!Before /\ \A i \in 1 .. l - 1 : Json!Reading(o)[i].depth > 0
    BY <1>1, OmniAssumption DEF Json!Assumptions, Json!Resource
<1>8. \A i \in 1 .. Len(t) : t[i] = Json!Output(os)[i]
    BY DEF Beginning
<1>9. t \in Seq(Json!Chars) /\ Len(t) \in Nat
    BY DEF Beginning
<1>10. \A i \in 1 .. l : Json!Reading(o)[i] = Json!Read(Json!Reading(o)[i - 1], o[i])
    BY <1>2, ReadingIs
<1>11. InObject(os, k, p + 1, next, from) <=>
          (p + 1) - 1 - a \in 1 .. l - 1 /\ next = Json!Reading(o)[(p + 1) - 1 - a] /\ from = a + 1
    BY <1>1 DEF InObject
<1>12. (p + 1) - 1 <= b /\ b - c <= (p + 1) - 1 => BetweenObjects(os, k + 1, p + 1, Json!Before, 0)
    BY DEF BetweenObjects
<1> HIDE DEF o, a, b, l, c, next
<1>13. j + 1 \in 1 .. l /\ (j + 1) - 1 = j /\ a + (j + 1) = p /\ (p + 1) - 1 - a = j + 1
    BY <1>2, <1>3, <1>4
<1> HIDE DEF j
<1>14. t[p] = o[j + 1]
    <2>1. Json!Output(os)[a + (j + 1)] = o[j + 1]
        BY <1>6, <1>13
    <2> QED BY <1>8, <1>13, <2>1
<1>15. next = Json!Reading(o)[j + 1]
    <2>1. Json!Reading(o)[j + 1] = Json!Read(Json!Reading(o)[(j + 1) - 1], o[j + 1])
        BY <1>10, <1>13
    <2> QED BY <1>4, <1>13, <1>14, <2>1 DEF next
<1>16. CASE j + 1 # l
    <2>1. j + 1 \in 1 .. l - 1
        BY <1>2, <1>13, <1>16
    <2>2. next.depth > 0
        BY <1>7, <1>15, <2>1
    <2>3. InObject(os, k, p + 1, next, from)
        BY <1>4, <1>11, <1>13, <1>15, <2>1
    <2> QED BY <2>2, <2>3 DEF next
<1>17. CASE j + 1 = l
    <2>1. next = Json!Before /\ p = a + l
        BY <1>7, <1>13, <1>15, <1>17
    <2>2. BetweenObjects(os, k + 1, p + 1, Json!Before, 0)
        BY <1>2, <1>3, <1>5, <1>12, <2>1
    <2>3. SubSeq(t, from, p) = o
        <3> DEFINE s == SubSeq(t, from, p)
        <3>1. from \in 1 .. Len(t) + 1 /\ p \in from - 1 .. Len(t) /\ p - from + 1 = l /\ from <= p
            BY <1>2, <1>3, <1>4, <1>9, <1>13, <2>1
        <3>2. /\ s \in Seq(Json!Chars) /\ Len(s) = IF from <= p THEN p - from + 1 ELSE 0
              /\ \A i \in 1 .. p - from + 1 : s[i] = t[from + i - 1]
            BY <1>9, <3>1, SubSeqProperties
        <3> HIDE DEF s
        <3>3. Len(s) = l
            BY <3>1, <3>2
        <3>4. ASSUME NEW i \in 1 .. l PROVE s[i] = o[i]
            <4>1. from + i - 1 = a + i /\ a + i \in 1 .. Len(t)
                BY <1>2, <1>3, <1>4, <1>9, <2>1
            <4>2. s[i] = t[a + i]
                BY <3>1, <3>2, <4>1
            <4> QED BY <1>6, <1>8, <4>1, <4>2
        <3>5. Len(s) = Len(o) /\ \A i \in 1 .. Len(s) : s[i] = o[i]
            BY <3>3, <3>4 DEF l
        <3> QED BY <1>2, <3>2, <3>5, SeqEqual DEF s
    <2> QED BY <1>1, <2>1, <2>2, <2>3 DEF next, o
<1> QED BY <1>16, <1>17

ScannedTo(os, found, k, p, state, from) ==
    /\ found = SubSeq(os, 1, k)
    /\ BetweenObjects(os, k, p, state, from) \/ InObject(os, k, p, state, from)
Reader == [depth |-> depth, inString |-> inString, escaped |-> escaped]

JsonInv ==
    /\ printed \in Seq(Objects) /\ Beginning(printed, text) /\ pos \in 1 .. Len(text) + 1
    /\ \E k \in 0 .. Len(printed) : ScannedTo(printed, objects, k, pos, Reader, start)
    /\ parsing \in {"parsing", "done", "thrown"}
    /\ parsing # "parsing" => pos = Len(text) + 1 /\ (parsing = "done" <=> depth = 0)

LEMMA ReaderIs ==
    ASSUME JsonInv
    PROVE  /\ depth \in Nat /\ inString \in BOOLEAN /\ escaped \in BOOLEAN /\ Reader \in ReaderStates
           /\ escaped => inString
           /\ depth = 0 => Reader = Json!Before /\ start = 0 /\ ~inString /\ ~escaped
           /\ depth > 0 => start > 0
           /\ start \in 0 .. pos - 1
           /\ Len(text) \in Nat /\ pos \in Nat
<1>1. PICK k \in 0 .. Len(printed) : ScannedTo(printed, objects, k, pos, Reader, start)
    BY DEF JsonInv
<1>2. printed \in Seq(Objects) /\ Len(text) \in Nat /\ pos \in Nat /\ pos >= 1
    BY DEF JsonInv, Beginning
<1>3. Span(printed, k) \in Nat
    BY <1>2, Spans
<1>4. Reader.depth = depth /\ Reader.inString = inString /\ Reader.escaped = escaped
    BY DEF Reader
<1>5. CASE BetweenObjects(printed, k, pos, Reader, start)
    <2>1. Reader = Json!Before /\ start = 0
        BY <1>5 DEF BetweenObjects
    <2>2. depth = 0 /\ inString = FALSE /\ escaped = FALSE
        BY <1>4, <2>1 DEF Json!Before
    <2>3. Reader \in ReaderStates
        <3>1. Reader = [depth |-> 0, inString |-> FALSE, escaped |-> FALSE]
            BY <2>1 DEF Json!Before
        <3>2. Reader \in [depth : Int, inString : BOOLEAN, escaped : BOOLEAN]
            BY <3>1
        <3>3. ~Reader.escaped
            BY <1>4, <2>2
        <3> QED BY <3>2, <3>3 DEF ReaderStates
    <2>4. depth \in Nat /\ ~(depth > 0)
        BY <2>2
    <2>5. inString \in BOOLEAN /\ escaped \in BOOLEAN /\ ~inString /\ ~escaped
        BY <2>2
    <2>6. start \in 0 .. pos - 1
        BY <1>2, <2>1
    <2> QED BY <1>2, <2>1, <2>3, <2>4, <2>5, <2>6
<1>6. CASE InObject(printed, k, pos, Reader, start)
    <2>1. Reader.depth > 0 /\ Reader \in ReaderStates
        BY <1>2, <1>6, Opened
    <2>2. depth \in Int /\ depth > 0 /\ inString \in BOOLEAN /\ escaped \in BOOLEAN /\ (escaped => inString)
        BY <1>4, <2>1 DEF ReaderStates
    <2>3. start = Span(printed, k) + 1 /\ pos - 1 - Span(printed, k) >= 1
        BY <1>6 DEF InObject
    <2>4. start \in 0 .. pos - 1 /\ start > 0
        BY <1>2, <1>3, <2>3
    <2> QED BY <1>2, <2>1, <2>2, <2>4
<1> QED BY <1>1, <1>5, <1>6 DEF ScannedTo

LEMMA JsonStarts ==
    ASSUME Json!Init PROVE JsonInv
<1> USE DEF Json!Init
<1>1. printed \in Seq(Objects)
    <2>1. PICK n \in 0 .. MaxObjects : printed \in [1 .. n -> Objects]
        OBVIOUS
    <2>2. n \in Nat
        BY OmniAssumption DEF Json!Assumptions
    <2> QED BY <2>1, <2>2
<1>2. Json!Output(printed) \in Seq(Json!Chars) /\ Len(Json!Output(printed)) \in Nat
    <2>1. Printed(printed, Len(printed)) \in Seq(Json!Chars) /\ Printed(printed, Len(printed)) = Json!Output(printed)
        <3>1. Len(printed) \in 0 .. Len(printed)
            BY <1>1
        <3> QED BY <1>1, <3>1, PrintedGrows
    <2> QED BY <2>1, LenProperties
<1>3. PICK cut \in 0 .. Len(Json!Output(printed)) : text = SubSeq(Json!Output(printed), 1, cut)
    OBVIOUS
<1> DEFINE out == Json!Output(printed)
<1>4. /\ text \in Seq(Json!Chars) /\ Len(text) = IF 1 <= cut THEN cut - 1 + 1 ELSE 0
      /\ \A i \in 1 .. cut - 1 + 1 : text[i] = out[1 + i - 1]
    <2>1. 1 \in 1 .. Len(out) + 1 /\ cut \in 1 - 1 .. Len(out)
        BY <1>2
    <2> HIDE DEF out
    <2> QED BY <1>2, <1>3, <2>1, SubSeqProperties DEF out
<1>5. Beginning(printed, text) /\ Len(text) \in Nat
    <2>1. Len(text) = cut /\ cut \in Nat
        BY <1>2, <1>4
    <2>2. \A i \in 1 .. cut : text[i] = out[i]
        <3> TAKE i \in 1 .. cut
        <3>1. i \in 1 .. cut - 1 + 1 /\ 1 + i - 1 = i
            BY <2>1
        <3> HIDE DEF out
        <3> QED BY <1>4, <3>1
    <2> QED BY <1>3, <1>4, <2>1, <2>2 DEF Beginning
<1>6. ScannedTo(printed, objects, 0, pos, Reader, start)
    <2>1. SubSeq(printed, 1, 0) = << >>
        BY <1>1, SubSeqEmpty
    <2>2. Reader = Json!Before
        BY DEF Reader, Json!Before
    <2>3. pos - 1 <= Span(printed, 0)
        BY <1>1, Spans
    <2> QED BY <2>1, <2>2, <2>3 DEF ScannedTo, BetweenObjects
<1>7. 0 \in 0 .. Len(printed)
    BY <1>1
<1> QED BY <1>1, <1>5, <1>6, <1>7 DEF JsonInv

LEMMA Grows ==
    ASSUME NEW os \in Seq(Objects), NEW k \in 0 .. Len(os), k + 1 \in 0 .. Len(os)
    PROVE  Append(SubSeq(os, 1, k), os[k + 1]) = SubSeq(os, 1, k + 1)
<1>1. k + 1 \in 1 .. Len(os) /\ (k + 1) - 1 = k
    OBVIOUS
<1>2. SubSeq(os, 1, k + 1) = SubSeq(os, 1, (k + 1) - 1) \o << os[k + 1] >>
    BY <1>1, SubSeqRecursiveSecond
<1>3. SubSeq(os, 1, k) \in Seq(Objects)
    BY SubSeqProperties
<1>4. Append(SubSeq(os, 1, k), os[k + 1]) = SubSeq(os, 1, k) \o << os[k + 1] >>
    BY <1>1, <1>3, AppendIsConcat
<1> QED BY <1>1, <1>2, <1>4

LEMMA ReadIs ==
    ASSUME NEW d \in Int, NEW quoted \in BOOLEAN, NEW escape \in BOOLEAN, NEW c
    PROVE  Json!Read([depth |-> d, inString |-> quoted, escaped |-> escape], c)
             = IF quoted
               THEN [depth |-> d, inString |-> escape \/ c # "quote", escaped |-> ~escape /\ c = "backslash"]
               ELSE [depth |-> IF c = "{" THEN d + 1 ELSE IF c = "}" THEN d - 1 ELSE d,
                     inString |-> c = "quote", escaped |-> escape]
<1> DEFINE s == [depth |-> d, inString |-> quoted, escaped |-> escape]
           step == CASE c = "{" -> 1 [] c = "}" -> -1 [] OTHER -> 0
           deeper == IF c = "{" THEN d + 1 ELSE IF c = "}" THEN d - 1 ELSE d
           opening == c = "quote"
           ending == c # "quote"
           bare == c = "backslash"
<1>1. s.depth = d /\ s.inString = quoted /\ s.escaped = escape
    OBVIOUS
<1>2. Json!Read(s, c)
         = IF s.inString THEN [s EXCEPT !.escaped = ~s.escaped /\ bare, !.inString = s.escaped \/ ending]
           ELSE [s EXCEPT !.inString = opening, !.depth = s.depth + step]
    BY DEF Json!Read
<1>3. step = IF c = "{" THEN 1 ELSE IF c = "}" THEN -1 ELSE 0
    OBVIOUS
<1>4. opening \in BOOLEAN /\ ending \in BOOLEAN /\ bare \in BOOLEAN
    OBVIOUS
<1>5. d + step = deeper
    <2> HIDE DEF step
    <2>1. CASE c = "{"
        <3>1. step = 1 /\ deeper = d + 1
            BY <1>3, <2>1
        <3> QED BY <3>1
    <2>2. CASE c # "{" /\ c = "}"
        <3>1. step = -1 /\ deeper = d - 1
            BY <1>3, <2>2
        <3> HIDE DEF deeper
        <3> QED BY <3>1
    <2>3. CASE c # "{" /\ c # "}"
        <3>1. step = 0 /\ deeper = d
            BY <1>3, <2>3
        <3> HIDE DEF deeper
        <3> QED BY <3>1
    <2> QED BY <2>1, <2>2, <2>3
<1>8. step \in Int /\ d + step \in Int
    <2>1. step \in Int
        OBVIOUS
    <2> HIDE DEF step
    <2> QED BY <2>1
<1>9. s \in [depth : Int, inString : BOOLEAN, escaped : BOOLEAN]
    OBVIOUS
<1> HIDE DEF step, opening, ending, bare, deeper
<1>6. CASE quoted
    <2> DEFINE a == escape \/ ending
               b == ~escape /\ bare
    <2>1. Json!Read(s, c) = [s EXCEPT !.escaped = b, !.inString = a]
        <3> HIDE DEF s
        <3> QED BY <1>1, <1>2, <1>6
    <2>3. a \in BOOLEAN /\ b \in BOOLEAN
        OBVIOUS
    <2> HIDE DEF a, b
    <2>2. [s EXCEPT !.escaped = b, !.inString = a] = [depth |-> d, inString |-> a, escaped |-> b]
        <3> DEFINE t == [s EXCEPT !.escaped = b, !.inString = a]
        <3>1. t \in [depth : Int, inString : BOOLEAN, escaped : BOOLEAN]
            <4> HIDE DEF s
            <4> QED BY <1>9, <2>3
        <3>2. t.depth = d /\ t.inString = a /\ t.escaped = b
            <4> HIDE DEF s
            <4> QED BY <1>1, <1>9
        <3>3. t = [depth |-> t.depth, inString |-> t.inString, escaped |-> t.escaped]
            <4> HIDE DEF t
            <4> QED BY <3>1
        <3> HIDE DEF t
        <3> QED BY <3>2, <3>3 DEF t
    <2> HIDE DEF s
    <2> QED BY <1>6, <2>1, <2>2 DEF a, b, s, ending, bare
<1>7. CASE ~quoted
    <2> DEFINE more == d + step
    <2>1. Json!Read(s, c) = [s EXCEPT !.inString = opening, !.depth = more]
        <3> HIDE DEF s
        <3> QED BY <1>1, <1>2, <1>7
    <2>3. more \in Int
        BY <1>8
    <2> HIDE DEF more
    <2>2. [s EXCEPT !.inString = opening, !.depth = more]
             = [depth |-> more, inString |-> opening, escaped |-> escape]
        <3> DEFINE t == [s EXCEPT !.inString = opening, !.depth = more]
        <3>1. t \in [depth : Int, inString : BOOLEAN, escaped : BOOLEAN]
            <4> HIDE DEF s
            <4> QED BY <1>4, <1>9, <2>3
        <3>2. t.depth = more /\ t.inString = opening /\ t.escaped = escape
            <4> HIDE DEF s
            <4> QED BY <1>1, <1>9
        <3>3. t = [depth |-> t.depth, inString |-> t.inString, escaped |-> t.escaped]
            <4> HIDE DEF t
            <4> QED BY <3>1
        <3> HIDE DEF t
        <3> QED BY <3>2, <3>3 DEF t
    <2> HIDE DEF s
    <2> QED BY <1>5, <1>7, <2>1, <2>2 DEF more, s, opening, deeper
<1> QED BY <1>6, <1>7

LEMMA Here ==
    ASSUME JsonInv
    PROVE  /\ printed \in Seq(Objects) /\ Beginning(printed, text) /\ Len(text) \in Nat /\ pos \in Nat
           /\ pos <= Len(text) => pos \in 1 .. Len(text) /\ pos + 1 \in 1 .. Len(text) + 1
           /\ pos > Len(text) => pos = Len(text) + 1
<1>1. printed \in Seq(Objects) /\ Beginning(printed, text)
    BY DEF JsonInv
<1>2. Len(text) \in Nat
    BY ReaderIs
<1>3. pos \in 1 .. Len(text) + 1
    BY DEF JsonInv
<1> QED BY <1>1, <1>2, <1>3

LEMMA OpenGoesOn ==
    ASSUME JsonInv, pos <= Len(text), NEW k \in 0 .. Len(printed), InObject(printed, k, pos, Reader, start)
    PROVE  \/ Json!Read(Reader, text[pos]).depth > 0
              /\ InObject(printed, k, pos + 1, Json!Read(Reader, text[pos]), start)
           \/ /\ k + 1 \in 0 .. Len(printed) /\ Json!Read(Reader, text[pos]) = Json!Before
              /\ BetweenObjects(printed, k + 1, pos + 1, Json!Before, 0)
              /\ SubSeq(text, start, pos) = printed[k + 1]
<1>1. printed \in Seq(Objects) /\ Beginning(printed, text) /\ pos \in 1 .. Len(text)
    BY Here
<1> DEFINE next == Json!Read(Reader, text[pos])
<1>2. \/ next.depth > 0 /\ InObject(printed, k, pos + 1, next, start)
      \/ /\ k + 1 \in 0 .. Len(printed) /\ next = Json!Before
         /\ BetweenObjects(printed, k + 1, pos + 1, Json!Before, 0)
         /\ SubSeq(text, start, pos) = printed[k + 1]
    BY <1>1, InObjectGoesOn
<1> QED BY <1>2

LEMMA BlankRead == Json!Read(Json!Before, "x") = Json!Before
<1>1. 0 \in Int
    OBVIOUS
<1>2. Json!Read([depth |-> 0, inString |-> FALSE, escaped |-> FALSE], "x")
        = [depth |-> IF "x" = "{" THEN 0 + 1 ELSE IF "x" = "}" THEN 0 - 1 ELSE 0,
           inString |-> "x" = "quote", escaped |-> FALSE]
    BY <1>1, ReadIs
<1>3. (IF "x" = "{" THEN 0 + 1 ELSE IF "x" = "}" THEN 0 - 1 ELSE 0) = 0
    OBVIOUS
<1>4. ("x" = "quote") = FALSE
    OBVIOUS
<1> QED BY <1>2, <1>3, <1>4 DEF Json!Before

\* A character is consumed: what is open stays open, or is split off as its last one is read.
LEMMA Consumes ==
    ASSUME JsonInv, parsing = "parsing", pos <= Len(text),
           pos' = pos + 1, UNCHANGED <<printed, text, parsing>>, Reader' = Json!Read(Reader, text[pos]),
           depth = 0 => start' = (IF text[pos] = "{" THEN pos ELSE start) /\ UNCHANGED objects,
           depth > 0 /\ depth' > 0 => UNCHANGED <<start, objects>>,
           depth > 0 /\ depth' = 0 => start' = 0 /\ objects' = Append(objects, SubSeq(text, start, pos))
    PROVE  JsonInv'
<1>1. PICK k \in 0 .. Len(printed) : ScannedTo(printed, objects, k, pos, Reader, start)
    BY DEF JsonInv
<1>2. printed \in Seq(Objects) /\ Beginning(printed, text) /\ Len(text) \in Nat /\ pos \in Nat /\ pos \in 1 .. Len(text)
    BY Here
<1>3. Reader'.depth = depth'
    BY DEF Reader
<1>4. ASSUME NEW l \in 0 .. Len(printed), ScannedTo(printed, objects', l, pos + 1, Reader', start')
      PROVE  JsonInv'
    <2>1. pos' \in 1 .. Len(text') + 1
        BY Here
    <2>2. ScannedTo(printed', objects', l, pos', Reader', start') /\ l \in 0 .. Len(printed')
        BY <1>4
    <2>3. printed' \in Seq(Objects) /\ Beginning(printed', text')
        BY <1>2
    <2>4. parsing' = "parsing"
        OBVIOUS
    <2> QED BY <2>1, <2>2, <2>3, <2>4 DEF JsonInv
<1>5. objects = SubSeq(printed, 1, k)
    BY <1>1 DEF ScannedTo
<1>6. CASE BetweenObjects(printed, k, pos, Reader, start)
    <2>1. Reader = Json!Before /\ start = 0
        BY <1>6 DEF BetweenObjects
    <2>2. depth = 0
        BY <2>1 DEF Reader, Json!Before
    <2>3. objects' = objects /\ start' = IF text[pos] = "{" THEN pos ELSE start
        BY <2>2
    <2>4. BetweenObjects(printed, k, pos, Json!Before, 0)
        BY <1>6, <2>1
    <2>5. CASE text[pos] = "x" /\ BetweenObjects(printed, k, pos + 1, Json!Before, 0)
        <3>1. Json!Read(Json!Before, "x") = Json!Before
            BY BlankRead
        <3>2. start' = 0 /\ Reader' = Json!Before
            BY <2>1, <2>3, <2>5, <3>1
        <3> QED BY <1>4, <1>5, <2>3, <2>5, <3>2 DEF ScannedTo
    <2>6. CASE text[pos] = "{" /\ InObject(printed, k, pos + 1, Json!Read(Json!Before, text[pos]), pos)
        <3>1. start' = pos /\ Reader' = Json!Read(Json!Before, text[pos])
            BY <2>1, <2>3, <2>6
        <3> QED BY <1>4, <1>5, <2>3, <2>6, <3>1 DEF ScannedTo
    <2> QED BY <1>2, <2>4, <2>5, <2>6, BetweenGoesOn
<1>7. CASE InObject(printed, k, pos, Reader, start)
    <2>1. depth > 0
        <3>1. Reader.depth > 0
            BY <1>2, <1>7, Opened
        <3> QED BY <3>1 DEF Reader
    <2>2. CASE Reader'.depth > 0 /\ InObject(printed, k, pos + 1, Reader', start)
        <3>1. UNCHANGED <<start, objects>>
            BY <1>3, <2>1, <2>2
        <3> QED BY <1>4, <1>5, <2>2, <3>1 DEF ScannedTo
    <2>3. CASE /\ k + 1 \in 0 .. Len(printed) /\ Reader' = Json!Before
               /\ BetweenObjects(printed, k + 1, pos + 1, Json!Before, 0)
               /\ SubSeq(text, start, pos) = printed[k + 1]
        <3>1. depth' = 0
            <4>1. Json!Before.depth = 0
                BY DEF Json!Before
            <4> QED BY <1>3, <2>3, <4>1
        <3>2. start' = 0 /\ objects' = Append(objects, printed[k + 1])
            BY <2>1, <2>3, <3>1
        <3>3. Append(SubSeq(printed, 1, k), printed[k + 1]) = SubSeq(printed, 1, k + 1)
            BY <1>2, <2>3, Grows
        <3>4. ScannedTo(printed, objects', k + 1, pos + 1, Reader', start')
            BY <1>5, <2>3, <3>2, <3>3 DEF ScannedTo
        <3> QED BY <1>4, <2>3, <3>4
    <2>4. \/ Reader'.depth > 0 /\ InObject(printed, k, pos + 1, Reader', start)
          \/ /\ k + 1 \in 0 .. Len(printed) /\ Reader' = Json!Before
             /\ BetweenObjects(printed, k + 1, pos + 1, Json!Before, 0)
             /\ SubSeq(text, start, pos) = printed[k + 1]
        BY <1>1, <1>7, OpenGoesOn
    <2> QED BY <2>2, <2>3, <2>4
<1> QED BY <1>1, <1>6, <1>7 DEF ScannedTo

LEMMA ReaderReads ==
    ASSUME JsonInv
    PROVE  /\ ~inString =>
                 Json!Read(Reader, text[pos])
                   = [depth |-> IF text[pos] = "{" THEN depth + 1 ELSE IF text[pos] = "}" THEN depth - 1 ELSE depth,
                      inString |-> text[pos] = "quote", escaped |-> FALSE]
           /\ inString /\ ~escaped =>
                 Json!Read(Reader, text[pos])
                   = [depth |-> depth, inString |-> text[pos] # "quote", escaped |-> text[pos] = "backslash"]
           /\ inString /\ escaped =>
                 Json!Read(Reader, text[pos]) = [depth |-> depth, inString |-> TRUE, escaped |-> FALSE]
           /\ ~inString => escaped = FALSE
<1>1. depth \in Nat /\ inString \in BOOLEAN /\ escaped \in BOOLEAN /\ (escaped => inString)
    BY ReaderIs
<1>2. depth \in Int
    BY <1>1
<1>3. ~inString => Reader = [depth |-> depth, inString |-> FALSE, escaped |-> FALSE]
    BY <1>1 DEF Reader
<1>4. inString /\ ~escaped => Reader = [depth |-> depth, inString |-> TRUE, escaped |-> FALSE]
    BY <1>1 DEF Reader
<1>5. inString /\ escaped => Reader = [depth |-> depth, inString |-> TRUE, escaped |-> TRUE]
    BY <1>1 DEF Reader
<1> DEFINE c == text[pos]
<1> HIDE DEF c
<1>6. Json!Read([depth |-> depth, inString |-> FALSE, escaped |-> FALSE], c)
         = [depth |-> IF c = "{" THEN depth + 1 ELSE IF c = "}" THEN depth - 1 ELSE depth,
            inString |-> c = "quote", escaped |-> FALSE]
    BY <1>2, ReadIs
<1>7. Json!Read([depth |-> depth, inString |-> TRUE, escaped |-> FALSE], c)
         = [depth |-> depth, inString |-> c # "quote", escaped |-> c = "backslash"]
    BY <1>2, ReadIs
<1>8. Json!Read([depth |-> depth, inString |-> TRUE, escaped |-> TRUE], c)
         = [depth |-> depth, inString |-> TRUE, escaped |-> FALSE]
    BY <1>2, ReadIs
<1> QED BY <1>1, <1>3, <1>4, <1>5, <1>6, <1>7, <1>8 DEF c

LEMMA InStringKeeps ==
    ASSUME JsonInv, Json!InString PROVE JsonInv'
<1>1. /\ parsing = "parsing" /\ pos <= Len(text) /\ inString /\ pos' = pos + 1
      /\ UNCHANGED <<printed, text, depth, start, objects, parsing>>
    BY DEF Json!InString, Json!Scans
<1>2. /\ depth \in Nat /\ inString \in BOOLEAN /\ escaped \in BOOLEAN /\ depth # 0
      /\ depth = 0 \/ depth > 0
    BY <1>1, ReaderIs
<1>3. Reader' = Json!Read(Reader, text[pos])
    <2>1. CASE escaped
        <3>1. inString' = TRUE /\ escaped' = FALSE
            BY <1>1, <1>2, <2>1 DEF Json!InString, Json!Escapes
        <3>2. Json!Read(Reader, text[pos]) = [depth |-> depth, inString |-> TRUE, escaped |-> FALSE]
            BY <1>1, <2>1, ReaderReads
        <3> QED BY <1>1, <3>1, <3>2 DEF Reader
    <2>2. CASE ~escaped
        <3>1. inString' = (text[pos] # "quote") /\ escaped' = (text[pos] = "backslash")
            BY <1>1, <1>2, <2>2 DEF Json!InString, Json!Escapes, Json!ch
        <3>2. Json!Read(Reader, text[pos])
                = [depth |-> depth, inString |-> text[pos] # "quote", escaped |-> text[pos] = "backslash"]
            BY <1>1, <2>2, ReaderReads
        <3> QED BY <1>1, <3>1, <3>2 DEF Reader
    <2> QED BY <2>1, <2>2
<1>4. depth' > 0
    BY <1>1, <1>2
<1> QED BY <1>1, <1>2, <1>3, <1>4, Consumes

LEMMA PlainKeeps ==
    ASSUME JsonInv, Json!Plain PROVE JsonInv'
<1>1. /\ parsing = "parsing" /\ pos <= Len(text) /\ ~inString /\ pos' = pos + 1
      /\ text[pos] \notin {"{", "}"} /\ inString' = (text[pos] = "quote")
      /\ UNCHANGED <<printed, text, depth, start, escaped, objects, parsing>>
    BY DEF Json!Plain, Json!Scans, Json!ch
<1>2. /\ depth \in Nat /\ inString \in BOOLEAN /\ escaped \in BOOLEAN
      /\ depth = 0 => ~(depth > 0)
    <2>1. depth \in Nat /\ inString \in BOOLEAN /\ escaped \in BOOLEAN
        BY ReaderIs
    <2>2. depth = 0 => ~(depth > 0)
        BY <2>1
    <2> QED BY <2>1, <2>2
<1>3. Json!Read(Reader, text[pos]) = [depth |-> depth, inString |-> text[pos] = "quote", escaped |-> FALSE]
    BY <1>1, <1>2, ReaderReads
<1>4. Reader' = Json!Read(Reader, text[pos])
    BY <1>1, <1>3, ReaderReads DEF Reader
<1> QED BY <1>1, <1>2, <1>4, Consumes

LEMMA OpensKeeps ==
    ASSUME JsonInv, Json!Opens PROVE JsonInv'
<1>1. /\ parsing = "parsing" /\ pos <= Len(text) /\ ~inString /\ pos' = pos + 1
      /\ text[pos] = "{" /\ start' = (IF depth = 0 THEN pos ELSE start) /\ depth' = depth + 1
      /\ UNCHANGED <<printed, text, inString, escaped, objects, parsing>>
    BY DEF Json!Opens, Json!Scans, Json!ch
<1>2. /\ depth \in Nat /\ inString \in BOOLEAN /\ escaped \in BOOLEAN
      /\ (depth = 0 => ~(depth > 0)) /\ depth + 1 # 0
    <2>1. depth \in Nat /\ inString \in BOOLEAN /\ escaped \in BOOLEAN
        BY ReaderIs
    <2>2. (depth = 0 => ~(depth > 0)) /\ depth + 1 # 0
        BY <2>1
    <2> QED BY <2>1, <2>2
<1>3. Json!Read(Reader, text[pos]) = [depth |-> depth + 1, inString |-> text[pos] = "quote", escaped |-> FALSE]
    BY <1>1, <1>2, ReaderReads
<1>4. Reader' = Json!Read(Reader, text[pos])
    BY <1>1, <1>2, <1>3, ReaderReads DEF Reader
<1> QED BY <1>1, <1>2, <1>4, Consumes

\* No brace closes nothing: what is between objects is no brace.
LEMMA ClosesAnObject ==
    ASSUME JsonInv, pos <= Len(text), text[pos] = "}" PROVE depth > 0
<1>1. PICK k \in 0 .. Len(printed) : ScannedTo(printed, objects, k, pos, Reader, start)
    BY DEF JsonInv
<1>2. printed \in Seq(Objects) /\ Beginning(printed, text) /\ pos \in Nat /\ pos \in 1 .. Len(text)
    BY Here
<1>3. ~BetweenObjects(printed, k, pos, Reader, start)
    <2> SUFFICES ASSUME BetweenObjects(printed, k, pos, Reader, start) PROVE FALSE
        OBVIOUS
    <2>1. BetweenObjects(printed, k, pos, Json!Before, 0)
        BY DEF BetweenObjects
    <2>2. text[pos] = "x" \/ text[pos] = "{"
        BY <1>2, <2>1, BetweenGoesOn
    <2> QED BY <2>2
<1>4. Reader.depth > 0
    <2>1. InObject(printed, k, pos, Reader, start)
        BY <1>1, <1>3 DEF ScannedTo
    <2> QED BY <1>2, <2>1, Opened
<1> QED BY <1>4 DEF Reader

LEMMA ClosesKeeps ==
    ASSUME JsonInv, Json!Closes PROVE JsonInv'
<1>1. parsing = "parsing" /\ pos <= Len(text) /\ ~inString /\ text[pos] = "}"
    BY DEF Json!Closes, Json!Scans, Json!ch
<1>2. /\ depth \in Nat /\ inString \in BOOLEAN /\ escaped \in BOOLEAN /\ start > 0 /\ depth > 0
      /\ ~(depth - 1 < 0) /\ depth # 0
    <2>1. depth \in Nat /\ inString \in BOOLEAN /\ escaped \in BOOLEAN
        BY ReaderIs
    <2>2. depth > 0
        BY <1>1, ClosesAnObject
    <2>3. start > 0
        BY <2>2, ReaderIs
    <2>4. ~(depth - 1 < 0) /\ depth # 0
        BY <2>1, <2>2
    <2> QED BY <2>1, <2>2, <2>3, <2>4
<1>3. /\ depth' = depth - 1 /\ pos' = pos + 1 /\ UNCHANGED <<printed, text, inString, escaped, parsing>>
      /\ IF depth - 1 = 0 THEN objects' = Append(objects, SubSeq(text, start, pos)) /\ start' = 0
         ELSE UNCHANGED <<objects, start>>
    BY <1>2 DEF Json!Closes, Json!SplitsOff
<1>4. Json!Read(Reader, text[pos]) = [depth |-> depth - 1, inString |-> text[pos] = "quote", escaped |-> FALSE]
    BY <1>1, <1>2, ReaderReads
<1>5. Reader' = Json!Read(Reader, text[pos])
    BY <1>1, <1>2, <1>3, <1>4, ReaderReads DEF Reader
<1>6. depth' > 0 => depth - 1 # 0
    BY <1>2, <1>3
<1> QED BY <1>1, <1>2, <1>3, <1>5, <1>6, Consumes

LEMMA FinishKeeps ==
    ASSUME JsonInv, Json!Finish PROVE JsonInv'
<1>1. /\ pos > Len(text) /\ parsing' = (IF depth = 0 THEN "done" ELSE "thrown")
      /\ UNCHANGED <<printed, text, pos, depth, start, inString, escaped, objects>>
    BY DEF Json!Finish, Json!Balanced, Json!Throws, Json!scanner
<1>2. pos = Len(text) + 1
    BY <1>1, Here
<1>3. Reader' = Reader
    BY <1>1 DEF Reader
<1> QED BY <1>1, <1>2, <1>3 DEF JsonInv

LEMMA JsonKeeps ==
    ASSUME JsonInv, Json!Next PROVE JsonInv'
BY InStringKeeps, PlainKeeps, OpensKeeps, ClosesKeeps, FinishKeeps DEF Json!Next

LEMMA JsonTypes ==
    ASSUME JsonInv PROVE Json!TypeOK
BY ReaderIs DEF JsonInv, Json!TypeOK

\* What is scanned when the text has ended is what arrived whole.
LEMMA ArrivedIs ==
    ASSUME JsonInv, NEW k \in 0 .. Len(printed), ScannedTo(printed, objects, k, Len(text) + 1, Reader, start)
    PROVE  /\ k \in Json!Arrived /\ \A j \in Json!Arrived : j <= k
           /\ Len(Json!Whole(k)) = Span(printed, k)
<1> DEFINE n == Len(printed)
           c == Len(Separator)
           len == Len(text)
           S(j) == Span(printed, j)
<1>1. /\ n \in Nat /\ c \in Nat /\ len \in Nat /\ \A j \in 0 .. n : S(j) \in Nat
      /\ \A j \in 1 .. n : printed[j] \in Objects /\ Len(printed[j]) \in Nat
                           /\ S(j) = S(j - 1) + Len(printed[j]) + c
      /\ \A j \in 0 .. n : \A l \in j .. n : S(j) <= S(l)
    <2>1. printed \in Seq(Objects) /\ len \in Nat
        BY Here
    <2>2. n \in Nat
        BY <2>1
    <2>3. c \in Nat
        BY ObjectsAre
    <2>4. \A j \in 0 .. n : S(j) \in Nat
        BY <2>1, Spans
    <2>5. \A j \in 1 .. n : printed[j] \in Objects /\ Len(printed[j]) \in Nat
                            /\ S(j) = S(j - 1) + Len(printed[j]) + c
        BY <2>1, Spans
    <2>6. \A j \in 0 .. n : \A l \in j .. n : S(j) <= S(l)
        BY <2>1, Begins
    <2> QED BY <2>1, <2>2, <2>3, <2>4, <2>5, <2>6
<1>2. \A j : Len(Json!Whole(j)) = S(j)
    BY DEF Json!Whole, Span, Printed
<1>3. \A j : j \in Json!Arrived <=> j \in 0 .. n /\ (j = 0 \/ S(j) - c <= len)
    BY <1>2 DEF Json!Arrived
<1>4. k = 0 \/ S(k) - c <= len
    <2>1. CASE BetweenObjects(printed, k, len + 1, Reader, start)
        <3>1. k = 0 \/ S(k) - c <= (len + 1) - 1
            BY <2>1 DEF BetweenObjects
        <3>2. (len + 1) - 1 = len
            BY <1>1
        <3> HIDE DEF S, c, len
        <3> QED BY <3>1, <3>2
    <2>2. CASE InObject(printed, k, len + 1, Reader, start)
        <3>1. (len + 1) - 1 - S(k) \in 1 .. Len(printed[k + 1]) - 1 /\ k < n
            BY <2>2 DEF InObject
        <3>2. S(k) \in Nat /\ Len(printed[k + 1]) \in Nat
            <4>1. k + 1 \in 1 .. n
                BY <1>1, <3>1
            <4> QED BY <1>1, <4>1
        <3> HIDE DEF S, c, len
        <3>3. c \in Nat /\ len \in Nat
            BY <1>1
        <3> QED BY <3>1, <3>2, <3>3
    <2> QED BY <2>1, <2>2 DEF ScannedTo
<1>5. ASSUME NEW j \in 0 .. n, k < j PROVE S(j) - c > len
    <2>1. k + 1 \in 1 .. n /\ k + 1 \in 0 .. n /\ (k + 1) - 1 = k /\ j \in k + 1 .. n
        BY <1>1, <1>5
    <2> DEFINE o == printed[k + 1]
               l == Len(o)
    <2>2. S(k + 1) = S(k) + l + c /\ S(k + 1) <= S(j) /\ l \in Nat /\ o \in Objects
        BY <1>1, <2>1
    <2>3. S(k) \in Nat /\ S(k + 1) \in Nat /\ S(j) \in Nat
        BY <1>1, <2>1
    <2>4. S(k) + l > len
        <3>1. CASE BetweenObjects(printed, k, len + 1, Reader, start)
            <4>1. (len + 1) - 1 <= S(k)
                BY <3>1 DEF BetweenObjects
            <4>2. l # 0
                <5>1. o \in Seq(Json!Chars) /\ o # << >>
                    BY <2>2, ObjectsAre
                <5> QED BY <5>1, EmptySeq
            <4> HIDE DEF S, len, l
            <4>3. len \in Nat
                BY <1>1
            <4> QED BY <2>2, <2>3, <4>1, <4>2, <4>3
        <3>2. CASE InObject(printed, k, len + 1, Reader, start)
            <4>1. (len + 1) - 1 - S(k) \in 1 .. l - 1
                BY <3>2 DEF InObject
            <4> HIDE DEF S, len, l
            <4>2. len \in Nat
                BY <1>1
            <4> QED BY <2>2, <2>3, <4>1, <4>2
        <3> QED BY <3>1, <3>2 DEF ScannedTo
    <2> HIDE DEF S, c, len, l
    <2>5. c \in Nat /\ len \in Nat
        BY <1>1
    <2> QED BY <2>2, <2>3, <2>4, <2>5
<1>6. k \in Json!Arrived
    BY <1>3, <1>4
<1>7. ASSUME NEW j \in Json!Arrived PROVE j <= k
    <2>1. j \in 0 .. n /\ (j = 0 \/ S(j) - c <= len)
        BY <1>3
    <2>2. CASE k < j
        <3>1. S(j) - c > len
            BY <1>5, <2>1, <2>2
        <3>2. j # 0
            BY <1>1, <2>1, <2>2
        <3>3. S(j) \in Nat /\ c \in Nat /\ len \in Nat
            BY <1>1, <2>1
        <3> HIDE DEF S, c, len
        <3>4. FALSE
            BY <2>1, <3>1, <3>2, <3>3
        <3> QED BY <3>4
    <2>3. CASE ~(k < j)
        BY <1>1, <2>1, <2>3
    <2> QED BY <2>2, <2>3
<1> QED BY <1>2, <1>6, <1>7

LEMMA JsonParses ==
    ASSUME JsonInv PROVE Json!ParsedWhole
<1> SUFFICES ASSUME parsing # "parsing" PROVE Json!ParsedWhole
    BY DEF Json!ParsedWhole
<1>1. pos = Len(text) + 1 /\ parsing \in {"done", "thrown"} /\ (parsing = "done" <=> depth = 0)
    BY DEF JsonInv
<1>2. PICK k \in 0 .. Len(printed) : ScannedTo(printed, objects, k, pos, Reader, start)
    BY DEF JsonInv
<1>3. ScannedTo(printed, objects, k, Len(text) + 1, Reader, start)
    BY <1>1, <1>2
<1>4. /\ k \in Json!Arrived /\ \A j \in Json!Arrived : j <= k
      /\ Len(Json!Whole(k)) = Span(printed, k)
    BY <1>3, ArrivedIs
<1>5. (CHOOSE m \in Json!Arrived : \A j \in Json!Arrived : j <= m) = k
    <2> DEFINE m == CHOOSE m \in Json!Arrived : \A j \in Json!Arrived : j <= m
    <2>1. m \in Json!Arrived /\ \A j \in Json!Arrived : j <= m
        BY <1>4
    <2>2. m \in 0 .. Len(printed)
        BY <2>1 DEF Json!Arrived
    <2> HIDE DEF m
    <2>3. m <= k /\ k <= m
        BY <1>4, <2>1
    <2>4. m = k
        BY <2>2, <2>3
    <2> QED BY <2>4 DEF m
<1>6. Span(printed, k) \in Nat /\ Len(text) \in Nat /\ printed \in Seq(Objects)
    BY Here, Spans
<1>7. CASE BetweenObjects(printed, k, Len(text) + 1, Reader, start)
    <2>1. depth = 0
        BY <1>7 DEF BetweenObjects, Json!Before, Reader
    <2>2. (Len(text) + 1) - 1 <= Span(printed, k)
        BY <1>7 DEF BetweenObjects
    <2>3. Len(text) <= Len(Json!Whole(k))
        <3> DEFINE a == Len(text)
                   b == Span(printed, k)
        <3> HIDE DEF a, b
        <3>1. a \in Nat /\ b \in Nat /\ (a + 1) - 1 <= b
            BY <1>6, <2>2 DEF a, b
        <3>2. a <= b
            BY <3>1
        <3> QED BY <1>4, <3>2 DEF a, b
    <2>4. parsing = "done" /\ objects = SubSeq(printed, 1, k)
        BY <1>1, <1>3, <2>1 DEF ScannedTo
    <2> QED BY <1>5, <2>3, <2>4 DEF Json!ParsedWhole
<1>8. CASE InObject(printed, k, Len(text) + 1, Reader, start)
    <2>1. depth # 0
        <3>1. Len(text) + 1 \in Nat
            BY <1>6
        <3>2. Reader.depth > 0
            BY <1>6, <1>8, <3>1, Opened
        <3>3. depth > 0 /\ depth \in Nat
            BY <3>2, ReaderIs DEF Reader
        <3> QED BY <3>3
    <2>2. (Len(text) + 1) - 1 - Span(printed, k) \in 1 .. Len(printed[k + 1]) - 1
        BY <1>8 DEF InObject
    <2>3. ~(Len(text) <= Len(Json!Whole(k)))
        <3> DEFINE a == Len(text)
                   b == Span(printed, k)
        <3> HIDE DEF a, b
        <3>1. a \in Nat /\ b \in Nat /\ (a + 1) - 1 - b >= 1
            BY <1>6, <2>2 DEF a, b
        <3>2. ~(a <= b)
            BY <3>1
        <3> QED BY <1>4, <3>2 DEF a, b
    <2>4. parsing = "thrown"
        BY <1>1, <2>1
    <2> QED BY <1>5, <2>3, <2>4 DEF Json!ParsedWhole
<1> QED BY <1>3, <1>7, <1>8 DEF ScannedTo

LEMMA JsonHolds ==
    ASSUME JsonInv PROVE Json!TypeOK /\ Json!ParsedWhole
BY JsonTypes, JsonParses

\* An Omni inventory that completes tells the truth of the fleet, and what omnictl prints is
\* parsed whole or not at all: OmniTrue is an invariant of every inventory, by OmniInv while a
\* fleet is discovered and by JsonInv while output is parsed (discover, parseOmnictlJson).
THEOREM OmniInventoriesAreTrue == InventoriesSpec => []OmniTrue
<1> DEFINE Stated == (part = "omni" => OmniInv) /\ (part = "json" => JsonInv)
<1>1. InventoriesInit => Stated
    BY OmniStarts, JsonStarts DEF InventoriesInit
<1>2. Stated /\ [InventoriesNext]_workVars => Stated'
    <2> SUFFICES ASSUME Stated, [InventoriesNext]_workVars
                 PROVE  (part' = "omni" => OmniInv') /\ (part' = "json" => JsonInv')
        OBVIOUS
    <2>1. CASE UNCHANGED workVars
        <3>1. UNCHANGED <<part, runs, phase, omniVars, jsonVars>>
            BY <2>1 DEF workVars, shared
        <3>2. ASSUME OmniInv PROVE OmniInv'
            BY <3>1, <3>2 DEF OmniInv, OmniTyped, Querying, Writing, Completing, Lately, Summarising,
                              Omni!Completed, omniVars
        <3>3. ASSUME JsonInv PROVE JsonInv'
            BY <3>1, <3>3 DEF JsonInv, Reader, jsonVars
        <3> QED BY <3>1, <3>2, <3>3
    <2>2. CASE part = "omni" /\ Omni!Next /\ UNCHANGED part
        BY <2>2, OmniKeeps
    <2>3. CASE part = "json" /\ Json!Next /\ UNCHANGED part
        BY <2>3, JsonKeeps
    <2>4. CASE part \notin {"omni", "json"} /\ UNCHANGED part
        BY <2>4
    <2> QED BY <2>1, <2>2, <2>3, <2>4 DEF InventoriesNext
<1>3. Stated => OmniTrue
    BY OmniHolds, JsonHolds DEF OmniTrue
<1> QED BY <1>1, <1>2, <1>3, PTL DEF InventoriesSpec

=============================================================================
