------------------------------ MODULE UnifiDns ------------------------------
(***************************************************************************)
(* The custom DNS records of a UniFi controller, as the model's methods    *)
(* read and write them: each method gets the whole list, decides, sends at *)
(* most one write and stores what it saw as dns_record resources.          *)
(*                                                                         *)
(* The controller is external.  A record's value stands for its value and  *)
(* its enabled flag.  What else may happen is fixed by faults, one of      *)
(* FaultCases:                                                             *)
(*   "overlap"  methods of several callers run at the same time            *)
(*   "lost"     the answer to a write is lost                              *)
(*   "late"     a write is carried out after its sender gave up            *)
(*   "console"  someone edits the zone in the controller's web console     *)
(***************************************************************************)
EXTENDS Naturals, FiniteSets

CONSTANTS
    Keys, Types, Values,
    Names,      \* the records that come up, by key and type
    Instance,   \* recordInstanceName; a wildcard and its parent come out the same
    Callers,
    FaultCases,
    MaxCalls,   \* bound per case: calls begun
    MaxEdits    \* bound: edits in the console

ASSUME NamesAssumption == Names \subseteq [key : Keys, type : Types]
ASSUME InstanceAssumption == DOMAIN Instance = Names
ASSUME FaultsAssumption == \A f \in FaultCases : f \subseteq {"overlap", "lost", "late", "console"}
ASSUME BoundsAssumption == MaxCalls \in [FaultCases -> Nat] /\ MaxEdits \in Nat

Gone == "gone"          \* the value of a tombstone
Null == 0               \* its id
Instances == {Instance[n] : n \in Names}

VARIABLES
    faults,     \* what may happen in this behaviour
    zone,       \* the records the controller holds
    nextId,
    late,       \* writes whose sender gave up, not carried out yet: <<c, call, w, the list>>
    pc,         \* per caller
    req,        \* the arguments of its call
    seen,       \* the list it got
    todo,       \* the resources it has yet to store
    data,       \* the latest dns_record of each instance name
    calls, edits

controller == <<zone, nextId, late>>
caller == <<pc, req, seen, todo>>
vars == <<faults, controller, caller, data, calls, edits>>

Record(id, n, v) == [id |-> id, name |-> n, value |-> v]
Tombstone(n) == Record(Null, n, Gone)

NoName == [key |-> "none", type |-> "none"]
ASSUME NamesFiniteAssumption == IsFiniteSet(Names) /\ NoName \notin Names
NoCall == [op |-> "none", name |-> NoName, value |-> Gone]
Nothing == Tombstone(NoName)    \* no resource stored yet
Requests ==
    [op : {"upsert"}, name : Names, value : Values]
      \cup [op : {"delete"}, name : Names, value : {Gone}]
      \cup [op : {"list"}, name : {NoName}, value : {Gone}]

OnePer(z) == \A r \in z, s \in z : r.name = s.name => r = s

\* The ids of a list are opaque, so one numbering stands for all.
Number(ns) ==
    CHOOSE f \in [ns -> 1 .. Cardinality(ns)] : \A m, n \in ns : f[m] = f[n] => m = n

\* Any list without duplicates, of which nothing has been stored yet.
Init ==
    /\ faults \in FaultCases
    /\ \E ns \in SUBSET Names : \E v \in Values :
          /\ zone = {Record(Number(ns)[n], n, v) : n \in ns}
          /\ nextId = Cardinality(ns) + 1
    /\ late = {}
    /\ pc = [c \in Callers |-> "idle"]
    /\ req = [c \in Callers |-> NoCall]
    /\ seen = [c \in Callers |-> {}]
    /\ todo = [c \in Callers |-> {}]
    /\ data = [i \in Instances |-> Nothing]
    /\ calls = 0 /\ edits = 0

\* Mutant: the type is not compared.
SameKey(r, n) == r.name.key = n.key
\* Mutant: never found, so always created.
NotFound(r, n) == FALSE
Match(r, n) == r.name.key = n.key /\ r.name.type = n.type

\* findExisting returns the first match; any list order is possible.
Matching(z, n) == {r \in z : Match(r, n)}

-----------------------------------------------------------------------------
(* The controller's side of a write.                                       *)

Post(n, v) == [verb |-> "POST", id |-> Null, name |-> n, value |-> v]
Put(id, n, v) == [verb |-> "PUT", id |-> id, name |-> n, value |-> v]
Delete(id, n) == [verb |-> "DELETE", id |-> id, name |-> n, value |-> Gone]

Known(w) == w.verb = "POST" \/ \E r \in zone : r.id = w.id

\* The record the controller echoes.
Echo(w) == Record(IF w.verb = "POST" THEN nextId ELSE w.id, w.name, w.value)

Others(w) == {r \in zone : r.id # w.id}
Apply(w) ==
    /\ zone' = CASE w.verb = "POST"   -> zone \cup {Echo(w)}
                 [] w.verb = "PUT"    -> Others(w) \cup {Echo(w)}
                 [] w.verb = "DELETE" -> Others(w)
    /\ nextId' = IF w.verb = "POST" THEN nextId + 1 ELSE nextId

-----------------------------------------------------------------------------
(* The methods.                                                            *)

Begin(c) ==
    /\ pc[c] = "idle" /\ calls < MaxCalls[faults]
    /\ "overlap" \in faults \/ \A d \in Callers : pc[d] = "idle"
    /\ pc' = [pc EXCEPT ![c] = "get"]
    /\ req' \in {[req EXCEPT ![c] = r] : r \in Requests}
    /\ calls' = calls + 1
    /\ UNCHANGED <<controller, seen, todo, data, edits>>

\* Mutant: one resource per key.
KeyOnly(n) == Instance[[n EXCEPT !.type = CHOOSE t \in Types : TRUE]]
recordInstanceName(n) == Instance[n]

\* list_records has all it needs; delete_record too if there is no match.
Get(c) ==
    /\ pc[c] = "get"
    /\ seen' = [seen EXCEPT ![c] = zone]
    /\ LET r == req[c]
           absent == Matching(zone, r.name) = {}
       IN  \/ /\ r.op = "list"
              /\ todo' = [todo EXCEPT ![c] = zone]
              /\ pc' = [pc EXCEPT ![c] = "store"]
           \/ /\ r.op = "delete" /\ absent
              /\ todo' = [todo EXCEPT ![c] = {Tombstone(r.name)}]
              /\ pc' = [pc EXCEPT ![c] = "store"]
           \/ /\ r.op = "upsert" \/ (r.op = "delete" /\ ~absent)
              /\ pc' = [pc EXCEPT ![c] = "write"]
              /\ UNCHANGED todo
    /\ UNCHANGED <<controller, req, data, calls, edits>>

\* The write the method decided on, from the list it saw.
Writes(c) ==
    LET r == req[c]
        matching == Matching(seen[c], r.name)
    IN  CASE r.op = "delete" -> {Delete(x.id, r.name) : x \in matching}
          [] r.op = "upsert" /\ matching # {} -> {Put(x.id, r.name, r.value) : x \in matching}
          [] OTHER -> {Post(r.name, r.value)}

normalizeRecord(r) == r

Write(c) ==
    /\ pc[c] = "write"
    /\ \E w \in Writes(c) :
          /\ Known(w)
          /\ Apply(w)
          /\ todo' = [todo EXCEPT ![c] = IF w.verb = "DELETE" THEN {Tombstone(w.name)}
                                                              ELSE {normalizeRecord(Echo(w))}]
    /\ pc' = [pc EXCEPT ![c] = "store"]
    /\ UNCHANGED <<late, req, seen, data, calls, edits>>

Throws(c) ==
    /\ pc' = [pc EXCEPT ![c] = "idle"]
    /\ req' = [req EXCEPT ![c] = NoCall]
    /\ seen' = [seen EXCEPT ![c] = {}]
    /\ todo' = [todo EXCEPT ![c] = {}]
    /\ UNCHANGED <<data, calls, edits>>

\* A GET or a write that fails without effect; a PUT or DELETE of an id that
\* is gone always does.
Fails(c) ==
    /\ pc[c] \in {"get", "write"}
    /\ Throws(c)
    /\ UNCHANGED controller

WriteLost(c) ==
    /\ "lost" \in faults
    /\ pc[c] = "write"
    /\ \E w \in Writes(c) : Known(w) /\ Apply(w)
    /\ Throws(c)
    /\ UNCHANGED late

WriteDelayed(c) ==
    /\ "late" \in faults
    /\ pc[c] = "write"
    /\ late' \in {late \cup {<<c, calls, w, seen[c]>>} : w \in Writes(c)}
    /\ Throws(c)
    /\ UNCHANGED <<zone, nextId>>

Store(c) ==
    /\ pc[c] = "store"
    /\ \E r \in todo[c] :
          /\ data' = [data EXCEPT ![recordInstanceName(r.name)] = r]
          /\ todo' = [todo EXCEPT ![c] = @ \ {r}]
    /\ UNCHANGED <<controller, pc, req, seen, calls, edits>>

Stored(c) == pc[c] = "store" /\ todo[c] = {}

Returns(c) ==
    /\ Stored(c)
    /\ Throws(c)
    /\ UNCHANGED controller

-----------------------------------------------------------------------------
(* What happens to the zone behind the methods' back.                      *)

LateLands(l) ==
    /\ late' = late \ {l}
    /\ LET w == l[3] IN IF Known(w) THEN Apply(w) ELSE UNCHANGED <<zone, nextId>>
    /\ UNCHANGED <<caller, data, calls, edits>>

ConsoleEdit ==
    /\ "console" \in faults /\ edits < MaxEdits
    /\ \/ \E n \in Names, v \in Values : Matching(zone, n) = {} /\ Apply(Post(n, v))
       \/ \E r \in zone, v \in Values : Apply(Put(r.id, r.name, v))
       \/ \E r \in zone : Apply(Delete(r.id, r.name))
    /\ edits' = edits + 1
    /\ UNCHANGED <<late, caller, data, calls>>

-----------------------------------------------------------------------------
Method(c) ==
    \/ Begin(c) \/ Get(c) \/ Write(c) \/ Fails(c) \/ WriteLost(c) \/ WriteDelayed(c)
    \/ Store(c) \/ Returns(c)

Moves ==
    \/ \E c \in Callers : Method(c)
    \/ \E l \in late : LateLands(l)
    \/ ConsoleEdit

Next == Moves /\ UNCHANGED faults

Spec == Init /\ [][Next]_vars

-----------------------------------------------------------------------------
Records == [id : 1 .. nextId - 1, name : Names, value : Values]

TypeOK ==
    /\ zone \subseteq Records
    /\ \A r \in zone, s \in zone : r.id = s.id => r = s
    /\ nextId \in Nat \ {0}
    /\ \A l \in late : l[3].id < nextId /\ l[3].name \in Names
    /\ pc \in [Callers -> {"idle", "get", "write", "store"}]
    /\ req \in [Callers -> Requests \cup {NoCall}]
    /\ \A c \in Callers : (pc[c] = "idle") <=> (req[c] = NoCall)
    /\ seen \in [Callers -> SUBSET Records]
    /\ todo \in [Callers -> SUBSET (Records \cup {Tombstone(n) : n \in Names})]
    /\ data \in [Instances -> {Nothing} \cup Records \cup {Tombstone(n) : n \in Names}]
    /\ calls \in 0 .. MaxCalls[faults] /\ edits \in 0 .. MaxEdits

\* One method at a time, whose requests take effect before it is told so.
Serial == faults \subseteq {"lost"}

\* A key and type never has two records, whatever writes fail or lose their
\* answer ("creates or updates a single record").
OneRecordPerName == Serial => OnePer(zone)

\* list_records leaves one up-to-date dns_record for every record it read
\* ("writes one dns_record resource per record"), unless another record it read
\* has the same instance name.
Alone(r, z) == \A s \in z : Instance[s.name] = Instance[r.name] => s = r
ListedAll ==
    \A c \in Callers :
        (Serial /\ Stored(c) /\ req[c].op = "list") =>
            \A r \in seen[c] : Alone(r, seen[c]) => data[recordInstanceName(r.name)] = r
ListsTrue == TypeOK /\ ListedAll

RecordsOf(n) == {r \in zone : r.name = n}

\* A second record for a key and type is only ever made by a method that found
\* none when it listed the zone: the first came between its list and its write, or
\* between its write and its effect (findExisting, then POST).
Unlisted(n, z) == \A s \in z : s.name # n
Raced(n) ==
    \/ \E c \in Callers : /\ req[c].name = n /\ req[c].op = "upsert"
                          /\ pc[c] = "write" /\ Unlisted(n, seen[c])
    \/ \E l \in late \ late' : l[3].name = n /\ Unlisted(n, l[4])
SecondRecord(n) == RecordsOf(n) # {} /\ \E r \in RecordsOf(n)' : r.id = nextId
TwinsRaced == [][\A n \in Names : SecondRecord(n) => Raced(n)]_vars

\* The zone behaves as a map of which every call changes one entry.
Served(n) == IF RecordsOf(n) = {} THEN Gone ELSE (CHOOSE r \in RecordsOf(n) : TRUE).value
Asked(c) ==
    IF req[c].op \in {"upsert", "delete"}
    THEN [name |-> req[c].name, value |-> req[c].value, done |-> pc[c] = "store"]
    ELSE [name |-> NoName, value |-> Gone, done |-> FALSE]
served == [n \in Names |-> Served(n)]
asked == [c \in Callers |-> Asked(c)]
Map == INSTANCE RecordMap
ImplementsRecordMap ==
    (Serial => Map!Init) /\ [][Serial => [Map!Next]_<<served, asked>>]_vars
=============================================================================
