--------------------------- MODULE UnifiDnsProofs ---------------------------
(***************************************************************************)
(* Proofs about the DNS model, for any records, callers and bounds: the    *)
(* type invariant, that callers who take turns never make a second record, *)
(* what a second record is due to otherwise, and that methods taken in     *)
(* turn implement RecordMap.                                               *)
(***************************************************************************)
EXTENDS UnifiDns, FiniteSetTheorems, FunctionTheorems, TLAPS

-----------------------------------------------------------------------------
(* The inductive invariant.                                                *)

\* A write of one of the methods, about a record that was there once.
Sendable(w) ==
    \/ \E n \in Names, v \in Values : w = Post(n, v)
    \/ \E i \in 1 .. nextId - 1, n \in Names, v \in Values : w = Put(i, n, v)
    \/ \E i \in 1 .. nextId - 1, n \in Names : w = Delete(i, n)

\* What is on its way to the controller.
Pending ==
    /\ faults \in FaultCases
    /\ \A c \in Callers : pc[c] = "write" => req[c].op \in {"upsert", "delete"}
    /\ \A l \in late :
          /\ Sendable(l[3])
          /\ l[3].verb = "POST" => Unlisted(l[3].name, l[4])

\* Callers that take turns: a write is decided on from the zone as it still is.
InTurn ==
    Serial =>
        /\ late = {}
        /\ \A c, d \in Callers : pc[c] # "idle" /\ pc[d] # "idle" => c = d
        /\ \A c \in Callers : pc[c] = "write" => seen[c] = zone
        /\ OnePer(zone)

Inv == TypeOK /\ Pending /\ InTurn

-----------------------------------------------------------------------------
(* The numbering of the first list.                                        *)

LEMMA NumberFits ==
    ASSUME NEW ns \in SUBSET Names
    PROVE  /\ Cardinality(ns) \in Nat
           /\ Number(ns) \in [ns -> 1 .. Cardinality(ns)]
           /\ \A m, n \in ns : Number(ns)[m] = Number(ns)[n] => m = n
<1>1. IsFiniteSet(ns)
    BY FS_Subset, NamesFiniteAssumption
<1>2. Cardinality(ns) \in Nat /\ ExistsBijection(1 .. Cardinality(ns), ns)
    BY <1>1, FS_CardinalityType
<1>3. ExistsBijection(ns, 1 .. Cardinality(ns))
    BY <1>2, Fun_ExistsBijSymmetric
<1>4. \E f \in [ns -> 1 .. Cardinality(ns)] : \A m, n \in ns : f[m] = f[n] => m = n
    BY <1>3 DEF ExistsBijection, Bijection, Injection, IsInjective
<1> QED BY <1>2, <1>4 DEF Number

LEMMA Initially == Init => Inv
<1> SUFFICES ASSUME Init PROVE Inv
    OBVIOUS
<1>1. PICK ns \in SUBSET Names, v \in Values :
          /\ zone = {Record(Number(ns)[n], n, v) : n \in ns}
          /\ nextId = Cardinality(ns) + 1
    BY DEF Init
<1>2. /\ zone \subseteq Records /\ nextId \in Nat \ {0}
      /\ \A r \in zone, s \in zone : r.id = s.id => r = s
    BY <1>1, NumberFits DEF Records, Record
<1>3. OnePer(zone)
    BY <1>1 DEF OnePer, Record
<1>4. /\ faults \in FaultCases /\ late = {}
      /\ pc = [c \in Callers |-> "idle"] /\ req = [c \in Callers |-> NoCall]
      /\ seen = [c \in Callers |-> {}] /\ todo = [c \in Callers |-> {}]
      /\ data = [i \in Instances |-> Nothing] /\ calls = 0 /\ edits = 0
    BY DEF Init
<1>5. 0 \in 0 .. MaxCalls[faults] /\ 0 \in 0 .. MaxEdits
    BY <1>4, BoundsAssumption
<1>6. TypeOK
    BY <1>2, <1>4, <1>5 DEF TypeOK
<1> QED BY <1>3, <1>4, <1>6 DEF Inv, Pending, InTurn

-----------------------------------------------------------------------------
(* The controller's side.                                                  *)

LEMMA NoneMatches ==
    ASSUME NEW z, NEW n, Matching(z, n) = {}
    PROVE  Unlisted(n, z)
BY DEF Matching, Match, Unlisted

\* A write keeps the zone well formed; only a POST adds a record, under a new id.
LEMMA ApplyKeepsZone ==
    ASSUME TypeOK, NEW w, Sendable(w), Apply(w)
    PROVE  /\ nextId' \in Nat \ {0} /\ nextId <= nextId'
           /\ Records \subseteq Records'
           /\ zone' \subseteq Records'
           /\ \A r \in zone', s \in zone' : r.id = s.id => r = s
           /\ w.verb # "DELETE" => Echo(w) \in Records'
           /\ w.name \in Names
           /\ \A r \in zone' : r.id = nextId => w.verb = "POST" /\ r.name = w.name
<1>1. zone \subseteq Records /\ nextId \in Nat \ {0}
    BY DEF TypeOK
<1>2. \A r \in zone, s \in zone : r.id = s.id => r = s
    BY DEF TypeOK
<1>3. CASE \E n \in Names, v \in Values : w = Post(n, v)
    <2>1. PICK n \in Names, v \in Values : w = Post(n, v)
        BY <1>3
    <2>2. w.verb = "POST" /\ w.name = n /\ Echo(w) = [id |-> nextId, name |-> n, value |-> v]
        BY <2>1 DEF Post, Echo, Record
    <2>3. zone' = zone \cup {Echo(w)} /\ nextId' = nextId + 1
        BY <2>2 DEF Apply
    <2>4. Records \subseteq Records' /\ Echo(w) \in Records'
        BY <1>1, <2>2, <2>3 DEF Records
    <2>5. \A r \in zone : r.id # nextId
        BY <1>1 DEF Records
    <2> QED BY <1>1, <1>2, <2>2, <2>3, <2>4, <2>5
<1>4. CASE \E i \in 1 .. nextId - 1, n \in Names, v \in Values : w = Put(i, n, v)
    <2>1. PICK i \in 1 .. nextId - 1, n \in Names, v \in Values : w = Put(i, n, v)
        BY <1>4
    <2>2. w.verb = "PUT" /\ w.name = n /\ w.id = i /\ Echo(w) = [id |-> i, name |-> n, value |-> v]
        BY <2>1 DEF Put, Echo, Record
    <2>3. zone' = Others(w) \cup {Echo(w)} /\ nextId' = nextId
        BY <2>2 DEF Apply
    <2>4. Records' = Records /\ Echo(w) \in Records
        BY <1>1, <2>2, <2>3 DEF Records
    <2>5. \A r \in zone' : r.id # nextId
        BY <1>1, <2>2, <2>3, <2>4 DEF Records, Others
    <2> QED BY <1>1, <1>2, <2>2, <2>3, <2>4, <2>5 DEF Others
<1>5. CASE \E i \in 1 .. nextId - 1, n \in Names : w = Delete(i, n)
    <2>1. w.verb = "DELETE" /\ w.name \in Names
        BY <1>5 DEF Delete
    <2>2. zone' = Others(w) /\ nextId' = nextId
        BY <2>1 DEF Apply
    <2>3. Records' = Records
        BY <2>2 DEF Records
    <2>4. \A r \in zone : r.id # nextId
        BY <1>1 DEF Records
    <2> QED BY <1>1, <1>2, <2>1, <2>2, <2>3, <2>4 DEF Others
<1> QED BY <1>3, <1>4, <1>5 DEF Sendable

\* What a method sends, about a record it saw or, if it saw none, a new one.
LEMMA WritesFit ==
    ASSUME Inv, NEW c \in Callers, pc[c] = "write", NEW w \in Writes(c)
    PROVE  /\ Sendable(w) /\ w.name = req[c].name /\ w.name \in Names /\ w.id < nextId
           /\ w.verb = "POST" => req[c].op = "upsert" /\ Unlisted(w.name, seen[c])
<1> DEFINE r == req[c]
           matching == Matching(seen[c], r.name)
<1>1. r.op \in {"upsert", "delete"}
    BY DEF Inv, Pending
<1>2. r \in Requests \cup {NoCall} /\ seen[c] \subseteq Records /\ nextId \in Nat \ {0}
    BY DEF Inv, TypeOK
<1>3. r.name \in Names /\ (r.op = "upsert" => r.value \in Values)
    BY <1>1, <1>2 DEF Requests, NoCall
<1>4. \A x \in matching : x.id \in 1 .. nextId - 1
    BY <1>2 DEF Matching, Records
<1>5. CASE r.op = "delete"
    <2>1. PICK x \in matching : w = Delete(x.id, r.name)
        BY <1>5 DEF Writes
    <2> QED BY <2>1, <1>2, <1>3, <1>4 DEF Delete, Sendable
<1>6. CASE r.op = "upsert" /\ matching # {}
    <2>1. PICK x \in matching : w = Put(x.id, r.name, r.value)
        BY <1>6 DEF Writes
    <2> QED BY <2>1, <1>2, <1>3, <1>4, <1>6 DEF Put, Sendable
<1>7. CASE r.op = "upsert" /\ matching = {}
    <2>1. w = Post(r.name, r.value)
        BY <1>7 DEF Writes
    <2>2. Unlisted(r.name, seen[c])
        BY <1>7, NoneMatches
    <2> QED BY <2>1, <2>2, <1>2, <1>3, <1>7 DEF Post, Sendable, Null
<1> QED BY <1>1, <1>5, <1>6, <1>7

\* The value of an entry, from the records it has.
Value(S) == IF S = {} THEN Gone ELSE (CHOOSE r \in S : TRUE).value

LEMMA ValueOfOne == ASSUME NEW x PROVE Value({x}) = x.value
<1>1. (CHOOSE r \in {x} : TRUE) = x
    OBVIOUS
<1> QED BY <1>1 DEF Value

LEMMA ValueOfNone == Value({}) = Gone
BY DEF Value

LEMMA ServedIsValue ==
    \A n : Served(n) = Value(RecordsOf(n)) /\ Served(n)' = Value(RecordsOf(n)')
BY DEF Served, Value

\* Taken in turn, a method's write changes the entry it is about and no other.
LEMMA WriteInTurn ==
    ASSUME Inv, Serial, NEW c \in Callers, pc[c] = "write", NEW w \in Writes(c), Apply(w)
    PROVE  /\ OnePer(zone')
           /\ \A n \in Names : Served(n)' = IF n = req[c].name THEN req[c].value ELSE Served(n)
<1> PICK r : r = req[c]
    OBVIOUS
<1> DEFINE matching == Matching(zone, r.name)
<1>1. seen[c] = zone /\ OnePer(zone) /\ r.op \in {"upsert", "delete"}
    BY DEF Inv, InTurn, Pending
<1>2. /\ zone \subseteq Records /\ r \in Requests \cup {NoCall}
      /\ \A x \in zone, y \in zone : x.id = y.id => x = y
    BY DEF Inv, TypeOK
<1>3. r.name \in Names /\ (r.op = "delete" => r.value = Gone)
    BY <1>1, <1>2 DEF Requests, NoCall
<1>4. matching = RecordsOf(r.name)
    <2>1. \A x \in zone : x.name \in [key : Keys, type : Types]
        BY <1>2, NamesAssumption DEF Records
    <2>2. r.name \in [key : Keys, type : Types]
        BY <1>3, NamesAssumption
    <2>3. \A x \in zone : Match(x, r.name) <=> x.name = r.name
        BY <2>1, <2>2 DEF Match
    <2> QED BY <2>3 DEF Matching, RecordsOf
<1>5. CASE matching = {} /\ r.op = "upsert"
    <2>1. w = Post(r.name, r.value)
        BY <1>1, <1>5 DEF Writes
    <2>2. zone' = zone \cup {Record(nextId, r.name, r.value)}
        BY <2>1 DEF Post, Apply, Echo
    <2>3. RecordsOf(r.name)' = {Record(nextId, r.name, r.value)}
        BY <1>4, <1>5, <2>2 DEF RecordsOf, Record
    <2>4. \A n \in Names : n # r.name => RecordsOf(n)' = RecordsOf(n)
        BY <2>2 DEF RecordsOf, Record
    <2>5. OnePer(zone')
        BY <1>1, <1>4, <1>5, <2>2 DEF OnePer, RecordsOf, Record
    <2>6. Served(r.name)' = r.value
        BY <2>3, ServedIsValue, ValueOfOne DEF Record
    <2> QED BY <2>4, <2>5, <2>6, ServedIsValue
<1>6. CASE r.op = "upsert" /\ matching # {}
    <2>1. PICK x \in matching : w = Put(x.id, r.name, r.value)
        BY <1>1, <1>6 DEF Writes
    <2>2. zone' = {s \in zone : s.id # x.id} \cup {Record(x.id, r.name, r.value)}
        BY <2>1 DEF Put, Apply, Echo, Others
    <2>3. x \in zone /\ x.name = r.name
        BY <1>4 DEF RecordsOf
    <2>4. {s \in zone : s.id # x.id} = zone \ {x}
        BY <1>2, <2>3
    <2>5. RecordsOf(r.name)' = {Record(x.id, r.name, r.value)}
        BY <1>1, <2>2, <2>3, <2>4 DEF RecordsOf, Record, OnePer
    <2>6. \A n \in Names : n # r.name => RecordsOf(n)' = RecordsOf(n)
        BY <2>2, <2>3, <2>4 DEF RecordsOf, Record
    <2>7. OnePer(zone')
        BY <1>1, <2>2, <2>3, <2>4 DEF OnePer, Record
    <2>8. Served(r.name)' = r.value
        BY <2>5, ServedIsValue, ValueOfOne DEF Record
    <2> QED BY <2>6, <2>7, <2>8, ServedIsValue
<1>7. CASE r.op = "delete"
    <2>1. PICK x \in matching : w = Delete(x.id, r.name)
        BY <1>1, <1>7 DEF Writes
    <2>2. zone' = {s \in zone : s.id # x.id}
        BY <2>1 DEF Delete, Apply, Others
    <2>3. x \in zone /\ x.name = r.name
        BY <1>4 DEF RecordsOf
    <2>4. zone' = zone \ {x}
        BY <1>2, <2>2, <2>3
    <2>5. RecordsOf(r.name)' = {}
        BY <1>1, <2>3, <2>4 DEF RecordsOf, OnePer
    <2>6. \A n \in Names : n # r.name => RecordsOf(n)' = RecordsOf(n)
        BY <2>3, <2>4 DEF RecordsOf
    <2>7. OnePer(zone')
        BY <1>1, <2>4 DEF OnePer
    <2>8. Served(r.name)' = r.value
        BY <1>3, <1>7, <2>5, ServedIsValue, ValueOfNone
    <2> QED BY <2>6, <2>7, <2>8, ServedIsValue
<1> QED BY <1>1, <1>5, <1>6, <1>7

-----------------------------------------------------------------------------
(* Every step keeps the invariant.                                         *)

LEMMA BeginKeepsInv == ASSUME Inv, UNCHANGED faults, NEW c \in Callers, Begin(c) PROVE Inv'
<1>1. PICK r \in Requests : req' = [req EXCEPT ![c] = r]
    BY DEF Begin
<1>2. /\ pc[c] = "idle" /\ pc' = [pc EXCEPT ![c] = "get"] /\ calls' = calls + 1
      /\ UNCHANGED <<zone, nextId, late, seen, todo, data, edits>>
    BY DEF Begin, controller
<1>3. calls' \in 0 .. MaxCalls[faults]'
    <2>1. MaxCalls[faults] \in Nat
        BY BoundsAssumption DEF Inv, Pending
    <2> QED BY <2>1, <1>2 DEF Begin, Inv, TypeOK
<1>4. TypeOK'
    <2>1. r # NoCall
        BY DEF Requests, NoCall
    <2> QED BY <1>1, <1>2, <1>3, <2>1 DEF Inv, TypeOK, Records
<1>5. Pending'
    BY <1>1, <1>2 DEF Inv, TypeOK, Pending, Sendable, Unlisted
<1>6. InTurn'
    <2>1. Serial => \A d \in Callers : pc[d] = "idle"
        BY DEF Begin, Serial
    <2> QED BY <1>1, <1>2, <2>1 DEF Inv, TypeOK, InTurn, Serial
<1> QED BY <1>4, <1>5, <1>6 DEF Inv

LEMMA GetKeepsInv == ASSUME Inv, UNCHANGED faults, NEW c \in Callers, Get(c) PROVE Inv'
<1>1. /\ pc[c] = "get" /\ seen' = [seen EXCEPT ![c] = zone]
      /\ UNCHANGED <<zone, nextId, late, req, data, calls, edits>>
      /\ \/ pc' = [pc EXCEPT ![c] = "store"]
         \/ pc' = [pc EXCEPT ![c] = "write"] /\ req[c].op \in {"upsert", "delete"}
    BY DEF Get, controller
<1>2. \/ todo' = [todo EXCEPT ![c] = zone] \/ UNCHANGED todo
      \/ req[c].op = "delete" /\ todo' = [todo EXCEPT ![c] = {Tombstone(req[c].name)}]
    BY DEF Get
<1>3. req[c].op = "delete" => req[c].name \in Names
    BY DEF Inv, TypeOK, Requests, NoCall
<1>4. TypeOK'
    <2>1. Records' = Records
        BY <1>1 DEF Records
    <2>2. pc' \in [Callers -> {"idle", "get", "write", "store"}] /\ pc'[c] # "idle" /\ req[c] # NoCall
        BY <1>1 DEF Inv, TypeOK
    <2>3. \A d \in Callers : (pc'[d] = "idle") <=> (req'[d] = NoCall)
        BY <1>1, <2>2 DEF Inv, TypeOK
    <2>4. seen' \in [Callers -> SUBSET Records]
        BY <1>1 DEF Inv, TypeOK
    <2>5. todo' \in [Callers -> SUBSET (Records \cup {Tombstone(n) : n \in Names})]
        BY <1>2, <1>3 DEF Inv, TypeOK
    <2> QED BY <1>1, <2>1, <2>2, <2>3, <2>4, <2>5 DEF Inv, TypeOK
<1>5. Pending'
    BY <1>1 DEF Inv, TypeOK, Pending, Sendable, Unlisted
<1>6. InTurn'
    <2>1. \A d \in Callers : pc'[d] # "idle" <=> pc[d] # "idle"
        BY <1>1 DEF Inv, TypeOK
    <2>2. \A d \in Callers : pc'[d] = "write" => d = c \/ pc[d] = "write"
        BY <1>1 DEF Inv, TypeOK
    <2>3. Serial => \A d \in Callers : pc'[d] = "write" => seen'[d] = zone
        BY <1>1, <2>2 DEF Inv, TypeOK, InTurn
    <2> QED BY <1>1, <2>1, <2>3 DEF Inv, InTurn, Serial
<1> QED BY <1>4, <1>5, <1>6 DEF Inv

\* A caller that leaves its method, over a zone that is as it should be.
LEMMA ThrowsKeepsInv ==
    ASSUME Inv, UNCHANGED faults, NEW c \in Callers, Throws(c),
           pc[c] # "idle",
           nextId' \in Nat \ {0}, nextId <= nextId',
           zone' \subseteq Records',
           \A r \in zone', s \in zone' : r.id = s.id => r = s,
           \A l \in late' :
               /\ Sendable(l[3])' /\ l[3].id < nextId' /\ l[3].name \in Names
               /\ l[3].verb = "POST" => Unlisted(l[3].name, l[4]),
           Serial => late' = {} /\ OnePer(zone')
    PROVE  Inv'
<1>1. /\ pc' = [pc EXCEPT ![c] = "idle"] /\ req' = [req EXCEPT ![c] = NoCall]
      /\ seen' = [seen EXCEPT ![c] = {}] /\ todo' = [todo EXCEPT ![c] = {}]
      /\ UNCHANGED <<data, calls, edits>>
    BY DEF Throws
<1>2. Records \subseteq Records'
    BY DEF Records, Inv, TypeOK
<1>3. TypeOK'
    BY <1>1, <1>2 DEF Inv, TypeOK
<1>4. Pending'
    BY <1>1 DEF Inv, TypeOK, Pending, Unlisted
<1>5. InTurn'
    BY <1>1 DEF Inv, TypeOK, InTurn, Serial
<1> QED BY <1>3, <1>4, <1>5 DEF Inv

\* What was on its way stays so when ids are given out.
LEMMA StillSendable ==
    ASSUME TypeOK, Pending, nextId' \in Nat, nextId <= nextId', NEW l \in late
    PROVE  /\ Sendable(l[3])' /\ l[3].id < nextId' /\ l[3].name \in Names
           /\ l[3].verb = "POST" => Unlisted(l[3].name, l[4])
<1>0. nextId \in Nat
    BY DEF TypeOK
<1>1. \A i \in 1 .. nextId - 1 : i \in 1 .. nextId' - 1
    <2>1. \A m \in Nat, k \in Nat : m <= k => \A i \in 1 .. m - 1 : i \in 1 .. k - 1
        OBVIOUS
    <2> QED BY <2>1, <1>0
<1>2. Sendable(l[3])'
    BY <1>1 DEF Pending, Sendable
<1>3. l[3].id < nextId /\ l[3].name \in Names
    BY DEF TypeOK
<1>4. l[3].id \in Nat
    <2>1. Sendable(l[3])
        BY DEF Pending
    <2>2. \A w : Sendable(w) => w.id \in Nat
        BY <1>0 DEF Sendable, Post, Put, Delete, Null
    <2> QED BY <2>1, <2>2
<1> QED BY <1>0, <1>2, <1>3, <1>4 DEF Pending

LEMMA LeavesKeepsInv ==
    ASSUME Inv, UNCHANGED faults, NEW c \in Callers, Fails(c) \/ Returns(c) \/ WriteDelayed(c)
    PROVE  Inv'
<1>1. Throws(c) /\ UNCHANGED <<zone, nextId>> /\ pc[c] # "idle"
    BY DEF Fails, Returns, Stored, WriteDelayed, controller
<1>2. /\ nextId' \in Nat \ {0} /\ nextId <= nextId' /\ zone' \subseteq Records'
      /\ \A r \in zone', s \in zone' : r.id = s.id => r = s
    BY <1>1 DEF Inv, TypeOK, Records
<1>3. ASSUME NEW l \in late'
      PROVE  /\ Sendable(l[3])' /\ l[3].id < nextId' /\ l[3].name \in Names
             /\ l[3].verb = "POST" => Unlisted(l[3].name, l[4])
    <2>1. CASE l \in late
        BY <1>2, <2>1, StillSendable DEF Inv
    <2>2. CASE l \notin late
        <3>1. pc[c] = "write" /\ \E w \in Writes(c) : l = <<c, calls, w, seen[c]>>
            BY <2>2 DEF Fails, Returns, WriteDelayed, controller
        <3>2. PICK w \in Writes(c) : l = <<c, calls, w, seen[c]>>
            BY <3>1
        <3>3. l[3] = w /\ l[4] = seen[c]
            BY <3>2
        <3>4. Sendable(w) /\ w.name \in Names /\ w.id < nextId
              /\ (w.verb = "POST" => Unlisted(w.name, seen[c]))
            BY <3>1, WritesFit
        <3>5. Sendable(w)'
            BY <3>4, <1>1 DEF Sendable
        <3> QED BY <1>1, <3>3, <3>4, <3>5
    <2> QED BY <2>1, <2>2
<1>4. Serial => late' = {} /\ OnePer(zone')
    <2>1. Serial => ~WriteDelayed(c)
        BY DEF Serial, WriteDelayed
    <2> QED BY <1>1, <2>1 DEF Inv, InTurn, Fails, Returns, controller
<1> QED BY <1>1, <1>2, <1>3, <1>4, ThrowsKeepsInv

LEMMA WriteLostKeepsInv ==
    ASSUME Inv, UNCHANGED faults, NEW c \in Callers, WriteLost(c) PROVE Inv'
<1>1. pc[c] = "write" /\ UNCHANGED late /\ Throws(c)
    BY DEF WriteLost
<1>2. PICK w \in Writes(c) : Apply(w)
    BY DEF WriteLost
<1>3. Sendable(w)
    BY <1>1, WritesFit
<1>4. /\ nextId' \in Nat \ {0} /\ nextId <= nextId' /\ zone' \subseteq Records'
      /\ \A r \in zone', s \in zone' : r.id = s.id => r = s
    BY <1>2, <1>3, ApplyKeepsZone DEF Inv
<1>5. \A l \in late' : /\ Sendable(l[3])' /\ l[3].id < nextId' /\ l[3].name \in Names
                       /\ l[3].verb = "POST" => Unlisted(l[3].name, l[4])
    BY <1>1, <1>4, StillSendable DEF Inv
<1>6. Serial => late' = {} /\ OnePer(zone')
    BY <1>1, <1>2, WriteInTurn DEF Inv, InTurn
<1> QED BY <1>1, <1>4, <1>5, <1>6, ThrowsKeepsInv

LEMMA WriteKeepsInv ==
    ASSUME Inv, UNCHANGED faults, NEW c \in Callers, Write(c) PROVE Inv'
<1>1. /\ pc[c] = "write" /\ pc' = [pc EXCEPT ![c] = "store"]
      /\ UNCHANGED <<late, req, seen, data, calls, edits>>
    BY DEF Write
<1>2. PICK w \in Writes(c) :
          /\ Apply(w)
          /\ todo' = [todo EXCEPT ![c] = IF w.verb = "DELETE" THEN {Tombstone(w.name)} ELSE {Echo(w)}]
    BY DEF Write, normalizeRecord
<1>3. Sendable(w)
    BY <1>1, WritesFit
<1>4. /\ nextId' \in Nat \ {0} /\ nextId <= nextId' /\ zone' \subseteq Records'
      /\ \A r \in zone', s \in zone' : r.id = s.id => r = s
      /\ Records \subseteq Records' /\ w.name \in Names
      /\ w.verb # "DELETE" => Echo(w) \in Records'
    BY <1>2, <1>3, ApplyKeepsZone DEF Inv
<1>5. \A l \in late' : /\ Sendable(l[3])' /\ l[3].id < nextId' /\ l[3].name \in Names
                       /\ l[3].verb = "POST" => Unlisted(l[3].name, l[4])
    BY <1>1, <1>4, StillSendable DEF Inv
<1>6. Serial => OnePer(zone')
    BY <1>1, <1>2, WriteInTurn
<1>7. todo' \in [Callers -> SUBSET (Records' \cup {Tombstone(n) : n \in Names})]
    BY <1>2, <1>4 DEF Inv, TypeOK
<1>8. TypeOK'
    BY <1>1, <1>4, <1>5, <1>7 DEF Inv, TypeOK
<1>9. Pending'
    BY <1>1, <1>5 DEF Inv, TypeOK, Pending, Unlisted
<1>10. InTurn'
    BY <1>1, <1>6 DEF Inv, TypeOK, InTurn, Serial
<1> QED BY <1>8, <1>9, <1>10 DEF Inv

LEMMA StoreKeepsInv ==
    ASSUME Inv, UNCHANGED faults, NEW c \in Callers, Store(c) PROVE Inv'
<1>1. /\ pc[c] = "store"
      /\ UNCHANGED <<zone, nextId, late, pc, req, seen, calls, edits>>
    BY DEF Store, controller
<1>2. PICK r \in todo[c] :
          /\ data' = [data EXCEPT ![Instance[r.name]] = r]
          /\ todo' = [todo EXCEPT ![c] = @ \ {r}]
    BY DEF Store, recordInstanceName
<1>3. r \in Records \cup {Tombstone(n) : n \in Names}
    BY DEF Inv, TypeOK
<1>4. TypeOK'
    BY <1>1, <1>2, <1>3 DEF Inv, TypeOK, Records
<1>5. Pending' /\ InTurn'
    BY <1>1 DEF Inv, Pending, InTurn, Sendable, Unlisted, Serial
<1> QED BY <1>4, <1>5 DEF Inv

\* What is carried out late, and edits in the console: never while callers take turns.
LEMMA OthersKeepInv ==
    ASSUME Inv, UNCHANGED faults, (\E l \in late : LateLands(l)) \/ ConsoleEdit
    PROVE  Inv'
<1>1. ~Serial /\ ~Serial'
    BY DEF Inv, InTurn, ConsoleEdit, Serial
<1>2. /\ UNCHANGED <<pc, req, seen, todo, data, calls>> /\ late' \subseteq late
      /\ edits' \in 0 .. MaxEdits
    <2>1. edits \in 0 .. MaxEdits /\ MaxEdits \in Nat
        BY BoundsAssumption DEF Inv, TypeOK
    <2> QED BY <2>1 DEF LateLands, ConsoleEdit, caller
<1>3. UNCHANGED <<zone, nextId>> \/ \E w : Sendable(w) /\ Apply(w)
    <2>1. CASE \E l \in late : LateLands(l)
        BY <2>1 DEF LateLands, Inv, Pending
    <2>2. CASE \E n \in Names, v \in Values : Apply(Post(n, v))
        BY <2>2 DEF Sendable
    <2>3. \A r \in zone : r.id \in 1 .. nextId - 1 /\ r.name \in Names
        BY DEF Inv, TypeOK, Records
    <2>4. CASE \E r \in zone, v \in Values : Apply(Put(r.id, r.name, v))
        BY <2>3, <2>4 DEF Sendable
    <2>5. CASE \E r \in zone : Apply(Delete(r.id, r.name))
        BY <2>3, <2>5 DEF Sendable
    <2> QED BY <2>1, <2>2, <2>4, <2>5 DEF ConsoleEdit
<1>4. /\ nextId' \in Nat \ {0} /\ nextId <= nextId' /\ zone' \subseteq Records'
      /\ \A r \in zone', s \in zone' : r.id = s.id => r = s
      /\ Records \subseteq Records'
    <2>1. CASE UNCHANGED <<zone, nextId>>
        BY <2>1 DEF Inv, TypeOK, Records
    <2>2. CASE \E w : Sendable(w) /\ Apply(w)
        BY <2>2, ApplyKeepsZone DEF Inv
    <2> QED BY <1>3, <2>1, <2>2
<1>5. \A l \in late' : /\ Sendable(l[3])' /\ l[3].id < nextId' /\ l[3].name \in Names
                       /\ l[3].verb = "POST" => Unlisted(l[3].name, l[4])
    BY <1>2, <1>4, StillSendable DEF Inv
<1>6. TypeOK'
    BY <1>2, <1>4, <1>5 DEF Inv, TypeOK
<1>7. Pending'
    BY <1>2, <1>5 DEF Inv, Pending, Unlisted
<1> QED BY <1>1, <1>6, <1>7 DEF Inv, InTurn

LEMMA Inductive == Inv /\ [Next]_vars => Inv'
<1> SUFFICES ASSUME Inv, [Next]_vars PROVE Inv'
    OBVIOUS
<1>1. CASE Next
    <2>1. Moves /\ UNCHANGED faults
        BY <1>1 DEF Next
    <2>2. ASSUME NEW c \in Callers, Method(c) PROVE Inv'
        <3>1. CASE Begin(c)
            BY <2>1, <3>1, BeginKeepsInv
        <3>2. CASE Get(c)
            BY <2>1, <3>2, GetKeepsInv
        <3>3. CASE Write(c)
            BY <2>1, <3>3, WriteKeepsInv
        <3>4. CASE WriteLost(c)
            BY <2>1, <3>4, WriteLostKeepsInv
        <3>5. CASE Store(c)
            BY <2>1, <3>5, StoreKeepsInv
        <3>6. CASE Fails(c) \/ Returns(c) \/ WriteDelayed(c)
            BY <2>1, <3>6, LeavesKeepsInv
        <3> QED BY <2>2, <3>1, <3>2, <3>3, <3>4, <3>5, <3>6 DEF Method
    <2>3. CASE (\E l \in late : LateLands(l)) \/ ConsoleEdit
        BY <2>1, <2>3, OthersKeepInv
    <2> QED BY <2>1, <2>2, <2>3 DEF Moves
<1>2. CASE UNCHANGED vars
    BY <1>2 DEF Inv, TypeOK, Pending, InTurn, Serial, Records, Sendable, Unlisted,
                vars, controller, caller
<1> QED BY <1>1, <1>2

LEMMA Invariant == Spec => []Inv
BY Initially, Inductive, PTL DEF Spec

-----------------------------------------------------------------------------
(* What list_records stores.                                               *)

\* What a list has stored so far is what its resources say, unless another record it
\* read has the same instance name.
Listing ==
    Serial =>
        \A c \in Callers : (pc[c] = "store" /\ req[c].op = "list") =>
            /\ todo[c] \subseteq seen[c]
            /\ \A r \in seen[c] \ todo[c] :
                  Alone(r, seen[c]) => data[recordInstanceName(r.name)] = r

\* Storing one record leaves the resources of those that are alone in their name.
LEMMA StoreLists ==
    ASSUME Inv, Listing, Serial, NEW c \in Callers, Store(c), req[c].op = "list"
    PROVE  /\ todo'[c] \subseteq seen[c]
           /\ \A r \in seen[c] \ todo'[c] :
                 Alone(r, seen[c]) => data'[recordInstanceName(r.name)] = r
<1>1. PICK r \in todo[c] :
          /\ data' = [data EXCEPT ![Instance[r.name]] = r]
          /\ todo' = [todo EXCEPT ![c] = @ \ {r}]
    BY DEF Store, recordInstanceName
<1>2. todo[c] \subseteq seen[c] /\ todo'[c] = todo[c] \ {r}
    BY <1>1 DEF Listing, Store, Inv, TypeOK
<1>3. ASSUME NEW s \in seen[c] PROVE Instance[s.name] \in DOMAIN data
    <2>1. s.name \in Names
        BY DEF Inv, TypeOK, Records
    <2> QED BY <2>1 DEF Instances, Inv, TypeOK
<1>4. ASSUME NEW s \in seen[c], s \notin todo'[c], Alone(s, seen[c])
      PROVE  data'[Instance[s.name]] = s
    <2>1. CASE s = r
        BY <1>1, <1>3, <2>1
    <2>2. CASE s # r
        <3>1. Instance[r.name] # Instance[s.name]
            BY <1>2, <1>4, <2>2 DEF Alone
        <3>2. data[Instance[s.name]] = s
            BY <1>2, <1>4, <2>2 DEF Listing, Store, recordInstanceName
        <3> QED BY <1>1, <1>3, <3>1, <3>2
    <2> QED BY <2>1, <2>2
<1> QED BY <1>2, <1>4 DEF recordInstanceName

LEMMA ListingStep == Inv /\ Listing /\ [Next]_vars => Listing'
<1> SUFFICES ASSUME Inv, Listing, [Next]_vars PROVE Listing'
    OBVIOUS
<1>0. Serial' => Serial
    BY DEF Next, vars, Serial
<1> SUFFICES ASSUME Serial, NEW c \in Callers, pc'[c] = "store", req'[c].op = "list"
             PROVE  /\ todo'[c] \subseteq seen'[c]
                    /\ \A r \in seen'[c] \ todo'[c] :
                          Alone(r, seen'[c]) => data'[recordInstanceName(r.name)] = r
    BY <1>0 DEF Listing
<1>1. CASE UNCHANGED vars
    BY <1>1 DEF Listing, vars, controller, caller
<1>2. CASE \E d \in Callers : d # c /\ Method(d)
    <2>1. PICK d \in Callers : d # c /\ Method(d)
        BY <1>2
    <2>2. pc[c] = "store"
        BY <2>1 DEF Method, Begin, Get, Write, Fails, WriteLost, WriteDelayed, Store, Returns,
                    Stored, Throws, Inv, TypeOK
    <2>3. Begin(d)
        BY <2>1, <2>2 DEF Inv, InTurn, Method, Get, Write, Fails, WriteLost, WriteDelayed, Store,
                          Returns, Stored
    <2> QED BY <2>2, <2>3 DEF Begin, Serial
<1>3. CASE Get(c)
    <2>1. req[c].op = "list"
        BY <1>3 DEF Get
    <2>2. todo'[c] = zone /\ seen'[c] = zone
        BY <1>3, <2>1 DEF Get, Inv, TypeOK
    <2> QED BY <2>2
<1>4. CASE Store(c)
    <2>1. req[c].op = "list" /\ seen' = seen
        BY <1>4 DEF Store
    <2> QED BY <1>4, <2>1, StoreLists
<1>5. CASE Method(c) /\ ~Get(c) /\ ~Store(c)
    <2>1. ~Write(c)
        BY DEF Write, Inv, Pending
    <2> QED BY <1>5, <2>1 DEF Method, Begin, Fails, WriteLost, WriteDelayed, Returns, Throws, Inv, TypeOK
<1>6. CASE (\E l \in late : LateLands(l)) \/ ConsoleEdit
    BY <1>6 DEF Inv, InTurn, ConsoleEdit, Serial
<1> QED BY <1>1, <1>2, <1>3, <1>4, <1>5, <1>6 DEF Next, Moves

-----------------------------------------------------------------------------
\* The type invariant: ids are given out once, and nothing is sent, stored or seen but
\* records the controller has held (DnsClient, the methods of unifi/dns.ts).
THEOREM TypeCorrect == Spec => []TypeOK
<1>1. Inv => TypeOK
    BY DEF Inv
<1> QED BY <1>1, Invariant, PTL

\* Callers that take turns never make a second record for a key and type, whichever
\* writes fail or lose their answers (findExisting, then POST or PUT).
THEOREM OneRecord == Spec => []OneRecordPerName
<1>1. Inv => OneRecordPerName
    BY DEF Inv, InTurn, OneRecordPerName
<1> QED BY <1>1, Invariant, PTL

\* list_records, when callers take turns: before it returns, the resource of every record it
\* read is that record, unless another record it read has the same instance name (the loop
\* over the records, writeResource).
THEOREM ListsAll == Spec => []ListsTrue
<1>1. Init => Listing
    BY DEF Init, Listing
<1>2. Spec => []Listing
    BY <1>1, ListingStep, Invariant, PTL DEF Spec
<1>3. Inv /\ Listing => ListsTrue
    BY DEF Inv, Listing, ListsTrue, ListedAll, Stored
<1> QED BY <1>2, <1>3, Invariant, PTL

\* Whatever overlaps, is late or is edited: a second record for a key and type is only made
\* by a method that listed the zone before the first was there (findExisting, then POST).
THEOREM SecondIsRaced == Spec => TwinsRaced
<1>1. ASSUME Inv, Next, NEW n \in Names, SecondRecord(n) PROVE Raced(n)
    <2>1. PICK r \in zone' : r.id = nextId /\ r.name = n
        BY <1>1 DEF SecondRecord, RecordsOf
    <2>2. zone' # zone
        BY <1>1, <2>1 DEF Inv, TypeOK, Records
    <2>3. ASSUME NEW w, Sendable(w), Apply(w) PROVE w.verb = "POST" /\ w.name = n
        BY <1>1, <2>1, <2>3, ApplyKeepsZone DEF Inv
    <2>4. ASSUME NEW c \in Callers, Method(c) PROVE Raced(n)
        <3>1. pc[c] = "write" /\ \E w \in Writes(c) : Apply(w)
            BY <2>2, <2>4 DEF Method, Begin, Get, Write, Fails, WriteLost, WriteDelayed, Store,
                             Returns, controller
        <3>2. PICK w \in Writes(c) : Apply(w)
            BY <3>1
        <3>3. /\ Sendable(w) /\ w.name = req[c].name
              /\ w.verb = "POST" => req[c].op = "upsert" /\ Unlisted(w.name, seen[c])
            BY <1>1, <3>1, WritesFit
        <3> QED BY <2>3, <3>1, <3>2, <3>3 DEF Raced
    <2>5. ASSUME NEW l \in late, LateLands(l) PROVE Raced(n)
        <3>1. Apply(l[3]) /\ l \in late \ late'
            BY <2>2, <2>5 DEF LateLands
        <3>2. Sendable(l[3]) /\ (l[3].verb = "POST" => Unlisted(l[3].name, l[4]))
            BY <1>1 DEF Inv, Pending
        <3> QED BY <2>3, <3>1, <3>2 DEF Raced
    <2>6. CASE ConsoleEdit
        <3>1. \A s \in zone : s.id \in 1 .. nextId - 1 /\ s.name \in Names
            BY <1>1 DEF Inv, TypeOK, Records
        <3>2. \A s \in zone, v \in Values : ~Apply(Put(s.id, s.name, v))
            <4> SUFFICES ASSUME NEW s \in zone, NEW v \in Values
                         PROVE  ~Apply(Put(s.id, s.name, v))
                OBVIOUS
            <4>1. Sendable(Put(s.id, s.name, v)) /\ Put(s.id, s.name, v).verb = "PUT"
                BY <3>1 DEF Sendable, Put
            <4> QED BY <2>3, <4>1
        <3>3. \A s \in zone : ~Apply(Delete(s.id, s.name))
            <4> SUFFICES ASSUME NEW s \in zone PROVE ~Apply(Delete(s.id, s.name))
                OBVIOUS
            <4>1. Sendable(Delete(s.id, s.name)) /\ Delete(s.id, s.name).verb = "DELETE"
                BY <3>1 DEF Sendable, Delete
            <4> QED BY <2>3, <4>1
        <3>4. PICK m \in Names, v \in Values : Matching(zone, m) = {} /\ Apply(Post(m, v))
            BY <2>6, <3>2, <3>3 DEF ConsoleEdit
        <3>5. m = n
            BY <2>3, <3>4 DEF Sendable, Post
        <3> QED BY <1>1, <3>4, <3>5 DEF Matching, Match, SecondRecord, RecordsOf
    <2> QED BY <1>1, <2>4, <2>5, <2>6 DEF Next, Moves
<1>2. Inv /\ [Next]_vars => [\A n \in Names : SecondRecord(n) => Raced(n)]_vars
    BY <1>1
<1> QED BY <1>2, Invariant, PTL DEF Spec, TwinsRaced

-----------------------------------------------------------------------------
(* Methods taken in turn implement RecordMap.                              *)

LEMMA SameZoneServesSame == UNCHANGED zone => UNCHANGED served
<1> SUFFICES ASSUME UNCHANGED zone PROVE \A n \in Names : Served(n)' = Served(n)
    BY DEF served
<1>1. \A n \in Names : RecordsOf(n)' = RecordsOf(n)
    BY DEF RecordsOf
<1> QED BY <1>1, ServedIsValue

\* Only the caller that moves asks for something else than before.
LEMMA OneAsks ==
    ASSUME NEW c \in Callers, \A d \in Callers \ {c} : pc'[d] = pc[d] /\ req'[d] = req[d]
    PROVE  asked' = [asked EXCEPT ![c] = Asked(c)']
BY DEF asked, Asked

\* A method that set or removes an entry asks for it from its beginning to its end.
LEMMA AskedFits ==
    ASSUME TypeOK, NEW c \in Callers
    PROVE  /\ asked[c] = Asked(c)
           /\ req[c].op \in {"upsert", "delete"} =>
                /\ Asked(c) = [name |-> req[c].name, value |-> req[c].value, done |-> pc[c] = "store"]
                /\ Asked(c) # Map!Idle
           /\ req[c].op \notin {"upsert", "delete"} => Asked(c) = Map!Idle
<1>1. req[c].op \in {"upsert", "delete"} => req[c].name \in Names
    BY DEF TypeOK, Requests, NoCall
<1> QED BY <1>1, NamesFiniteAssumption DEF asked, Asked, Map!Idle

LEMMA BeginAsks == ASSUME Inv, NEW c \in Callers, Begin(c) PROVE [Map!Next]_<<served, asked>>
<1>1. PICK r \in Requests : req' = [req EXCEPT ![c] = r]
    BY DEF Begin
<1>2. /\ pc[c] = "idle" /\ pc' = [pc EXCEPT ![c] = "get"] /\ UNCHANGED zone
    BY DEF Begin, controller
<1>3. req'[c] = r /\ pc'[c] = "get" /\ req[c] = NoCall
    BY <1>1, <1>2 DEF Inv, TypeOK
<1>4. asked[c] = Map!Idle
    BY <1>3, AskedFits DEF Inv, NoCall
<1>5. asked' = [asked EXCEPT ![c] = Asked(c)'] /\ UNCHANGED served
    BY <1>1, <1>2, OneAsks, SameZoneServesSame DEF Inv, TypeOK
<1>6. CASE r.op = "list"
    <2>1. Asked(c)' = Map!Idle
        BY <1>3, <1>6 DEF Asked, Map!Idle
    <2>2. asked' = asked
        BY <1>4, <1>5, <2>1 DEF asked
    <2> QED BY <1>5, <2>2
<1>7. CASE r.op \in {"upsert", "delete"}
    <2>1. Asked(c)' = [name |-> r.name, value |-> r.value, done |-> FALSE]
        BY <1>3, <1>7 DEF Asked
    <2>2. r.name \in Names /\ r.value \in Values \cup {Gone}
        BY <1>7 DEF Requests
    <2> QED BY <1>4, <1>5, <2>1, <2>2 DEF Map!Next, Map!Ask
<1>8. r.op \in {"list", "upsert", "delete"}
    BY DEF Requests
<1> QED BY <1>6, <1>7, <1>8

LEMMA Fulfilled ==
    ASSUME NEW n, NEW v
    PROVE  [[name |-> n, value |-> v, done |-> FALSE] EXCEPT !.done = TRUE]
             = [name |-> n, value |-> v, done |-> TRUE]
<1>1. \A b, d : [[name |-> n, value |-> v, done |-> b] EXCEPT !.done = d]
                  = [name |-> n, value |-> v, done |-> d]
    OBVIOUS
<1> QED BY <1>1

LEMMA GetAsks == ASSUME Inv, Serial, NEW c \in Callers, Get(c) PROVE [Map!Next]_<<served, asked>>
<1>1. /\ pc[c] = "get" /\ UNCHANGED <<req, zone>>
      /\ \/ pc' = [pc EXCEPT ![c] = "store"] /\ req[c].op = "list"
         \/ /\ pc' = [pc EXCEPT ![c] = "store"] /\ req[c].op = "delete"
            /\ Matching(zone, req[c].name) = {}
         \/ pc' = [pc EXCEPT ![c] = "write"] /\ req[c].op \in {"upsert", "delete"}
    BY DEF Get, controller
<1>2. asked' = [asked EXCEPT ![c] = Asked(c)'] /\ UNCHANGED served /\ asked[c] = Asked(c)
    BY <1>1, OneAsks, SameZoneServesSame, AskedFits DEF Inv, TypeOK
<1>3. CASE Asked(c)' = Asked(c)
    BY <1>2, <1>3 DEF asked
<1>4. CASE Asked(c)' # Asked(c)
    <2>1. /\ pc' = [pc EXCEPT ![c] = "store"] /\ req[c].op = "delete"
          /\ Matching(zone, req[c].name) = {}
        BY <1>1, <1>4 DEF Asked, Inv, TypeOK
    <2>2. req[c].name \in Names /\ req[c].value = Gone
        BY <2>1 DEF Inv, TypeOK, Requests, NoCall
    <2>3. Served(req[c].name) = Gone
        BY <2>1 DEF Matching, Match, Served, RecordsOf
    <2>4. served' = [served EXCEPT ![req[c].name] = Gone]
        BY <1>2, <2>2, <2>3 DEF served
    <2>5. /\ asked[c] = [name |-> req[c].name, value |-> Gone, done |-> FALSE]
          /\ asked[c] # Map!Idle
        <3>1. (pc[c] = "store") = FALSE
            BY <1>1
        <3> QED BY <1>2, <2>1, <2>2, <3>1, AskedFits DEF Inv
    <2>6. Asked(c)' = [name |-> req[c].name, value |-> Gone, done |-> TRUE]
        BY <1>1, <2>1, <2>2 DEF Asked, Inv, TypeOK
    <2>7. [asked[c] EXCEPT !.done = TRUE] = Asked(c)'
        BY <2>5, <2>6, Fulfilled
    <2>8. asked' = [asked EXCEPT ![c].done = TRUE]
        BY <1>2, <2>7
    <2>9. asked[c].done = FALSE /\ asked[c].name = req[c].name /\ asked[c].value = Gone
        BY <2>5
    <2>10. Map!Do(c)
        BY <2>4, <2>5, <2>8, <2>9 DEF Map!Do, Map!Effect
    <2> QED BY <2>10 DEF Map!Next
<1> QED BY <1>3, <1>4

\* A write changes in the zone what the caller asked for.
LEMMA WriteServes ==
    ASSUME Inv, Serial, NEW c \in Callers, pc[c] = "write", NEW w \in Writes(c), Apply(w)
    PROVE  /\ served' = [served EXCEPT ![asked[c].name] = asked[c].value]
           /\ asked[c] = [name |-> req[c].name, value |-> req[c].value, done |-> FALSE]
           /\ asked[c] # Map!Idle
<1>1. req[c].op \in {"upsert", "delete"}
    BY DEF Inv, Pending
<1>2. (pc[c] = "store") = FALSE
    OBVIOUS
<1>3. /\ asked[c] = [name |-> req[c].name, value |-> req[c].value, done |-> FALSE]
      /\ asked[c] # Map!Idle
    BY <1>1, <1>2, AskedFits DEF Inv
<1>4. \A n \in Names : Served(n)' = IF n = req[c].name THEN req[c].value ELSE Served(n)
    BY WriteInTurn
<1>5. served' = [served EXCEPT ![req[c].name] = req[c].value]
    BY <1>4 DEF served
<1> QED BY <1>3, <1>5

LEMMA WriteDoes == ASSUME Inv, Serial, NEW c \in Callers, Write(c) PROVE Map!Next
<1>1. pc[c] = "write" /\ pc' = [pc EXCEPT ![c] = "store"] /\ UNCHANGED req
    BY DEF Write
<1>2. PICK w \in Writes(c) : Apply(w)
    BY DEF Write
<1>3. /\ served' = [served EXCEPT ![asked[c].name] = asked[c].value]
      /\ asked[c] = [name |-> req[c].name, value |-> req[c].value, done |-> FALSE]
      /\ asked[c] # Map!Idle
    BY <1>1, <1>2, WriteServes
<1>4. Asked(c)' = [name |-> req[c].name, value |-> req[c].value, done |-> TRUE]
    <2>1. req[c].op \in {"upsert", "delete"} /\ pc'[c] = "store"
        BY <1>1 DEF Inv, Pending, TypeOK
    <2> QED BY <1>1, <2>1 DEF Asked
<1>5. asked' = [asked EXCEPT ![c] = Asked(c)']
    BY <1>1, OneAsks DEF Inv, TypeOK
<1>6. asked' = [asked EXCEPT ![c].done = TRUE]
    <2>1. [asked[c] EXCEPT !.done = TRUE] = Asked(c)'
        BY <1>3, <1>4, Fulfilled
    <2> QED BY <1>5, <2>1
<1>7. asked[c].done = FALSE
    BY <1>3
<1>8. Map!Do(c)
    BY <1>3, <1>6, <1>7 DEF Map!Do, Map!Effect
<1> QED BY <1>8 DEF Map!Next

\* However a method is left, its caller asks for nothing any more.
LEMMA ThrowsIdles ==
    ASSUME TypeOK, NEW c \in Callers, Throws(c) PROVE asked' = [asked EXCEPT ![c] = Map!Idle]
<1>1. Asked(c)' = Map!Idle
    BY DEF Throws, TypeOK, Asked, NoCall, Map!Idle
<1>2. asked' = [asked EXCEPT ![c] = Asked(c)']
    BY OneAsks DEF Throws, TypeOK
<1> QED BY <1>1, <1>2

LEMMA LeavesAnswers ==
    ASSUME Inv, NEW c \in Callers, Fails(c) \/ Returns(c) PROVE [Map!Next]_<<served, asked>>
<1>1. Throws(c) /\ UNCHANGED zone
    BY DEF Fails, Returns, controller
<1>2. asked' = [asked EXCEPT ![c] = Map!Idle] /\ UNCHANGED served
    BY <1>1, ThrowsIdles, SameZoneServesSame DEF Inv
<1>3. CASE asked[c] = Map!Idle
    BY <1>2, <1>3 DEF asked
<1>4. CASE asked[c] # Map!Idle
    BY <1>2, <1>4 DEF Map!Next, Map!Fail
<1> QED BY <1>3, <1>4

LEMMA WriteLostFails == ASSUME Inv, Serial, NEW c \in Callers, WriteLost(c) PROVE Map!Next
<1>1. pc[c] = "write" /\ Throws(c)
    BY DEF WriteLost
<1>2. PICK w \in Writes(c) : Apply(w)
    BY DEF WriteLost
<1>3. /\ served' = [served EXCEPT ![asked[c].name] = asked[c].value]
      /\ asked[c].done = FALSE /\ asked[c] # Map!Idle
    <2>1. asked[c] = [name |-> req[c].name, value |-> req[c].value, done |-> FALSE]
        BY <1>1, <1>2, WriteServes
    <2> QED BY <1>1, <1>2, <2>1, WriteServes
<1>4. asked' = [asked EXCEPT ![c] = Map!Idle]
    BY <1>1, ThrowsIdles DEF Inv
<1> QED BY <1>3, <1>4 DEF Map!Next, Map!Fail, Map!Effect

LEMMA StepsAnswer == ASSUME Inv, Serial, Next PROVE [Map!Next]_<<served, asked>>
<1>1. ASSUME NEW c \in Callers, Method(c) PROVE [Map!Next]_<<served, asked>>
    <2>1. ~WriteDelayed(c)
        BY DEF WriteDelayed, Serial
    <2>2. CASE Store(c)
        <3>1. UNCHANGED <<zone, pc, req>>
            BY <2>2 DEF Store, controller
        <3>2. UNCHANGED asked
            BY <3>1 DEF asked, Asked
        <3> QED BY <3>1, <3>2, SameZoneServesSame
    <2>3. CASE Fails(c) \/ Returns(c)
        BY <2>3, LeavesAnswers
    <2>4. CASE Begin(c)
        BY <2>4, BeginAsks
    <2>5. CASE Get(c)
        BY <2>5, GetAsks
    <2>6. CASE Write(c) \/ WriteLost(c)
        BY <2>6, WriteDoes, WriteLostFails
    <2> QED BY <1>1, <2>1, <2>2, <2>3, <2>4, <2>5, <2>6 DEF Method
<1>2. late = {} /\ ~ConsoleEdit
    BY DEF Inv, InTurn, ConsoleEdit, Serial
<1> QED BY <1>1, <1>2 DEF Next, Moves

LEMMA FirstMap == Init => Map!Init
<1> SUFFICES ASSUME Init PROVE Map!Init
    OBVIOUS
<1>1. zone \subseteq Records /\ \A c \in Callers : req[c].op = "none"
    BY Initially DEF Init, Inv, TypeOK, NoCall
<1>2. \A n \in Names : Served(n) \in Values \cup {Gone}
    <2>1. \A n \in Names : RecordsOf(n) # {} => (CHOOSE r \in RecordsOf(n) : TRUE) \in RecordsOf(n)
        OBVIOUS
    <2>2. \A n \in Names : \A r \in RecordsOf(n) : r.value \in Values
        BY <1>1 DEF RecordsOf, Records
    <2> QED BY <2>1, <2>2 DEF Served
<1>3. asked = [c \in Callers |-> Map!Idle]
    BY <1>1 DEF asked, Asked, Map!Idle
<1> QED BY <1>2, <1>3 DEF Map!Init, served

\* Methods that take turns serve the zone as a map of which every call changes one entry,
\* once, between its beginning and its end, also if its answer is lost (unifi/dns.ts).
THEOREM MapImplemented == Spec => ImplementsRecordMap
<1>1. Inv /\ [Next]_vars => [Serial => [Map!Next]_<<served, asked>>]_vars
    BY StepsAnswer
<1>2. Init => (Serial => Map!Init)
    BY FirstMap
<1> QED BY <1>1, <1>2, Invariant, PTL DEF Spec, ImplementsRecordMap
=============================================================================
