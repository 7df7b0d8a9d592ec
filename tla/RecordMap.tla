------------------------------ MODULE RecordMap ------------------------------
(***************************************************************************)
(* What the DNS model promises its callers: the zone is a map from a       *)
(* record's key and type to its value.  A request to set or remove one     *)
(* entry takes effect once, between the call and the answer; a call that   *)
(* fails took effect or did not.                                           *)
(***************************************************************************)
CONSTANTS Names, Values, Callers, Gone, NoName

VARIABLES
    served,     \* the value of each entry, Gone if there is none
    asked       \* what each caller wants, and whether it was done

Idle == [name |-> NoName, value |-> Gone, done |-> FALSE]
Requests == [name : Names, value : Values \cup {Gone}, done : BOOLEAN]

Init ==
    /\ served \in [Names -> Values \cup {Gone}]
    /\ asked = [c \in Callers |-> Idle]

Ask(c) ==
    /\ asked[c] = Idle
    /\ \E n \in Names, v \in Values \cup {Gone} :
          asked' = [asked EXCEPT ![c] = [name |-> n, value |-> v, done |-> FALSE]]
    /\ UNCHANGED served

Effect(c) == served' = [served EXCEPT ![asked[c].name] = asked[c].value]

Do(c) ==
    /\ asked[c] # Idle /\ ~asked[c].done
    /\ asked' = [asked EXCEPT ![c].done = TRUE]
    /\ Effect(c)

Answer(c) ==
    /\ asked[c] # Idle /\ asked[c].done
    /\ asked' = [asked EXCEPT ![c] = Idle]
    /\ UNCHANGED served

Fail(c) ==
    /\ asked[c] # Idle
    /\ asked' = [asked EXCEPT ![c] = Idle]
    /\ (~asked[c].done /\ Effect(c)) \/ UNCHANGED served

Next == \E c \in Callers : Ask(c) \/ Do(c) \/ Answer(c) \/ Fail(c)

Spec == Init /\ [][Next]_<<served, asked>>
=============================================================================
