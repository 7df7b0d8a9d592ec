------------------------------- MODULE Cutover -------------------------------
(***************************************************************************)
(* What the migrate-vm workflow promises about each guest, with no trace   *)
(* of steps, calls or records: at any time its MAC is served by the source *)
(* or by the target or by nobody, and the target takes over only with a    *)
(* copy of the disk as the source left it.  Module MigrateVm implements    *)
(* this under the mapping given there.                                     *)
(***************************************************************************)
CONSTANT Guests

VARIABLES
    serving,    \* per guest, the side its MAC is up on
    copied      \* the guests a faithful copy of whose disk is at the target

Sides == {"source", "target", "nobody"}

TypeOK ==
    /\ serving \in [Guests -> Sides]
    /\ copied \subseteq Guests

Init ==
    /\ serving = [g \in Guests |-> "source"]
    /\ copied = {}

\* One move of guest g; a step may move several guests.

ShutsDown(g) == serving[g] = "source" /\ serving'[g] = "nobody" /\ g \notin copied'

Copies(g) == serving[g] = "nobody" /\ serving'[g] = "nobody" /\ g \in copied'

TakesOver(g) ==
    /\ serving[g] = "nobody" /\ g \in copied
    /\ serving'[g] = "target" /\ g \in copied'

GoesDown(g) == serving[g] = "target" /\ serving'[g] = "nobody"

Discards(g) == serving[g] = "nobody" /\ serving'[g] = "nobody" /\ g \notin copied'

RollsBack(g) == serving[g] = "nobody" /\ serving'[g] = "source" /\ g \notin copied'

Stays(g) == serving'[g] = serving[g] /\ (g \in copied <=> g \in copied')

Move(g) ==
    \/ ShutsDown(g) \/ Copies(g) \/ TakesOver(g) \/ GoesDown(g)
    \/ Discards(g) \/ RollsBack(g) \/ Stays(g)

Next ==
    /\ serving' \in [Guests -> Sides] /\ copied' \in SUBSET Guests
    /\ \A g \in Guests : Move(g)

Spec == Init /\ [][Next]_<<serving, copied>>
=============================================================================
