---------------------------- MODULE MCRemoteWork -----------------------------
(***************************************************************************)
(* Remote work on a small instance: a disk of two blocks of two units, the *)
(* size given being the disk's, a unit more (accepted), a block more or    *)
(* none; any faults of the driver; two guests and three edits, the second  *)
(* guest's in the middle, their volume groups of one name or of two.       *)
(***************************************************************************)
EXTENDS RemoteWork

CONSTANTS g1, g2

SizesGiven == {0, 4, 5, 6}

AnyFaults == SUBSET {"stuck", "lost", "cut", "throws"}

TwoGuests == {g1, g2}
ThreeScripts == 1 .. 3
FirstTwice == [s \in ThreeScripts |-> IF s = 2 THEN g2 ELSE g1]
SameVg == [g \in TwoGuests |-> "ubuntu-vg"]
OwnVg == [g \in TwoGuests |-> IF g = g1 THEN "vg1" ELSE "vg2"]
BothLayouts == {SameVg, OwnVg}
EditFaults == {{}, {"busy", "kill"}, {"overlap", "timeout"}}
=============================================================================
