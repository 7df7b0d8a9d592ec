------------------------------ MODULE GuestEdit ------------------------------
(***************************************************************************)
(* edit_guest_disk: a script on a tool host attaches a guest's disk, mounts*)
(* its root and writes two files into it; a trap undoes the set-up however *)
(* the script ends.  All scripts use one nbd device and one mount point    *)
(* (their defaults); what they share is the tool host, which is modelled as*)
(* far as the script's commands can tell.                                  *)
(*                                                                         *)
(* Any command of the script may fail at any time, having done its work,   *)
(* some of it or nothing.  What else goes wrong is fixed by faults, one of *)
(* FaultCases:                                                             *)
(*   "busy"     umount finds the file system in use                        *)
(*   "kill"     the script is killed without its trap                      *)
(*   "timeout"  ssh is killed after taskTimeoutSec, the script goes on     *)
(*   "overlap"  a second method runs before the first has returned         *)
(***************************************************************************)
EXTENDS Naturals, Sequences, FiniteSets

CONSTANTS
    Guests,     \* guest disks, each with an LVM root
    None,
    Scripts,    \* runs of the method
    GuestOf,    \* [Scripts -> Guests]
    Layouts,    \* possible [Guests -> VG names]; many a VG is called ubuntu-vg
    Modes,      \* values of targetMode: "nbd", "local"
    FaultCases

Assumptions ==
    /\ None \notin Guests /\ GuestOf \in [Scripts -> Guests]
    /\ \A l \in Layouts : DOMAIN l = Guests
    /\ Modes \subseteq {"nbd", "local"}
    /\ \A f \in FaultCases : f \subseteq {"busy", "kill", "timeout", "overlap"}

Files == {"netplan", "cloud"}

VARIABLES
    faults,     \* what may go wrong in this behaviour
    targetMode, \* of its edits
    vgOf,       \* the VG of each guest
    nbd,        \* the guest whose export /dev/nbd0 is, or None
    active,     \* VG names with an active LV
    mounts,     \* the file systems mounted on the mount point, the last on top
    cached,     \* [Guests -> files written and not yet synced]
    disk,       \* [Guests -> files that are on the guest's disk]
    host,       \* files in the tool host's own directory at the mount point
    pc,         \* [Scripts -> next command]
    marker,     \* scripts that have printed swamp-edit-ok
    result      \* [Scripts -> what the method did]

tool == <<nbd, active, mounts>>
files == <<cached, disk, host>>
vars == <<faults, targetMode, vgOf, nbd, active, mounts, cached, disk, host, pc, marker, result>>

Vg(s) == vgOf[GuestOf[s]]
Trap == {"umount", "deactivate", "disconnect"}
Over == {"done", "killed"}
Idle(s) == pc[s] \in Over \cup {"begin"}

\* The script's guest is reachable through the device it uses.
Attached(s) == targetMode = "local" \/ nbd = GuestOf[s]

\* What "$MNT" is: the file system on top, or the plain directory.
Top == IF mounts = <<>> THEN None ELSE mounts[Len(mounts)]
MntFiles == IF Top = None THEN host ELSE disk[Top] \cup cached[Top]

Init ==
    /\ faults \in FaultCases /\ targetMode \in Modes /\ vgOf \in Layouts
    /\ nbd = None /\ active = {} /\ mounts = <<>>
    /\ cached = [g \in Guests |-> {}] /\ disk = [g \in Guests |-> {}]
    /\ host = {}
    /\ pc = [s \in Scripts |-> "begin"]
    /\ marker = {}
    /\ result = [s \in Scripts |-> "none"]

-----------------------------------------------------------------------------
(* The script.  With set -e a command that fails ends it through the trap: *)
(* because it cannot do its work, or for no reason the model knows of (an  *)
(* export that does not answer, a full disk, a file system that is         *)
(* read-only).                                                             *)

At(s, here) == pc[s] = here
Goto(s, there) == pc' = [pc EXCEPT ![s] = there]

\* Mutant: the trap is only set when the set-up is through.
FailsUntrapped(s, here) ==
    /\ At(s, here)
    /\ Goto(s, IF here \in {"connect", "activate", "mount"} THEN "done" ELSE "umount")
    /\ UNCHANGED <<tool, files, marker, result>>
FailsAt(s, here) ==
    /\ At(s, here) /\ Goto(s, "umount")
    /\ UNCHANGED <<tool, files, marker, result>>

\* A command that has done its work, or the one after it in the same step, may
\* still fail: vgchange activates some of the volumes, chmod or the second
\* mkdir fails after what was made before.
GoesOnOrFails(s, there) == Goto(s, there) \/ Goto(s, "umount")

Begin(s) ==
    /\ At(s, "begin") /\ result[s] = "none"
    /\ "overlap" \in faults \/ \A t \in Scripts : result[t] # "running"
    /\ Goto(s, "connect")
    /\ result' = [result EXCEPT ![s] = "running"]
    /\ UNCHANGED <<tool, files, marker>>

\* qemu-nbd -c refuses a device in use; the local device is only tested.
Connectable(s) == targetMode = "local" \/ nbd = None
Connect(s) ==
    \/ /\ At(s, "connect") /\ Connectable(s) /\ Goto(s, "activate")
       /\ nbd' = IF targetMode = "nbd" THEN GuestOf[s] ELSE nbd
       /\ UNCHANGED <<active, mounts, files, marker, result>>
    \/ FailsAt(s, "connect")

Activate(s) ==
    \/ /\ At(s, "activate") /\ Attached(s) /\ GoesOnOrFails(s, "mount")
       /\ active' = active \cup {Vg(s)}
       /\ UNCHANGED <<nbd, mounts, files, marker, result>>
    \/ FailsAt(s, "activate")

\* mount refuses a file system that is mounted there already.
Mountable(s) ==
    /\ Vg(s) \in active /\ Attached(s)
    /\ \A i \in 1 .. Len(mounts) : vgOf[mounts[i]] # Vg(s)
Mount(s) ==
    \/ /\ At(s, "mount") /\ Mountable(s) /\ GoesOnOrFails(s, "netplan")
       /\ mounts' = Append(mounts, GuestOf[s])
       /\ UNCHANGED <<nbd, active, files, marker, result>>
    \/ FailsAt(s, "mount")

Puts(f) ==
    IF Top = None
    THEN host' = host \cup {f} /\ UNCHANGED <<cached, disk>>
    ELSE cached' = [cached EXCEPT ![Top] = @ \cup {f}] /\ UNCHANGED <<disk, host>>

\* mkdir -p makes the directories wherever "$MNT" is.
WriteNetplan(s) ==
    \/ /\ At(s, "netplan") /\ GoesOnOrFails(s, "cloud")
       /\ Puts("netplan")
       /\ UNCHANGED <<tool, marker, result>>
    \/ FailsAt(s, "netplan")

\* chmod and the redirection need what the step before has made.
WriteCloud(s) ==
    \/ /\ At(s, "cloud") /\ "netplan" \in MntFiles /\ GoesOnOrFails(s, "sync")
       /\ Puts("cloud")
       /\ UNCHANGED <<tool, marker, result>>
    \/ FailsAt(s, "cloud")

\* sync reaches a mounted file system whose device is there; it reports
\* nothing of the others.
Reaches(g) == targetMode = "local" \/ nbd = g
Flushable == {g \in Guests : Reaches(g) /\ \E i \in 1 .. Len(mounts) : mounts[i] = g}
Flush(S) ==
    /\ disk' = [g \in Guests |-> IF g \in S THEN disk[g] \cup cached[g] ELSE disk[g]]
    /\ cached' = [g \in Guests |-> IF g \in S THEN {} ELSE cached[g]]
Synced == Flushable

\* The marker is printed last, if there is still somebody to print it to.
Sync(s) ==
    \/ /\ At(s, "sync") /\ Goto(s, "umount")
       /\ Flush(Synced)
       /\ marker' = marker \cup {s} \/ UNCHANGED marker
       /\ UNCHANGED <<tool, host, result>>
    \/ FailsAt(s, "sync")

-----------------------------------------------------------------------------
(* The trap.  Every command is followed by || true.                        *)

\* Unmounting flushes, if the device is still there; else what is cached is lost.
Unmounted == {Top} \cap Flushable
Umount(s) ==
    /\ At(s, "umount") /\ Goto(s, "deactivate")
    /\ \/ /\ mounts # <<>>
          /\ mounts' = SubSeq(mounts, 1, Len(mounts) - 1)
          /\ disk' = [g \in Guests |-> IF g \in Unmounted THEN disk[g] \cup cached[g] ELSE disk[g]]
          /\ cached' = [cached EXCEPT ![Top] = {}]
       \/ /\ mounts = <<>> \/ "busy" \in faults
          /\ UNCHANGED <<mounts, cached, disk>>
    /\ UNCHANGED <<nbd, active, host, marker, result>>

\* vgchange -an refuses while a logical volume of the group is in use.
InUse(vg) == \E i \in 1 .. Len(mounts) : vgOf[mounts[i]] = vg
Deactivate(s) ==
    /\ At(s, "deactivate") /\ Goto(s, "disconnect")
    /\ active' = IF InUse(Vg(s)) THEN active ELSE active \ {Vg(s)}
    /\ UNCHANGED <<nbd, mounts, files, marker, result>>

\* qemu-nbd -d does not ask who uses the device; what was not synced is lost.
Detached == IF targetMode = "nbd" THEN None ELSE nbd
Disconnect(s) ==
    /\ At(s, "disconnect") /\ Goto(s, "done")
    /\ nbd' = Detached
    /\ cached' = [g \in Guests |-> IF targetMode = "nbd" THEN {} ELSE cached[g]]
    /\ UNCHANGED <<active, mounts, disk, host, marker, result>>

Killed(s) ==
    /\ "kill" \in faults /\ ~Idle(s)
    /\ Goto(s, "killed")
    /\ UNCHANGED <<tool, files, marker, result>>

\* The method: the exit code of the script and the marker decide.
MarkerSeen(s) == pc[s] = "done" /\ s \in marker
Returns(s) ==
    /\ result[s] = "running" /\ pc[s] \in Over
    /\ result' = [result EXCEPT ![s] = IF MarkerSeen(s) THEN "applied" ELSE "failed"]
    /\ UNCHANGED <<tool, files, pc, marker>>

TimesOut(s) ==
    /\ "timeout" \in faults /\ result[s] = "running" /\ pc[s] \notin Over
    /\ result' = [result EXCEPT ![s] = "failed"]
    /\ UNCHANGED <<tool, files, pc, marker>>

Script(s) ==
    \/ Connect(s) \/ Activate(s) \/ Mount(s) \/ WriteNetplan(s) \/ WriteCloud(s)
    \/ Sync(s) \/ Umount(s) \/ Deactivate(s) \/ Disconnect(s)

Moves(s) == Begin(s) \/ Script(s) \/ Killed(s) \/ Returns(s) \/ TimesOut(s)

Next == (\E s \in Scripts : Moves(s)) /\ UNCHANGED <<faults, targetMode, vgOf>>

Spec == Init /\ [][Next]_vars

-----------------------------------------------------------------------------
\* Types; nothing is mounted over itself, and what is not synced yet belongs to
\* a file system that is mounted.
TypeOK ==
    /\ nbd \in Guests \cup {None}
    /\ active \subseteq {vgOf[g] : g \in Guests}
    /\ mounts \in Seq(Guests)
    /\ \A i, j \in 1 .. Len(mounts) : mounts[i] = mounts[j] => i = j
    /\ cached \in [Guests -> SUBSET Files]
    /\ \A g \in Guests : cached[g] # {} => \E i \in 1 .. Len(mounts) : mounts[i] = g
    /\ disk \in [Guests -> SUBSET Files]
    /\ host \subseteq Files
    /\ pc \in [Scripts -> Over \cup Trap \cup
                {"begin", "connect", "activate", "mount", "netplan", "cloud", "sync"}]
    /\ marker \subseteq Scripts
    /\ result \in [Scripts -> {"none", "running", "applied", "failed"}]

\* Only one script at a time is at work on the tool host.
OneAtATime == faults \cap {"overlap", "timeout"} = {}

\* An edit recorded as applied is on the disk of the guest it names, both files
\* of it, also if the unmount fails afterwards (edit_guest_disk, applied).
OkMeansEdited ==
    OneAtATime => \A s \in Scripts : result[s] = "applied" => disk[GuestOf[s]] = Files

\* The tool host's own files are left alone: the script writes below a mount.
HostUntouched == OneAtATime => host = {}

\* "a failure never leaves the LV active or the nbd device connected": when no
\* script runs, there is nothing of it left on the tool host, whichever commands of
\* whichever scripts failed, and however far each had got.  That holds if the trap
\* runs and its umount finds the file system free.
\* Edits that overlap are no such case: a script that could not connect still runs
\* the trap, which takes the shared nbd device and mount from the one that could.
NothingLeftActive ==
    (faults = {} /\ \A s \in Scripts : Idle(s)) =>
        nbd = None /\ active = {} /\ mounts = <<>>
=============================================================================
