----------------------------- MODULE RemoteWork ------------------------------
(***************************************************************************)
(* Work started on another host that has to be accounted for: a run of the *)
(* aurae driver, a disk copy, and edits of guests' disks.  A behaviour     *)
(* exercises one of the three models, part; the others stay in one of      *)
(* their initial states.                                                   *)
(***************************************************************************)
EXTENDS AuraeCell, Naturals, Sequences, FiniteSets

CONSTANTS
    DiskSize, BlockSize, Buffer, StreamModes, ExpectedSizes, StreamFaults,  \* of DiskStream
    Guests, None, Scripts, GuestOf, Layouts, EditModes, EditFaultCases  \* of GuestEdit

VARIABLES
    part,
    mode, expected, read, written, pipe, timedOut, outcome, bytes,
    editFaults, targetMode, vgOf, nbd, active, mounts, cached, disk, host,
    scriptPc, marker, editResult

streamVars == <<mode, expected, read, written, pipe, timedOut, outcome, bytes>>
editVars == <<editFaults, targetMode, vgOf, nbd, active, mounts, cached, disk, host,
              scriptPc, marker, editResult>>
workVars == <<part, vars, streamVars, editVars>>

Stream == INSTANCE DiskStream WITH
    Modes <- StreamModes, Faults <- StreamFaults, proc <- pipe
Edit == INSTANCE GuestEdit WITH
    Modes <- EditModes, FaultCases <- EditFaultCases,
    faults <- editFaults, pc <- scriptPc, result <- editResult

ASSUME StreamAssumption == Stream!Assumptions
ASSUME EditAssumption == Edit!Assumptions

CellParked == faults = CHOOSE f \in FaultCases : TRUE
StreamParked ==
    /\ mode = CHOOSE m \in StreamModes : TRUE
    /\ expected = CHOOSE n \in ExpectedSizes : TRUE
EditParked ==
    /\ editFaults = CHOOSE f \in EditFaultCases : TRUE
    /\ targetMode = CHOOSE m \in EditModes : TRUE
    /\ vgOf = CHOOSE l \in Layouts : TRUE

WorkInit ==
    /\ part \in {"cell", "stream", "edit"}
    /\ Init /\ Stream!Init /\ Edit!Init
    /\ part # "cell" => CellParked
    /\ part # "stream" => StreamParked
    /\ part # "edit" => EditParked

WorkNext ==
    \/ part = "cell" /\ Next /\ UNCHANGED <<part, streamVars, editVars>>
    \/ part = "stream" /\ Stream!Next /\ UNCHANGED <<part, vars, editVars>>
    \/ part = "edit" /\ Edit!Next /\ UNCHANGED <<part, vars, streamVars>>

\* auraed answers while it is not stuck, and the timers go off; the process in
\* the cell need not end.  The processes of a copy go on while they are alive:
\* faults are no part of a fair action, as they may happen but need not.
WorkFairness ==
    /\ WF_vars(part = "cell" /\ Answers /\ UNCHANGED faults)
    /\ WF_vars(part = "cell" /\ Observes /\ UNCHANGED faults)
    /\ WF_vars(part = "cell" /\ Cleanup /\ UNCHANGED faults)
    /\ WF_vars(part = "cell" /\ TimerFires /\ UNCHANGED faults)
    /\ WF_streamVars(part = "stream" /\ (Stream!Process \/ Stream!Finish))

WorkSpec == WorkInit /\ [][WorkNext]_workVars /\ WorkFairness

-----------------------------------------------------------------------------
\* A disk copy that is recorded as verified is complete on the destination, or, if the
\* source's dd or the destination's zstd died, short by less than a block, whenever
\* that was (in direct mode the zstd may cost more); one that fails does so because a
\* process, the network or the clock did, or the size given was not the disk's
\* (stream, verified).
CopyTrue == Stream!TypeOK /\ Stream!VerifiedIsComplete /\ Stream!FailsForAReason

\* The copy's method returns or throws, whichever process dies first: the death of
\* one ends its neighbours through the pipes (pipeTo, Promise.all).
CopyEnds == part = "stream" ~> outcome # "none"

\* An edit recorded as applied is on its guest's disk, the tool host's own files are
\* left alone, and edits leave nothing of theirs on the tool host, whichever of their
\* commands fail, if the trap runs (edit_guest_disk, the script's trap).
EditsTrue == Edit!TypeOK /\ Edit!OkMeansEdited /\ Edit!HostUntouched /\ Edit!NothingLeftActive
=============================================================================
