----------------------------- MODULE DiskStream -----------------------------
(***************************************************************************)
(* One copy of a powered-off disk: dd | zstd on the source host, zstd -dc  *)
(* | dd on the destination, joined by ssh, with the exit codes and the dd  *)
(* counts the stream method decides from.                                  *)
(*                                                                         *)
(* Sizes are in units of which a block of dd has BlockSize: a dd that is   *)
(* killed, or that meets a bad sector, may stop in the middle of a block.  *)
(* A pipeline exits with the code of its last command.  The processes and  *)
(* the network are external; Faults chooses what goes wrong with them:     *)
(*   "read"   the source dd meets a read error                             *)
(*   "write"  the destination dd meets a write error                       *)
(*   "unzip"  the destination zstd dies or is killed                       *)
(*   "zip"    the source zstd dies or is killed                            *)
(*   "net"    the connection between the hosts breaks                      *)
(*   "slow"   the copy exceeds taskTimeoutSec                              *)
(***************************************************************************)
EXTENDS Naturals

CONSTANTS
    DiskSize,   \* of the source disk
    BlockSize,  \* of dd
    Buffer,     \* bound: what is read and not written; runs of zeros compress
                \* to nothing, so that this may be most of a disk
    Modes,      \* the topologies to consider
    ExpectedSizes,  \* values of expectedBytes; 0 if it is not given
    Faults

Assumptions ==
    /\ DiskSize \in Nat \ {0} /\ BlockSize \in Nat \ {0} /\ Buffer \in Nat \ {0}
    /\ ExpectedSizes \subseteq Nat
    /\ Modes \subseteq {"direct", "relay"}
    /\ Faults \subseteq {"read", "write", "unzip", "zip", "net", "slow"}

VARIABLES
    mode,       \* what the probe or the caller chose
    expected,   \* expectedBytes
    read,       \* how much the source dd has read
    written,    \* how much the destination dd has written
    proc,       \* how each process of the pipe is or ended
    timedOut,
    outcome,    \* of the method
    bytes       \* bytesWritten

vars == <<mode, expected, read, written, proc, timedOut, outcome, bytes>>

Processes == {"srcDd", "zip", "unzip", "dstDd"}
Running(p) == proc[p] = "running"
Ended(p) == proc[p] \in {"ok", "failed", "gone"}
InPipe == read - written

\* The probe of "auto" may find either; a given mode is one of Modes.
Init ==
    /\ mode \in Modes /\ expected \in ExpectedSizes
    /\ read = 0 /\ written = 0
    /\ proc = [p \in Processes |-> "running"]
    /\ timedOut = FALSE /\ outcome = "none" /\ bytes = 0

Ends(p, how) ==
    /\ Running(p)
    /\ proc' = [proc EXCEPT ![p] = how]
    /\ UNCHANGED <<mode, expected, read, written, timedOut, outcome, bytes>>

-----------------------------------------------------------------------------
(* The four processes, each until it has ended.                            *)

SrcReads ==
    /\ Running("srcDd") /\ Running("zip")
    /\ read < DiskSize /\ InPipe < Buffer
    /\ read' = read + 1
    /\ UNCHANGED <<mode, expected, written, proc, timedOut, outcome, bytes>>

SrcDdEnds ==
    \/ read = DiskSize /\ Ends("srcDd", "ok")
    \/ ~Running("zip") /\ read < DiskSize /\ Ends("srcDd", "failed")   \* SIGPIPE

\* At the end of its input zstd closes a valid frame, however little it got.
ZipEnds ==
    \/ ~Running("srcDd") /\ Running("unzip") /\ Ends("zip", "ok")
    \/ ~Running("unzip") /\ (InPipe > 0 \/ Running("srcDd")) /\ Ends("zip", "failed")
    \/ ~Running("unzip") /\ ~Running("srcDd") /\ Ends("zip", "ok")

DstWrites ==
    /\ Running("dstDd") /\ Running("unzip") /\ InPipe > 0
    /\ written' = written + 1
    /\ UNCHANGED <<mode, expected, read, proc, timedOut, outcome, bytes>>

\* Mutant: the pipe to the destination's stdin is not closed at the end.
StdinLeftOpen == ~Running("dstDd") /\ Ends("unzip", "failed")
UnzipEnds ==
    \/ proc["zip"] = "ok" /\ InPipe = 0 /\ Ends("unzip", "ok")
    \/ proc["zip"] = "failed" /\ Ends("unzip", "failed")     \* a truncated frame
    \/ ~Running("dstDd") /\ Ends("unzip", "failed")          \* SIGPIPE

DstDdEnds == ~Running("unzip") /\ Ends("dstDd", "ok")

Dies ==
    \/ "read" \in Faults /\ read < DiskSize /\ Ends("srcDd", "failed")
    \/ "zip" \in Faults /\ Ends("zip", "failed")
    \/ "unzip" \in Faults /\ Ends("unzip", "failed")
    \/ "write" \in Faults /\ Ends("dstDd", "failed")

\* The connection breaks: every process of the pipe that is left is gone, as
\* far as the exit codes tell.
Broken == [p \in Processes |-> IF Running(p) THEN "gone" ELSE proc[p]]
NetBreaks ==
    /\ "net" \in Faults /\ \E p \in Processes : Running(p)
    /\ proc' = Broken
    /\ UNCHANGED <<mode, expected, read, written, timedOut, outcome, bytes>>

\* The timer kills the local ssh processes.
TimerFires ==
    /\ "slow" \in Faults /\ ~timedOut /\ \E p \in Processes : Running(p)
    /\ timedOut' = TRUE
    /\ proc' = Broken
    /\ UNCHANGED <<mode, expected, read, written, outcome, bytes>>

Process == SrcReads \/ SrcDdEnds \/ ZipEnds \/ DstWrites \/ UnzipEnds \/ DstDdEnds

-----------------------------------------------------------------------------
(* The method.                                                             *)

\* Exit codes: of the ssh to the source (its zstd, or in direct mode the inner
\* ssh and so the destination's dd) and of the ssh to the destination.
DstCodeOk == proc["dstDd"] = "ok"
SrcCodeOk == IF mode = "relay" THEN proc["zip"] = "ok" ELSE DstCodeOk
Exited == SrcCodeOk /\ DstCodeOk /\ ~timedOut

\* parseDdBytes takes the largest figure in the stderr it gets: the
\* destination's in relay mode, both dds' in direct mode.
Count == IF mode = "relay" THEN written ELSE IF read > written THEN read ELSE written

\* A shortfall of less than a block is accepted.  (A dd that ends by itself has
\* printed its figure, so that there is one if the exit codes are good.)
\* Mutant: a whole block may be missing.
BlockMissing == expected > 0 => (Count >= expected \/ expected - Count <= BlockSize)
bytesVerified == expected > 0 => (Count >= expected \/ expected - Count < BlockSize)

Finish ==
    /\ outcome = "none" /\ \A p \in Processes : Ended(p)
    /\ IF Exited /\ bytesVerified
       THEN outcome' = "verified" /\ bytes' = Count
       ELSE outcome' = "failed" /\ UNCHANGED bytes
    /\ UNCHANGED <<mode, expected, read, written, proc, timedOut>>

Next == Process \/ Dies \/ NetBreaks \/ TimerFires \/ Finish

Spec == Init /\ [][Next]_vars

-----------------------------------------------------------------------------
\* Types; a process never writes what was not read.
TypeOK ==
    /\ mode \in Modes /\ expected \in ExpectedSizes
    /\ written \in 0 .. read /\ read \in 0 .. DiskSize
    /\ proc \in [Processes -> {"running", "ok", "failed", "gone"}]
    /\ timedOut \in BOOLEAN
    /\ outcome \in {"none", "verified", "failed"}
    /\ bytes \in 0 .. DiskSize

\* What the method decides from does not show how the source's dd and the
\* destination's zstd ended: neither is the last of its pipeline.
Unseen == {"srcDd", "unzip"}

\* A transfer that is recorded as verified is complete on the destination, unless
\* one of the two processes died whose exit code nobody looks at; and then it is
\* short of the size given by less than a block, whichever process died and
\* whenever (stream, verified).  In direct mode the figure may be the source's:
\* there the death of the destination's zstd may cost any part of the disk.
VerifiedIsComplete ==
    outcome = "verified" =>
        /\ written = DiskSize \/ \E p \in Unseen : proc[p] = "failed"
        /\ \/ expected < written + BlockSize
           \/ expected = 0
           \/ mode = "direct" /\ proc["unzip"] = "failed"

\* A copy that went through is accepted: the method fails only if a process, the
\* network or the clock did, or if a block more was expected than there is.
FailsForAReason ==
    outcome = "failed" =>
        \/ timedOut \/ written < DiskSize \/ expected >= DiskSize + BlockSize
        \/ \E p \in Processes : proc[p] \in {"failed", "gone"}
=============================================================================
