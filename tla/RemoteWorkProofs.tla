--------------------------- MODULE RemoteWorkProofs --------------------------
(***************************************************************************)
(* Proofs about work on another host, for any set of fault cases.  Of a run*)
(* of the aurae driver: what it leaves behind has been said, and a run that*)
(* succeeds is complete.  Of a disk copy of any size, in blocks of any     *)
(* size: what is verified is complete, or short by less than a block.  Of  *)
(* edits of any guests by any number of scripts: what is applied is on the *)
(* disk, and nothing is left whichever of their commands fail.             *)
(***************************************************************************)
EXTENDS RemoteWork, SequenceTheorems, TLAPS

-----------------------------------------------------------------------------
(* The inductive invariant.                                                *)

\* What has not happened yet, and what must have.
Before ==
    /\ pc = "allocate" => ~cell /\ ~allocated
    /\ pc \in {"allocate", "start"} =>
          ~started /\ proc = "none" /\ \A c \in Channels : stream[c] = "none"
    /\ pc \in {"start", "observe", "stop", "free"} => allocated

\* What a run can leave on the host.
Left ==
    /\ ~allocated => proc = "none" /\ (cell => "lost" \in faults)
    /\ (pc = "returned" /\ allocated /\ ~warned) => ~cell /\ proc # "running"

\* What the ends of the log streams tell.
Streams ==
    /\ \A c \in Channels : stream[c] = "eof" => proc = "exited"
    /\ (pc = "observe" /\ ~aborted /\ "cut" \notin faults) =>
          \A c \in Channels : stream[c] \in {"open", "eof"}
    /\ (result = "success" /\ "cut" \notin faults) => \A c \in Channels : stream[c] = "eof"

Inv == TypeOK /\ Before /\ Left /\ Streams

-----------------------------------------------------------------------------
\* Before the first request nothing has happened.
LEMMA Initially == Init => Inv
BY DEF Init, Inv, TypeOK, Before, Left, Streams

\* The requests without a bound, allocate and start.
LEMMA RequestsKeepInv == Inv /\ Answers /\ UNCHANGED faults => Inv'
<1> SUFFICES ASSUME Inv, Answers, UNCHANGED faults PROVE Inv'
    OBVIOUS
<1> USE DEF Inv
<1>1. CASE Allocates
    BY <1>1 DEF Allocates, TypeOK, Before, Left, Streams
<1>2. CASE AllocateFails
    <2>1. ~started /\ ~allocated
        BY <1>2 DEF AllocateFails, Before
    <2>2. pc' = "returned" /\ result' = "failed"
        BY <1>2, <2>1 DEF AllocateFails, CleansUp, CleanupFrom
    <2>3. cell' \in BOOLEAN /\ (cell' => "lost" \in faults)
        <3>1. cell = FALSE
            BY <1>2 DEF AllocateFails, Before, TypeOK
        <3>2. cell' = cell \/ ("lost" \in faults /\ cell' = TRUE)
            BY <1>2 DEF AllocateFails
        <3> QED BY <3>1, <3>2
    <2>4. UNCHANGED <<allocated, started, reason, aborted, stream, warned, proc, late, stuck>>
        BY <1>2 DEF AllocateFails
    <2> HIDE DEF Inv
    <2>5. TypeOK'
        BY <2>1, <2>2, <2>3, <2>4 DEF Inv, TypeOK
    <2>6. Before' /\ Left'
        BY <2>1, <2>2, <2>3, <2>4, <1>2 DEF Inv, Before, Left, AllocateFails
    <2>7. Streams'
        BY <2>2, <2>4 DEF Inv, Streams
    <2> QED BY <2>5, <2>6, <2>7 DEF Inv
<1>3. CASE Starts
    BY <1>3 DEF Starts, TypeOK, Before, Left, Streams
<1>4. CASE StartFails
    <2>1. pc' = "free" /\ result' = "failed" /\ allocated
        BY <1>4 DEF StartFails, Before, CleansUp, CleanupFrom
    <2>2. ~started /\ proc = "none" /\ proc' \in {"none", "running"}
        BY <1>4 DEF StartFails, Before
    <2>3. UNCHANGED <<allocated, started, reason, aborted, stream, warned, cell, late, stuck>>
        BY <1>4 DEF StartFails
    <2>4. \A c \in Channels : stream[c] = "none"
        BY <1>4 DEF StartFails, Before
    <2> QED BY <2>1, <2>2, <2>3, <2>4 DEF TypeOK, Before, Left, Streams
<1> QED BY <1>1, <1>2, <1>3, <1>4 DEF Answers

\* A stream ends, or its consumer throws.
LEMMA StreamsKeepInv ==
    ASSUME Inv, UNCHANGED faults, NEW c \in Channels,
           StreamEof(c) \/ StreamCut(c) \/ StreamAborted(c) \/ ConsumerThrows(c)
    PROVE  Inv'
<1> USE DEF Inv
<1>1. CASE StreamEof(c) \/ StreamCut(c) \/ StreamAborted(c)
    <2>1. /\ UNCHANGED <<pc, allocated, started, reason, result, aborted, warned, auraed>>
          /\ \E how \in {"eof", "cut"} :
                /\ stream' = [stream EXCEPT ![c] = how]
                /\ how = "eof" => proc = "exited"
                /\ how = "cut" => "cut" \in faults \/ aborted
        BY <1>1 DEF StreamEof, StreamCut, StreamAborted, Killed, Ends
    <2>2. stream[c] = "open"
        BY <1>1 DEF StreamEof, StreamCut, StreamAborted, Killed, Open
    <2> QED BY <2>1, <2>2 DEF TypeOK, Before, Left, Streams, auraed
<1>2. CASE ConsumerThrows(c)
    <2>1. pc' \in {"stop", "free"} /\ (pc' = "stop" <=> started) /\ allocated /\ result' = "failed"
        BY <1>2 DEF ConsumerThrows, CleansUp, CleanupFrom, Before
    <2>2. /\ stream' = [stream EXCEPT ![c] = "cut"]
          /\ UNCHANGED <<allocated, started, reason, aborted, warned, auraed>>
        BY <1>2 DEF ConsumerThrows
    <2> QED BY <2>1, <2>2 DEF TypeOK, Before, Left, Streams, auraed
<1> QED BY <1>1, <1>2

\* Both consumers are through.
LEMMA ObservedKeepsInv == Inv /\ Observed /\ UNCHANGED faults => Inv'
<1> SUFFICES ASSUME Inv, Observed, UNCHANGED faults PROVE Inv'
    OBVIOUS
<1> USE DEF Inv
<1>1. pc = "observe" /\ allocated /\ pc' \in {"stop", "free"}
    BY DEF Observed, CleansUp, CleanupFrom, Before
<1>2. /\ UNCHANGED <<allocated, started, reason, aborted, stream, warned, auraed>>
      /\ result' \in {"success", "failed"} /\ (result' = "success" => ~aborted)
    BY DEF Observed, Outcome
<1>3. \A c \in Channels : stream[c] # "open"
    BY DEF Observed, Drained, Open
<1> QED BY <1>1, <1>2, <1>3 DEF TypeOK, Before, Left, Streams, auraed

\* The finally block.
LEMMA CleanupKeepsInv == Inv /\ Cleanup /\ UNCHANGED faults => Inv'
<1> SUFFICES ASSUME Inv, Cleanup, UNCHANGED faults PROVE Inv'
    OBVIOUS
<1> USE DEF Inv
<1>1. CASE Stops
    BY <1>1 DEF Stops, StopDone, TypeOK, Before, Left, Streams
<1>2. CASE StopWarns
    BY <1>2 DEF StopWarns, TypeOK, Before, Left, Streams
<1>3. CASE Frees
    BY <1>3 DEF Frees, FreeDone, StopDone, TypeOK, Before, Left, Streams
<1>4. CASE FreeWarns
    BY <1>4 DEF FreeWarns, TypeOK, Before, Left, Streams
<1> QED BY <1>1, <1>2, <1>3, <1>4 DEF Cleanup

\* The timer, the marker on stderr, the executable and auraed.
LEMMA OthersKeepInv ==
    ASSUME Inv, UNCHANGED faults,
           MarkerSeen \/ TimerFires \/ Exits \/ GetsStuck \/ \E q \in late : LateLands(q)
    PROVE  Inv'
<1> USE DEF Inv
<1>1. CASE MarkerSeen
    BY <1>1 DEF MarkerSeen, auraed, TypeOK, Before, Left, Streams
<1>2. CASE TimerFires
    BY <1>2 DEF TimerFires, auraed, TypeOK, Before, Left, Streams
<1>3. CASE Exits
    BY <1>3 DEF Exits, driver, TypeOK, Before, Left, Streams
<1>4. CASE GetsStuck
    BY <1>4 DEF GetsStuck, driver, TypeOK, Before, Left, Streams
<1>5. ASSUME NEW q \in late, LateLands(q) PROVE Inv'
    BY <1>5 DEF LateLands, StopDone, driver, TypeOK, Before, Left, Streams
<1> QED BY <1>1, <1>2, <1>3, <1>4, <1>5

LEMMA Stutters == Inv /\ UNCHANGED vars => Inv'
BY DEF Inv, vars, driver, auraed, TypeOK, Before, Left, Streams

\* Every step of a run keeps the invariant.
LEMMA Inductive == Inv /\ [Next]_vars => Inv'
<1> SUFFICES ASSUME Inv, [Next]_vars PROVE Inv'
    OBVIOUS
<1>1. CASE Next
    <2>1. Moves /\ UNCHANGED faults
        BY <1>1 DEF Next
    <2>2. CASE Answers
        BY <2>1, <2>2, RequestsKeepInv
    <2>3. CASE Observed
        BY <2>1, <2>3, ObservedKeepsInv
    <2>4. CASE \E c \in Channels :
                 StreamEof(c) \/ StreamCut(c) \/ StreamAborted(c) \/ ConsumerThrows(c)
        BY <2>1, <2>4, StreamsKeepInv
    <2>5. CASE Cleanup
        BY <2>1, <2>5, CleanupKeepsInv
    <2>6. CASE MarkerSeen \/ TimerFires \/ Exits \/ GetsStuck \/ \E q \in late : LateLands(q)
        BY <2>1, <2>6, OthersKeepInv
    <2> QED BY <2>1, <2>2, <2>3, <2>4, <2>5, <2>6 DEF Moves, Observes
<1>2. CASE UNCHANGED vars
    BY <1>2, Stutters
<1> QED BY <1>1, <1>2

LEMMA Invariant == Spec => []Inv
BY Initially, Inductive, PTL DEF Spec

-----------------------------------------------------------------------------
\* The type invariant: a result is there exactly from the finally block on, and nothing
\* is started in a cell that was not allocated (CellTarget.run).
THEOREM TypeCorrect == Spec => []TypeOK
<1>1. Inv => TypeOK
    BY DEF Inv
<1> QED BY <1>1, Invariant, PTL

\* A cell or an executable the driver leaves behind has been logged, or is that of an
\* allocation whose answer was lost, under every fault (the finally block of run).
THEOREM NothingLeftUnsaid == Spec => []LeftoverExplained
<1>1. Inv => LeftoverExplained
    BY DEF Inv, Left, TypeOK, LeftoverExplained
<1> QED BY <1>1, Invariant, PTL

\* A run is only reported as a success when the executable has ended by itself and both
\* logs were read to their end, unless one was cut (observe, the abort signal).
THEOREM SuccessMeansAll == Spec => []SuccessIsComplete
<1>1. Inv => SuccessIsComplete
    BY DEF Inv, Streams, SuccessIsComplete, Channels
<1> QED BY <1>1, Invariant, PTL


-----------------------------------------------------------------------------
(* The copy of a disk.                                                     *)

\* How a process of the pipe ended tells of those before it.
EndsTell ==
    /\ pipe["srcDd"] = "ok" => read = DiskSize
    /\ pipe["srcDd"] = "gone" => pipe["zip"] # "running"
    /\ pipe["zip"] = "ok" => pipe["srcDd"] \in {"ok", "failed"}
    /\ pipe["unzip"] = "ok" => pipe["zip"] = "ok" /\ read = written
    /\ pipe["dstDd"] = "ok" => pipe["unzip"] \in {"ok", "failed"}
    /\ pipe["unzip"] = "gone" => pipe["dstDd"] # "running"
    /\ outcome # "none" => \A p \in Stream!Processes : pipe[p] # "running"

StreamInv == CopyTrue /\ EndsTell

LEMMA WorkSteps ==
    ASSUME [WorkNext]_workVars
    PROVE  /\ Stream!Next \/ UNCHANGED streamVars
           /\ Edit!Next \/ UNCHANGED editVars
BY DEF WorkNext, workVars

LEMMA StreamStarts == ASSUME WorkInit PROVE StreamInv
<1>1. /\ mode \in StreamModes /\ expected \in ExpectedSizes /\ read = 0 /\ written = 0
      /\ pipe = [p \in Stream!Processes |-> "running"]
      /\ timedOut = FALSE /\ outcome = "none" /\ bytes = 0
    BY DEF WorkInit, Stream!Init
<1>2. DiskSize \in Nat
    BY StreamAssumption DEF Stream!Assumptions
<1>3. CopyTrue
    <2>1. pipe \in [Stream!Processes -> {"running", "ok", "failed", "gone"}]
        BY <1>1
    <2>2. written \in 0 .. read /\ read \in 0 .. DiskSize /\ bytes \in 0 .. DiskSize
        BY <1>1, <1>2
    <2>3. mode \in StreamModes /\ expected \in ExpectedSizes /\ timedOut \in BOOLEAN /\ outcome \in {"none", "verified", "failed"}
        BY <1>1, Zenon
    <2>4. Stream!TypeOK
        BY <2>1, <2>2, <2>3 DEF Stream!TypeOK
    <2> QED BY <1>1, <2>4 DEF CopyTrue, Stream!VerifiedIsComplete, Stream!FailsForAReason
<1>4. EndsTell
    BY <1>1 DEF EndsTell, Stream!Processes
<1> QED BY <1>3, <1>4 DEF StreamInv

\* A process that ends.
LEMMA EndsKeep ==
    ASSUME StreamInv, NEW p \in Stream!Processes, NEW how \in {"ok", "failed"}, Stream!Ends(p, how),
           (p = "srcDd" /\ how = "ok") => read = DiskSize,
           (p = "zip" /\ how = "ok") => pipe["srcDd"] # "running",
           (p = "unzip" /\ how = "ok") => pipe["zip"] = "ok" /\ read = written,
           (p = "dstDd" /\ how = "ok") => pipe["unzip"] # "running"
    PROVE  StreamInv'
<1>1. /\ pipe[p] = "running" /\ pipe' = [pipe EXCEPT ![p] = how]
      /\ UNCHANGED <<mode, expected, read, written, timedOut, outcome, bytes>>
    BY DEF Stream!Ends, Stream!Running
<1>2. outcome = "none"
    BY <1>1 DEF StreamInv, EndsTell
<1>3. DOMAIN pipe = Stream!Processes /\ \A q \in Stream!Processes : pipe[q] \in {"running", "ok", "failed", "gone"}
    BY DEF StreamInv, CopyTrue, Stream!TypeOK
<1>4. \A q \in Stream!Processes : pipe'[q] = IF q = p THEN how ELSE pipe[q]
    BY <1>1, <1>3
<1>5. CopyTrue'
    BY <1>1, <1>2, <1>3 DEF StreamInv, CopyTrue, Stream!TypeOK, Stream!VerifiedIsComplete, Stream!FailsForAReason
<1>6. EndsTell'
    BY <1>1, <1>2, <1>3, <1>4 DEF StreamInv, EndsTell, Stream!Processes
<1> QED BY <1>5, <1>6 DEF StreamInv


LEMMA BreakKeeps ==
    ASSUME StreamInv, pipe' = Stream!Broken, UNCHANGED <<mode, expected, read, written, outcome, bytes>>,
           timedOut' \in BOOLEAN, timedOut => timedOut',
           \E p \in Stream!Processes : Stream!Running(p)
    PROVE  StreamInv'
<1>1. outcome = "none"
    BY DEF StreamInv, EndsTell, Stream!Running
<1>2. \A q \in Stream!Processes :
         /\ pipe'[q] = IF pipe[q] = "running" THEN "gone" ELSE pipe[q]
         /\ pipe[q] \in {"running", "ok", "failed", "gone"}
    BY DEF StreamInv, CopyTrue, Stream!TypeOK, Stream!Broken, Stream!Running
<1>3. pipe' \in [Stream!Processes -> {"running", "ok", "failed", "gone"}]
    BY <1>2 DEF Stream!Broken, Stream!Running
<1>4. CopyTrue'
    BY <1>1, <1>3 DEF StreamInv, CopyTrue, Stream!TypeOK, Stream!VerifiedIsComplete, Stream!FailsForAReason
<1>5. EndsTell'
    BY <1>1, <1>2 DEF StreamInv, EndsTell, Stream!Processes
<1> QED BY <1>4, <1>5 DEF StreamInv

LEMMA FinishKeeps ==
    ASSUME StreamInv, Stream!Finish
    PROVE  StreamInv'
<1> DEFINE Good == Stream!Exited /\ Stream!bytesVerified
<1>1. /\ \A p \in Stream!Processes : pipe[p] \in {"ok", "failed", "gone"}
      /\ UNCHANGED <<mode, expected, read, written, pipe, timedOut>>
    BY DEF Stream!Finish, Stream!Ended
<1>2. /\ Good => outcome' = "verified" /\ bytes' = Stream!Count
      /\ ~Good => outcome' = "failed" /\ bytes' = bytes
    BY DEF Stream!Finish
<1> HIDE DEF Good
<1>3. /\ mode \in StreamModes /\ written \in 0 .. read /\ read \in 0 .. DiskSize /\ bytes \in 0 .. DiskSize
      /\ DiskSize \in Nat \ {0} /\ BlockSize \in Nat \ {0} /\ expected \in Nat /\ StreamModes \subseteq {"direct", "relay"}
    BY StreamAssumption DEF StreamInv, CopyTrue, Stream!TypeOK, Stream!Assumptions
<1>4. Stream!Count \in 0 .. DiskSize /\ Stream!Count >= written
    BY <1>3 DEF Stream!Count
<1>5. EndsTell'
    BY <1>1, <1>2 DEF StreamInv, EndsTell
<1>6. Stream!TypeOK'
    BY <1>1, <1>2, <1>3, <1>4 DEF StreamInv, CopyTrue, Stream!TypeOK
<1>7. CASE Good
    <2>1. pipe["dstDd"] = "ok" /\ pipe["unzip"] \in {"ok", "failed"}
        BY <1>7 DEF Good, Stream!Exited, Stream!DstCodeOk, StreamInv, EndsTell
    <2>2. pipe["unzip"] = "ok" => read = written /\ (pipe["srcDd"] = "failed" \/ written = DiskSize)
        BY DEF StreamInv, EndsTell
    <2>3. written = DiskSize \/ \E p \in Stream!Unseen : pipe[p] = "failed"
        BY <2>1, <2>2 DEF Stream!Unseen
    <2>4. expected > 0 => expected < Stream!Count + BlockSize
        BY <1>3, <1>4, <1>7 DEF Good, Stream!bytesVerified
    <2>5. Stream!Count = written \/ (mode = "direct" /\ pipe["unzip"] = "failed")
        BY <1>3, <2>1, <2>2 DEF Stream!Count
    <2>6. expected < written + BlockSize \/ expected = 0 \/ (mode = "direct" /\ pipe["unzip"] = "failed")
        BY <1>3, <2>4, <2>5
    <2>7. Stream!VerifiedIsComplete' /\ Stream!FailsForAReason'
        BY <1>1, <1>2, <1>7, <2>3, <2>6 DEF Stream!VerifiedIsComplete, Stream!FailsForAReason
    <2> QED BY <1>5, <1>6, <2>7 DEF StreamInv, CopyTrue
<1>8. CASE ~Good
    <2>1. timedOut \/ written < DiskSize \/ expected >= DiskSize + BlockSize \/ \E p \in Stream!Processes : pipe[p] \in {"failed", "gone"}
        <3>1. SUFFICES ASSUME ~timedOut, ~(written < DiskSize), ~(expected >= DiskSize + BlockSize),
                              \A p \in Stream!Processes : pipe[p] \notin {"failed", "gone"}
                       PROVE  FALSE
            OBVIOUS
        <3>2. pipe["dstDd"] = "ok" /\ pipe["zip"] = "ok"
            BY <1>1, <3>1 DEF Stream!Processes
        <3>3. Stream!bytesVerified
            BY <1>3, <1>4, <3>1 DEF Stream!bytesVerified
        <3>4. Stream!Exited
            BY <3>1, <3>2 DEF Stream!Exited, Stream!SrcCodeOk, Stream!DstCodeOk
        <3> QED BY <1>8, <3>3, <3>4 DEF Good
    <2>2. Stream!VerifiedIsComplete' /\ Stream!FailsForAReason'
        BY <1>1, <1>2, <1>8, <2>1 DEF Stream!VerifiedIsComplete, Stream!FailsForAReason
    <2> QED BY <1>5, <1>6, <2>2 DEF StreamInv, CopyTrue
<1> QED BY <1>7, <1>8

LEMMA StreamInductive ==
    ASSUME StreamInv, [WorkNext]_workVars
    PROVE  StreamInv'
<1>1. /\ written \in 0 .. read /\ read \in 0 .. DiskSize /\ DiskSize \in Nat
      /\ \A q \in Stream!Processes : pipe[q] \in {"running", "ok", "failed", "gone"}
    BY StreamAssumption DEF StreamInv, CopyTrue, Stream!TypeOK, Stream!Assumptions
<1>2. CASE Stream!SrcReads
    <2>1. outcome = "none" /\ pipe["srcDd"] = "running" /\ pipe["zip"] = "running" /\ read' = read + 1
          /\ read < DiskSize
          /\ UNCHANGED <<mode, expected, written, pipe, timedOut, outcome, bytes>>
        BY <1>2 DEF Stream!SrcReads, Stream!Running, StreamInv, EndsTell, Stream!Processes
    <2>2. CopyTrue'
        BY <1>1, <2>1 DEF StreamInv, CopyTrue, Stream!TypeOK, Stream!VerifiedIsComplete, Stream!FailsForAReason
    <2>3. EndsTell'
        BY <2>1 DEF StreamInv, EndsTell
    <2> QED BY <2>2, <2>3 DEF StreamInv
<1>3. CASE Stream!DstWrites
    <2>1. /\ outcome = "none" /\ pipe["unzip"] = "running" /\ read - written > 0 /\ written' = written + 1
          /\ UNCHANGED <<mode, expected, read, pipe, timedOut, outcome, bytes>>
        BY <1>3 DEF Stream!DstWrites, Stream!Running, Stream!InPipe, StreamInv, EndsTell, Stream!Processes
    <2>2. CopyTrue'
        BY <1>1, <2>1 DEF StreamInv, CopyTrue, Stream!TypeOK, Stream!VerifiedIsComplete, Stream!FailsForAReason
    <2>3. EndsTell'
        BY <2>1 DEF StreamInv, EndsTell
    <2> QED BY <2>2, <2>3 DEF StreamInv
<1>4. CASE Stream!SrcDdEnds \/ Stream!ZipEnds \/ Stream!UnzipEnds \/ Stream!DstDdEnds \/ Stream!Dies
    <2>1. \E p \in Stream!Processes, how \in {"ok", "failed"} :
             /\ Stream!Ends(p, how)
             /\ (p = "srcDd" /\ how = "ok") => read = DiskSize
             /\ (p = "zip" /\ how = "ok") => pipe["srcDd"] # "running"
             /\ (p = "unzip" /\ how = "ok") => pipe["zip"] = "ok" /\ read = written
             /\ (p = "dstDd" /\ how = "ok") => pipe["unzip"] # "running"
        <3>1. read - written = 0 => read = written
            BY <1>1
        <3>2. CASE Stream!SrcDdEnds
            BY <3>2 DEF Stream!SrcDdEnds, Stream!Processes
        <3>3. CASE Stream!ZipEnds
            BY <3>3 DEF Stream!ZipEnds, Stream!Running, Stream!Processes
        <3>4. CASE Stream!UnzipEnds
            BY <3>1, <3>4 DEF Stream!UnzipEnds, Stream!InPipe, Stream!Processes
        <3>5. CASE Stream!DstDdEnds
            BY <3>5 DEF Stream!DstDdEnds, Stream!Running, Stream!Processes
        <3>6. CASE Stream!Dies
            BY <3>6 DEF Stream!Dies, Stream!Processes
        <3> QED BY <1>4, <3>2, <3>3, <3>4, <3>5, <3>6
    <2> QED BY <2>1, EndsKeep
<1>5. CASE Stream!NetBreaks
    BY <1>5, BreakKeeps DEF Stream!NetBreaks, StreamInv, CopyTrue, Stream!TypeOK
<1>6. CASE Stream!TimerFires
    BY <1>6, BreakKeeps DEF Stream!TimerFires
<1>7. CASE Stream!Finish
    BY <1>7, FinishKeeps
<1>8. CASE UNCHANGED streamVars
    BY <1>8 DEF streamVars, StreamInv, CopyTrue, EndsTell, Stream!TypeOK, Stream!VerifiedIsComplete,
       Stream!FailsForAReason
<1> QED BY <1>2, <1>3, <1>4, <1>5, <1>6, <1>7, <1>8, WorkSteps DEF Stream!Next, Stream!Process

\* A disk of any size, blocks of any size and whatever size the method is given,
\* whichever process of the pipe dies and whenever: a copy it records as verified is
\* complete, unless the source's dd or the destination's zstd died, and then it is short
\* of the size given by less than a block (but for a destination zstd that dies in
\* direct mode); and it fails a copy for a reason only.
THEOREM VerifiedMeansComplete == WorkSpec => []CopyTrue
<1>1. StreamInv => CopyTrue
    BY DEF StreamInv
<1>2. StreamInv /\ [WorkNext]_workVars => StreamInv'
    BY StreamInductive
<1> QED BY <1>1, <1>2, StreamStarts, PTL DEF WorkSpec


-----------------------------------------------------------------------------
(* The edits of guests' disks.                                             *)

\* The commands of a script, and those of them that write.
Working == {"connect", "activate", "mount", "netplan", "cloud", "sync", "umount", "deactivate", "disconnect"}
Writing == {"netplan", "cloud", "sync"}

\* What a step of an edit leaves alone.
Settings == <<editFaults, targetMode, vgOf>>
Places == Edit!Over \cup Edit!Trap \cup {"begin", "connect", "activate", "mount", "netplan", "cloud", "sync"}
Mounted(g) == \E i \in 1 .. Len(mounts) : mounts[i] = g
MountsApart == \A i, j \in 1 .. Len(mounts) : mounts[i] = mounts[j] => i = j

LEMMA TopMounted ==
    ASSUME mounts \in Seq(Guests)
    PROVE  /\ mounts = << >> => Edit!Top = None
           /\ mounts # << >> => /\ Edit!Top = mounts[Len(mounts)] /\ Edit!Top \in Guests
                                /\ Len(mounts) \in 1 .. Len(mounts) /\ Mounted(Edit!Top)
                                /\ Edit!Top # None
<1>1. Len(mounts) \in Nat /\ (mounts # << >> => Len(mounts) > 0)
    BY EmptySeq, LenProperties
<1>2. None \notin Guests
    BY EditAssumption DEF Edit!Assumptions
<1>3. mounts # << >> => Len(mounts) \in 1 .. Len(mounts) /\ mounts[Len(mounts)] \in Guests
    BY <1>1, ElementOfSeq
<1> QED BY <1>2, <1>3 DEF Edit!Top, Mounted

LEMMA Unmounting ==
    ASSUME mounts \in Seq(Guests), mounts # << >>, MountsApart,
           mounts' = SubSeq(mounts, 1, Len(mounts) - 1)
    PROVE  /\ mounts' \in Seq(Guests) /\ MountsApart'
           /\ \A g : Mounted(g) => Mounted(g)' \/ g = Edit!Top
           /\ \A g : mounts = << g >> => mounts' = << >>
<1>1. Len(mounts) \in Nat /\ Len(mounts) > 0
    BY EmptySeq, LenProperties
<1>2. /\ mounts' \in Seq(Guests) /\ Len(mounts') = Len(mounts) - 1
      /\ \A i \in 1 .. Len(mounts) - 1 : mounts'[i] = mounts[i]
    <2>1. PICK n : n = Len(mounts) - 1
        OBVIOUS
    <2>2. n \in Nat /\ \A i \in 1 .. n : mounts[i] \in Guests
        BY <1>1, <2>1, ElementOfSeq
    <2>3. mounts' = SubSeq(mounts, 1, n)
        BY <2>1
    <2>4. /\ mounts' \in Seq(Guests) /\ Len(mounts') = n
          /\ \A i \in 1 .. n : mounts'[i] = mounts[i]
        BY <2>2, <2>3, SubSeqProperties
    <2> QED BY <2>1, <2>4
<1>3. MountsApart'
    BY <1>1, <1>2 DEF MountsApart
<1>4. \A g : Mounted(g) => Mounted(g)' \/ g = Edit!Top
    BY <1>1, <1>2, TopMounted DEF Mounted
<1>5. \A g : mounts = << g >> => mounts' = << >>
    <2> SUFFICES ASSUME NEW g, mounts = << g >> PROVE mounts' = << >>
        OBVIOUS
    <2>1. Len(mounts) = 1
        OBVIOUS
    <2>2. Len(mounts') = 0
        BY <1>2, <2>1
    <2> QED BY <1>2, <2>2, EmptySeq
<1> QED BY <1>2, <1>3, <1>4, <1>5

LEMMA Mounting ==
    ASSUME mounts \in Seq(Guests), MountsApart, NEW g \in Guests, ~Mounted(g), mounts' = Append(mounts, g)
    PROVE  /\ mounts' \in Seq(Guests) /\ MountsApart'
           /\ \A h : Mounted(h) => Mounted(h)'
           /\ mounts' # << >> /\ mounts'[Len(mounts')] = g
           /\ mounts = << >> => mounts' = << g >>
<1>1. Len(mounts) \in Nat
    BY LenProperties
<1>2. /\ mounts' \in Seq(Guests) /\ Len(mounts') = Len(mounts) + 1 /\ mounts'[Len(mounts) + 1] = g
      /\ \A i \in 1 .. Len(mounts) : mounts'[i] = mounts[i]
    BY AppendProperties
<1>3. MountsApart'
    BY <1>1, <1>2 DEF MountsApart, Mounted
<1>4. \A h : Mounted(h) => Mounted(h)'
    BY <1>1, <1>2 DEF Mounted
<1>5. mounts' # << >>
    BY <1>1, <1>2, EmptySeq
<1>6. mounts = << >> => mounts' = << g >>
    OBVIOUS
<1> QED BY <1>2, <1>3, <1>4, <1>5, <1>6

\* The type invariant in the names used here.
LEMMA EditTyped ==
    Edit!TypeOK <=>
        /\ nbd \in Guests \cup {None}
        /\ active \subseteq {vgOf[g] : g \in Guests}
        /\ mounts \in Seq(Guests) /\ MountsApart
        /\ cached \in [Guests -> SUBSET Edit!Files]
        /\ \A g \in Guests : cached[g] # {} => Mounted(g)
        /\ disk \in [Guests -> SUBSET Edit!Files]
        /\ host \subseteq Edit!Files
        /\ scriptPc \in [Scripts -> Places]
        /\ marker \subseteq Scripts
        /\ editResult \in [Scripts -> {"none", "running", "applied", "failed"}]
BY DEF Edit!TypeOK, MountsApart, Mounted, Places


\* A command goes on, or ends the script through the trap.
LEMMA Commands ==
    ASSUME NEW s \in Scripts, Edit!Script(s)
    PROVE  /\ editResult' = editResult
           /\ \/ /\ scriptPc[s] \in {"connect", "activate", "mount"} \cup Writing
                 /\ scriptPc' = [scriptPc EXCEPT ![s] = "umount"]
                 /\ UNCHANGED <<nbd, active, mounts, cached, disk, host, marker>>
              \/ /\ scriptPc[s] = "connect" /\ scriptPc' = [scriptPc EXCEPT ![s] = "activate"]
                 /\ targetMode = "local" \/ nbd = None
                 /\ nbd' = IF targetMode = "nbd" THEN GuestOf[s] ELSE nbd
                 /\ UNCHANGED <<active, mounts, cached, disk, host, marker>>
              \/ /\ scriptPc[s] = "activate" /\ \E there \in {"mount", "umount"} : scriptPc' = [scriptPc EXCEPT ![s] = there]
                 /\ active' = active \cup {Edit!Vg(s)}
                 /\ UNCHANGED <<nbd, mounts, cached, disk, host, marker>>
              \/ /\ scriptPc[s] = "mount" /\ \E there \in {"netplan", "umount"} : scriptPc' = [scriptPc EXCEPT ![s] = there]
                 /\ Edit!Attached(s) /\ ~Mounted(GuestOf[s])
                 /\ mounts' = Append(mounts, GuestOf[s])
                 /\ UNCHANGED <<nbd, active, cached, disk, host, marker>>
              \/ /\ scriptPc[s] = "netplan" /\ \E there \in {"cloud", "umount"} : scriptPc' = [scriptPc EXCEPT ![s] = there]
                 /\ Edit!Puts("netplan")
                 /\ UNCHANGED <<nbd, active, mounts, marker>>
              \/ /\ scriptPc[s] = "cloud" /\ \E there \in {"sync", "umount"} : scriptPc' = [scriptPc EXCEPT ![s] = there]
                 /\ Edit!Puts("cloud")
                 /\ UNCHANGED <<nbd, active, mounts, marker>>
              \/ /\ scriptPc[s] = "sync" /\ scriptPc' = [scriptPc EXCEPT ![s] = "umount"]
                 /\ Edit!Flush(Edit!Flushable) /\ (marker' = marker \cup {s} \/ marker' = marker)
                 /\ UNCHANGED <<nbd, active, mounts, host>>
              \/ /\ scriptPc[s] = "umount" /\ scriptPc' = [scriptPc EXCEPT ![s] = "deactivate"]
                 /\ mounts # << >>
                 /\ mounts' = SubSeq(mounts, 1, Len(mounts) - 1)
                 /\ disk' = [g \in Guests |-> IF g \in Edit!Unmounted THEN disk[g] \cup cached[g] ELSE disk[g]]
                 /\ cached' = [cached EXCEPT ![Edit!Top] = {}]
                 /\ UNCHANGED <<nbd, active, host, marker>>
              \/ /\ scriptPc[s] = "umount" /\ scriptPc' = [scriptPc EXCEPT ![s] = "deactivate"]
                 /\ mounts = << >> \/ "busy" \in editFaults
                 /\ UNCHANGED <<nbd, active, mounts, cached, disk, host, marker>>
              \/ /\ scriptPc[s] = "deactivate" /\ scriptPc' = [scriptPc EXCEPT ![s] = "disconnect"]
                 /\ active' = IF Edit!InUse(Edit!Vg(s)) THEN active ELSE active \ {Edit!Vg(s)}
                 /\ UNCHANGED <<nbd, mounts, cached, disk, host, marker>>
              \/ /\ scriptPc[s] = "disconnect" /\ scriptPc' = [scriptPc EXCEPT ![s] = "done"]
                 /\ nbd' = IF targetMode = "nbd" THEN None ELSE nbd
                 /\ cached' = [g \in Guests |-> IF targetMode = "nbd" THEN {} ELSE cached[g]]
                 /\ UNCHANGED <<active, mounts, disk, host, marker>>
<1> USE DEF Edit!At, Edit!Goto, Edit!FailsAt, Edit!GoesOnOrFails, Edit!tool, Edit!files, Writing
<1>1. CASE Edit!Connect(s)
    BY <1>1 DEF Edit!Connect, Edit!Connectable
<1>2. CASE Edit!Activate(s)
    BY <1>2 DEF Edit!Activate
<1>3. CASE Edit!Mount(s)
    <2>1. Edit!Mountable(s) => Edit!Attached(s) /\ ~Mounted(GuestOf[s])
        BY DEF Edit!Mountable, Mounted, Edit!Vg
    <2> QED BY <1>3, <2>1 DEF Edit!Mount
<1>4. CASE Edit!WriteNetplan(s)
    BY <1>4 DEF Edit!WriteNetplan
<1>5. CASE Edit!WriteCloud(s)
    BY <1>5 DEF Edit!WriteCloud
<1>6. CASE Edit!Sync(s)
    BY <1>6 DEF Edit!Sync, Edit!Synced
<1>7. CASE Edit!Umount(s)
    BY <1>7 DEF Edit!Umount
<1>8. CASE Edit!Deactivate(s)
    BY <1>8 DEF Edit!Deactivate
<1>9. CASE Edit!Disconnect(s)
    BY <1>9 DEF Edit!Disconnect, Edit!Detached
<1> QED BY <1>1, <1>2, <1>3, <1>4, <1>5, <1>6, <1>7, <1>8, <1>9 DEF Edit!Script


\* What the commands may change, whatever command it is.
HostTyped ==
    /\ nbd \in Guests \cup {None}
    /\ active \subseteq {vgOf[g] : g \in Guests}
    /\ mounts \in Seq(Guests) /\ MountsApart
    /\ cached \in [Guests -> SUBSET Edit!Files]
    /\ \A g \in Guests : cached[g] # {} => Mounted(g)
    /\ disk \in [Guests -> SUBSET Edit!Files]
    /\ host \subseteq Edit!Files

LEMMA PutsTyped ==
    ASSUME HostTyped, NEW f \in Edit!Files, Edit!Puts(f), UNCHANGED <<nbd, active, mounts, vgOf>>
    PROVE  HostTyped'
<1>1. CASE Edit!Top = None
    <2>1. host' = host \cup {f} /\ UNCHANGED <<cached, disk>>
        BY <1>1 DEF Edit!Puts
    <2> QED BY <2>1 DEF HostTyped, MountsApart, Mounted
<1>2. CASE Edit!Top # None
    <2>1. PICK t : t = Edit!Top
        OBVIOUS
    <2>2. t \in Guests /\ Mounted(t)
        BY <1>2, <2>1, TopMounted DEF HostTyped
    <2>3. cached' = [cached EXCEPT ![t] = cached[t] \cup {f}] /\ UNCHANGED <<disk, host>>
        BY <1>2, <2>1 DEF Edit!Puts
    <2>4. \A g : Mounted(g)' <=> Mounted(g)
        BY DEF Mounted
    <2> HIDE DEF Mounted
    <2>5. cached' \in [Guests -> SUBSET Edit!Files] /\ \A g \in Guests : g # t => cached'[g] = cached[g]
        BY <2>2, <2>3 DEF HostTyped
    <2>6. \A g \in Guests : cached'[g] # {} => Mounted(g)'
        BY <2>2, <2>4, <2>5 DEF HostTyped
    <2> QED BY <2>3, <2>5, <2>6 DEF HostTyped, MountsApart
<1> QED BY <1>1, <1>2

LEMMA CommandsTyped ==
    ASSUME HostTyped, NEW s \in Scripts, Edit!Script(s), UNCHANGED Settings
    PROVE  HostTyped'
<1>0. GuestOf[s] \in Guests /\ Edit!Vg(s) \in {vgOf[g] : g \in Guests}
    BY EditAssumption DEF Edit!Assumptions, Edit!Vg
<1>1. CASE UNCHANGED <<mounts, cached, disk, host>>
    <2>1. nbd' \in Guests \cup {None} /\ active' \subseteq {vgOf[g] : g \in Guests}
        BY <1>0, <1>1, Commands DEF HostTyped
    <2> QED BY <1>1, <2>1 DEF HostTyped, MountsApart, Mounted, Settings
<1>2. CASE /\ mounts' = Append(mounts, GuestOf[s]) /\ ~Mounted(GuestOf[s])
           /\ UNCHANGED <<nbd, active, cached, disk, host>>
    <2>1. mounts' \in Seq(Guests) /\ MountsApart' /\ \A h : Mounted(h) => Mounted(h)'
        BY <1>0, <1>2, Mounting DEF HostTyped
    <2> QED BY <1>2, <2>1 DEF HostTyped, Settings
<1>3. CASE \E f \in Edit!Files : Edit!Puts(f) /\ UNCHANGED <<nbd, active, mounts>>
    BY <1>3, PutsTyped DEF Settings
<1>4. CASE Edit!Flush(Edit!Flushable) /\ UNCHANGED <<nbd, active, mounts, host>>
    <2>1. disk' \in [Guests -> SUBSET Edit!Files] /\ cached' \in [Guests -> SUBSET Edit!Files]
          /\ \A g \in Guests : cached'[g] \subseteq cached[g]
        BY <1>4 DEF Edit!Flush, HostTyped
    <2>2. \A g \in Guests : cached'[g] # {} => Mounted(g)
        BY <2>1 DEF HostTyped
    <2> QED BY <1>4, <2>1, <2>2 DEF HostTyped, MountsApart, Mounted, Settings
<1>5. CASE /\ mounts # << >> /\ mounts' = SubSeq(mounts, 1, Len(mounts) - 1)
           /\ disk' = [g \in Guests |-> IF g \in Edit!Unmounted THEN disk[g] \cup cached[g] ELSE disk[g]]
           /\ cached' = [cached EXCEPT ![Edit!Top] = {}]
           /\ UNCHANGED <<nbd, active, host>>
    <2>1. PICK t : t = Edit!Top
        OBVIOUS
    <2>2. /\ mounts' \in Seq(Guests) /\ MountsApart' /\ \A g : Mounted(g) => Mounted(g)' \/ g = t
        BY <1>5, <2>1, Unmounting DEF HostTyped
    <2>3. disk' \in [Guests -> SUBSET Edit!Files]
        BY <1>5 DEF HostTyped
    <2>4. cached' = [cached EXCEPT ![t] = {}]
        BY <1>5, <2>1
    <2>5. t \in Guests
        BY <1>5, <2>1, TopMounted DEF HostTyped
    <2>6. cached' \in [Guests -> SUBSET Edit!Files] /\ \A g \in Guests : cached'[g] # {} => g # t /\ cached[g] # {}
        BY <2>4, <2>5 DEF HostTyped
    <2> QED BY <1>5, <2>2, <2>3, <2>6 DEF HostTyped, Settings
<1>6. CASE /\ cached' = [g \in Guests |-> IF targetMode = "nbd" THEN {} ELSE cached[g]]
           /\ nbd' = IF targetMode = "nbd" THEN None ELSE nbd
           /\ UNCHANGED <<active, mounts, disk, host>>
    <2>1. cached' \in [Guests -> SUBSET Edit!Files] /\ \A g \in Guests : cached'[g] # {} => cached[g] # {}
        BY <1>6 DEF HostTyped
    <2> QED BY <1>6, <2>1 DEF HostTyped, MountsApart, Mounted, Settings
<1> QED BY <1>1, <1>2, <1>3, <1>4, <1>5, <1>6, Commands DEF Edit!Files

LEMMA TypedStep ==
    ASSUME Edit!TypeOK, NEW s \in Scripts, Edit!Moves(s), UNCHANGED Settings
    PROVE  Edit!TypeOK'
<1>1. HostTyped'
    <2>1. HostTyped
        BY EditTyped DEF HostTyped
    <2>2. CASE Edit!Script(s)
        BY <2>1, <2>2, CommandsTyped
    <2>3. CASE ~Edit!Script(s)
        <3>1. UNCHANGED <<nbd, active, mounts, cached, disk, host>>
            BY <2>3 DEF Edit!Moves, Edit!Begin, Edit!Killed, Edit!Returns, Edit!TimesOut, Edit!tool, Edit!files
        <3> QED BY <2>1, <3>1 DEF HostTyped, MountsApart, Mounted, Settings
    <2> QED BY <2>2, <2>3
<1>2. scriptPc' \in [Scripts -> Places]
    <2>1. scriptPc \in [Scripts -> Places]
        BY EditTyped
    <2>2. scriptPc' = scriptPc \/ \E there \in Places : scriptPc' = [scriptPc EXCEPT ![s] = there]
        <3>1. CASE Edit!Script(s)
            BY <3>1, Commands DEF Places, Edit!Over, Edit!Trap
        <3>2. CASE Edit!Begin(s) \/ Edit!Killed(s)
            BY <3>2 DEF Edit!Begin, Edit!Killed, Edit!Goto, Places, Edit!Over
        <3>3. CASE Edit!Returns(s) \/ Edit!TimesOut(s)
            BY <3>3 DEF Edit!Returns, Edit!TimesOut
        <3> QED BY <3>1, <3>2, <3>3 DEF Edit!Moves
    <2> HIDE DEF Places
    <2> QED BY <2>1, <2>2
<1>3. marker' \subseteq Scripts /\ editResult' \in [Scripts -> {"none", "running", "applied", "failed"}]
    <2>1. marker \subseteq Scripts /\ editResult \in [Scripts -> {"none", "running", "applied", "failed"}]
        BY EditTyped
    <2>2. CASE Edit!Script(s)
        BY <2>1, <2>2, Commands
    <2>3. CASE Edit!Begin(s)
        BY <2>1, <2>3 DEF Edit!Begin
    <2>4. CASE Edit!Killed(s)
        BY <2>1, <2>4 DEF Edit!Killed
    <2>5. CASE Edit!Returns(s)
        BY <2>1, <2>5 DEF Edit!Returns
    <2>6. CASE Edit!TimesOut(s)
        BY <2>1, <2>6 DEF Edit!TimesOut
    <2> QED BY <2>2, <2>3, <2>4, <2>5, <2>6 DEF Edit!Moves
<1> QED BY <1>1, <1>2, <1>3 DEF Edit!TypeOK, HostTyped, MountsApart, Mounted, Places


-----------------------------------------------------------------------------
(* One script at a time.                                                   *)

\* While a method runs no other does, and no script is at work for any other.
OneRuns ==
    /\ \A s \in Scripts : scriptPc[s] \in Working => editResult[s] = "running"
    /\ \A s, t \in Scripts : editResult[s] = "running" /\ editResult[t] = "running" => s = t

\* Its guest's file system is on top while it writes, and what it wrote is in it.
Written(g) == disk[g] \cup cached[g]
WritesToGuest ==
    \A s \in Scripts :
        /\ scriptPc[s] \in Writing => mounts # << >> /\ mounts[Len(mounts)] = GuestOf[s] /\ Edit!Attached(s)
        /\ scriptPc[s] = "cloud" => "netplan" \in Written(GuestOf[s])
        /\ scriptPc[s] = "sync" => Written(GuestOf[s]) = Edit!Files
MarkedIsSynced == \A s \in marker : disk[GuestOf[s]] = Edit!Files

Ordered == OneRuns /\ WritesToGuest /\ MarkedIsSynced /\ host = {}

\* With no faults at all: what is mounted, active or connected is the running script's.
Clean ==
    /\ targetMode = "nbd" \/ (targetMode = "local" /\ nbd = None)
    /\ \A s \in Scripts : scriptPc[s] # "killed"
    /\ mounts = << >> \/ \E s \in Scripts : scriptPc[s] \in Writing \cup {"umount"} /\ mounts = << GuestOf[s] >>
    /\ \/ active = {}
       \/ \E s \in Scripts : /\ scriptPc[s] \in Writing \cup {"mount", "umount", "deactivate"}
                             /\ active = {Edit!Vg(s)}
    /\ nbd = None \/ \E s \in Scripts : scriptPc[s] \in Working \ {"connect"}

EditInv ==
    /\ Edit!TypeOK
    /\ \A s \in Scripts : editResult[s] = "applied" => s \in marker
    /\ Edit!OneAtATime => Ordered
    /\ editFaults = {} => Clean

LEMMA EditStarts == ASSUME WorkInit PROVE EditInv
<1>1. Edit!Init
    BY DEF WorkInit
<1>2. Edit!TypeOK
    BY <1>1, EditTyped DEF Edit!Init, MountsApart, Mounted, Places, Edit!Over
<1>3. Ordered /\ Clean
    BY <1>1, EditAssumption DEF Edit!Assumptions, Edit!Init, Ordered, OneRuns, WritesToGuest, MarkedIsSynced, Clean, Working, Writing
<1> QED BY <1>1, <1>2, <1>3 DEF EditInv, Edit!Init

LEMMA PcStep ==
    ASSUME Edit!TypeOK, NEW s \in Scripts, NEW there, scriptPc' = [scriptPc EXCEPT ![s] = there]
    PROVE  scriptPc'[s] = there /\ \A t \in Scripts : t # s => scriptPc'[t] = scriptPc[t]
BY EditTyped

\* A script that begins, is killed or has its result returned.
LEMMA OtherSteps ==
    ASSUME EditInv, NEW s \in Scripts, Edit!Begin(s) \/ Edit!Killed(s) \/ Edit!Returns(s) \/ Edit!TimesOut(s),
           UNCHANGED Settings
    PROVE  /\ \A t \in Scripts : editResult'[t] = "applied" => t \in marker'
           /\ Edit!OneAtATime => Ordered'
           /\ editFaults = {} => Clean'
<1>1. UNCHANGED <<nbd, active, mounts, cached, disk, host, marker>>
    BY DEF Edit!Begin, Edit!Killed, Edit!Returns, Edit!TimesOut, Edit!tool, Edit!files
<1>2. DOMAIN scriptPc = Scripts /\ DOMAIN editResult = Scripts
    BY EditTyped DEF EditInv
<1>3. CASE Edit!Begin(s)
    <2>1. /\ scriptPc[s] = "begin" /\ scriptPc' = [scriptPc EXCEPT ![s] = "connect"]
          /\ editResult' = [editResult EXCEPT ![s] = "running"]
          /\ Edit!OneAtATime => \A t \in Scripts : editResult[t] # "running"
        BY <1>3 DEF Edit!Begin, Edit!At, Edit!Goto, Edit!OneAtATime
    <2>2. \A t \in Scripts : editResult'[t] = "applied" => t \in marker'
        BY <1>1, <1>2, <2>1 DEF EditInv
    <2>3. Edit!OneAtATime => Ordered'
        <3> SUFFICES ASSUME Edit!OneAtATime PROVE Ordered'
            OBVIOUS
        <3>1. OneRuns'
            BY <1>2, <2>1 DEF EditInv, Ordered, OneRuns
        <3>2. WritesToGuest'
            BY <1>1, <1>2, <2>1 DEF EditInv, Ordered, WritesToGuest, Writing, Written, Edit!Attached, Settings
        <3> QED BY <1>1, <3>1, <3>2 DEF EditInv, Ordered, MarkedIsSynced
    <2>4. editFaults = {} => Clean'
        BY <1>1, <1>2, <2>1 DEF EditInv, Clean, Writing, Working, Settings, Edit!Vg
    <2> QED BY <2>2, <2>3, <2>4
<1>4. CASE Edit!Killed(s)
    <2>1. scriptPc' = [scriptPc EXCEPT ![s] = "killed"] /\ editResult' = editResult /\ "kill" \in editFaults
        BY <1>4 DEF Edit!Killed, Edit!Goto
    <2>2. Edit!OneAtATime => Ordered'
        BY <1>1, <1>2, <2>1 DEF EditInv, Ordered, OneRuns, WritesToGuest, Working, Writing, Written, Edit!Attached, Settings,
           MarkedIsSynced
    <2> QED BY <1>1, <2>1, <2>2 DEF EditInv
<1>5. CASE Edit!Returns(s)
    <2>1. /\ editResult[s] = "running" /\ scriptPc[s] \in {"done", "killed"} /\ scriptPc' = scriptPc
          /\ editResult' = [editResult EXCEPT ![s] = IF Edit!MarkerSeen(s) THEN "applied" ELSE "failed"]
        BY <1>5 DEF Edit!Returns, Edit!Over
    <2>2. \A t \in Scripts : editResult'[t] = "applied" => t \in marker'
        BY <1>1, <1>2, <2>1 DEF EditInv, Edit!MarkerSeen
    <2>3. OneRuns => OneRuns'
        BY <1>2, <2>1 DEF OneRuns, Working
    <2>4. Edit!OneAtATime => Ordered'
        BY <1>1, <2>1, <2>3 DEF EditInv, Ordered, WritesToGuest, Written, Edit!Attached, Settings, MarkedIsSynced
    <2>5. editFaults = {} => Clean'
        BY <1>1, <2>1 DEF EditInv, Clean, Settings, Edit!Vg
    <2> QED BY <2>2, <2>4, <2>5
<1>6. CASE Edit!TimesOut(s)
    <2>1. "timeout" \in editFaults /\ editResult' = [editResult EXCEPT ![s] = "failed"]
        BY <1>6 DEF Edit!TimesOut
    <2> QED BY <1>1, <1>2, <2>1 DEF EditInv, Edit!OneAtATime
<1> QED BY <1>3, <1>4, <1>5, <1>6


\* Nobody else is at work while a script is.
LEMMA NobodyElse ==
    ASSUME OneRuns, NEW s \in Scripts, NEW t \in Scripts, scriptPc[s] \in Working, scriptPc[t] \in Working
    PROVE  s = t
BY DEF OneRuns

LEMMA ScriptPcs ==
    ASSUME Edit!TypeOK, NEW s \in Scripts, Edit!Script(s)
    PROVE  /\ scriptPc[s] \in Working
           /\ scriptPc'[s] \in Working \cup {"done"}
           /\ \A t \in Scripts : t # s => scriptPc'[t] = scriptPc[t]
<1>1. scriptPc[s] \in Working /\ \E there \in Working \cup {"done"} : scriptPc' = [scriptPc EXCEPT ![s] = there]
    BY Commands DEF Working, Writing
<1> QED BY <1>1, PcStep

\* Each of the writing commands has only one before it.
LEMMA WhatBefore ==
    ASSUME Edit!TypeOK, NEW s \in Scripts, Edit!Script(s)
    PROVE  /\ scriptPc'[s] = "netplan" => scriptPc[s] = "mount"
           /\ scriptPc'[s] = "cloud" => scriptPc[s] = "netplan" /\ Edit!Puts("netplan")
           /\ scriptPc'[s] = "sync" => scriptPc[s] = "cloud" /\ Edit!Puts("cloud")
<1>1. \A there : scriptPc' = [scriptPc EXCEPT ![s] = there] => scriptPc'[s] = there
    BY EditTyped
<1> QED BY <1>1, Commands

\* A file is written on the guest whose file system is on top.
LEMMA PutsToGuest ==
    ASSUME Edit!TypeOK, Ordered, NEW s \in Scripts, scriptPc[s] \in Writing, NEW f, Edit!Puts(f)
    PROVE  /\ Written(GuestOf[s])' = Written(GuestOf[s]) \cup {f}
           /\ UNCHANGED <<disk, host>>
<1>1. PICK g : g = GuestOf[s]
    OBVIOUS
<1>2. g \in Guests /\ Edit!Top = g /\ Edit!Top # None
    BY <1>1, EditTyped, TopMounted DEF Ordered, WritesToGuest
<1>3. cached' = [cached EXCEPT ![g] = cached[g] \cup {f}] /\ UNCHANGED <<disk, host>>
    BY <1>2 DEF Edit!Puts
<1>4. cached'[g] = cached[g] \cup {f}
    BY <1>2, <1>3, EditTyped
<1> QED BY <1>1, <1>3, <1>4 DEF Written

\* Nothing that is on a disk goes away.
LEMMA DisksGrow ==
    ASSUME Edit!TypeOK, Ordered, NEW s \in Scripts, Edit!Script(s)
    PROVE  \A g \in Guests : disk[g] \subseteq disk'[g]
<1>1. CASE UNCHANGED disk
    BY <1>1
<1>2. CASE \E f : Edit!Puts(f) /\ scriptPc[s] \in Writing
    BY <1>2, PutsToGuest
<1>3. CASE Edit!Flush(Edit!Flushable)
    BY <1>3 DEF Edit!Flush
<1>4. CASE disk' = [g \in Guests |-> IF g \in Edit!Unmounted THEN disk[g] \cup cached[g] ELSE disk[g]]
    BY <1>4
<1> QED BY <1>1, <1>2, <1>3, <1>4, Commands DEF Writing

LEMMA OrderedStep ==
    ASSUME Edit!TypeOK, Edit!TypeOK', Ordered, NEW s \in Scripts, Edit!Script(s), UNCHANGED Settings
    PROVE  Ordered'
<1>1. PICK g : g = GuestOf[s]
    OBVIOUS
<1>2. /\ scriptPc[s] \in Working /\ scriptPc'[s] \in Working \cup {"done"} /\ editResult' = editResult
      /\ \A t \in Scripts : t # s => scriptPc'[t] = scriptPc[t] /\ scriptPc[t] \notin Working
    BY ScriptPcs, Commands, NobodyElse DEF Ordered
<1>3. OneRuns'
    BY <1>2 DEF Ordered, OneRuns, Working
<1>4. g \in Guests /\ mounts \in Seq(Guests)
    BY <1>1, EditAssumption, EditTyped DEF Edit!Assumptions
<1>5. \A t \in Scripts : scriptPc'[t] \in Writing => t = s
    BY <1>2 DEF Working, Writing
<1>6. scriptPc[s] \in Writing => /\ mounts # << >> /\ mounts[Len(mounts)] = g /\ Edit!Attached(s)
                                 /\ Edit!Top = g /\ Mounted(g)
    BY <1>1, <1>4, TopMounted DEF Ordered, WritesToGuest
<1>7. disk[g] \subseteq Edit!Files /\ cached[g] \subseteq Edit!Files
    BY <1>4, EditTyped
<1>8. scriptPc'[s] \in Writing => mounts' # << >> /\ mounts'[Len(mounts')] = g /\ Edit!Attached(s)'
    <2>1. CASE scriptPc[s] = "mount" /\ scriptPc'[s] = "netplan"
        <3>1. Edit!Attached(s) /\ ~Mounted(g) /\ mounts' = Append(mounts, g) /\ UNCHANGED nbd
            BY <1>1, <2>1, Commands, PcStep
        <3>2. mounts' # << >> /\ mounts'[Len(mounts')] = g
            BY <1>4, <3>1, Mounting, EditTyped
        <3> QED BY <3>1, <3>2 DEF Edit!Attached, Settings
    <2>2. CASE scriptPc[s] \in {"netplan", "cloud"} /\ scriptPc'[s] \in Writing
        <3>1. UNCHANGED <<mounts, nbd>>
            BY <2>2, Commands
        <3> QED BY <1>6, <2>2, <3>1 DEF Edit!Attached, Settings, Writing
    <2>3. scriptPc'[s] \in Writing => /\ scriptPc[s] \in {"mount", "netplan", "cloud"}
                                      /\ scriptPc[s] = "mount" => scriptPc'[s] = "netplan"
        BY WhatBefore DEF Writing
    <2> QED BY <2>1, <2>2, <2>3
<1>9. scriptPc'[s] = "cloud" => "netplan" \in Written(g)'
    <2> SUFFICES ASSUME scriptPc'[s] = "cloud" PROVE "netplan" \in Written(g)'
        OBVIOUS
    <2>1. scriptPc[s] = "netplan" /\ Edit!Puts("netplan")
        BY WhatBefore
    <2>2. Written(GuestOf[s])' = Written(GuestOf[s]) \cup {"netplan"}
        BY <2>1, PutsToGuest DEF Writing
    <2> QED BY <1>1, <2>2 DEF Written
<1>10. scriptPc'[s] = "sync" => Written(g)' = Edit!Files
    <2> SUFFICES ASSUME scriptPc'[s] = "sync" PROVE Written(g)' = Edit!Files
        OBVIOUS
    <2>1. scriptPc[s] = "cloud" /\ Edit!Puts("cloud")
        BY WhatBefore
    <2>2. Written(GuestOf[s])' = Written(GuestOf[s]) \cup {"cloud"}
        BY <2>1, PutsToGuest DEF Writing
    <2>3. "netplan" \in Written(g)
        BY <1>1, <2>1 DEF Ordered, WritesToGuest
    <2> QED BY <1>1, <1>7, <2>2, <2>3 DEF Written, Edit!Files
<1>11. WritesToGuest'
    BY <1>1, <1>5, <1>8, <1>9, <1>10 DEF WritesToGuest, Writing
<1>12. MarkedIsSynced'
    <2>1. ASSUME NEW t \in marker' PROVE disk'[GuestOf[t]] = Edit!Files
        <3>1. t \in Scripts /\ GuestOf[t] \in Guests /\ disk'[GuestOf[t]] \subseteq Edit!Files
            BY EditAssumption DEF Edit!Assumptions, Edit!TypeOK
        <3>2. CASE t \in marker
            <4>1. disk[GuestOf[t]] = Edit!Files /\ disk[GuestOf[t]] \subseteq disk'[GuestOf[t]]
                BY <3>1, <3>2, DisksGrow DEF Ordered, MarkedIsSynced
            <4> QED BY <3>1, <4>1
        <3>3. CASE t \notin marker
            <4>1. t = s /\ scriptPc[s] = "sync" /\ Edit!Flush(Edit!Flushable)
                BY <3>3, Commands
            <4>2. g \in Edit!Flushable
                BY <1>1, <1>4, <1>6, <4>1 DEF Writing, Edit!Flushable, Edit!Reaches, Edit!Attached, Mounted
            <4>3. disk'[g] = disk[g] \cup cached[g]
                BY <1>4, <4>1, <4>2 DEF Edit!Flush
            <4>4. disk[g] \cup cached[g] = Edit!Files
                BY <1>1, <4>1 DEF Ordered, WritesToGuest, Written
            <4> QED BY <1>1, <4>1, <4>3, <4>4
        <3> QED BY <3>2, <3>3
    <2> QED BY <2>1 DEF MarkedIsSynced
<1>13. host' = {}
    <2>1. CASE UNCHANGED host
        BY <2>1 DEF Ordered
    <2>2. CASE scriptPc[s] \in {"netplan", "cloud"} /\ \E f : Edit!Puts(f)
        BY <2>2, PutsToGuest DEF Ordered, Writing
    <2> QED BY <2>1, <2>2, Commands
<1> QED BY <1>3, <1>11, <1>12, <1>13 DEF Ordered


LEMMA CleanStep ==
    ASSUME Edit!TypeOK, OneRuns, Clean, editFaults = {}, NEW s \in Scripts, Edit!Script(s), UNCHANGED Settings
    PROVE  Clean'
<1>1. PICK g, v : g = GuestOf[s] /\ v = Edit!Vg(s)
    OBVIOUS
<1>2. PICK p, q : p = scriptPc[s] /\ q = scriptPc'[s]
    OBVIOUS
<1>3. /\ p \in Working /\ q \in Working \cup {"done"}
      /\ \A t \in Scripts : t # s => scriptPc'[t] = scriptPc[t] /\ scriptPc[t] \notin Working
    BY <1>2, ScriptPcs, NobodyElse
<1>4. /\ mounts = << >> \/ (p \in Writing \cup {"umount"} /\ mounts = << g >>)
      /\ active = {} \/ (p \in Writing \cup {"mount", "umount", "deactivate"} /\ active = {v})
      /\ nbd = None \/ p # "connect"
    BY <1>1, <1>2, <1>3 DEF Clean, Working, Writing
<1>5. \A there : scriptPc' = [scriptPc EXCEPT ![s] = there] => q = there
    BY <1>2, EditTyped
<1>6. \A t \in Scripts : scriptPc'[t] # "killed"
    BY <1>2, <1>3 DEF Clean, Working
<1>7. mounts' = << >> \/ (q \in Writing \cup {"umount"} /\ mounts' = << g >>)
    <2>1. CASE UNCHANGED mounts
        <3>1. mounts # << >> => q \in Writing \cup {"umount"}
            BY <1>2, <1>4, <1>5, <2>1, Commands, Unmounting, EditTyped DEF Writing
        <3> QED BY <1>4, <2>1, <3>1
    <2>2. CASE p = "mount" /\ q \in {"netplan", "umount"} /\ mounts' = Append(mounts, g)
        <3>1. mounts = << >>
            BY <1>4, <2>2 DEF Writing
        <3> QED BY <2>2, <3>1 DEF Writing
    <2>3. CASE mounts # << >> /\ mounts' = SubSeq(mounts, 1, Len(mounts) - 1)
        BY <1>4, <2>3, Unmounting, EditTyped
    <2> QED BY <1>1, <1>2, <1>5, <2>1, <2>2, <2>3, Commands
<1>8. active' = {} \/ (q \in Writing \cup {"mount", "umount", "deactivate"} /\ active' = {v})
    <2>1. CASE UNCHANGED active /\ p \notin {"activate", "deactivate"}
        <3>1. p \in Writing \cup {"mount", "umount"} => q \in Writing \cup {"umount", "deactivate"}
            BY <1>2, <1>5, Commands DEF Writing
        <3> QED BY <1>4, <2>1, <3>1
    <2>2. CASE p = "activate"
        <3>1. active = {}
            BY <1>4, <2>2 DEF Writing
        <3>2. UNCHANGED active \/ (q \in {"mount", "umount"} /\ active' = active \cup {v})
            BY <1>1, <1>2, <1>5, <2>2, Commands
        <3> QED BY <3>1, <3>2
    <2>3. CASE p = "deactivate"
        <3>1. active' = IF Edit!InUse(v) THEN active ELSE active \ {v}
            BY <1>1, <1>2, <2>3, Commands DEF Writing
        <3>2. mounts = << >>
            BY <1>4, <2>3 DEF Writing
        <3>3. ~Edit!InUse(v)
            BY <3>2 DEF Edit!InUse
        <3> QED BY <1>4, <3>1, <3>3
    <2>4. p \notin {"activate", "deactivate"} => UNCHANGED active
        BY <1>2, Commands
    <2> QED BY <2>1, <2>2, <2>3, <2>4
<1>9. /\ targetMode = "nbd" \/ (targetMode = "local" /\ nbd' = None)
      /\ nbd' = None \/ q \in Working \ {"connect"}
    <2>1. CASE p = "connect"
        <3>1. q \in {"umount", "activate"}
            BY <1>2, <1>5, <2>1, Commands
        <3>2. targetMode # "nbd" => nbd' = nbd
            BY <1>2, <2>1, Commands
        <3> QED BY <3>1, <3>2 DEF Clean, Working
    <2>2. CASE p = "disconnect"
        <3>1. nbd' = IF targetMode = "nbd" THEN None ELSE nbd
            BY <1>2, <2>2, Commands DEF Writing
        <3> QED BY <3>1 DEF Clean
    <2>3. CASE p \notin {"connect", "disconnect"}
        <3>1. q \in Working \ {"connect"} /\ UNCHANGED nbd
            BY <1>2, <1>5, <2>3, Commands DEF Working
        <3> QED BY <3>1 DEF Clean
    <2> QED BY <2>1, <2>2, <2>3
<1> QED BY <1>1, <1>2, <1>6, <1>7, <1>8, <1>9 DEF Clean, Settings, Edit!Vg

LEMMA EditInductive == ASSUME EditInv, [WorkNext]_workVars PROVE EditInv'
<1>1. CASE UNCHANGED editVars
    <2>1. Edit!TypeOK'
        BY <1>1 DEF editVars, EditInv, Edit!TypeOK
    <2> QED BY <1>1, <2>1 DEF editVars, EditInv, Edit!OneAtATime, Ordered, OneRuns, WritesToGuest, Written,
               MarkedIsSynced, Edit!Attached, Clean, Edit!Vg
<1>2. ASSUME NEW s \in Scripts, Edit!Moves(s), UNCHANGED Settings
      PROVE  EditInv'
    <2>1. Edit!TypeOK'
        BY <1>2, TypedStep DEF EditInv
    <2>2. Edit!OneAtATime' = Edit!OneAtATime /\ editFaults' = editFaults
        BY <1>2 DEF Settings, Edit!OneAtATime
    <2>3. CASE Edit!Script(s)
        <3>1. \A t \in Scripts : editResult'[t] = "applied" => t \in marker'
            BY <2>3, Commands DEF EditInv
        <3>2. Edit!OneAtATime => Ordered'
            BY <1>2, <2>1, <2>3, OrderedStep DEF EditInv
        <3>3. editFaults = {} => Clean'
            BY <1>2, <2>3, CleanStep DEF EditInv, Edit!OneAtATime, Ordered
        <3> QED BY <2>1, <2>2, <3>1, <3>2, <3>3 DEF EditInv
    <2>4. CASE Edit!Begin(s) \/ Edit!Killed(s) \/ Edit!Returns(s) \/ Edit!TimesOut(s)
        BY <1>2, <2>1, <2>2, <2>4, OtherSteps DEF EditInv
    <2> QED BY <1>2, <2>3, <2>4 DEF Edit!Moves
<1> QED BY <1>1, <1>2, WorkSteps DEF Edit!Next, Settings

\* Any guests, any number of edits, volume groups of any names: an edit recorded as
\* applied has both files on its guest's disk and the tool host's own files are left
\* alone, unless edits overlap or time out; and edits, whichever of their commands fail
\* and however far each had got, leave no device connected, nothing active and nothing
\* mounted, if the trap runs and can unmount.
THEOREM AppliedMeansEdited == WorkSpec => []EditsTrue
<1>1. EditInv => EditsTrue
    <2>1. EditInv => Edit!TypeOK /\ Edit!OkMeansEdited /\ Edit!HostUntouched
        BY DEF EditInv, Ordered, MarkedIsSynced, Edit!OkMeansEdited, Edit!HostUntouched
    <2>2. EditInv => Edit!NothingLeftActive
        BY DEF EditInv, Clean, Edit!NothingLeftActive, Edit!Idle, Edit!Over, Working, Writing
    <2> QED BY <2>1, <2>2 DEF EditsTrue
<1> QED BY <1>1, EditStarts, EditInductive, PTL DEF WorkSpec
=============================================================================
