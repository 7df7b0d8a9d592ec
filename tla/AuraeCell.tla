------------------------------ MODULE AuraeCell ------------------------------
(***************************************************************************)
(* The aurae execution driver: one method run in a cell, from allocate to  *)
(* free, with the wall-clock timeout around it.                            *)
(*                                                                         *)
(* The driver talks to auraed through aer subprocesses.  auraed and aer    *)
(* are the environment; what they may do beyond answering or refusing a    *)
(* request is fixed by faults, one of FaultCases:                          *)
(*   "stuck"   auraed stops answering                                      *)
(*   "lost"    aer reports an error for a request that was carried out     *)
(*   "cut"     a log stream ends before the process does                   *)
(*   "throws"  the consumer of a log stream fails                          *)
(***************************************************************************)
CONSTANT FaultCases

ASSUME FaultsAssumption == \A f \in FaultCases : f \subseteq {"stuck", "lost", "cut", "throws"}

Channels == {1, 2}      \* stdout and stderr

VARIABLES
    faults,     \* what may go wrong in this run
    pc,         \* where CellTarget.run is
    allocated,  \* its flags
    started,
    reason,     \* why the run failed, so far
    result,     \* what it returns
    aborted,    \* the wall-clock timer fired
    stream,     \* the observe subprocess of each channel, and how it ended
    warned,     \* a cleanup call failed or timed out, which is only logged
    cell,       \* auraed: does the cell exist
    proc,       \* auraed: the executable in it
    late,       \* cleanup requests whose aer was killed, not carried out yet
    stuck       \* auraed does not answer

driver == <<pc, allocated, started, reason, result, aborted, stream, warned>>
auraed == <<cell, proc, late, stuck>>
vars == <<faults, driver, auraed>>

Init ==
    /\ faults \in FaultCases
    /\ pc = "allocate"
    /\ allocated = FALSE /\ started = FALSE
    /\ reason = "none" /\ result = "none" /\ aborted = FALSE
    /\ stream = [c \in Channels |-> "none"]
    /\ warned = FALSE
    /\ cell = FALSE /\ proc = "none" /\ late = {} /\ stuck = FALSE

Open(c) == stream[c] = "open"

\* The finally block: it stops what was started and frees what was allocated.
CleanupFrom(isStarted, isAllocated) ==
    CASE isStarted                     -> "stop"
      [] ~isStarted /\ isAllocated     -> "free"
      [] ~isStarted /\ ~isAllocated    -> "returned"

\* Mutant: a failed start is taken for nothing to clean up.
LeavesCell == pc' = CleanupFrom(FALSE, FALSE)
CleansUp == pc' = CleanupFrom(started, allocated)

-----------------------------------------------------------------------------
(* allocate and start: no timeout bounds these two calls.                  *)

Allocates ==
    /\ pc = "allocate" /\ ~stuck
    /\ cell' = TRUE /\ allocated' = TRUE /\ pc' = "start"
    /\ UNCHANGED <<started, reason, result, aborted, stream, warned, proc, late, stuck>>

\* Anything on stderr counts as a failure to allocate.
AllocateFails ==
    /\ pc = "allocate" /\ ~stuck
    /\ result' = "failed"
    /\ CleansUp
    /\ \/ UNCHANGED cell
       \/ "lost" \in faults /\ cell' = TRUE
    /\ UNCHANGED <<allocated, started, reason, aborted, stream, warned, proc, late, stuck>>

Starts ==
    /\ pc = "start" /\ ~stuck
    /\ proc' = "running" /\ started' = TRUE /\ pc' = "observe"
    /\ stream' = [c \in Channels |-> "open"]
    /\ UNCHANGED <<allocated, reason, result, aborted, warned, cell, late, stuck>>

\* stderr, or no pid in an answer to a start that went through
StartFails ==
    /\ pc = "start" /\ ~stuck
    /\ result' = "failed"
    /\ CleansUp
    /\ proc' \in {"none", "running"}
    /\ UNCHANGED <<allocated, started, reason, aborted, stream, warned, cell, late, stuck>>

-----------------------------------------------------------------------------
(* observe: both channels until each stream ends.                          *)

Ends(c, how) ==
    /\ stream' = [stream EXCEPT ![c] = how]
    /\ UNCHANGED <<pc, allocated, started, reason, result, aborted, warned, auraed>>

StreamEof(c) == Open(c) /\ proc = "exited" /\ ~stuck /\ Ends(c, "eof")
StreamCut(c) == Open(c) /\ "cut" \in faults /\ Ends(c, "cut")

\* Mutant: the abort does not reach the subprocess.
NotKilled(c) == FALSE
Killed(c) == Open(c) /\ aborted
StreamAborted(c) == Killed(c) /\ Ends(c, "cut")

MarkerSeen ==
    /\ Open(2) /\ pc = "observe" /\ proc # "none"
    /\ reason = "none" /\ reason' = "marker"
    /\ UNCHANGED <<pc, allocated, started, result, aborted, stream, warned, auraed>>

\* Mutant: the abort is not looked at.
OutcomeOfMarker == IF reason = "none" THEN "success" ELSE "failed"
Outcome == IF reason = "none" /\ ~aborted THEN "success" ELSE "failed"

\* Promise.all of the two consumers
Drained == \A c \in Channels : ~Open(c)
Observed ==
    /\ pc = "observe" /\ Drained
    /\ result' = Outcome
    /\ CleansUp
    /\ UNCHANGED <<allocated, started, reason, aborted, stream, warned, auraed>>

\* Promise.all rejects with the first consumer that throws; the other runs on.
ConsumerThrows(c) ==
    /\ "throws" \in faults
    /\ pc = "observe" /\ Open(c)
    /\ stream' = [stream EXCEPT ![c] = "cut"]
    /\ result' = "failed"
    /\ CleansUp
    /\ UNCHANGED <<allocated, started, reason, aborted, warned, auraed>>

-----------------------------------------------------------------------------
(* The finally block: each call bounded by cleanupTimeoutMs.               *)

StopWarns ==
    /\ pc = "stop"
    /\ pc' = "free" /\ warned' = TRUE
    /\ \/ UNCHANGED late
       \/ late' = late \cup {"stop"}
    /\ UNCHANGED <<allocated, started, reason, result, aborted, stream, cell, proc, stuck>>

StopDone == IF proc = "running" THEN proc' = "exited" ELSE UNCHANGED proc

Stops ==
    /\ pc = "stop" /\ ~stuck
    /\ pc' = "free"
    /\ StopDone
    /\ UNCHANGED <<allocated, started, reason, result, aborted, stream, warned,
                   cell, late, stuck>>

\* auraed frees a cell, with whatever runs in it, once nobody observes it.
FreeDone == cell' = FALSE /\ StopDone
Freeable == ~stuck /\ \A c \in Channels : ~Open(c)

Frees ==
    /\ pc = "free" /\ Freeable
    /\ pc' = "returned"
    /\ FreeDone
    /\ UNCHANGED <<allocated, started, reason, result, aborted, stream, warned, late, stuck>>

FreeWarns ==
    /\ pc = "free"
    /\ pc' = "returned" /\ warned' = TRUE
    /\ \/ UNCHANGED late
       \/ late' = late \cup {"free"}
    /\ UNCHANGED <<allocated, started, reason, result, aborted, stream, cell, proc, stuck>>

-----------------------------------------------------------------------------
(* The timer of withTimeout, and auraed.                                   *)

\* On time-out the driver waits for run() all the same.
TimerFires ==
    /\ ~aborted /\ pc # "returned"
    /\ aborted' = TRUE
    /\ UNCHANGED <<pc, allocated, started, reason, result, stream, warned, auraed>>

Exits ==
    /\ proc = "running" /\ proc' = "exited"
    /\ UNCHANGED <<driver, cell, late, stuck>>

GetsStuck ==
    /\ "stuck" \in faults /\ ~stuck
    /\ stuck' = TRUE
    /\ UNCHANGED <<driver, cell, proc, late>>

LateLands(q) ==
    /\ q \in late /\ ~stuck
    /\ late' = late \ {q}
    /\ StopDone
    /\ cell' = (cell /\ q # "free")
    /\ UNCHANGED <<driver, stuck>>

-----------------------------------------------------------------------------
Answers == Allocates \/ AllocateFails \/ Starts \/ StartFails
Observes == Observed \/ \E c \in Channels : StreamEof(c) \/ StreamAborted(c)
Cleanup == Stops \/ StopWarns \/ Frees \/ FreeWarns

Moves ==
    \/ Answers \/ Observes \/ Cleanup \/ MarkerSeen \/ TimerFires
    \/ \E c \in Channels : StreamCut(c) \/ ConsumerThrows(c)
    \/ Exits \/ GetsStuck \/ \E q \in late : LateLands(q)

Next == Moves /\ UNCHANGED faults

Spec == Init /\ [][Next]_vars

-----------------------------------------------------------------------------
TypeOK ==
    /\ pc \in {"allocate", "start", "observe", "stop", "free", "returned"}
    /\ allocated \in BOOLEAN /\ started \in BOOLEAN /\ (started => allocated)
    /\ reason \in {"none", "marker"}
    /\ result \in {"none", "success", "failed"}
    /\ (pc \in {"stop", "free", "returned"} <=> result # "none")
    /\ aborted \in BOOLEAN /\ warned \in BOOLEAN
    /\ stream \in [Channels -> {"none", "open", "eof", "cut"}]
    /\ cell \in BOOLEAN /\ proc \in {"none", "running", "exited"}
    /\ late \subseteq {"stop", "free"} /\ stuck \in BOOLEAN

\* What the driver leaves behind when it returns it has logged, except the cell
\* of an allocation whose answer was lost ("tears the cell down in `finally`").
LeftoverExplained ==
    (pc = "returned" /\ (cell \/ proc = "running")) =>
        warned \/ (~allocated /\ "lost" \in faults)

\* A successful run saw the process end by itself and both of its logs to their
\* end ("which happens when the cell process exits"), unless a log was cut.
SuccessIsComplete ==
    (result = "success" /\ "cut" \notin faults) =>
        proc = "exited" /\ \A c \in Channels : stream[c] = "eof"

\* Once the executable runs, the driver returns, whatever it and auraed do.
ReturnsOnceStarted == started ~> pc = "returned"
=============================================================================
