----------------------------- MODULE RemoteCall -----------------------------
(***************************************************************************)
(* What a caller may conclude from a TrueNAS call: an answer means the     *)
(* call was carried out, an error that it was not and never will be, and   *)
(* a call given up on may have been carried out, may still be, or never.   *)
(***************************************************************************)
CONSTANT Calls

VARIABLES
    view,   \* per call, what its caller knows
    done    \* the calls carried out

Init == view = [n \in Calls |-> "none"] /\ done = {}

Learns(n, v) == view' = [view EXCEPT ![n] = v] /\ UNCHANGED done

Asks(n) == view[n] = "none" /\ Learns(n, "waiting")

\* A call on a connection known to be closed is never sent.
NotSent(n) == view[n] = "none" /\ Learns(n, "unknown")

Happens(n) ==
    /\ view[n] \in {"waiting", "unknown"} /\ n \notin done
    /\ done' = done \cup {n}
    /\ UNCHANGED view

Answered(n) == view[n] = "waiting" /\ n \in done /\ Learns(n, "ok")
Refused(n)  == view[n] = "waiting" /\ n \notin done /\ Learns(n, "error")
GivenUp(n)  == view[n] = "waiting" /\ Learns(n, "unknown")

Next == \E n \in Calls :
    Asks(n) \/ NotSent(n) \/ Happens(n) \/ Answered(n) \/ Refused(n) \/ GivenUp(n)

Spec == Init /\ [][Next]_<<view, done>>
=============================================================================
