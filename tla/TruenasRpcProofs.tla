-------------------------- MODULE TruenasRpcProofs --------------------------
(***************************************************************************)
(* Proofs about TruenasRpc, for any number of calls: a caller only gets    *)
(* the answer to its own call, no caller is left waiting on a closed       *)
(* socket, and the session implements RemoteCall.                          *)
(***************************************************************************)
EXTENDS TruenasRpc, TLAPS

Frames == requests \cup replies

\* A frame carries an id that was given out; whoever waits for it made the call.
FramesFit ==
    \A f \in Frames : /\ f.id \in 1 .. nextId - 1
                      /\ f.of <= current
                      /\ f.id \in DOMAIN pending => pending[f.id] = f.of

\* Who waits can still be told, until the socket closes and nobody waits.
Registered == \A n \in Calls : Waiting(n) => \E i \in DOMAIN pending : pending[i] = n
ClosedEmpty == ws = "closed" => DOMAIN pending = {}

\* The caller waits for one call at a time, the last one it issued.
InTurn ==
    /\ stage = "connecting" => current = 0
    /\ stage = "login" => current = 1
    /\ stage = "calling" => current \in Calls
    /\ \A n \in Calls : Waiting(n) => n = current /\ stage \in {"login", "calling"}
    /\ \A n \in Calls : n > current => outcome[n] = "none"

\* A request is the only frame of its call, and was not carried out.
RequestsOpen ==
    \A q \in requests :
       /\ q.of \notin executed
       /\ outcome[q.of] \in {"waiting", "closed", "timeout"}
       /\ \A p \in requests : p.of = q.of => p = q
       /\ \A r \in replies : r.of # q.of

\* A reply says whether its call was carried out; only issued calls were.
RepliesTrue ==
    /\ \A r \in replies : r.kind = "ok" <=> r.of \in executed
    /\ \A n \in executed : n <= current

IndInv ==
    /\ TypeOK /\ OwnAnswer
    /\ FramesFit /\ Registered /\ ClosedEmpty
    /\ InTurn /\ RequestsOpen /\ RepliesTrue

-----------------------------------------------------------------------------
\* The invariant holds before anything happened.
LEMMA InitIndInv == Init => IndInv
  <1> SUFFICES ASSUME Init PROVE IndInv
    OBVIOUS
  <1> USE MaxCallsAssumption DEF Init
  <1>1. DOMAIN pending = {} /\ pending \in [DOMAIN pending -> Calls]
    OBVIOUS
  <1>2. /\ outcome \in [Calls -> {"none", "waiting", "ok", "denied", "error", "closed", "timeout"}]
        /\ answer \in [Calls -> 0..MaxCalls]
    BY DEF Calls
  <1>3. TypeOK
    <2>1. DOMAIN pending \subseteq 1 .. nextId - 1 /\ nextId \in Nat \ {0} /\ current \in 0..MaxCalls
      BY <1>1
    <2>2. QED
      BY <1>1, <1>2, <2>1 DEF TypeOK, Calls
  <1>4. QED
    BY <1>1, <1>2, <1>3 DEF IndInv, OwnAnswer, FramesFit, Frames, Registered, ClosedEmpty,
                            InTurn, RequestsOpen, RepliesTrue, Waiting

-----------------------------------------------------------------------------
(* The operations that several actions share.                              *)

\* What a call puts on record, when the socket is not closed.
LEMMA Registers ==
  ASSUME TypeOK, NEW n \in Calls, Issue(n), ws # "closed"
  PROVE  /\ DOMAIN pending' = DOMAIN pending \cup {nextId}
         /\ nextId \notin DOMAIN pending
         /\ pending'[nextId] = n
         /\ \A i \in DOMAIN pending : pending'[i] = pending[i]
         /\ pending' \in [DOMAIN pending' -> Calls]
  BY DEF TypeOK, Issue, FreshId, Calls

\* Issuing the next call keeps the invariant, whatever stage it leads to.
LEMMA IssueIndInv ==
  ASSUME IndInv, NEW n \in Calls, Issue(n), n = current + 1,
         stage \in {"connecting", "idle"},
         stage' \in {"login", "calling"}, stage' = "login" => n = 1
  PROVE  IndInv'
  <1> USE MaxCallsAssumption DEF Calls
  <1>0. TypeOK /\ FramesFit /\ InTurn /\ RequestsOpen
    BY DEF IndInv
  <1>1. outcome' \in [Calls -> {"none", "waiting", "ok", "denied", "error", "closed", "timeout"}]
        /\ \A m \in Calls : m # n => outcome'[m] = outcome[m]
    BY <1>0 DEF TypeOK, Issue
  <1>2. requests' \subseteq requests \cup {[id |-> nextId, of |-> n]}
    BY DEF Issue, FreshId
  <1>3. [id |-> nextId, of |-> n] \in Request
    BY <1>0 DEF TypeOK, Request
  <1>4. current' = n /\ current \in Nat
    BY <1>0 DEF Issue, TypeOK
  <1>5. TypeOK'
    <2>1. CASE ws = "closed"
      BY <2>1, <1>0, <1>1 DEF Issue, TypeOK
    <2>2. CASE ws # "closed"
      BY <2>2, <1>0, <1>1, <1>2, <1>3, Registers DEF Issue, TypeOK
    <2>3. QED
      BY <2>1, <2>2
  <1>6. OwnAnswer'
    BY DEF IndInv, OwnAnswer, Issue
  <1>7. FramesFit'
    <2> SUFFICES ASSUME NEW f \in Frames' PROVE
          /\ f.id \in 1 .. nextId' - 1
          /\ f.of <= n
          /\ f.id \in DOMAIN pending' => pending'[f.id] = f.of
      BY <1>4 DEF FramesFit
    <2>1. CASE ws = "closed"
      BY <2>1, <1>0, <1>4 DEF Issue, FramesFit, Frames, TypeOK, Request, Reply
    <2>2. CASE ws # "closed" /\ f \in Frames
      <3>1. f.id \in 1 .. nextId - 1 /\ f.of <= current /\ f.of \in Nat /\ f.id # nextId
        BY <2>2, <1>0 DEF FramesFit, TypeOK, Request, Reply, Frames
      <3>2. f.id \in DOMAIN pending' => pending'[f.id] = f.of
        BY <2>2, <3>1, <1>0, Registers DEF FramesFit
      <3>3. nextId' = nextId + 1 /\ nextId \in Nat
        BY <2>2, <1>0 DEF Issue, TypeOK
      <3>4. QED
        BY <3>1, <3>2, <3>3, <1>4
    <2>3. CASE ws # "closed" /\ f = [id |-> nextId, of |-> n]
      BY <2>3, <1>0, Registers DEF Issue, TypeOK
    <2>4. QED
      BY <2>1, <2>2, <2>3, <1>2 DEF Frames, Issue
  <1>8. Registered' /\ ClosedEmpty'
    <2>1. CASE ws = "closed"
      BY <2>1, <1>0, <1>1 DEF IndInv, Registered, ClosedEmpty, Waiting, Issue, TypeOK
    <2>2. CASE ws # "closed"
      <3>1. Registered'
        BY <2>2, <1>0, <1>1, Registers DEF IndInv, Registered, Waiting
      <3>2. ws' # "closed"
        BY <2>2 DEF Issue
      <3>3. QED
        BY <3>1, <3>2 DEF ClosedEmpty
    <2>3. QED
      BY <2>1, <2>2
  <1>9. InTurn'
    <2>1. \A m \in Calls : m # n => ~Waiting(m)'
      BY <1>0, <1>1 DEF InTurn, Waiting
    <2>2. \A m \in Calls : m > n => outcome'[m] = "none"
      BY <1>0, <1>1, <1>4 DEF InTurn
    <2>3. QED
      BY <2>1, <2>2, <1>4 DEF InTurn
  <1>10. RequestsOpen'
    <2>1. \A f \in Frames : f.of # n
      BY <1>0, <1>4 DEF FramesFit, TypeOK, Frames, Request, Reply
    <2>2. n \notin executed
      BY <1>0, <1>4 DEF IndInv, RepliesTrue, TypeOK
    <2>3. [id |-> nextId, of |-> n] \in requests' => outcome'[n] = "waiting"
      BY <2>1, <1>0 DEF Issue, TypeOK, Frames
    <2>4. QED
      BY <2>1, <2>2, <2>3, <1>0, <1>1, <1>2 DEF RequestsOpen, Issue, Frames, TypeOK, Request
  <1>11. RepliesTrue'
    BY <1>0, <1>4 DEF IndInv, RepliesTrue, Issue, TypeOK
  <1>12. QED
    BY <1>5, <1>6, <1>7, <1>8, <1>9, <1>10, <1>11 DEF IndInv

\* So does whatever only moves the socket or the caller on, unless it closes the
\* one or the other turns its back on a call that waits.
LEMMA MovesOnIndInv ==
  ASSUME IndInv,
         UNCHANGED <<nextId, pending, current, outcome, answer, server>>,
         ws' \in {"connecting", "open", "closing", "closed"}, ws' = "closed" => ws = "closed",
         ready' \in {"pending", "resolved", "rejected"},
         \/ stage' = stage
         \/ stage' \in {"idle", "over"} /\ \A n \in Calls : ~Waiting(n)
  PROVE  IndInv'
  <1>1. TypeOK'
    BY DEF IndInv, TypeOK, server
  <1>2. InTurn'
    BY DEF IndInv, InTurn, Waiting
  <1>3. QED
    BY <1>1, <1>2 DEF IndInv, OwnAnswer, FramesFit, Frames, Registered, ClosedEmpty,
                      RequestsOpen, RepliesTrue, Waiting, server

\* When the socket closes every waiter is told.
LEMMA ClosesIndInv ==
  ASSUME IndInv, Closes
  PROVE  IndInv' /\ \A n \in Calls : ~Waiting(n)'
  <1> USE DEF IndInv, Closes, RejectedAll, server
  <1>1. \A n \in Calls : outcome'[n] = IF Waiting(n) THEN "closed" ELSE outcome[n]
    BY DEF Registered
  <1>2. \A n \in Calls : ~Waiting(n)'
    BY <1>1 DEF Waiting
  <1>3. DOMAIN pending' = {} /\ pending' \in [DOMAIN pending' -> Calls]
    OBVIOUS
  <1>4. TypeOK'
    BY <1>1, <1>3 DEF TypeOK, Calls
  <1>5. InTurn'
    BY <1>1, <1>2 DEF InTurn, Waiting
  <1>6. RequestsOpen'
    BY <1>1 DEF RequestsOpen, TypeOK, Request, Waiting
  <1>7. FramesFit' /\ Registered' /\ ClosedEmpty' /\ OwnAnswer' /\ RepliesTrue'
    BY <1>2, <1>3 DEF FramesFit, Frames, Registered, ClosedEmpty, OwnAnswer, RepliesTrue
  <1>8. QED
    BY <1>2, <1>4, <1>5, <1>6, <1>7

\* A caller that gives up leaves its entry behind.
LEMMA TimesOutIndInv ==
  ASSUME IndInv, TimesOut
  PROVE  IndInv'
  <1> USE DEF IndInv, TimesOut, server
  <1>1. \A n \in Calls : outcome'[n] = IF n = current THEN "timeout" ELSE outcome[n]
    BY DEF TypeOK
  <1>2. current \in Calls /\ outcome[current] = "waiting"
    BY DEF TypeOK, InTurn, Waiting, Calls
  <1>3. TypeOK'
    BY <1>2 DEF TypeOK
  <1>4. InTurn' /\ Registered'
    BY <1>1, <1>2 DEF InTurn, Registered, Waiting, TypeOK, Calls
  <1>5. RequestsOpen'
    BY <1>1 DEF RequestsOpen, TypeOK, Request
  <1>6. QED
    BY <1>3, <1>4, <1>5 DEF FramesFit, Frames, ClosedEmpty, OwnAnswer, RepliesTrue

\* A reply goes to the caller whose call it answers, or to nobody.
LEMMA ReceivesIndInv ==
  ASSUME IndInv, NEW r \in replies, Receives(r)
  PROVE  IndInv'
  <1> USE DEF IndInv
  <1>1. r \in Reply /\ replies' \subseteq replies
    BY DEF TypeOK, Receives
  <1>2. UNCHANGED <<ws, ready, nextId, stage, current, requests, executed, authed>>
    BY DEF Receives
  <1>3. /\ DOMAIN pending' = DOMAIN pending \ {r.id}
        /\ \A i \in DOMAIN pending' : pending'[i] = pending[i]
        /\ pending' \in [DOMAIN pending' -> Calls]
    BY DEF Receives, TypeOK
  <1>4. CASE r.id \in DOMAIN pending /\ Waiting(r.of)
    <2>1. pending[r.id] = r.of
      BY <1>4 DEF FramesFit, Frames
    <2>2. r.of \in Calls /\ r.kind \in {"ok", "denied", "error"}
      BY <1>1 DEF Reply
    <2>3. /\ outcome' = [outcome EXCEPT ![r.of] = r.kind]
          /\ answer' = [answer EXCEPT ![r.of] = r.of]
      BY <1>4, <2>1 DEF Receives
    <2>4. \A n \in Calls : outcome'[n] = IF n = r.of THEN r.kind ELSE outcome[n]
      BY <2>3 DEF TypeOK
    <2>5. TypeOK' /\ OwnAnswer'
      BY <1>1, <1>2, <1>3, <2>2, <2>3 DEF TypeOK, OwnAnswer, Calls
    <2>6. Registered'
      BY <1>3, <2>1, <2>2, <2>4 DEF Registered, Waiting
    <2>7. InTurn'
      BY <1>2, <1>4, <2>2, <2>4, MaxCallsAssumption DEF InTurn, Waiting, TypeOK, Calls
    <2>8. RequestsOpen'
      BY <1>1, <1>2, <2>4 DEF RequestsOpen, TypeOK, Request
    <2>9. QED
      BY <1>1, <1>2, <1>3, <2>5, <2>6, <2>7, <2>8 DEF FramesFit, Frames, ClosedEmpty, RepliesTrue
  <1>5. CASE r.id \notin DOMAIN pending \/ ~Waiting(r.of)
    <2>1. r.id \in DOMAIN pending => pending[r.id] = r.of
      BY DEF FramesFit, Frames
    <2>2. UNCHANGED <<outcome, answer>>
      BY <1>5, <2>1 DEF Receives
    <2>3. TypeOK' /\ OwnAnswer' /\ InTurn'
      BY <1>1, <1>2, <1>3, <2>2 DEF TypeOK, OwnAnswer, InTurn, Waiting
    <2>4. Registered'
      BY <1>3, <1>5, <2>1, <2>2 DEF Registered, Waiting
    <2>5. QED
      BY <1>1, <1>2, <1>3, <2>2, <2>3, <2>4
         DEF FramesFit, Frames, ClosedEmpty, RepliesTrue, RequestsOpen
  <1>6. QED
    BY <1>4, <1>5

-----------------------------------------------------------------------------
(* The middleware.                                                         *)

\* A request that is handled leaves a true reply; one that is lost, nothing.
LEMMA MiddlewareIndInv ==
  ASSUME IndInv, NEW q \in requests, Executes(q) \/ Refuses(q) \/ Loses(q)
  PROVE  IndInv'
  <1> USE DEF IndInv
  <1>1. UNCHANGED client /\ requests' = requests \ {q}
    BY DEF Executes, Refuses, Loses
  <1>2. q \in Request /\ q.id \in Nat /\ q.of \in Calls
    BY DEF TypeOK, Request
  <1>3. /\ q.of <= current /\ q.id \in 1 .. nextId - 1
        /\ q.id \in DOMAIN pending => pending[q.id] = q.of
    BY DEF FramesFit, Frames
  <1>4. \A p \in requests' : p.of # q.of
    BY <1>1 DEF RequestsOpen
  <1>5. PICK kind \in {"ok", "denied", "error"} :
          /\ replies' \subseteq replies \cup {[id |-> q.id, of |-> q.of, kind |-> kind]}
          /\ kind = "ok" => executed' = executed \cup {q.of}
          /\ kind # "ok" => executed' = executed
          /\ authed' \in BOOLEAN
    <2>1. CASE Executes(q)
      BY <2>1 DEF Executes, Replies, TypeOK
    <2>2. CASE Refuses(q)
      BY <2>2 DEF Refuses, Replies, TypeOK
    <2>3. CASE Loses(q)
      BY <2>3 DEF Loses, TypeOK
    <2>4. QED
      BY <2>1, <2>2, <2>3
  <1>6. [id |-> q.id, of |-> q.of, kind |-> kind] \in Reply
    BY <1>2, <1>5 DEF Reply
  <1>7. TypeOK'
    BY <1>1, <1>2, <1>5, <1>6 DEF TypeOK, client
  <1>8. FramesFit'
    BY <1>1, <1>3, <1>5 DEF FramesFit, Frames, client
  <1>9. RequestsOpen'
    BY <1>1, <1>4, <1>5 DEF RequestsOpen, client
  <1>10. RepliesTrue'
    BY <1>1, <1>3, <1>5 DEF RepliesTrue, RequestsOpen, client
  <1>11. QED
    BY <1>1, <1>7, <1>8, <1>9, <1>10 DEF client, OwnAnswer, Registered, ClosedEmpty, InTurn, Waiting

-----------------------------------------------------------------------------
\* Every step keeps the invariant.
LEMMA StepIndInv == IndInv /\ [Next]_vars => IndInv'
  <1> SUFFICES ASSUME IndInv, [Next]_vars PROVE IndInv'
    OBVIOUS
  <1>0. TypeOK /\ InTurn
    BY DEF IndInv
  <1>1. CASE Opens \/ Drops
    BY <1>1, <1>0, MovesOnIndInv DEF Opens, Drops, TypeOK
  <1>2. CASE Closes
    BY <1>2, ClosesIndInv
  <1>3. ASSUME NEW r \in replies, Receives(r) PROVE IndInv'
    BY <1>3, ReceivesIndInv
  <1>4. CASE OpenFails \/ CloseSession
    <2>1. \A n \in Calls : ~Waiting(n)
      BY <1>0, <1>4 DEF InTurn, OpenFails, CloseSession
    <2>2. GiveUp
      BY <1>4 DEF OpenFails, CloseSession
    <2>3. QED
      BY <1>0, <2>1, <2>2, MovesOnIndInv DEF GiveUp, SocketClosed, TypeOK
  <1>5. CASE Login
    <2>1. 1 \in Calls /\ current = 0
      BY <1>0, <1>5, MaxCallsAssumption DEF InTurn, Login, Calls
    <2>2. QED
      BY <1>5, <2>1, IssueIndInv DEF Login
  <1>6. CASE LoginReturns
    <2>1. \A n \in Calls : ~Waiting(n)
      BY <1>0, <1>6 DEF InTurn, LoginReturns
    <2>2. QED
      BY <1>0, <1>6, <2>1, MovesOnIndInv DEF LoginReturns, GiveUp, SocketClosed, TypeOK
  <1>7. CASE Call
    <2>1. current + 1 \in Calls
      BY <1>0, <1>7, MaxCallsAssumption DEF Call, Calls, TypeOK
    <2>2. QED
      BY <1>7, <2>1, IssueIndInv DEF Call
  <1>8. CASE CallReturns
    <2>1. \A n \in Calls : ~Waiting(n)
      BY <1>0, <1>8 DEF InTurn, CallReturns
    <2>2. QED
      BY <1>0, <1>8, <2>1, MovesOnIndInv DEF CallReturns, TypeOK
  <1>9. CASE TimesOut
    BY <1>9, TimesOutIndInv
  <1>10. CASE Middleware
    BY <1>10, MiddlewareIndInv DEF Middleware
  <1>11. CASE UNCHANGED vars
    BY <1>0, <1>11, MovesOnIndInv DEF vars, client, TypeOK
  <1>12. QED
    BY <1>1, <1>2, <1>3, <1>4, <1>5, <1>6, <1>7, <1>8, <1>9, <1>10, <1>11
       DEF Next, Caller, Socket

\* The inductive invariant holds throughout a session, whatever the socket does.
THEOREM Correct == Spec => []IndInv
  BY InitIndInv, StepIndInv, PTL DEF Spec

\* The variables keep their types.
THEOREM TypeCorrect == Spec => []TypeOK
  <1>1. IndInv => TypeOK
    BY DEF IndInv
  <1>2. QED
    BY Correct, <1>1, PTL

\* Whatever was abandoned before, and however late the answers come in, a
\* caller only ever gets the answer to its own call.
THEOREM AnswersAreOwn == Spec => []OwnAnswer
  <1>1. IndInv => OwnAnswer
    BY DEF IndInv
  <1>2. QED
    BY Correct, <1>1, PTL

\* Once the close event fired nobody waits for an answer that can not come.
THEOREM NobodyForgotten == Spec => []NoWaiterForgotten
  <1>1. IndInv => NoWaiterForgotten
    BY DEF IndInv, Registered, ClosedEmpty, NoWaiterForgotten
  <1>2. QED
    BY Correct, <1>1, PTL

-----------------------------------------------------------------------------
(* The session implements RemoteCall.                                      *)

view == [n \in Calls |-> View(n)]

\* One caller learns something, and the others nothing.
LEMMA LearnsStep ==
  ASSUME NEW n \in Calls, NEW v, View(n)' = v,
         \A m \in Calls : m # n => outcome'[m] = outcome[m],
         UNCHANGED executed
  PROVE  Promise!Learns(n, v)
  <1>1. \A m \in Calls : m # n => View(m)' = View(m)
    BY DEF View
  <1>2. QED
    BY <1>1 DEF Promise!Learns

\* A call that is issued is asked, or known not to have been sent.
LEMMA IssueImplements ==
  ASSUME IndInv, NEW n \in Calls, n = current + 1, Issue(n)
  PROVE  Promise!Next
  <1>1. outcome[n] = "none" /\ View(n) = "none"
    BY DEF IndInv, InTurn, TypeOK, View
  <1>2. /\ outcome'[n] = IF ws = "closed" THEN "closed" ELSE "waiting"
        /\ \A m \in Calls : m # n => outcome'[m] = outcome[m]
        /\ UNCHANGED executed
    BY DEF IndInv, TypeOK, Issue
  <1>3. CASE ws = "closed"
    <2>1. View(n)' = "unknown"
      BY <1>2, <1>3 DEF View
    <2>2. Promise!NotSent(n)
      BY <1>1, <1>2, <2>1, LearnsStep DEF Promise!NotSent
    <2>3. QED
      BY <2>2 DEF Promise!Next
  <1>4. CASE ws # "closed"
    <2>1. View(n)' = "waiting"
      BY <1>2, <1>4 DEF View
    <2>2. Promise!Asks(n)
      BY <1>1, <1>2, <2>1, LearnsStep DEF Promise!Asks
    <2>3. QED
      BY <2>2 DEF Promise!Next
  <1>5. QED
    BY <1>3, <1>4

\* A reply answers or refuses; one that nobody waits for says nothing.
LEMMA ReceivesImplements ==
  ASSUME IndInv, NEW r \in replies, Receives(r)
  PROVE  Promise!Next \/ UNCHANGED <<view, executed>>
  <1>1. r.of \in Calls /\ r.kind \in {"ok", "denied", "error"} /\ UNCHANGED executed
    BY DEF IndInv, TypeOK, Reply, Receives
  <1>2. r.id \in DOMAIN pending => pending[r.id] = r.of
    BY DEF IndInv, FramesFit, Frames
  <1>3. CASE r.id \in DOMAIN pending /\ Waiting(r.of)
    <2>1. /\ outcome'[r.of] = r.kind
          /\ \A m \in Calls : m # r.of => outcome'[m] = outcome[m]
      BY <1>1, <1>2, <1>3 DEF Receives, IndInv, TypeOK
    <2>2. View(r.of) = "waiting"
      BY <1>3 DEF View, Waiting
    <2>3. View(r.of)' = IF r.kind = "ok" THEN "ok" ELSE "error"
      BY <1>1, <2>1 DEF View
    <2>4. r.kind = "ok" <=> r.of \in executed
      BY DEF IndInv, RepliesTrue
    <2>5. Promise!Answered(r.of) \/ Promise!Refused(r.of)
      BY <1>1, <2>1, <2>2, <2>3, <2>4, LearnsStep DEF Promise!Answered, Promise!Refused
    <2>6. QED
      BY <1>1, <2>5 DEF Promise!Next
  <1>4. CASE r.id \notin DOMAIN pending \/ ~Waiting(r.of)
    BY <1>1, <1>2, <1>4 DEF Receives, view, View
  <1>5. QED
    BY <1>3, <1>4

\* Only the caller that waits can be told of the end of the socket.
LEMMA GivenUpImplements ==
  ASSUME IndInv, Closes \/ TimesOut
  PROVE  Promise!Next \/ UNCHANGED <<view, executed>>
  <1>1. UNCHANGED executed
    BY DEF Closes, TimesOut, server
  <1>2. \A n \in Calls : n # current => ~Waiting(n)
    BY DEF IndInv, InTurn
  <1>3. \A n \in Calls : ~Waiting(n) => outcome'[n] = outcome[n]
    BY DEF IndInv, TypeOK, InTurn, Closes, RejectedAll, TimesOut, Waiting
  <1>4. ASSUME NEW n \in Calls, n = current, Waiting(n)
        PROVE  Promise!Next
    <2>1. outcome'[n] \in {"closed", "timeout"}
      BY <1>4 DEF IndInv, TypeOK, Registered, Closes, RejectedAll, TimesOut
    <2>2. View(n) = "waiting" /\ View(n)' = "unknown"
      BY <1>4, <2>1 DEF View, Waiting
    <2>3. \A m \in Calls : m # n => outcome'[m] = outcome[m]
      BY <1>2, <1>3, <1>4
    <2>4. Promise!Learns(n, "unknown")
      BY <1>1, <1>4, <2>2, <2>3, LearnsStep
    <2>5. Promise!GivenUp(n)
      BY <2>2, <2>4, <1>4 DEF Promise!GivenUp, view
    <2>6. QED
      BY <2>5, <1>4 DEF Promise!Next
  <1>5. CASE ~(current \in Calls /\ Waiting(current))
    <2>1. \A n \in Calls : outcome'[n] = outcome[n]
      BY <1>2, <1>3, <1>5
    <2>2. QED
      BY <1>1, <2>1 DEF view, View
  <1>6. QED
    BY <1>4, <1>5

\* A call is carried out once, while its caller waits or after it gave up.
LEMMA MiddlewareImplements ==
  ASSUME IndInv, NEW q \in requests, Executes(q) \/ Refuses(q) \/ Loses(q)
  PROVE  Promise!Next \/ UNCHANGED <<view, executed>>
  <1>1. UNCHANGED view
    BY DEF Executes, Refuses, Loses, client, view, View
  <1>2. CASE Executes(q)
    <2>1. q.of \in Calls /\ q.of \notin executed /\ View(q.of) \in {"waiting", "unknown"}
      BY DEF IndInv, TypeOK, Request, RequestsOpen, View
    <2>2. Promise!Happens(q.of)
      BY <1>1, <1>2, <2>1 DEF Promise!Happens, Executes, view
    <2>3. QED
      BY <2>1, <2>2 DEF Promise!Next
  <1>3. CASE Refuses(q) \/ Loses(q)
    BY <1>1, <1>3 DEF Refuses, Loses
  <1>4. QED
    BY <1>2, <1>3

\* Every step of a session is a step of RemoteCall or none.
LEMMA StepImplements ==
  IndInv /\ [Next]_vars => [Promise!Next]_<<view, executed>>
  <1> SUFFICES ASSUME IndInv, [Next]_vars
               PROVE  Promise!Next \/ UNCHANGED <<view, executed>>
    OBVIOUS
  <1>1. CASE UNCHANGED <<outcome, executed>>
    BY <1>1 DEF view, View
  <1>2. CASE Opens \/ Drops \/ OpenFails \/ LoginReturns \/ CallReturns \/ CloseSession
    BY <1>1, <1>2 DEF Opens, Drops, OpenFails, LoginReturns, CallReturns, CloseSession, GiveUp, server
  <1>3. CASE Closes \/ TimesOut
    BY <1>3, GivenUpImplements
  <1>4. ASSUME NEW r \in replies, Receives(r)
        PROVE  Promise!Next \/ UNCHANGED <<view, executed>>
    BY <1>4, ReceivesImplements
  <1>5. CASE Login
    <2>1. 1 \in Calls /\ current = 0
      BY <1>5, MaxCallsAssumption DEF IndInv, InTurn, Login, Calls
    <2>2. QED
      BY <1>5, <2>1, IssueImplements DEF Login
  <1>6. CASE Call
    <2>1. current + 1 \in Calls
      BY <1>6, MaxCallsAssumption DEF IndInv, Call, Calls, TypeOK
    <2>2. QED
      BY <1>6, <2>1, IssueImplements DEF Call
  <1>7. CASE Middleware
    BY <1>7, MiddlewareImplements DEF Middleware
  <1>8. CASE UNCHANGED vars
    BY <1>1, <1>8 DEF vars, client, server
  <1>9. QED
    BY <1>2, <1>3, <1>4, <1>5, <1>6, <1>7, <1>8 DEF Next, Caller, Socket

\* What a caller may conclude from an answer, an error or a time-out is what
\* RemoteCall says.
THEOREM SessionImplements == Spec => ImplementsRemoteCall
  <1>1. Init => Promise!Init
    BY DEF Init, Promise!Init, View
  <1>2. QED
    BY Correct, StepImplements, <1>1, PTL DEF Spec, ImplementsRemoteCall, Promise!Spec, view
=============================================================================
