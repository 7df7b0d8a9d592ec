----------------------------- MODULE TruenasRpc -----------------------------
(***************************************************************************)
(* The TrueNAS JSON-RPC client: JsonRpcSocket, the timeouts around it and  *)
(* the session openTruenasSession returns, with one caller that opens it,  *)
(* issues its calls one after the other and closes it.  A caller may catch *)
(* the failure of a call and go on (vm.ts `delete` does), so an abandoned  *)
(* call and its successor can be in flight together.                       *)
(*                                                                         *)
(* The WebSocket, the network and the middleware are the environment: the  *)
(* middleware carries requests out in any order and after any delay, and   *)
(* the connection can go down at any time.                                 *)
(***************************************************************************)
EXTENDS Naturals

CONSTANT MaxCalls       \* bound on the calls of a session, the login included

ASSUME MaxCallsAssumption == MaxCalls \in Nat \ {0}

Calls == 1..MaxCalls    \* call 1 is auth.login_with_api_key

VARIABLES
    ws,         \* readyState of the socket; "closed" once onclose fired
    ready,      \* the promise the constructor makes
    nextId,     \* #nextId
    pending,    \* #pending: the call waiting for each id
    stage,      \* what the caller is doing
    current,    \* the last call issued
    outcome,    \* per call, what its caller got
    answer,     \* per call, the call whose answer its caller got
    requests,   \* frames the server has not handled
    replies,    \* frames the client has not handled
    executed,   \* the calls the server carried out
    authed      \* the server accepted the login of this connection

client == <<ws, ready, nextId, pending, stage, current, outcome, answer>>
server == <<requests, replies, executed, authed>>
vars == <<client, server>>

Request == [id : Nat, of : Calls]
Reply == [id : Nat, of : Calls, kind : {"ok", "denied", "error"}]

Waiting(n) == outcome[n] = "waiting"

Init ==
    /\ ws = "connecting" /\ ready = "pending"
    /\ nextId = 1 /\ pending = [i \in {} |-> 0]
    /\ stage = "connecting" /\ current = 0
    /\ outcome = [n \in Calls |-> "none"]
    /\ answer = [n \in Calls |-> 0]
    /\ requests = {} /\ replies = {} /\ executed = {} /\ authed = FALSE

-----------------------------------------------------------------------------
(* JsonRpcSocket.                                                          *)

Opens ==
    /\ ws = "connecting"
    /\ ws' = "open" /\ ready' = "resolved"
    /\ UNCHANGED <<nextId, pending, stage, current, outcome, answer, server>>

\* The peer, or the network, takes the connection down.
Drops ==
    /\ ws \in {"connecting", "open"}
    /\ ws' = "closing"
    /\ UNCHANGED <<ready, nextId, pending, stage, current, outcome, answer, server>>

\* Mutant: the waiters are forgotten instead of rejected.
RejectedNone == UNCHANGED outcome
RejectedAll ==
    outcome' = [n \in Calls |->
                  IF Waiting(n) /\ \E i \in DOMAIN pending : pending[i] = n
                  THEN "closed" ELSE outcome[n]]

\* onclose, after onerror when the socket never opened
Closes ==
    /\ ws = "closing"
    /\ ws' = "closed"
    /\ ready' = IF ready = "pending" THEN "rejected" ELSE ready
    /\ RejectedAll
    /\ pending' = [i \in {} |-> 0]
    /\ UNCHANGED <<nextId, stage, current, answer, server>>

\* Mutant: every request has the same id.
SameId == 1
FreshId == nextId

\* send() on a socket that is closing drops the frame without an error.
Issue(n) ==
    /\ current' = n
    /\ IF ws = "closed"
       THEN /\ outcome' = [outcome EXCEPT ![n] = "closed"]
            /\ UNCHANGED <<nextId, pending, requests>>
       ELSE /\ outcome' = [outcome EXCEPT ![n] = "waiting"]
            /\ nextId' = nextId + 1
            /\ pending' = [i \in DOMAIN pending \cup {FreshId} |->
                              IF i = FreshId THEN n ELSE pending[i]]
            /\ requests' = IF ws = "open"
                           THEN requests \cup {[id |-> FreshId, of |-> n]}
                           ELSE requests
    /\ UNCHANGED <<ws, ready, answer, replies, executed, authed>>

\* #onMessage: a reply nobody waits for is dropped.
Receives(r) ==
    /\ r \in replies /\ ws = "open"
    /\ replies' = replies \ {r}
    /\ IF r.id \in DOMAIN pending
       THEN LET n == pending[r.id] IN
            /\ pending' = [i \in DOMAIN pending \ {r.id} |-> pending[i]]
            /\ IF Waiting(n)
               THEN /\ outcome' = [outcome EXCEPT ![n] = r.kind]
                    /\ answer' = [answer EXCEPT ![n] = r.of]
               ELSE UNCHANGED <<outcome, answer>>
       ELSE UNCHANGED <<pending, outcome, answer>>
    /\ UNCHANGED <<ws, ready, nextId, stage, current, requests, executed, authed>>

-----------------------------------------------------------------------------
(* The session.                                                            *)

SocketClosed == ws' = IF ws \in {"connecting", "open"} THEN "closing" ELSE ws

GiveUp ==
    /\ stage' = "over"
    /\ SocketClosed
    /\ UNCHANGED <<ready, nextId, pending, current, outcome, answer, server>>

\* Mutant: only a rejected connection is given up on.
OpenFailsUntimed == stage = "connecting" /\ ready = "rejected" /\ GiveUp
\* the connection is refused, or not there in time
OpenFails == stage = "connecting" /\ ready # "resolved" /\ GiveUp

Login ==
    /\ stage = "connecting" /\ ready = "resolved"
    /\ stage' = "login"
    /\ Issue(1)

Accepted == outcome[1] = "ok"

LoginReturns ==
    /\ stage = "login" /\ ~Waiting(1)
    /\ \/ /\ Accepted
          /\ stage' = "idle"
          /\ UNCHANGED <<ws, ready, nextId, pending, current, outcome, answer, server>>
       \/ ~Accepted /\ GiveUp

Call ==
    /\ stage = "idle" /\ current < MaxCalls
    /\ stage' = "calling"
    /\ Issue(current + 1)

\* With an answer, or with an error that the caller caught.
CallReturns ==
    /\ stage = "calling" /\ ~Waiting(current)
    /\ stage' = "idle"
    /\ UNCHANGED <<ws, ready, nextId, pending, current, outcome, answer, server>>

\* withTimeout: the caller gives up, the waiter stays.
TimesOut ==
    /\ stage \in {"login", "calling"} /\ Waiting(current)
    /\ outcome' = [outcome EXCEPT ![current] = "timeout"]
    /\ UNCHANGED <<ws, ready, nextId, pending, stage, current, answer, server>>

CloseSession == stage = "idle" /\ GiveUp

-----------------------------------------------------------------------------
(* The middleware.                                                         *)

Replies(q, kind) == replies' = replies \cup {[id |-> q.id, of |-> q.of, kind |-> kind]}

Executes(q) ==
    /\ q \in requests
    /\ q.of # 1 => authed
    /\ requests' = requests \ {q}
    /\ executed' = executed \cup {q.of}
    /\ authed' = (authed \/ q.of = 1)
    /\ Replies(q, "ok")
    /\ UNCHANGED client

Refuses(q) ==
    /\ q \in requests
    /\ requests' = requests \ {q}
    /\ Replies(q, IF q.of = 1 THEN "denied" ELSE "error")
    /\ UNCHANGED <<client, executed, authed>>

Loses(q) ==
    /\ q \in requests /\ ws = "closed"
    /\ requests' = requests \ {q}
    /\ UNCHANGED <<client, replies, executed, authed>>

-----------------------------------------------------------------------------
Caller == OpenFails \/ Login \/ LoginReturns \/ Call \/ CallReturns
              \/ TimesOut \/ CloseSession
Socket == Opens \/ Drops \/ Closes \/ \E r \in replies : Receives(r)
Middleware == \E q \in requests : Executes(q) \/ Refuses(q) \/ Loses(q)

Next == Caller \/ Socket \/ Middleware

Spec == Init /\ [][Next]_vars

\* Every await of the caller has a timer, and a closing socket closes; the
\* server owes nothing.
FairSpec == Spec /\ WF_vars(Caller) /\ WF_vars(Closes)

-----------------------------------------------------------------------------
TypeOK ==
    /\ ws \in {"connecting", "open", "closing", "closed"}
    /\ ready \in {"pending", "resolved", "rejected"}
    /\ nextId \in Nat \ {0}
    /\ DOMAIN pending \subseteq 1..(nextId - 1) /\ pending \in [DOMAIN pending -> Calls]
    /\ stage \in {"connecting", "login", "idle", "calling", "over"}
    /\ current \in 0..MaxCalls
    /\ outcome \in [Calls -> {"none", "waiting", "ok", "denied", "error", "closed", "timeout"}]
    /\ answer \in [Calls -> 0..MaxCalls]
    /\ requests \subseteq Request /\ replies \subseteq Reply
    /\ executed \subseteq Calls /\ authed \in BOOLEAN

\* A caller never gets the answer to another call, however late the answers to
\* abandoned calls come in ("resolves them as responses arrive").
OwnAnswer == \A n \in Calls : answer[n] \in {0, n}

\* A caller that waits on a dead socket has been told: no await is left to its
\* timer once the close event fired.
NoWaiterForgotten == ws = "closed" => \A n \in Calls : ~Waiting(n)

\* What the caller is told is what happened, as far as it can know.
View(n) == CASE outcome[n] \in {"closed", "timeout"} -> "unknown"
             [] outcome[n] = "denied"                -> "error"
             [] OTHER                                -> outcome[n]
Promise == INSTANCE RemoteCall WITH
    view <- [n \in Calls |-> View(n)], done <- executed
ImplementsRemoteCall == Promise!Spec

\* Whatever the server does, the caller ends and the socket goes.
SessionEnds == <>(stage = "over" /\ ws = "closed")
=============================================================================
