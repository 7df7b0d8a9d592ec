----------------------------- MODULE MCUnifiDns -----------------------------
(* The A and AAAA records of a host and the A record of the wildcard under  *)
(* it: sanitizeInstanceName drops everything but letters and digits, so the *)
(* host and the wildcard share their instance names.                        *)
EXTENDS UnifiDns, TLC

CONSTANTS a, b     \* callers

Named(k, t) == [key |-> k, type |-> t]
MCNames == {Named("host", "A"), Named("host", "AAAA"), Named("*.host", "A")}
Sanitized == [n \in MCNames |-> <<"host", n.type>>]

InTurn == {"lost"}
Everything == {"overlap", "lost", "late", "console"}
MCFaultCases == {InTurn, Everything}
MCMaxCalls == [f \in MCFaultCases |-> IF f = InTurn THEN 3 ELSE 2]

CallersAlike == Permutations({a, b})
=============================================================================
