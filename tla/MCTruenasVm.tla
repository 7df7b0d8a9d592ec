----------------------------- MODULE MCTruenasVm ----------------------------
(* One zvol, one MAC, two VM names, two sizes; one caller after the other   *)
(* with lost answers, or both at once with late writes.                     *)
EXTENDS TruenasVm, TLC

CONSTANTS zv, mac, n1, n2, a, b     \* a zvol, a MAC, two names, two callers

InTurn == {"lost", "handmade"}
AtOnce == {"overlap", "late", "handmade"}
MCFaultCases == {InTurn, AtOnce}
MCMaxCalls == [f \in MCFaultCases |-> IF f = InTurn THEN 4 ELSE 3]
CallersAlike == Permutations({a, b})
=============================================================================
