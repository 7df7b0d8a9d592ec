---------------------------- MODULE MCHeliosHost -----------------------------
(***************************************************************************)
(* The host has two cores and one pool: its sensors, faults, scrub and     *)
(* load in every combination, and apart from these its pools and its       *)
(* build.  Of the datasets one is in the other; there is one snapshot name *)
(* and one zone.                                                           *)
(***************************************************************************)
EXTENDS HostWork

Quiet == [reachable |-> TRUE, bmc |-> TRUE, sensor |-> "ok", temp |-> 40, fan |-> "ok",
          idle |-> <<90, 80>>, faults |-> {}, scrub |-> FALSE,
          pools |-> <<"rpool">>, build |-> "b1"]

Signalling ==
    {[Quiet EXCEPT !.sensor = se, !.fan = f, !.idle = i, !.faults = fa, !.scrub = sc] :
        se \in {"ok", "nc", "cr"}, f \in {"ok", "nr"}, i \in {<<90, 80>>, <<60, 0>>},
        fa \in {{}, {"disk"}}, sc \in BOOLEAN}
Sensing ==
    {[Quiet EXCEPT !.bmc = b, !.reachable = r, !.sensor = se] :
        b \in BOOLEAN, r \in BOOLEAN, se \in {"ok", "ns"}}
Pooled ==
    {[Quiet EXCEPT !.reachable = r, !.pools = p, !.build = u] :
        r \in BOOLEAN, u \in {"b1", "b2"},
        p \in {<<"rpool">>, <<"tank">>, <<"data", "rpool">>, << >>}}
MCHosts == Signalling \cup Sensing \cup Pooled

MCParent == [n \in Names |-> IF n = "rpool/zones" THEN Null ELSE "rpool/zones"]
=============================================================================
