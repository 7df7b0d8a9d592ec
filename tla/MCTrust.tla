------------------------------- MODULE MCTrust -------------------------------
(***************************************************************************)
(* The trust workflows on small instances:                                 *)
(*   "single"   one run of the build, the report and the gate, over any    *)
(*              small set of items of one provider                         *)
(*   "overlap"  two of them at once, over some sets of all of them         *)
(*   "gate"     whole runs of the workflows, scans included, on an org of  *)
(*              two repositories, a project and an account.  web's         *)
(*              environment "eu-prod" and web-eu's environment "prod" have *)
(*              a secret of the same name, so that both are stored as      *)
(*              ...-web-eu-prod-key.                                       *)
(***************************************************************************)
EXTENDS TrustWork

CONSTANTS r1, r2, r3

-----------------------------------------------------------------------------
(* Items of every kind.                                                    *)

Secret(place) == [spec |-> "actions_secret", org |-> "acme", place |-> place, name |-> "AWS_KEY",
                  looksLikeCloudCredential |-> TRUE]
Plain == [Secret("repo") EXCEPT !.name = "TOKEN", !.looksLikeCloudCredential = FALSE]
Subject == [spec |-> "oidc_subject", org |-> "other"]

Pool == [spec |-> "wif_pool", project |-> "p1", pool |-> "ci"]
Provider(id, issuer, conditioned, owners) ==
    [spec |-> "wif_provider", project |-> "p1", pool |-> "ci", id |-> id, issuer |-> issuer,
     aws |-> Null, conditioned |-> conditioned, owners |-> owners]
Open == Provider("open", GithubActions, FALSE, {})
Pinned == Provider("pinned", GithubActions, TRUE, {"acme"})
Capital == Provider("capital", GithubActions, TRUE, {"Acme"})
Two == Provider("two", GithubActions, TRUE, {"acme", "other"})
Gitlab == Provider("gitlab", <<"gitlab.com", "/">>, TRUE, {})
Aws == [Provider("aws", Null, FALSE, {}) EXCEPT !.aws = "123"]
Deployer(email) == [spec |-> "service_account", project |-> "p1", email |-> email, impersonators |-> {"ci"}]
Key == [spec |-> "sa_key", project |-> "p1", email |-> "a1", key |-> "k1", userManaged |-> TRUE]

TheApp(id, idps) == [spec |-> "access_app", account |-> "c1", id |-> id, name |-> "wiki", allowedIdps |-> idps]
Policy(id, app, decision, everyone, f) ==
    [spec |-> "access_policy", account |-> "c1", id |-> id, app |-> app, decision |-> decision,
     allowsEveryone |-> everyone, factors |-> f]
Idp(id, open) == [spec |-> "identity_provider", account |-> "c1", id |-> id, name |-> id,
                  issuer |-> <<id>>, open |-> open]
Token(id, long) == [spec |-> "service_token", account |-> "c1", id |-> id, name |-> "ci", longLived |-> long]

GithubItems == {Secret("repo"), Secret("env"), Plain, Subject}
GcpItems == {Pool, Open, Pinned, Two, Gitlab, Aws, Deployer("a1"), Deployer("a2"), Key}
CloudflareItems ==
    {TheApp("w1", {}), TheApp("w2", {"okta"}), Policy("mfa", "w1", "allow", FALSE, {"mfa"}),
     Policy("ip", "w1", "allow", FALSE, {"ip"}), Policy("bypass", "w2", "bypass", FALSE, {}),
     Policy("all", "w2", "allow", TRUE, {}), Idp("okta", FALSE), Idp("google", TRUE),
     Token("t1", TRUE), Token("t2", FALSE)}

\* A share is told in halves, so that of four edges three are told as all: the border
\* that is at 200 edges when it is told in hundredths.
MCPercent == 2
Strict == [maxCritical |-> 0, maxHigh |-> 1, maxMedium |-> 0,
           minEphemeralPct |-> 2, minConditionalAccessPct |-> 1]
Loose == [AssertPostureArgs EXCEPT !.maxHigh = 1, !.maxMedium = 1]
MCThresholds == {AssertPostureArgs, Strict, Loose}

Small(S, n) == {T \in SUBSET S : Cardinality(T) <= n}
Mixed ==
    {{}, {Secret("repo")}, {Pinned, Key}, {Open, Two}, {Secret("repo"), Capital}, {Pinned, TheApp("w2", {"okta"}), Idp("okta", FALSE)},
     {TheApp("w1", {}), Policy("ip", "w1", "allow", FALSE, {"ip"}), Token("t1", TRUE), Token("t2", FALSE)}}
MCInputs ==
    [r \in {r1, r2, r3} |->
        IF r = r1 THEN Small(GithubItems, 4) \cup Small(GcpItems, 5) \cup Small(CloudflareItems, 5)
        ELSE Mixed]

\* Any of the single run's handles may be unreadable, and one of an overlapping one's.
MCMaxUnreadable == [r \in {r1, r2, r3} |-> IF r = r1 THEN 20 ELSE 1]

\* The organisations acme and Acme have one name.
MCSanitize(id) == [k \in DOMAIN id |-> IF id[k] = "Acme" THEN "acme" ELSE id[k]]

-----------------------------------------------------------------------------
(* The workflows.  One provider is left out of each case.                  *)

MCGroup == [g \in {"single", "overlap"} |-> IF g = "single" THEN {r1} ELSE {r2, r3}]

Calm == {}
MCFaultCases == {Calm, {"drift"}, {"expiry"}}

MCOrgs == [f \in MCFaultCases |-> IF f = {"drift"} THEN << >> ELSE <<"org">>]
MCProjects == [f \in MCFaultCases |-> IF f = {"expiry"} THEN << >> ELSE <<"project">>]
MCAccounts == [f \in MCFaultCases |-> IF f = Calm THEN << >> ELSE <<"account">>]
MCRepos == [o \in {"org"} |-> <<"web", "web-eu">>]
MCItems == {<<"web", "environmentSecrets">>, <<"web-eu", "environmentSecrets">>,
            <<"project", "providers">>, <<"account", "policies">>}
MCStoredAs == [i \in MCItems |-> CASE i[1] = "project" -> "provider"
                                   [] i[1] = "account" -> "policy"
                                   [] OTHER            -> "web-eu-prod-key"]

MCRuns == [f \in MCFaultCases |-> IF f = Calm THEN 1 ELSE 2]
MCFailures == [f \in MCFaultCases |-> IF f = Calm THEN 2 ELSE 1]
MCChanges == [f \in MCFaultCases |-> 1]
=============================================================================
