----------------------------- MODULE TrustGraph -----------------------------
(***************************************************************************)
(* The trust graph: build derives domains and edges from the items the     *)
(* scans stored, writes them one by one and the inventory last; the report *)
(* reads what its build wrote; assert_posture judges the latest inventory. *)
(* Runs of different workflows may build at the same time.                 *)
(*                                                                         *)
(* An item is a record of one of the specs of the scans.  What it is       *)
(* called stands for everything else that tells it from others; hosts,     *)
(* labels and ids are tuples.  A scan's output is any set of Inputs.       *)
(***************************************************************************)
EXTENDS Integers, FiniteSets, Sequences

CONSTANTS
    Runs,           \* runs of the workflows
    Inputs,         \* what the scans may have stored when a run begins its build
    Thresholds,     \* the arguments assert_posture is called with
    Percent,        \* how many parts a share is told in: 100
    MaxUnreadable,  \* per run, how many of its edges' handles a report may fail to read
    sanitizeInstanceName(_),    \* the instance name of a domain's id: two ids that differ
                                \* in case or punctuation have one name
    Null            \* no value

ASSUME NullAssumption == Null \notin {"noInventory", "unreadable"}
ASSUME PercentAssumption == Percent \in Nat \ {0} /\ MaxUnreadable \in [Runs -> Nat]

Name == STRING
Issuer == Seq(STRING)
OidcSubject == [spec : {"oidc_subject"}, org : Name]
ActionsSecret ==
    [spec : {"actions_secret"}, org : Name, place : Name, name : Name, looksLikeCloudCredential : BOOLEAN]
WifPool == [spec : {"wif_pool"}, project : Name, pool : Name]
WifProvider ==
    [spec : {"wif_provider"}, project : Name, pool : Name, id : Name, issuer : Issuer \cup {Null},
     aws : Name \cup {Null}, conditioned : BOOLEAN, owners : SUBSET Name]
ServiceAccount ==
    [spec : {"service_account"}, project : Name, email : Name, impersonators : SUBSET Name]
SaKey == [spec : {"sa_key"}, project : Name, email : Name, key : Name, userManaged : BOOLEAN]
AccessApp == [spec : {"access_app"}, account : Name, id : Name, name : Name, allowedIdps : SUBSET Name]
AccessPolicy ==
    [spec : {"access_policy"}, account : Name, id : Name, app : Name \cup {Null}, decision : Name,
     allowsEveryone : BOOLEAN, factors : SUBSET Name]
IdentityProvider ==
    [spec : {"identity_provider"}, account : Name, id : Name, name : Name, issuer : Issuer, open : BOOLEAN]
ServiceToken == [spec : {"service_token"}, account : Name, id : Name, name : Name, longLived : BOOLEAN]
Items ==
    OidcSubject \cup ActionsSecret \cup WifPool \cup WifProvider \cup ServiceAccount \cup SaKey
      \cup AccessApp \cup AccessPolicy \cup IdentityProvider \cup ServiceToken

\* A scan stores finitely many items, and owners are read out of a condition.
ASSUME InputsAssumption ==
    \A r \in Runs : \A I \in Inputs[r] :
       /\ I \subseteq Items /\ IsFiniteSet(I)
       /\ \A p \in I : p.spec = "wif_provider" /\ ~p.conditioned => p.owners = {}

Unlimited == 1000   \* stands for Number.MAX_SAFE_INTEGER: no count gets there
ASSUME ThresholdsAssumption ==
    Thresholds \subseteq [maxCritical : Nat, maxHigh : Nat, maxMedium : Nat,
                          minEphemeralPct : 0 .. Percent, minConditionalAccessPct : 0 .. Percent]

\* The thresholds of a call without arguments.
AssertPostureArgs ==
    [maxCritical |-> 0, maxHigh |-> 0, maxMedium |-> Unlimited,
     minEphemeralPct |-> 0, minConditionalAccessPct |-> 0]

-----------------------------------------------------------------------------
(* Edges and what is found about them.                                     *)

Severity(code) ==
    CASE code = "WIF_NO_ATTRIBUTE_CONDITION" -> "critical"
      [] code \in {"GITHUB_STATIC_CLOUD_CREDENTIAL", "WIF_GITHUB_NO_ORG_PIN",
                   "GCP_USER_MANAGED_SA_KEY", "CF_ACCESS_POLICY_ALLOW_ALL"} -> "high"
      [] code \in {"CF_ACCESS_NO_POSTURE", "CF_IDP_OPEN_USER_POOL",
                   "CF_SERVICE_TOKEN_NO_EXPIRY"} -> "medium"
      [] OTHER -> "low"

Static == <<"static">>
GithubActions == <<"token.actions.githubusercontent.com", "">>
External(name) == <<"external", name>>
Unresolved == External("unknown")
GithubOrg(o) == <<"github", o>>
GithubIdp == <<"githubActions">>
Project(p) == <<"gcp", p>>
Account(a) == <<"cloudflare", a>>
App(a) == <<"cloudflare app", a.account, a.id>>

If(condition, code) == IF condition THEN {code} ELSE {}

\* Mutant: an edge's id leaves the label of its source out.
IdOfDomains(source, label, target, to, issuer, type) == <<source, target, to, issuer, type>>
trustEdgeId(source, label, target, to, issuer, type) == <<source, label, target, to, issuer, type>>

\* from and to are <<domain, label>>; of is the item the edge is derived from.
Edge(of, from, to, issuer, type, conditional, findings) ==
    [id |-> trustEdgeId(from[1], from[2], to[1], to[2], issuer, type), of |-> of,
     source |-> from[1], target |-> to[1],
     ephemeral |-> type = "oidc-federation", conditional |-> conditional, findings |-> findings]

Of(I, spec) == {i \in I : i.spec = spec}

\* Applications and logins are stored under their account and id, one of each.
ASSUME KeysAssumption ==
    \A r \in Runs : \A I \in Inputs[r] :
       \A i, j \in Of(I, "access_app") \cup Of(I, "identity_provider") :
          i.spec = j.spec /\ i.account = j.account /\ i.id = j.id => i = j

-----------------------------------------------------------------------------
(* GitHub: the static credentials among the secrets.                       *)

githubEdges(I) ==
    {Edge(s, <<GithubOrg(s.org), <<s.place>>>>, <<Unresolved, <<s.name>>>>, Static, "github-secret",
          FALSE, {"GITHUB_STATIC_CLOUD_CREDENTIAL"}) :
        s \in {t \in Of(I, "actions_secret") : t.looksLikeCloudCredential}}

githubDomains(I) ==
    {GithubOrg(i.org) : i \in Of(I, "oidc_subject") \cup Of(I, "actions_secret")}
      \cup {e.target : e \in githubEdges(I)}

-----------------------------------------------------------------------------
(* GCP: the workload identity providers and the keys of accounts.          *)

isGithub(p) == p.issuer = GithubActions
pinsOne(p) == isGithub(p) /\ \E o \in p.owners : p.owners = {o}

SourceDomain(p) ==
    CASE pinsOne(p)       -> GithubOrg(CHOOSE o \in p.owners : TRUE)
      [] isGithub(p) /\ ~pinsOne(p) -> GithubIdp
      [] ~isGithub(p) /\ p.issuer # Null -> External(p.issuer[1])
      [] p.issuer = Null /\ p.aws # Null -> External(p.aws)
      [] OTHER -> Unresolved
SourceLabel(p) ==
    CASE pinsOne(p) -> <<"org", p.owners>>
      [] isGithub(p) /\ ~pinsOne(p) -> <<"GitHub Actions workloads">>
      [] OTHER -> <<"issuer", p.issuer, p.aws>>

SourceIssuer(p) ==
    CASE p.issuer # Null -> p.issuer
      [] p.issuer = Null /\ p.aws # Null -> <<"aws", p.aws>>
      [] OTHER -> Static

\* Mutant: no condition is no org pinned, and no more than that.
OnlyUnpinned(p) == If(isGithub(p) /\ p.owners = {}, "WIF_GITHUB_NO_ORG_PIN")
providerFindings(p) ==
    If(~p.conditioned, "WIF_NO_ATTRIBUTE_CONDITION")
      \cup If(isGithub(p) /\ p.owners = {}, "WIF_GITHUB_NO_ORG_PIN")

\* The accounts of the provider's own project that its pool may impersonate.
boundAccounts(I, p) ==
    {a \in Of(I, "service_account") : a.project = p.project /\ p.pool \in a.impersonators}
Targets(I, p) ==
    IF boundAccounts(I, p) = {} THEN {<<"pool", p.pool>>}
    ELSE {<<"account", a.email>> : a \in boundAccounts(I, p)}

providerEdges(I) ==
    UNION {{Edge(p, <<SourceDomain(p), SourceLabel(p)>>, <<Project(p.project), t>>, SourceIssuer(p),
                 "oidc-federation", p.conditioned, providerFindings(p)) : t \in Targets(I, p)} :
              p \in Of(I, "wif_provider")}
keyEdges(I) ==
    {Edge(k, <<Unresolved, <<k.key>>>>, <<Project(k.project), <<"account", k.email>>>>, Static, "sa-key",
          FALSE, {"GCP_USER_MANAGED_SA_KEY"}) :
        k \in {j \in Of(I, "sa_key") : j.userManaged}}

gcpEdges(I) == providerEdges(I) \cup keyEdges(I)
gcpDomains(I) ==
    {Project(i.project) : i \in Of(I, "wif_pool") \cup Of(I, "service_account")}
      \cup {e.source : e \in gcpEdges(I)} \cup {e.target : e \in gcpEdges(I)}

-----------------------------------------------------------------------------
(* Cloudflare: applications with their policies, logins and tokens.        *)

policies(I, a) == {p \in Of(I, "access_policy") : p.account = a.account /\ p.app = a.id}
wideOpen(I, a) ==
    \E p \in policies(I, a) : p.decision = "bypass" \/ (p.decision = "allow" /\ p.allowsEveryone)
factors(I, a) == UNION {p.factors : p \in {q \in policies(I, a) : q.decision = "allow"}}
StrongFactors == {"device-posture", "mfa"}

appConditional(I, a) == ~wideOpen(I, a) /\ factors(I, a) # {}
appFindings(I, a) ==
    If(wideOpen(I, a), "CF_ACCESS_POLICY_ALLOW_ALL")
      \cup If(~wideOpen(I, a) /\ policies(I, a) # {} /\ factors(I, a) \cap StrongFactors = {},
              "CF_ACCESS_NO_POSTURE")

appsOf(I, account) == {a \in Of(I, "access_app") : a.account = account}
\* An application that names no login admits them all.
referenced(I, d) == \E a \in appsOf(I, d.account) : a.allowedIdps = {} \/ d.id \in a.allowedIdps
evaluateIdp(I, d) ==
    If(d.open, "CF_IDP_OPEN_USER_POOL")
      \cup If(appsOf(I, d.account) # {} /\ ~referenced(I, d), "CF_IDP_UNREFERENCED")

Login(d) == <<External(d.id), <<d.name>>>>
idpEdges(I) ==
    {Edge(d, Login(d), <<Account(d.account), <<"account">>>>, d.issuer, "oidc-federation", FALSE,
          evaluateIdp(I, d)) : d \in Of(I, "identity_provider")}
      \cup UNION {{Edge(d, Login(d), <<App(a), <<a.name>>>>, d.issuer, "oidc-federation",
                        appConditional(I, a), {}) :
                     a \in {b \in appsOf(I, d.account) : d.id \in b.allowedIdps}} :
                  d \in Of(I, "identity_provider")}
appEdges(I) ==
    {Edge(a, <<Account(a.account), <<"Access-authenticated users">>>>, <<App(a), <<a.name>>>>,
          <<"cloudflare-access">>, "oidc-federation", appConditional(I, a), appFindings(I, a)) :
        a \in Of(I, "access_app")}
tokenEdges(I) ==
    {Edge(t, <<Unresolved, <<t.name>>>>, <<Account(t.account), <<"account">>>>, Static,
          "cf-service-token", FALSE, If(t.longLived, "CF_SERVICE_TOKEN_NO_EXPIRY")) :
        t \in Of(I, "service_token")}

cloudflareEdges(I) == idpEdges(I) \cup appEdges(I) \cup tokenEdges(I)
\* Every domain of this slice is an end of one of its edges.
cloudflareDomains(I) ==
    {e.source : e \in cloudflareEdges(I)} \cup {e.target : e \in cloudflareEdges(I)}

-----------------------------------------------------------------------------
(* The whole graph and its roll-up.                                        *)

Edges(I) == githubEdges(I) \cup gcpEdges(I) \cup cloudflareEdges(I)
Domains(I) == githubDomains(I) \cup gcpDomains(I) \cup cloudflareDomains(I)

Codes == {"WIF_NO_ATTRIBUTE_CONDITION", "GITHUB_STATIC_CLOUD_CREDENTIAL", "WIF_GITHUB_NO_ORG_PIN",
          "GCP_USER_MANAGED_SA_KEY", "CF_ACCESS_POLICY_ALLOW_ALL", "CF_ACCESS_NO_POSTURE",
          "CF_IDP_OPEN_USER_POOL", "CF_SERVICE_TOKEN_NO_EXPIRY", "CF_IDP_UNREFERENCED"}
Severities == {"critical", "high", "medium", "low"}

collectFindings(E) == {f \in E \X Codes : f[2] \in f[1].findings}

\* Math.round(Percent n / total)
pct(n, total) == IF total = 0 THEN Percent ELSE (2 * Percent * n + total) \div (2 * total)

computeInventory(D, E) ==
    LET ephemeral == Cardinality({e \in E : e.ephemeral})
        conditional == Cardinality({e \in E : e.conditional})
    IN  [domainCount |-> Cardinality(D), edgeCount |-> Cardinality(E),
         ephemeralEdgeCount |-> ephemeral, ephemeralPct |-> pct(ephemeral, Cardinality(E)),
         conditionalAccessEdgeCount |-> conditional,
         conditionalAccessPct |-> pct(conditional, Cardinality(E)),
         findingsBySeverity |-> [s \in Severities |->
             Cardinality({f \in collectFindings(E) : Severity(f[2]) = s})]]

\* Mutant: the two limits are mixed up.
MixedViolations(inv, a) ==
    \/ inv.findingsBySeverity["critical"] > a.maxHigh
    \/ inv.findingsBySeverity["high"] > a.maxCritical + a.maxHigh
    \/ inv.findingsBySeverity["medium"] > a.maxMedium
Violations(inv, a) ==
    \/ inv.findingsBySeverity["critical"] > a.maxCritical
    \/ inv.findingsBySeverity["high"] > a.maxHigh
    \/ inv.findingsBySeverity["medium"] > a.maxMedium
    \/ inv.ephemeralPct < a.minEphemeralPct
    \/ inv.conditionalAccessPct < a.minConditionalAccessPct

\* What the report says of a graph: the scorecard is the inventory's, the list is made
\* of the edges.
renderPosture(inv, E) ==
    [bySeverity |-> inv.findingsBySeverity, ephemeralPct |-> inv.ephemeralPct,
     conditionalAccessPct |-> inv.conditionalAccessPct, findings |-> collectFindings(E)]

-----------------------------------------------------------------------------
(* Builds, reports and gates over one store.                               *)

VARIABLES
    phase,          \* per run: "idle", "building", "built", "failed" or "over"
    inputs,         \* what its build was given
    domainsLeft, edgesLeft,     \* what its build has yet to write
    domains,        \* the latest trust_domain resource of each name
    edges,          \* the latest trust_edge resource of each id
    inventory,      \* the latest inventory, and the run that wrote it
    reports,        \* per run: what the report of its build says
    gate            \* per run: the thresholds it was judged by, and whether it passed

store == <<domains, edges, inventory>>
vars == <<phase, inputs, domainsLeft, edgesLeft, store, reports, gate>>

NoInventory == [by |-> Null]
NoReport == [made |-> FALSE]
NoGate == [passed |-> FALSE, args |-> AssertPostureArgs]

Init ==
    /\ phase = [r \in Runs |-> "idle"]
    /\ inputs = [r \in Runs |-> {}]
    /\ domainsLeft = [r \in Runs |-> {}] /\ edgesLeft = [r \in Runs |-> {}]
    /\ domains = {} /\ edges = {} /\ inventory = NoInventory
    /\ reports = [r \in Runs |-> NoReport]
    /\ gate = [r \in Runs |-> NoGate]

Build(r) ==
    /\ phase[r] = "idle"
    /\ phase' = [phase EXCEPT ![r] = "building"]
    /\ \E I \in Inputs[r] :
          /\ inputs' = [inputs EXCEPT ![r] = I]
          /\ domainsLeft' = [domainsLeft EXCEPT ![r] = Domains(I)]
          /\ edgesLeft' = [edgesLeft EXCEPT ![r] = Edges(I)]
    /\ UNCHANGED <<store, reports, gate>>

SameName(c, d) == sanitizeInstanceName(c) = sanitizeInstanceName(d)

WriteDomain(r) ==
    /\ phase[r] = "building"
    /\ \E d \in domainsLeft[r] :
          /\ domains' = {c \in domains : ~SameName(c, d)} \cup {d}
          /\ domainsLeft' = [domainsLeft EXCEPT ![r] = @ \ {d}]
    /\ UNCHANGED <<phase, inputs, edgesLeft, edges, inventory, reports, gate>>

\* Mutant: the edges are written with the domains.
AnyTime(r) == TRUE
EdgesNext(r) == domainsLeft[r] = {}

writeResource(E, e) == {f \in E : f.id # e.id} \cup {e}

WriteEdge(r) ==
    /\ phase[r] = "building" /\ EdgesNext(r)
    /\ \E e \in edgesLeft[r] :
          /\ edges' = writeResource(edges, e)
          /\ edgesLeft' = [edgesLeft EXCEPT ![r] = @ \ {e}]
    /\ UNCHANGED <<phase, inputs, domainsLeft, domains, inventory, reports, gate>>

WriteInventory(r) ==
    /\ phase[r] = "building" /\ domainsLeft[r] = {} /\ edgesLeft[r] = {}
    /\ phase' = [phase EXCEPT ![r] = "built"]
    /\ inventory' = [by |-> r, data |-> computeInventory(Domains(inputs[r]), Edges(inputs[r]))]
    /\ UNCHANGED <<inputs, domainsLeft, edgesLeft, domains, edges, reports, gate>>

\* A write fails; what was written stays.
BuildFails(r) ==
    /\ phase[r] = "building"
    /\ phase' = [phase EXCEPT ![r] = "failed"]
    /\ domainsLeft' = [domainsLeft EXCEPT ![r] = {}]
    /\ edgesLeft' = [edgesLeft EXCEPT ![r] = {}]
    /\ UNCHANGED <<inputs, store, reports, gate>>

\* Mutant: the report reads the latest edge of each id.
Latest(r, lost) == edges \ lost
\* The handles of a build name versions: each edge is read as it was written.  Handles
\* that cannot be read are passed over without a word.
ReadEdges(r, lost) == Edges(inputs[r]) \ lost

Tells(r, report) == reports' = [reports EXCEPT ![r] = report]
Error(what) == [made |-> TRUE, error |-> what]

\* The report follows its own build: a build that fails returns no handles.
Report(r) ==
    /\ ~reports[r].made
    /\ \/ phase[r] = "failed" /\ Tells(r, Error("noInventory"))
       \/ phase[r] = "built" /\ Tells(r, Error("unreadable"))
       \/ /\ phase[r] = "built"
          /\ \E lost \in SUBSET Edges(inputs[r]) :
                /\ Cardinality(lost) <= MaxUnreadable[r]
                /\ LET inv == computeInventory(Domains(inputs[r]), Edges(inputs[r]))
                   IN  Tells(r, [made |-> TRUE, error |-> Null,
                                 says |-> renderPosture(inv, ReadEdges(r, lost))])
    /\ UNCHANGED <<phase, inputs, domainsLeft, edgesLeft, store, gate>>

\* The gate job waits for the build job to complete, not to succeed.
assert_posture(r) ==
    /\ phase[r] \in {"built", "failed"}
    /\ phase' = [phase EXCEPT ![r] = "over"]
    /\ \E a \in Thresholds :
          gate' = [gate EXCEPT ![r] =
             [passed |-> inventory # NoInventory /\ ~Violations(inventory.data, a), args |-> a]]
    /\ UNCHANGED <<inputs, domainsLeft, edgesLeft, store, reports>>

Moves(r) ==
    \/ Build(r) \/ WriteDomain(r) \/ WriteEdge(r) \/ WriteInventory(r)
    \/ BuildFails(r) \/ Report(r) \/ assert_posture(r)

Next == \E r \in Runs : Moves(r)

Spec == Init /\ [][Next]_vars

-----------------------------------------------------------------------------
Phases == {"idle", "building", "built", "failed", "over"}

TypeOK ==
    /\ phase \in [Runs -> Phases]
    /\ \A r \in Runs :
          /\ phase[r] = "idle" \/ inputs[r] \in Inputs[r]
          /\ domainsLeft[r] \subseteq Domains(inputs[r]) /\ edgesLeft[r] \subseteq Edges(inputs[r])
          /\ phase[r] # "building" => domainsLeft[r] = {} /\ edgesLeft[r] = {}
    /\ \A c, d \in domains : SameName(c, d) => c = d
    /\ \A e, f \in edges : e.id = f.id => e = f
    /\ inventory = NoInventory \/ phase[inventory.by] \in {"built", "over"}
    /\ \A r \in Runs : gate[r].args \in Thresholds \cup {AssertPostureArgs}

\* Both ends of a stored edge are stored domains, in the middle of a build too, after
\* one that failed, and whatever other runs write at the same time; or a domain of
\* another id that has the same name is stored in the place of one, which a build
\* without a fault may do to its own.
Replaced(d) == \E c \in domains : c # d /\ SameName(c, d)
EndpointsKnown == \A e \in edges : \A d \in {e.source, e.target} : d \in domains \/ Replaced(d)

\* The risks the documentation lists, by severity, told from the scans' items.
Risk(I, severity) ==
    CASE severity = "critical" -> \E p \in Of(I, "wif_provider") : ~p.conditioned
      [] severity = "high" ->
            \/ \E s \in Of(I, "actions_secret") : s.looksLikeCloudCredential
            \/ \E k \in Of(I, "sa_key") : k.userManaged
            \/ \E p \in Of(I, "wif_provider") : p.issuer = GithubActions /\ p.owners = {}
            \/ \E p \in Of(I, "access_policy") :
                  /\ p.app \in {a.id : a \in appsOf(I, p.account)}
                  /\ p.decision = "bypass" \/ (p.decision = "allow" /\ p.allowsEveryone)
      [] severity = "medium" ->
            \/ \E d \in Of(I, "identity_provider") : d.open
            \/ \E t \in Of(I, "service_token") : t.longLived
            \/ \E a \in Of(I, "access_app") :
                  /\ policies(I, a) # {} /\ ~wideOpen(I, a)
                  /\ \A p \in policies(I, a) : p.decision = "allow" => p.factors \cap StrongFactors = {}
      [] severity = "low" ->
            \E d \in Of(I, "identity_provider") :
               /\ appsOf(I, d.account) # {}
               /\ \A a \in appsOf(I, d.account) : a.allowedIdps # {} /\ d.id \notin a.allowedIdps

\* The inventory counts a finding of a severity exactly if the items its build was
\* given bear a risk of that severity.
RisksCounted ==
    inventory # NoInventory =>
       \A s \in Severities :
          inventory.data.findingsBySeverity[s] > 0 <=> Risk(inputs[inventory.by], s)

\* A share that is told as full is not: it may leave out one edge in 2 * Percent.
NearlyAll(S, E) == 2 * Percent * Cardinality(E \ S) <= Cardinality(E)
EphemeralOf(E) == {e \in E : e.ephemeral}
ConditionalOf(E) == {e \in E : e.conditional}

\* A gate that passes has judged the inventory of a whole build, its own run's unless
\* that failed or another run was about as well: no risk it does not allow was there.
\* If it demands that every credential be ephemeral, no more than one in 2 * Percent
\* is not: 199 of 200 pass as 100%.
Alone(r) == \A q \in Runs \ {r} : phase[q] = "idle"
Allowed(a) == If(a.maxCritical > 0, "critical") \cup If(a.maxHigh > 0, "high") \cup If(a.maxMedium > 0, "medium")
GateExplained ==
    \A r \in Runs :
       gate[r].passed =>
          \E q \in Runs :
             /\ phase[q] \in {"built", "over"} /\ (Alone(r) => q = r)
             /\ \A s \in {"critical", "high", "medium"} \ Allowed(gate[r].args) : ~Risk(inputs[q], s)
             /\ gate[r].args.minEphemeralPct = Percent =>
                   NearlyAll(EphemeralOf(Edges(inputs[q])), Edges(inputs[q]))

\* Two items whose edges have one id: the code tells them by no more than this.
Twins(i, j) ==
    \/ /\ i.spec = "wif_provider" /\ j.spec = "wif_provider"
       /\ i.project = j.project /\ SourceIssuer(i) = SourceIssuer(j)
    \/ i.spec = "service_token" /\ j.spec = "service_token" /\ i.account = j.account /\ i.name = j.name

\* After a build every edge it derived is the stored one of its id, unless that is the
\* edge of such a twin: then a finding that is counted may be nowhere in the store.
EdgesStored ==
    \A r \in Runs :
       (phase[r] = "built" /\ Alone(r)) =>
          \A e \in Edges(inputs[r]) :
             e \in edges \/ \E f \in edges : e.id = f.id /\ e.of # f.of /\ Twins(e.of, f.of)

\* Whatever handles it could not read, a report that has a scorecard tells of no risk
\* that is not there, and of every one that is: in the scorecard, which then counts more
\* findings of that severity than are listed.  A share it tells as full is nearly that.
Listed(says, s) == Cardinality({f \in says.findings : Severity(f[2]) = s})
ReportAgrees ==
    \A r \in Runs :
       (reports[r].made /\ reports[r].error = Null) =>
          LET says == reports[r].says
              E == Edges(inputs[r])
          IN  /\ \A s \in Severities :
                    /\ Listed(says, s) <= says.bySeverity[s]
                    /\ Listed(says, s) > 0 => Risk(inputs[r], s)
                    /\ Risk(inputs[r], s) => says.bySeverity[s] > 0
              /\ says.ephemeralPct = Percent => NearlyAll(EphemeralOf(E), E)
              /\ says.conditionalAccessPct = Percent => NearlyAll(ConditionalOf(E), E)
=============================================================================
