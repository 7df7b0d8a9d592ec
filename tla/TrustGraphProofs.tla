-------------------------- MODULE TrustGraphProofs --------------------------
(***************************************************************************)
(* Proofs about TrustGraph, for any runs, items and thresholds: the type   *)
(* invariant, that no stored edge lacks an end, that the inventory counts  *)
(* the risks its items bear, what a gate that passes and a report that     *)
(* claims full coverage have therefore shown, and which of the edges a     *)
(* build has derived are in the store when it is over.  And about          *)
(* TrustGate, for any orgs, repositories, projects, accounts and items:    *)
(* what a scan that succeeds has stored or noted, and what a gate that     *)
(* passes after scans without notes has therefore seen.                    *)
(***************************************************************************)
EXTENDS TrustWork, FiniteSetTheorems, SequenceTheorems, WellFoundedInduction, TLAPS


-----------------------------------------------------------------------------
(* The derivation: the ends of an edge, and that there are finitely many.  *)

\* A slice registers both domains of every edge it derives.
LEMMA EdgeEnds ==
  ASSUME NEW I, NEW e \in Edges(I)
  PROVE  {e.source, e.target} \subseteq Domains(I)
  <1>1. CASE e \in githubEdges(I)
    <2>1. PICK s \in Of(I, "actions_secret") :
             e = Edge(s, <<GithubOrg(s.org), <<s.place>>>>, <<Unresolved, <<s.name>>>>, Static,
                      "github-secret", FALSE, {"GITHUB_STATIC_CLOUD_CREDENTIAL"})
      BY <1>1 DEF githubEdges
    <2>2. e.source = GithubOrg(s.org)
      BY <2>1 DEF Edge
    <2>3. e.source \in githubDomains(I) /\ e.target \in githubDomains(I)
      BY <1>1, <2>2 DEF githubDomains
    <2>4. QED
      BY <2>3 DEF Domains
  <1>2. CASE e \in gcpEdges(I)
    BY <1>2 DEF gcpDomains, Domains
  <1>3. CASE e \in cloudflareEdges(I)
    BY <1>3 DEF cloudflareDomains, Domains
  <1>4. QED
    BY <1>1, <1>2, <1>3 DEF Edges

\* The image of a finite set under a function is finite.
LEMMA ImageFinite ==
  ASSUME NEW S, IsFiniteSet(S), NEW f, DOMAIN f = S, f = [x \in S |-> f[x]]
  PROVE  IsFiniteSet({f[x] : x \in S})
  <1> DEFINE T == {f[x] : x \in S}
  <1>1. f \in Surjection(S, T)
    BY DEF Surjection
  <1>2. QED
    BY <1>1, FS_Surjection

LEMMA OfFinite ==
  ASSUME NEW I, IsFiniteSet(I), NEW spec
  PROVE  IsFiniteSet(Of(I, spec))
  BY FS_Subset DEF Of

-----------------------------------------------------------------------------
(* The type invariant.                                                     *)

\* What a build that writes has left, and what it has written.
Named(d) == \E c \in domains : SameName(c, d)
Written(r) ==
    phase[r] = "building" => \A d \in Domains(inputs[r]) \ domainsLeft[r] : Named(d)
AllNamed == \A e \in edges : Named(e.source) /\ Named(e.target)

Shape ==
    /\ phase \in [Runs -> Phases]
    /\ DOMAIN inputs = Runs /\ DOMAIN domainsLeft = Runs /\ DOMAIN edgesLeft = Runs
    /\ DOMAIN gate = Runs /\ DOMAIN reports = Runs

Ends == Shape /\ TypeOK /\ AllNamed /\ \A r \in Runs : Written(r)

LEMMA EndsInit == Init => Ends
  BY DEF Init, Ends, Shape, TypeOK, AllNamed, Written, Phases, NoInventory, NoGate

LEMMA EndsStep == Ends /\ [Next]_vars => Ends'
  <1> SUFFICES ASSUME Ends, [Next]_vars PROVE Ends'
    OBVIOUS
  <1> USE DEF Ends, Shape, Phases, Named
  <1>1. ASSUME NEW r \in Runs, Build(r) PROVE Ends'
    <2>1. PICK I \in Inputs[r] :
             /\ inputs' = [inputs EXCEPT ![r] = I]
             /\ domainsLeft' = [domainsLeft EXCEPT ![r] = Domains(I)]
             /\ edgesLeft' = [edgesLeft EXCEPT ![r] = Edges(I)]
      BY <1>1 DEF Build
    <2>2. Shape' /\ AllNamed'
      BY <1>1, <2>1 DEF Build, AllNamed, store
    <2>3. TypeOK'
      BY <1>1, <2>1 DEF Build, TypeOK, store, NoInventory
    <2>4. ASSUME NEW q \in Runs PROVE Written(q)'
      BY <1>1, <2>1 DEF Build, Written, store
    <2>5. QED
      BY <2>2, <2>3, <2>4
  <1>2. ASSUME NEW r \in Runs, WriteDomain(r) PROVE Ends'
    <2>1. PICK d \in domainsLeft[r] :
             /\ domains' = {c \in domains : ~SameName(c, d)} \cup {d}
             /\ domainsLeft' = [domainsLeft EXCEPT ![r] = @ \ {d}]
      BY <1>2 DEF WriteDomain
    <2>2. ASSUME NEW x, Named(x) \/ x = d PROVE Named(x)'
      <3>1. CASE \E c \in domains : SameName(c, x) /\ ~SameName(c, d)
        BY <2>1, <3>1
      <3>2. CASE ~ \E c \in domains : SameName(c, x) /\ ~SameName(c, d)
        <4>1. SameName(d, x)
          BY <2>2, <3>2 DEF SameName
        <4>2. QED
          BY <2>1, <4>1
      <3>3. QED
        BY <3>1, <3>2
    <2>3. Shape' /\ AllNamed'
      <3>1. Shape' /\ UNCHANGED edges
        BY <1>2, <2>1 DEF WriteDomain
      <3>2. \A e \in edges : Named(e.source)' /\ Named(e.target)'
        BY <2>2 DEF AllNamed
      <3>3. QED
        BY <3>1, <3>2 DEF AllNamed
    <2>4. TypeOK'
      <3>1. \A b, c \in domains' : SameName(b, c) => b = c
        BY <2>1 DEF TypeOK, SameName
      <3>2. QED
        BY <1>2, <2>1, <3>1 DEF WriteDomain, TypeOK, NoInventory
    <2>5. ASSUME NEW q \in Runs PROVE Written(q)'
      <3>1. UNCHANGED <<phase, inputs>>
        BY <1>2 DEF WriteDomain
      <3>2. \A x \in Domains(inputs[q]) \ domainsLeft'[q] :
               x \in Domains(inputs[q]) \ domainsLeft[q] \/ x = d
        BY <2>1
      <3>3. phase[q] = "building" => \A x \in Domains(inputs[q]) \ domainsLeft'[q] : Named(x)'
        BY <2>2, <3>2 DEF Written
      <3>4. QED
        BY <3>1, <3>3 DEF Written
    <2>6. QED
      BY <2>3, <2>4, <2>5
  <1>3. ASSUME NEW r \in Runs, WriteEdge(r) PROVE Ends'
    <2>1. PICK e \in edgesLeft[r] :
             /\ edges' = writeResource(edges, e)
             /\ edgesLeft' = [edgesLeft EXCEPT ![r] = @ \ {e}]
      BY <1>3 DEF WriteEdge
    <2>2. e \in Edges(inputs[r]) /\ \A d \in Domains(inputs[r]) : Named(d)
      BY <1>3, <2>1 DEF WriteEdge, EdgesNext, TypeOK, Written
    <2>3. AllNamed'
      <3>1. Named(e.source) /\ Named(e.target)
        BY <2>2, EdgeEnds
      <3>2. QED
        BY <1>3, <2>1, <3>1 DEF WriteEdge, AllNamed, writeResource
    <2>4. TypeOK'
      BY <1>3, <2>1 DEF WriteEdge, TypeOK, NoInventory, writeResource
    <2>5. Shape' /\ \A q \in Runs : Written(q)'
      BY <1>3, <2>1 DEF WriteEdge, Written
    <2>6. QED
      BY <2>3, <2>4, <2>5
  <1>4. ASSUME NEW r \in Runs, WriteInventory(r) PROVE Ends'
    <2>1. inventory'.by = r
      BY <1>4 DEF WriteInventory
    <2>2. QED
      BY <1>4, <2>1 DEF WriteInventory, TypeOK, AllNamed, Written
  <1>5. ASSUME NEW r \in Runs, BuildFails(r) PROVE Ends'
    BY <1>5 DEF BuildFails, TypeOK, AllNamed, Written, store, NoInventory
  <1>6. ASSUME NEW r \in Runs, Report(r) PROVE Ends'
    BY <1>6 DEF Report, Tells, Error, TypeOK, AllNamed, Written, store
  <1>7. ASSUME NEW r \in Runs, assert_posture(r) PROVE Ends'
    BY <1>7 DEF assert_posture, TypeOK, AllNamed, Written, store, NoInventory
  <1>8. CASE UNCHANGED vars
    BY <1>8 DEF vars, store, TypeOK, AllNamed, Written
  <1>9. QED
    BY <1>1, <1>2, <1>3, <1>4, <1>5, <1>6, <1>7, <1>8 DEF Next, Moves

\* Every variable keeps its type, whatever runs there are and whatever they scanned.
THEOREM TypeCorrect == Spec => []TypeOK
  BY EndsInit, EndsStep, PTL DEF Spec, Ends

\* No stored edge lacks an end, however builds interleave and wherever one fails; at most
\* a domain of another id with the same name is in the place of one.
THEOREM NoDanglingEdge == Spec => []EndpointsKnown
  <1>1. ASSUME Ends PROVE EndpointsKnown
    <2>1. ASSUME NEW d, Named(d) PROVE d \in domains \/ Replaced(d)
      BY <2>1 DEF Named, Replaced
    <2>2. QED
      BY <1>1, <2>1 DEF Ends, AllNamed, EndpointsKnown
  <1>2. QED
    BY <1>1, EndsInit, EndsStep, PTL DEF Spec

-----------------------------------------------------------------------------
(* What is found on the edges of a graph.                                  *)

LEMMA ProviderEdgesFinite ==
  ASSUME NEW I, IsFiniteSet(I)
  PROVE  IsFiniteSet(providerEdges(I))
  <1> DEFINE P == Of(I, "wif_provider")
             A == Of(I, "service_account")
             EdgeTo(p, t) == Edge(p, <<SourceDomain(p), SourceLabel(p)>>, <<Project(p.project), t>>,
                                  SourceIssuer(p), "oidc-federation", p.conditioned, providerFindings(p))
             toAccount == [x \in P \X A |-> EdgeTo(x[1], <<"account", x[2].email>>)]
             toPool == [p \in P |-> EdgeTo(p, <<"pool", p.pool>>)]
             U == {toAccount[x] : x \in P \X A} \cup {toPool[p] : p \in P}
  <1>1. IsFiniteSet(P) /\ IsFiniteSet(A)
    BY OfFinite
  <1>2. IsFiniteSet(P \X A)
    BY <1>1, FS_Product
  <1>3. IsFiniteSet({toAccount[x] : x \in P \X A})
    <2> HIDE DEF P, A, EdgeTo
    <2>1. DOMAIN toAccount = P \X A /\ toAccount = [x \in P \X A |-> toAccount[x]]
      OBVIOUS
    <2> HIDE DEF toAccount
    <2>2. QED
      BY <1>2, <2>1, ImageFinite
  <1>4. IsFiniteSet({toPool[p] : p \in P})
    <2> HIDE DEF P, EdgeTo
    <2>1. DOMAIN toPool = P /\ toPool = [p \in P |-> toPool[p]]
      OBVIOUS
    <2> HIDE DEF toPool
    <2>2. QED
      BY <1>1, <2>1, ImageFinite
  <1>5. IsFiniteSet(U)
    <2> HIDE DEF P, A, toAccount, toPool
    <2>1. QED
      BY <1>3, <1>4, FS_Union
  <1>6. ASSUME NEW e \in providerEdges(I) PROVE e \in U
    <2>0. PICK p \in P : \E t \in Targets(I, p) : e = EdgeTo(p, t)
      BY <1>6 DEF providerEdges
    <2>1. PICK t \in Targets(I, p) : e = EdgeTo(p, t)
      BY <2>0
    <2> HIDE DEF EdgeTo
    <2>2. CASE t = <<"pool", p.pool>>
      <3>1. e = toPool[p]
        BY <2>1, <2>2
      <3>2. QED
        BY <3>1
    <2>3. CASE t # <<"pool", p.pool>>
      <3>1. PICK a \in A : t = <<"account", a.email>>
        BY <2>1, <2>3 DEF Targets, boundAccounts
      <3>2. <<p, a>> \in P \X A /\ e = toAccount[<<p, a>>]
        BY <2>1, <3>1
      <3>3. QED
        BY <3>2
    <2>4. QED
      BY <2>2, <2>3
  <1>7. QED
    BY <1>5, <1>6, FS_Subset

LEMMA IdpEdgesFinite ==
  ASSUME NEW I, IsFiniteSet(I)
  PROVE  IsFiniteSet(idpEdges(I))
  <1> DEFINE D == Of(I, "identity_provider")
             A == Of(I, "access_app")
             toAccount == [d \in D |-> Edge(d, Login(d), <<Account(d.account), <<"account">>>>, d.issuer,
                                            "oidc-federation", FALSE, evaluateIdp(I, d))]
             toApp == [x \in D \X A |-> Edge(x[1], Login(x[1]), <<App(x[2]), <<x[2].name>>>>, x[1].issuer,
                                             "oidc-federation", appConditional(I, x[2]), {})]
             U == {toAccount[d] : d \in D} \cup {toApp[x] : x \in D \X A}
  <1>1. IsFiniteSet(D) /\ IsFiniteSet(A)
    BY OfFinite
  <1>2. IsFiniteSet(D \X A)
    BY <1>1, FS_Product
  <1>3. IsFiniteSet({toAccount[d] : d \in D})
    <2>1. DOMAIN toAccount = D /\ toAccount = [d \in D |-> toAccount[d]]
      OBVIOUS
    <2> HIDE DEF D, toAccount
    <2>2. QED
      BY <1>1, <2>1, ImageFinite
  <1>4. IsFiniteSet({toApp[x] : x \in D \X A})
    <2>1. DOMAIN toApp = D \X A /\ toApp = [x \in D \X A |-> toApp[x]]
      OBVIOUS
    <2> HIDE DEF D, A, toApp
    <2>2. QED
      BY <1>2, <2>1, ImageFinite
  <1>5. IsFiniteSet(U)
    <2> HIDE DEF D, A, toAccount, toApp
    <2>1. QED
      BY <1>3, <1>4, FS_Union
  <1>6. ASSUME NEW e \in idpEdges(I) PROVE e \in U
    <2>1. CASE \E d \in D : e = Edge(d, Login(d), <<Account(d.account), <<"account">>>>, d.issuer,
                                     "oidc-federation", FALSE, evaluateIdp(I, d))
      <3>1. \E d \in D : e = toAccount[d]
        BY <2>1
      <3>2. QED
        BY <3>1
    <2>2. CASE ~ \E d \in D : e = Edge(d, Login(d), <<Account(d.account), <<"account">>>>, d.issuer,
                                       "oidc-federation", FALSE, evaluateIdp(I, d))
      <3>1. PICK d \in D, a \in A :
               e = Edge(d, Login(d), <<App(a), <<a.name>>>>, d.issuer, "oidc-federation",
                        appConditional(I, a), {})
        BY <1>6, <2>2 DEF idpEdges, appsOf
      <3>2. <<d, a>> \in D \X A /\ e = toApp[<<d, a>>]
        BY <3>1
      <3>3. QED
        BY <3>2
    <2>3. QED
      BY <2>1, <2>2
  <1>7. QED
    BY <1>5, <1>6, FS_Subset

\* Finitely many items have finitely many edges, so that counting them makes sense.
LEMMA EdgesFinite ==
  ASSUME NEW I, IsFiniteSet(I)
  PROVE  IsFiniteSet(Edges(I))
  <1>1. IsFiniteSet(githubEdges(I))
    <2> DEFINE S == {t \in Of(I, "actions_secret") : t.looksLikeCloudCredential}
               f == [s \in S |-> Edge(s, <<GithubOrg(s.org), <<s.place>>>>, <<Unresolved, <<s.name>>>>,
                        Static, "github-secret", FALSE, {"GITHUB_STATIC_CLOUD_CREDENTIAL"})]
    <2>1. IsFiniteSet(S)
      BY OfFinite, FS_Subset
    <2>2. DOMAIN f = S /\ f = [s \in S |-> f[s]]
      OBVIOUS
    <2>3. githubEdges(I) = {f[s] : s \in S}
      BY DEF githubEdges
    <2> HIDE DEF S, f
    <2>4. QED
      BY <2>1, <2>2, <2>3, ImageFinite
  <1>2. IsFiniteSet(keyEdges(I))
    <2> DEFINE S == {j \in Of(I, "sa_key") : j.userManaged}
               f == [k \in S |-> Edge(k, <<Unresolved, <<k.key>>>>,
                        <<Project(k.project), <<"account", k.email>>>>, Static, "sa-key",
                        FALSE, {"GCP_USER_MANAGED_SA_KEY"})]
    <2>1. IsFiniteSet(S)
      BY OfFinite, FS_Subset
    <2>2. DOMAIN f = S /\ f = [s \in S |-> f[s]]
      OBVIOUS
    <2>3. keyEdges(I) = {f[s] : s \in S}
      BY DEF keyEdges
    <2> HIDE DEF S, f
    <2>4. QED
      BY <2>1, <2>2, <2>3, ImageFinite
  <1>3. IsFiniteSet(appEdges(I))
    <2> DEFINE S == Of(I, "access_app")
               f == [a \in S |-> Edge(a, <<Account(a.account), <<"Access-authenticated users">>>>,
                        <<App(a), <<a.name>>>>, <<"cloudflare-access">>, "oidc-federation",
                        appConditional(I, a), appFindings(I, a))]
    <2>1. IsFiniteSet(S)
      BY OfFinite
    <2>2. DOMAIN f = S /\ f = [s \in S |-> f[s]]
      OBVIOUS
    <2>3. appEdges(I) = {f[s] : s \in S}
      BY DEF appEdges
    <2> HIDE DEF S, f
    <2>4. QED
      BY <2>1, <2>2, <2>3, ImageFinite
  <1>4. IsFiniteSet(tokenEdges(I))
    <2> DEFINE S == Of(I, "service_token")
               f == [t \in S |-> Edge(t, <<Unresolved, <<t.name>>>>, <<Account(t.account), <<"account">>>>,
                        Static, "cf-service-token", FALSE, If(t.longLived, "CF_SERVICE_TOKEN_NO_EXPIRY"))]
    <2>1. IsFiniteSet(S)
      BY OfFinite
    <2>2. DOMAIN f = S /\ f = [s \in S |-> f[s]]
      OBVIOUS
    <2>3. tokenEdges(I) = {f[s] : s \in S}
      BY DEF tokenEdges
    <2> HIDE DEF S, f
    <2>4. QED
      BY <2>1, <2>2, <2>3, ImageFinite
  <1>5. IsFiniteSet(gcpEdges(I))
    BY <1>2, ProviderEdgesFinite, FS_Union DEF gcpEdges
  <1>6. IsFiniteSet(idpEdges(I) \cup appEdges(I))
    BY <1>3, IdpEdgesFinite, FS_Union
  <1>7. IsFiniteSet(cloudflareEdges(I))
    BY <1>4, <1>6, FS_Union DEF cloudflareEdges
  <1>8. IsFiniteSet(githubEdges(I) \cup gcpEdges(I))
    BY <1>1, <1>5, FS_Union
  <1>9. QED
    BY <1>7, <1>8, FS_Union DEF Edges

\* The codes found on a slice's edges are those found for its items.
LEMMA GithubCodes ==
  ASSUME NEW I, NEW c
  PROVE  (\E e \in githubEdges(I) : c \in e.findings)
            <=> /\ c = "GITHUB_STATIC_CLOUD_CREDENTIAL"
                /\ \E s \in Of(I, "actions_secret") : s.looksLikeCloudCredential
  <1>1. ASSUME NEW e \in githubEdges(I), c \in e.findings
        PROVE  /\ c = "GITHUB_STATIC_CLOUD_CREDENTIAL"
                /\ \E s \in Of(I, "actions_secret") : s.looksLikeCloudCredential
    <2>1. PICK s \in {t \in Of(I, "actions_secret") : t.looksLikeCloudCredential} :
             e = Edge(s, <<GithubOrg(s.org), <<s.place>>>>, <<Unresolved, <<s.name>>>>, Static,
                      "github-secret", FALSE, {"GITHUB_STATIC_CLOUD_CREDENTIAL"})
      BY <1>1 DEF githubEdges
    <2>2. e.findings = {"GITHUB_STATIC_CLOUD_CREDENTIAL"}
      BY <2>1 DEF Edge
    <2>3. QED
      BY <1>1, <2>1, <2>2
  <1>2. ASSUME NEW s \in {t \in Of(I, "actions_secret") : t.looksLikeCloudCredential}, c \in {"GITHUB_STATIC_CLOUD_CREDENTIAL"}
        PROVE  \E e \in githubEdges(I) : c \in e.findings
    <2> DEFINE e == Edge(s, <<GithubOrg(s.org), <<s.place>>>>, <<Unresolved, <<s.name>>>>, Static,
                      "github-secret", FALSE, {"GITHUB_STATIC_CLOUD_CREDENTIAL"})
    <2>1. e \in githubEdges(I)
      BY DEF githubEdges
    <2>2. e.findings = {"GITHUB_STATIC_CLOUD_CREDENTIAL"}
      BY DEF Edge
    <2>3. QED
      BY <1>2, <2>1, <2>2
  <1>3. QED
    BY <1>1, <1>2

LEMMA ProviderCodes ==
  ASSUME NEW I, NEW c
  PROVE  (\E e \in providerEdges(I) : c \in e.findings)
            <=> \E p \in Of(I, "wif_provider") : c \in providerFindings(p)
  <1>1. ASSUME NEW p \in Of(I, "wif_provider") PROVE Targets(I, p) # {}
    BY DEF Targets
  <1>2. ASSUME NEW p \in Of(I, "wif_provider"), c \in providerFindings(p)
        PROVE  \E e \in providerEdges(I) : c \in e.findings
    <2>1. PICK t \in Targets(I, p) : TRUE
      BY <1>1
    <2> DEFINE e == Edge(p, <<SourceDomain(p), SourceLabel(p)>>, <<Project(p.project), t>>,
                         SourceIssuer(p), "oidc-federation", p.conditioned, providerFindings(p))
    <2>2. e \in providerEdges(I)
      BY DEF providerEdges
    <2>3. e.findings = providerFindings(p)
      BY DEF Edge
    <2>4. QED
      BY <1>2, <2>2, <2>3
  <1>3. ASSUME NEW e \in providerEdges(I), c \in e.findings
        PROVE  \E p \in Of(I, "wif_provider") : c \in providerFindings(p)
    <2>1. PICK p \in Of(I, "wif_provider") : \E t \in Targets(I, p) :
             e = Edge(p, <<SourceDomain(p), SourceLabel(p)>>, <<Project(p.project), t>>,
                      SourceIssuer(p), "oidc-federation", p.conditioned, providerFindings(p))
      BY <1>3 DEF providerEdges
    <2>2. e.findings = providerFindings(p)
      BY <2>1 DEF Edge
    <2>3. QED
      BY <1>3, <2>2
  <1>4. QED
    BY <1>2, <1>3

LEMMA KeyCodes ==
  ASSUME NEW I, NEW c
  PROVE  (\E e \in keyEdges(I) : c \in e.findings)
            <=> c = "GCP_USER_MANAGED_SA_KEY" /\ \E k \in Of(I, "sa_key") : k.userManaged
  <1>1. ASSUME NEW e \in keyEdges(I), c \in e.findings
        PROVE  c = "GCP_USER_MANAGED_SA_KEY" /\ \E k \in Of(I, "sa_key") : k.userManaged
    <2>1. PICK k \in {j \in Of(I, "sa_key") : j.userManaged} :
             e = Edge(k, <<Unresolved, <<k.key>>>>, <<Project(k.project), <<"account", k.email>>>>, Static,
                      "sa-key", FALSE, {"GCP_USER_MANAGED_SA_KEY"})
      BY <1>1 DEF keyEdges
    <2>2. e.findings = {"GCP_USER_MANAGED_SA_KEY"}
      BY <2>1 DEF Edge
    <2>3. QED
      BY <1>1, <2>1, <2>2
  <1>2. ASSUME NEW k \in {j \in Of(I, "sa_key") : j.userManaged}, c \in {"GCP_USER_MANAGED_SA_KEY"}
        PROVE  \E e \in keyEdges(I) : c \in e.findings
    <2> DEFINE e == Edge(k, <<Unresolved, <<k.key>>>>, <<Project(k.project), <<"account", k.email>>>>, Static,
                      "sa-key", FALSE, {"GCP_USER_MANAGED_SA_KEY"})
    <2>1. e \in keyEdges(I)
      BY DEF keyEdges
    <2>2. e.findings = {"GCP_USER_MANAGED_SA_KEY"}
      BY DEF Edge
    <2>3. QED
      BY <1>2, <2>1, <2>2
  <1>3. QED
    BY <1>1, <1>2

LEMMA IdpCodes ==
  ASSUME NEW I, NEW c
  PROVE  (\E e \in idpEdges(I) : c \in e.findings)
            <=> \E d \in Of(I, "identity_provider") : c \in evaluateIdp(I, d)
  <1>1. ASSUME NEW d \in Of(I, "identity_provider"), c \in evaluateIdp(I, d)
        PROVE  \E e \in idpEdges(I) : c \in e.findings
    <2> DEFINE e == Edge(d, Login(d), <<Account(d.account), <<"account">>>>, d.issuer,
                         "oidc-federation", FALSE, evaluateIdp(I, d))
    <2>1. e \in idpEdges(I)
      BY DEF idpEdges
    <2>2. e.findings = evaluateIdp(I, d)
      BY DEF Edge
    <2>3. QED
      BY <1>1, <2>1, <2>2
  <1>2. ASSUME NEW e \in idpEdges(I), c \in e.findings
        PROVE  \E d \in Of(I, "identity_provider") : c \in evaluateIdp(I, d)
    <2>1. CASE \E d \in Of(I, "identity_provider") :
                  e = Edge(d, Login(d), <<Account(d.account), <<"account">>>>, d.issuer,
                           "oidc-federation", FALSE, evaluateIdp(I, d))
      <3>1. PICK d \in Of(I, "identity_provider") :
               e = Edge(d, Login(d), <<Account(d.account), <<"account">>>>, d.issuer,
                        "oidc-federation", FALSE, evaluateIdp(I, d))
        BY <2>1
      <3>2. e.findings = evaluateIdp(I, d)
        BY <3>1 DEF Edge
      <3>3. QED
        BY <1>2, <3>2
    <2>2. CASE \E d \in Of(I, "identity_provider") : \E a \in appsOf(I, d.account) :
                  e = Edge(d, Login(d), <<App(a), <<a.name>>>>, d.issuer, "oidc-federation",
                           appConditional(I, a), {})
      <3>1. e.findings = {}
        BY <2>2 DEF Edge
      <3>2. QED
        BY <1>2, <3>1
    <2>3. QED
      BY <1>2, <2>1, <2>2 DEF idpEdges
  <1>3. QED
    BY <1>1, <1>2

LEMMA AppCodes ==
  ASSUME NEW I, NEW c
  PROVE  (\E e \in appEdges(I) : c \in e.findings)
            <=> \E a \in Of(I, "access_app") : c \in appFindings(I, a)
  <1>1. ASSUME NEW e \in appEdges(I), c \in e.findings
        PROVE  \E a \in Of(I, "access_app") : c \in appFindings(I, a)
    <2>1. PICK a \in Of(I, "access_app") :
             e = Edge(a, <<Account(a.account), <<"Access-authenticated users">>>>, <<App(a), <<a.name>>>>,
                      <<"cloudflare-access">>, "oidc-federation", appConditional(I, a), appFindings(I, a))
      BY <1>1 DEF appEdges
    <2>2. e.findings = appFindings(I, a)
      BY <2>1 DEF Edge
    <2>3. QED
      BY <1>1, <2>1, <2>2
  <1>2. ASSUME NEW a \in Of(I, "access_app"), c \in appFindings(I, a)
        PROVE  \E e \in appEdges(I) : c \in e.findings
    <2> DEFINE e == Edge(a, <<Account(a.account), <<"Access-authenticated users">>>>, <<App(a), <<a.name>>>>,
                      <<"cloudflare-access">>, "oidc-federation", appConditional(I, a), appFindings(I, a))
    <2>1. e \in appEdges(I)
      BY DEF appEdges
    <2>2. e.findings = appFindings(I, a)
      BY DEF Edge
    <2>3. QED
      BY <1>2, <2>1, <2>2
  <1>3. QED
    BY <1>1, <1>2

LEMMA TokenCodes ==
  ASSUME NEW I, NEW c
  PROVE  (\E e \in tokenEdges(I) : c \in e.findings)
            <=> \E t \in Of(I, "service_token") : c \in If(t.longLived, "CF_SERVICE_TOKEN_NO_EXPIRY")
  <1>1. ASSUME NEW e \in tokenEdges(I), c \in e.findings
        PROVE  \E t \in Of(I, "service_token") : c \in If(t.longLived, "CF_SERVICE_TOKEN_NO_EXPIRY")
    <2>1. PICK t \in Of(I, "service_token") :
             e = Edge(t, <<Unresolved, <<t.name>>>>, <<Account(t.account), <<"account">>>>, Static,
                      "cf-service-token", FALSE, If(t.longLived, "CF_SERVICE_TOKEN_NO_EXPIRY"))
      BY <1>1 DEF tokenEdges
    <2>2. e.findings = If(t.longLived, "CF_SERVICE_TOKEN_NO_EXPIRY")
      BY <2>1 DEF Edge
    <2>3. QED
      BY <1>1, <2>1, <2>2
  <1>2. ASSUME NEW t \in Of(I, "service_token"), c \in If(t.longLived, "CF_SERVICE_TOKEN_NO_EXPIRY")
        PROVE  \E e \in tokenEdges(I) : c \in e.findings
    <2> DEFINE e == Edge(t, <<Unresolved, <<t.name>>>>, <<Account(t.account), <<"account">>>>, Static,
                      "cf-service-token", FALSE, If(t.longLived, "CF_SERVICE_TOKEN_NO_EXPIRY"))
    <2>1. e \in tokenEdges(I)
      BY DEF tokenEdges
    <2>2. e.findings = If(t.longLived, "CF_SERVICE_TOKEN_NO_EXPIRY")
      BY DEF Edge
    <2>3. QED
      BY <1>2, <2>1, <2>2
  <1>3. QED
    BY <1>1, <1>2

LEMMA EdgesSplit ==
  ASSUME NEW I, NEW c
  PROVE  (\E e \in Edges(I) : c \in e.findings)
            <=> \/ \E e \in githubEdges(I) : c \in e.findings
                \/ \E e \in providerEdges(I) : c \in e.findings
                \/ \E e \in keyEdges(I) : c \in e.findings
                \/ \E e \in idpEdges(I) : c \in e.findings
                \/ \E e \in appEdges(I) : c \in e.findings
                \/ \E e \in tokenEdges(I) : c \in e.findings
  BY DEF Edges, gcpEdges, cloudflareEdges

\* A code is found on some edge exactly if an item bears what it stands for.
Cause(I, c) ==
    CASE c = "WIF_NO_ATTRIBUTE_CONDITION" -> \E p \in Of(I, "wif_provider") : ~p.conditioned
      [] c = "WIF_GITHUB_NO_ORG_PIN" -> \E p \in Of(I, "wif_provider") : isGithub(p) /\ p.owners = {}
      [] c = "GITHUB_STATIC_CLOUD_CREDENTIAL" ->
            \E s \in Of(I, "actions_secret") : s.looksLikeCloudCredential
      [] c = "GCP_USER_MANAGED_SA_KEY" -> \E k \in Of(I, "sa_key") : k.userManaged
      [] c = "CF_ACCESS_POLICY_ALLOW_ALL" -> \E a \in Of(I, "access_app") : wideOpen(I, a)
      [] c = "CF_ACCESS_NO_POSTURE" ->
            \E a \in Of(I, "access_app") :
               ~wideOpen(I, a) /\ policies(I, a) # {} /\ factors(I, a) \cap StrongFactors = {}
      [] c = "CF_IDP_OPEN_USER_POOL" -> \E d \in Of(I, "identity_provider") : d.open
      [] c = "CF_IDP_UNREFERENCED" ->
            \E d \in Of(I, "identity_provider") : appsOf(I, d.account) # {} /\ ~referenced(I, d)
      [] c = "CF_SERVICE_TOKEN_NO_EXPIRY" -> \E t \in Of(I, "service_token") : t.longLived

LEMMA CodesExplained ==
  ASSUME NEW I, NEW c \in Codes
  PROVE  (\E e \in Edges(I) : c \in e.findings) <=> Cause(I, c)
  <1>1. (\E e \in Edges(I) : c \in e.findings)
           <=> \/ /\ c = "GITHUB_STATIC_CLOUD_CREDENTIAL"
                  /\ \E s \in Of(I, "actions_secret") : s.looksLikeCloudCredential
               \/ \E p \in Of(I, "wif_provider") : c \in providerFindings(p)
               \/ c = "GCP_USER_MANAGED_SA_KEY" /\ \E k \in Of(I, "sa_key") : k.userManaged
               \/ \E d \in Of(I, "identity_provider") : c \in evaluateIdp(I, d)
               \/ \E a \in Of(I, "access_app") : c \in appFindings(I, a)
               \/ \E t \in Of(I, "service_token") : c \in If(t.longLived, "CF_SERVICE_TOKEN_NO_EXPIRY")
    BY EdgesSplit, GithubCodes, ProviderCodes, KeyCodes, IdpCodes, AppCodes, TokenCodes
  <1>2. \A p : c \in providerFindings(p)
                  <=> \/ c = "WIF_NO_ATTRIBUTE_CONDITION" /\ ~p.conditioned
                      \/ c = "WIF_GITHUB_NO_ORG_PIN" /\ isGithub(p) /\ p.owners = {}
    BY DEF providerFindings, If
  <1>3. \A d : c \in evaluateIdp(I, d)
                  <=> \/ c = "CF_IDP_OPEN_USER_POOL" /\ d.open
                      \/ c = "CF_IDP_UNREFERENCED" /\ appsOf(I, d.account) # {} /\ ~referenced(I, d)
    BY DEF evaluateIdp, If
  <1>4. \A a : c \in appFindings(I, a)
                  <=> \/ c = "CF_ACCESS_POLICY_ALLOW_ALL" /\ wideOpen(I, a)
                      \/ /\ c = "CF_ACCESS_NO_POSTURE" /\ ~wideOpen(I, a) /\ policies(I, a) # {}
                         /\ factors(I, a) \cap StrongFactors = {}
    BY DEF appFindings, If
  <1>5. \A t : c \in If(t.longLived, "CF_SERVICE_TOKEN_NO_EXPIRY")
                  <=> c = "CF_SERVICE_TOKEN_NO_EXPIRY" /\ t.longLived
    BY DEF If
  <1>6. CASE c = "WIF_NO_ATTRIBUTE_CONDITION"
    BY <1>6, <1>1, <1>2, <1>3, <1>4, <1>5 DEF Cause
  <1>7. CASE c = "WIF_GITHUB_NO_ORG_PIN"
    BY <1>7, <1>1, <1>2, <1>3, <1>4, <1>5 DEF Cause
  <1>8. CASE c = "GITHUB_STATIC_CLOUD_CREDENTIAL"
    BY <1>8, <1>1, <1>2, <1>3, <1>4, <1>5 DEF Cause
  <1>9. CASE c = "GCP_USER_MANAGED_SA_KEY"
    BY <1>9, <1>1, <1>2, <1>3, <1>4, <1>5 DEF Cause
  <1>10. CASE c = "CF_ACCESS_POLICY_ALLOW_ALL"
    BY <1>10, <1>1, <1>2, <1>3, <1>4, <1>5 DEF Cause
  <1>11. CASE c = "CF_ACCESS_NO_POSTURE"
    BY <1>11, <1>1, <1>2, <1>3, <1>4, <1>5 DEF Cause
  <1>12. CASE c = "CF_IDP_OPEN_USER_POOL"
    BY <1>12, <1>1, <1>2, <1>3, <1>4, <1>5 DEF Cause
  <1>13. CASE c = "CF_IDP_UNREFERENCED"
    BY <1>13, <1>1, <1>2, <1>3, <1>4, <1>5 DEF Cause
  <1>14. CASE c = "CF_SERVICE_TOKEN_NO_EXPIRY"
    BY <1>14, <1>1, <1>2, <1>3, <1>4, <1>5 DEF Cause
  <1>15. QED
    BY <1>6, <1>7, <1>8, <1>9, <1>10, <1>11, <1>12, <1>13, <1>14 DEF Codes

LEMMA AppRisks ==
  ASSUME NEW I
  PROVE  /\ (\E a \in Of(I, "access_app") : wideOpen(I, a))
               <=> \E p \in Of(I, "access_policy") :
                      /\ p.app \in {a.id : a \in appsOf(I, p.account)}
                      /\ p.decision = "bypass" \/ (p.decision = "allow" /\ p.allowsEveryone)
         /\ \A a \in Of(I, "access_app") :
               factors(I, a) \cap StrongFactors = {}
                  <=> \A p \in policies(I, a) :
                         p.decision = "allow" => p.factors \cap StrongFactors = {}
         /\ \A d : referenced(I, d)
                     <=> \E a \in appsOf(I, d.account) : a.allowedIdps = {} \/ d.id \in a.allowedIdps
  <1>1. ASSUME NEW a \in Of(I, "access_app"), wideOpen(I, a)
        PROVE  \E p \in Of(I, "access_policy") :
                  /\ p.app \in {b.id : b \in appsOf(I, p.account)}
                  /\ p.decision = "bypass" \/ (p.decision = "allow" /\ p.allowsEveryone)
    BY <1>1 DEF wideOpen, policies, appsOf
  <1>2. ASSUME NEW p \in Of(I, "access_policy"), p.app \in {b.id : b \in appsOf(I, p.account)},
               p.decision = "bypass" \/ (p.decision = "allow" /\ p.allowsEveryone)
        PROVE  \E a \in Of(I, "access_app") : wideOpen(I, a)
    BY <1>2 DEF wideOpen, policies, appsOf
  <1>3. ASSUME NEW a \in Of(I, "access_app")
        PROVE  factors(I, a) \cap StrongFactors = {}
                  <=> \A p \in policies(I, a) :
                         p.decision = "allow" => p.factors \cap StrongFactors = {}
    BY DEF factors
  <1>4. QED
    BY <1>1, <1>2, <1>3 DEF referenced

\* Findings of a severity are found on the edges exactly if the items bear such a risk.
LEMMA RisksFound ==
  ASSUME NEW I, NEW s \in Severities
  PROVE  (\E e \in Edges(I), c \in Codes : c \in e.findings /\ Severity(c) = s) <=> Risk(I, s)
  <1>1. (\E e \in Edges(I), c \in Codes : c \in e.findings /\ Severity(c) = s)
           <=> \E c \in Codes : Cause(I, c) /\ Severity(c) = s
    BY CodesExplained
  <1>2. CASE s = "critical"
    <2>1. \A c \in Codes : Severity(c) = s <=> c = "WIF_NO_ATTRIBUTE_CONDITION"
      BY <1>2 DEF Codes, Severity
    <2>2. "WIF_NO_ATTRIBUTE_CONDITION" \in Codes
      BY DEF Codes
    <2>3. QED
      BY <1>1, <1>2, <2>1, <2>2 DEF Cause, Risk
  <1>3. CASE s = "high"
    <2> DEFINE H == {"GITHUB_STATIC_CLOUD_CREDENTIAL", "WIF_GITHUB_NO_ORG_PIN",
                     "GCP_USER_MANAGED_SA_KEY", "CF_ACCESS_POLICY_ALLOW_ALL"}
    <2>1. H \subseteq Codes /\ \A c \in Codes : Severity(c) = s <=> c \in H
      BY <1>3 DEF Codes, Severity
    <2>2. (\E c \in Codes : Cause(I, c) /\ Severity(c) = s)
             <=> \/ Cause(I, "GITHUB_STATIC_CLOUD_CREDENTIAL") \/ Cause(I, "WIF_GITHUB_NO_ORG_PIN")
                 \/ Cause(I, "GCP_USER_MANAGED_SA_KEY") \/ Cause(I, "CF_ACCESS_POLICY_ALLOW_ALL")
      BY <2>1
    <2>3. Risk(I, "high")
             <=> \/ Cause(I, "GITHUB_STATIC_CLOUD_CREDENTIAL") \/ Cause(I, "WIF_GITHUB_NO_ORG_PIN")
                 \/ Cause(I, "GCP_USER_MANAGED_SA_KEY") \/ Cause(I, "CF_ACCESS_POLICY_ALLOW_ALL")
      BY AppRisks DEF Cause, Risk, isGithub
    <2>4. QED
      BY <1>1, <1>3, <2>2, <2>3
  <1>4. CASE s = "medium"
    <2> DEFINE H == {"CF_ACCESS_NO_POSTURE", "CF_IDP_OPEN_USER_POOL", "CF_SERVICE_TOKEN_NO_EXPIRY"}
    <2>1. H \subseteq Codes /\ \A c \in Codes : Severity(c) = s <=> c \in H
      BY <1>4 DEF Codes, Severity
    <2>2. (\E c \in Codes : Cause(I, c) /\ Severity(c) = s)
             <=> \/ Cause(I, "CF_ACCESS_NO_POSTURE") \/ Cause(I, "CF_IDP_OPEN_USER_POOL")
                 \/ Cause(I, "CF_SERVICE_TOKEN_NO_EXPIRY")
      BY <2>1
    <2>3. Risk(I, "medium")
             <=> \/ Cause(I, "CF_ACCESS_NO_POSTURE") \/ Cause(I, "CF_IDP_OPEN_USER_POOL")
                 \/ Cause(I, "CF_SERVICE_TOKEN_NO_EXPIRY")
      BY AppRisks DEF Cause, Risk
    <2>4. QED
      BY <1>1, <1>4, <2>2, <2>3
  <1>5. CASE s = "low"
    <2>1. \A c \in Codes : Severity(c) = s <=> c = "CF_IDP_UNREFERENCED"
      BY <1>5 DEF Codes, Severity
    <2>2. "CF_IDP_UNREFERENCED" \in Codes
      BY DEF Codes
    <2>3. Risk(I, "low") <=> Cause(I, "CF_IDP_UNREFERENCED")
      BY AppRisks DEF Cause, Risk
    <2>4. QED
      BY <1>1, <1>5, <2>1, <2>2, <2>3
  <1>6. QED
    BY <1>2, <1>3, <1>4, <1>5 DEF Severities

LEMMA FindingsFinite ==
  ASSUME NEW E, IsFiniteSet(E), NEW s
  PROVE  IsFiniteSet({f \in collectFindings(E) : Severity(f[2]) = s})
  <1>1. IsFiniteSet(Codes)
    <2>2. IsFiniteSet(1 .. 9)
      <3>1. 1 \in Int /\ 9 \in Int
        OBVIOUS
      <3>2. QED
        BY <3>1, FS_Interval
    <2> DEFINE f == [i \in 1 .. 9 |->
                 CASE i = 1 -> "WIF_NO_ATTRIBUTE_CONDITION" [] i = 2 -> "GITHUB_STATIC_CLOUD_CREDENTIAL"
                   [] i = 3 -> "WIF_GITHUB_NO_ORG_PIN" [] i = 4 -> "GCP_USER_MANAGED_SA_KEY"
                   [] i = 5 -> "CF_ACCESS_POLICY_ALLOW_ALL" [] i = 6 -> "CF_ACCESS_NO_POSTURE"
                   [] i = 7 -> "CF_IDP_OPEN_USER_POOL" [] i = 8 -> "CF_SERVICE_TOKEN_NO_EXPIRY"
                   [] i = 9 -> "CF_IDP_UNREFERENCED"]
    <2>1. Codes \subseteq {f[i] : i \in 1 .. 9}
      <3>1. ASSUME NEW c \in Codes PROVE \E i \in 1 .. 9 : c = f[i]
        <4>1. /\ f[1] = "WIF_NO_ATTRIBUTE_CONDITION" /\ f[2] = "GITHUB_STATIC_CLOUD_CREDENTIAL"
              /\ f[3] = "WIF_GITHUB_NO_ORG_PIN" /\ f[4] = "GCP_USER_MANAGED_SA_KEY"
              /\ f[5] = "CF_ACCESS_POLICY_ALLOW_ALL" /\ f[6] = "CF_ACCESS_NO_POSTURE"
              /\ f[7] = "CF_IDP_OPEN_USER_POOL" /\ f[8] = "CF_SERVICE_TOKEN_NO_EXPIRY"
              /\ f[9] = "CF_IDP_UNREFERENCED"
          OBVIOUS
        <4>2. 1 \in 1 .. 9 /\ 2 \in 1 .. 9 /\ 3 \in 1 .. 9 /\ 4 \in 1 .. 9 /\ 5 \in 1 .. 9
                /\ 6 \in 1 .. 9 /\ 7 \in 1 .. 9 /\ 8 \in 1 .. 9 /\ 9 \in 1 .. 9
          OBVIOUS
        <4> HIDE DEF f
        <4>3. QED
          BY <4>1, <4>2 DEF Codes
      <3>2. QED
        BY <3>1
    <2>3. DOMAIN f = 1 .. 9 /\ f = [i \in 1 .. 9 |-> f[i]]
      OBVIOUS
    <2> HIDE DEF f
    <2>4. IsFiniteSet({f[i] : i \in 1 .. 9})
      BY <2>2, <2>3, ImageFinite
    <2>5. QED
      BY <2>1, <2>4, FS_Subset
  <1>2. IsFiniteSet(E \X Codes)
    BY <1>1, FS_Product
  <1>3. {f \in collectFindings(E) : Severity(f[2]) = s} \subseteq E \X Codes
    BY DEF collectFindings
  <1>4. QED
    BY <1>2, <1>3, FS_Subset

\* The inventory of a graph counts findings of a severity exactly if its items bear one.
LEMMA RisksRolledUp ==
  ASSUME NEW I, IsFiniteSet(I), NEW D, NEW s \in Severities
  PROVE  /\ computeInventory(D, Edges(I)).findingsBySeverity[s] \in Nat
         /\ computeInventory(D, Edges(I)).findingsBySeverity[s] > 0 <=> Risk(I, s)
  <1> DEFINE F == {f \in collectFindings(Edges(I)) : Severity(f[2]) = s}
  <1>1. computeInventory(D, Edges(I)).findingsBySeverity[s] = Cardinality(F)
    BY DEF computeInventory
  <1>2. IsFiniteSet(F)
    BY EdgesFinite, FindingsFinite
  <1>3. Cardinality(F) \in Nat /\ (Cardinality(F) = 0 <=> F = {})
    BY <1>2, FS_CardinalityType, FS_EmptySet
  <1>4. F # {} <=> \E e \in Edges(I), c \in Codes : c \in e.findings /\ Severity(c) = s
    <2>1. ASSUME NEW f \in F
          PROVE  \E e \in Edges(I), c \in Codes : c \in e.findings /\ Severity(c) = s
      BY DEF collectFindings
    <2>2. ASSUME NEW e \in Edges(I), NEW c \in Codes, c \in e.findings, Severity(c) = s
          PROVE  <<e, c>> \in F
      BY <2>2 DEF collectFindings
    <2>3. QED
      BY <2>1, <2>2
  <1>5. QED
    BY <1>1, <1>3, <1>4, RisksFound

-----------------------------------------------------------------------------
(* The inventory, the gate and the report of a run.                        *)

Whole(r) == computeInventory(Domains(inputs[r]), Edges(inputs[r]))

\* A report with a scorecard is of a completed build, and lists what it read of it.
Reported ==
    \A r \in Runs :
       reports[r].made /\ reports[r].error = Null =>
          /\ phase[r] \in {"built", "over"}
          /\ \E lost \in SUBSET Edges(inputs[r]) :
                reports[r].says = renderPosture(Whole(r), Edges(inputs[r]) \ lost)

\* The inventory is that of one whole build; so is every one a gate let pass.
Judged ==
    /\ inventory # NoInventory =>
          \E q \in Runs : phase[q] \in {"built", "over"} /\ inventory = [by |-> q, data |-> Whole(q)]
    /\ \A r \in Runs :
          gate[r].passed =>
             \E q \in Runs : /\ phase[q] \in {"built", "over"} /\ (Alone(r) => q = r)
                             /\ ~Violations(Whole(q), gate[r].args)
    /\ Reported

LEMMA JudgedInit == Init => Judged
  BY DEF Init, Judged, Reported, NoGate, NoReport

LEMMA ReportedKept ==
  ASSUME Reported, UNCHANGED reports,
         \A q \in Runs : phase[q] \in {"built", "over"} =>
            phase'[q] \in {"built", "over"} /\ inputs'[q] = inputs[q]
  PROVE  Reported'
  BY DEF Reported, Whole

LEMMA JudgedStep == Ends /\ Judged /\ [Next]_vars => Judged'
  <1> SUFFICES ASSUME Ends, Judged, [Next]_vars PROVE Judged'
    OBVIOUS
  <1> USE DEF Judged, Alone, Whole
  <1>0. Shape
    BY DEF Ends
  <1>1. ASSUME NEW r \in Runs, Build(r) PROVE Judged'
    <2>1. \A q \in Runs : phase[q] \in {"built", "over"} =>
             phase'[q] = phase[q] /\ inputs'[q] = inputs[q]
      BY <1>0, <1>1 DEF Build, Shape
    <2>2. \A q \in Runs : phase'[q] = "idle" => phase[q] = "idle"
      BY <1>0, <1>1 DEF Build, Shape
    <2>3. UNCHANGED <<inventory, gate, reports>>
      BY <1>1 DEF Build, store
    <2>4. Reported'
      BY <2>1, <2>3, ReportedKept
    <2>5. QED
      BY <2>1, <2>2, <2>3, <2>4
  <1>2. ASSUME NEW r \in Runs, WriteDomain(r) PROVE Judged'
    <2>1. UNCHANGED <<phase, inputs, inventory, gate, reports>>
      BY <1>2 DEF WriteDomain
    <2>2. Reported'
      BY <2>1, ReportedKept
    <2>3. QED
      BY <2>1, <2>2
  <1>3. ASSUME NEW r \in Runs, WriteEdge(r) PROVE Judged'
    <2>1. UNCHANGED <<phase, inputs, inventory, gate, reports>>
      BY <1>3 DEF WriteEdge
    <2>2. Reported'
      BY <2>1, ReportedKept
    <2>3. QED
      BY <2>1, <2>2
  <1>4. ASSUME NEW r \in Runs, WriteInventory(r) PROVE Judged'
    <2>1. \A q \in Runs : phase[q] \in {"built", "over"} => phase'[q] = phase[q]
      BY <1>0, <1>4 DEF WriteInventory, Shape
    <2>2. \A q \in Runs : phase'[q] = "idle" => phase[q] = "idle"
      BY <1>0, <1>4 DEF WriteInventory, Shape
    <2>3. phase'[r] = "built" /\ inventory' = [by |-> r, data |-> Whole(r)'] /\ UNCHANGED <<inputs, gate, reports>>
      BY <1>0, <1>4 DEF WriteInventory, Shape
    <2>4. Reported'
      BY <2>1, <2>3, ReportedKept
    <2>5. QED
      BY <2>1, <2>2, <2>3, <2>4
  <1>5. ASSUME NEW r \in Runs, BuildFails(r) PROVE Judged'
    <2>1. \A q \in Runs : phase[q] \in {"built", "over"} => phase'[q] = phase[q]
      BY <1>0, <1>5 DEF BuildFails, Shape
    <2>2. \A q \in Runs : phase'[q] = "idle" => phase[q] = "idle"
      BY <1>0, <1>5 DEF BuildFails, Shape
    <2>3. UNCHANGED <<inventory, inputs, gate, reports>>
      BY <1>5 DEF BuildFails, store
    <2>4. Reported'
      BY <2>1, <2>3, ReportedKept
    <2>5. QED
      BY <2>1, <2>2, <2>3, <2>4
  <1>6. ASSUME NEW r \in Runs, Report(r) PROVE Judged'
    <2>1. UNCHANGED <<inventory, inputs, gate, phase>>
      BY <1>6 DEF Report, store
    <2>2. ASSUME NEW q \in Runs, reports'[q].made, reports'[q].error = Null
          PROVE  /\ phase[q] \in {"built", "over"}
                 /\ \E lost \in SUBSET Edges(inputs[q]) :
                       reports'[q].says = renderPosture(Whole(q), Edges(inputs[q]) \ lost)
      <3>1. CASE q # r
        <4>1. reports'[q] = reports[q]
          BY <1>0, <1>6, <3>1 DEF Report, Tells, Shape
        <4>2. QED
          BY <2>2, <4>1 DEF Reported
      <3>2. CASE q = r
        <4>1. reports'[r].error = Null
          BY <2>2, <3>2
        <4>2. CASE phase[r] \in {"built", "failed"} /\ \E w \in {"noInventory", "unreadable"} : Tells(r, Error(w))
          <5>1. PICK w \in {"noInventory", "unreadable"} : reports'[r] = Error(w)
            BY <1>0, <4>2 DEF Tells, Shape
          <5>2. Null \in {"noInventory", "unreadable"}
            BY <4>1, <5>1 DEF Error
          <5>3. QED
            BY <5>2, NullAssumption
        <4>3. CASE /\ phase[r] = "built"
                   /\ \E lost \in SUBSET Edges(inputs[r]) :
                         Tells(r, [made |-> TRUE, error |-> Null,
                                   says |-> renderPosture(Whole(r), ReadEdges(r, lost))])
          <5>1. PICK lost \in SUBSET Edges(inputs[r]) :
                   reports'[r] = [made |-> TRUE, error |-> Null,
                                  says |-> renderPosture(Whole(r), Edges(inputs[r]) \ lost)]
            BY <1>0, <4>3 DEF Tells, Shape, ReadEdges
          <5>2. reports'[r].says = renderPosture(Whole(r), Edges(inputs[r]) \ lost)
            BY <5>1
          <5>3. QED
            BY <3>2, <4>3, <5>2
        <4>4. QED
          BY <1>6, <4>2, <4>3 DEF Report
      <3>3. QED
        BY <3>1, <3>2
    <2>3. Reported'
      BY <2>1, <2>2 DEF Reported
    <2>4. QED
      BY <2>1, <2>3
  <1>7. ASSUME NEW r \in Runs, assert_posture(r) PROVE Judged'
    <2> HIDE DEF Judged, Alone, Whole
    <2>1. PICK a \in Thresholds :
             gate' = [gate EXCEPT ![r] =
                [passed |-> inventory # NoInventory /\ ~Violations(inventory.data, a), args |-> a]]
      BY <1>7 DEF assert_posture
    <2>2. UNCHANGED <<inventory, inputs, reports>> /\ phase[r] \in {"built", "failed"}
      BY <1>7 DEF assert_posture, store
    <2>3. /\ \A q \in Runs : phase[q] \in {"built", "over"} => phase'[q] \in {"built", "over"}
          /\ \A q \in Runs : phase'[q] = "idle" <=> phase[q] = "idle"
      BY <1>0, <1>7 DEF assert_posture, Shape
    <2>4. ASSUME NEW p \in Runs, gate'[p].passed
          PROVE  \E q \in Runs : /\ phase'[q] \in {"built", "over"} /\ (Alone(p)' => q = p)
                                 /\ ~Violations(Whole(q)', gate'[p].args)
      <3>a. \A q \in Runs : Whole(q)' = Whole(q)
        BY <2>2 DEF Whole
      <3>b. Alone(p)' => Alone(p)
        BY <2>3 DEF Alone
      <3>1. CASE p # r
        <4>1. gate'[p] = gate[p]
          BY <1>0, <2>1, <3>1 DEF Shape
        <4>2. gate[p].passed
          BY <2>4, <4>1
        <4>3. PICK q \in Runs : /\ phase[q] \in {"built", "over"} /\ (Alone(p) => q = p)
                                /\ ~Violations(Whole(q), gate[p].args)
          BY <4>2 DEF Judged
        <4>4. QED
          BY <2>3, <3>a, <3>b, <4>1, <4>3
      <3>2. CASE p = r
        <4>1. /\ gate'[r].passed = (inventory # NoInventory /\ ~Violations(inventory.data, a))
              /\ gate'[r].args = a
          BY <1>0, <2>1 DEF Shape
        <4>2. inventory # NoInventory /\ ~Violations(inventory.data, a)
          BY <2>4, <3>2, <4>1
        <4>3. PICK q \in Runs : phase[q] \in {"built", "over"} /\ inventory = [by |-> q, data |-> Whole(q)]
          BY <4>2 DEF Judged
        <4>4. inventory.data = Whole(q)
          BY <4>3
        <4>5. ~Violations(Whole(q)', gate'[p].args)
          BY <3>2, <3>a, <4>1, <4>2, <4>4
        <4>6. Alone(p) => q = p
          BY <3>2, <4>3, <2>2 DEF Alone
        <4>7. QED
          BY <2>3, <3>b, <4>3, <4>5, <4>6
      <3>3. QED
        BY <3>1, <3>2
    <2>5. \A q \in Runs : Whole(q)' = Whole(q)
      BY <2>2 DEF Whole
    <2>6. Reported'
      BY <2>2, <2>3, ReportedKept DEF Judged
    <2>7. QED
      BY <2>2, <2>3, <2>4, <2>5, <2>6 DEF Judged
  <1>8. CASE UNCHANGED vars
    <2>1. UNCHANGED <<phase, inputs, inventory, gate, reports>>
      BY <1>8 DEF vars, store
    <2>2. Reported'
      BY <2>1, ReportedKept
    <2>3. QED
      BY <2>1, <2>2
  <1>9. QED
    BY <1>1, <1>2, <1>3, <1>4, <1>5, <1>6, <1>7, <1>8 DEF Next, Moves

\* The inputs of a build that completed are ones the scans may have stored.
LEMMA InputsFinite ==
  ASSUME Ends, NEW r \in Runs, phase[r] \in {"built", "over"}
  PROVE  IsFiniteSet(inputs[r])
  BY InputsAssumption DEF Ends, TypeOK

\* The inventory counts a severity exactly if its items bear a risk of it.
THEOREM EveryRiskCounted == Spec => []RisksCounted
  <1>1. ASSUME Ends, Judged PROVE RisksCounted
    <2>1. CASE inventory = NoInventory
      BY <2>1 DEF RisksCounted
    <2>2. CASE inventory # NoInventory
      <3>1. PICK q \in Runs : phase[q] \in {"built", "over"} /\ inventory = [by |-> q, data |-> Whole(q)]
        BY <1>1, <2>2 DEF Judged
      <3>2. IsFiniteSet(inputs[q])
        BY <1>1, <3>1, InputsFinite
      <3>3. inventory.by = q /\ inventory.data = Whole(q)
        BY <3>1
      <3>4. \A s \in Severities : Whole(q).findingsBySeverity[s] > 0 <=> Risk(inputs[q], s)
        BY <3>2, RisksRolledUp DEF Whole
      <3>5. QED
        BY <3>3, <3>4 DEF RisksCounted
    <2>3. QED
      BY <2>1, <2>2
  <1>2. QED
    BY <1>1, EndsInit, EndsStep, JudgedInit, JudgedStep, PTL DEF Spec

\* Rounding: a share told as full leaves out one in 2 * Percent at most.
LEMMA FullQuotient ==
  ASSUME NEW a \in Nat, NEW b \in Nat \ {0}, NEW k \in Nat, a \div b >= k
  PROVE  k * b <= a
  <1>1. PICK d \in Nat : d = a \div b
    OBVIOUS
  <1>2. d * b <= a
    BY <1>1
  <1>3. k * b <= d * b
    BY <1>1
  <1>4. QED
    BY <1>2, <1>3

LEMMA PctNearlyAll ==
  ASSUME NEW n \in Nat, NEW total \in Nat, n <= total, pct(n, total) >= Percent
  PROVE  2 * Percent * (total - n) <= total
  <1>0. Percent \in Nat
    BY PercentAssumption
  <1>1. CASE total = 0
    <2>1. total - n = 0
      BY <1>1
    <2>2. QED
      BY <1>0, <1>1, <2>1
  <1>2. CASE total # 0
    <2>1. PICK p \in Nat : p = 2 * Percent * n
      BY <1>0
    <2>2. PICK q \in Nat : q = 2 * Percent * total
      BY <1>0
    <2>3. (p + total) \div (2 * total) >= Percent
      BY <1>2, <2>1 DEF pct
    <2>4. p + total \in Nat /\ 2 * total \in Nat \ {0}
      BY <1>2
    <2>5. Percent * (2 * total) <= p + total
      BY <1>0, <2>3, <2>4, FullQuotient
    <2>6. q <= p + total
      BY <1>0, <2>2, <2>5
    <2>7. 2 * Percent * (total - n) = q - p
      BY <1>0, <2>1, <2>2
    <2>8. QED
      BY <2>6, <2>7
  <1>3. QED
    BY <1>1, <1>2

\* A share of a graph's edges that is told as full.
LEMMA FullShare ==
  ASSUME NEW E, IsFiniteSet(E), NEW S, S \subseteq E, pct(Cardinality(S), Cardinality(E)) >= Percent
  PROVE  NearlyAll(S, E)
  <1>1. /\ Cardinality(E) \in Nat /\ Cardinality(S) \in Nat /\ Cardinality(S) <= Cardinality(E)
    BY FS_Subset, FS_CardinalityType
  <1>2. Cardinality(E \ S) = Cardinality(E) - Cardinality(S)
    <2>1. E \cap S = S
      OBVIOUS
    <2>2. QED
      BY <2>1, FS_Difference
  <1>3. QED
    BY <1>1, <1>2, PctNearlyAll DEF NearlyAll

LEMMA FullCoverage ==
  ASSUME NEW I, IsFiniteSet(I), NEW D
  PROVE  LET E == Edges(I)
             inv == computeInventory(D, E)
         IN  /\ inv.ephemeralPct >= Percent => NearlyAll(EphemeralOf(E), E)
             /\ inv.conditionalAccessPct >= Percent => NearlyAll(ConditionalOf(E), E)
             /\ inv.ephemeralPct \in Int
  <1> DEFINE E == Edges(I)
             inv == computeInventory(D, E)
  <1>1. IsFiniteSet(E)
    BY EdgesFinite
  <1>2. /\ inv.ephemeralPct = pct(Cardinality(EphemeralOf(E)), Cardinality(E))
        /\ inv.conditionalAccessPct = pct(Cardinality(ConditionalOf(E)), Cardinality(E))
    BY DEF computeInventory, EphemeralOf, ConditionalOf
  <1>3. EphemeralOf(E) \subseteq E /\ ConditionalOf(E) \subseteq E
    BY DEF EphemeralOf, ConditionalOf
  <1> HIDE DEF E, inv
  <1>4. /\ inv.ephemeralPct >= Percent => NearlyAll(EphemeralOf(E), E)
        /\ inv.conditionalAccessPct >= Percent => NearlyAll(ConditionalOf(E), E)
    BY <1>1, <1>2, <1>3, FullShare
  <1>5. inv.ephemeralPct \in Int
    <2>1. Cardinality(E) \in Nat /\ Cardinality(EphemeralOf(E)) \in Nat
      BY <1>1, <1>3, FS_Subset, FS_CardinalityType
    <2>2. PICK n \in Nat, t \in Nat : n = Cardinality(EphemeralOf(E)) /\ t = Cardinality(E)
      BY <2>1
    <2>3. PICK p \in Nat : p = 2 * Percent * n
      BY PercentAssumption
    <2>4. pct(n, t) \in Int
      BY <2>3, PercentAssumption DEF pct
    <2>5. QED
      BY <1>2, <2>2, <2>4
  <1>6. QED
    BY <1>4, <1>5 DEF E, inv

\* A gate that passes has judged a whole build without a risk it does not allow.
THEOREM GateTrustworthy == Spec => []GateExplained
  <1>1. ASSUME Ends, Judged PROVE GateExplained
    <2>1. ASSUME NEW r \in Runs, gate[r].passed
          PROVE  \E q \in Runs :
                    /\ phase[q] \in {"built", "over"} /\ (Alone(r) => q = r)
                    /\ \A s \in {"critical", "high", "medium"} \ Allowed(gate[r].args) : ~Risk(inputs[q], s)
                    /\ gate[r].args.minEphemeralPct = Percent =>
                          NearlyAll(EphemeralOf(Edges(inputs[q])), Edges(inputs[q]))
      <3>1. PICK q \in Runs : /\ phase[q] \in {"built", "over"} /\ (Alone(r) => q = r)
                              /\ ~Violations(Whole(q), gate[r].args)
        BY <1>1, <2>1 DEF Judged
      <3>2. gate[r].args \in Thresholds \cup {AssertPostureArgs}
        BY <1>1 DEF Ends, TypeOK
      <3>3. /\ gate[r].args.maxCritical \in Nat /\ gate[r].args.maxHigh \in Nat
            /\ gate[r].args.maxMedium \in Nat
        BY <3>2, ThresholdsAssumption DEF AssertPostureArgs, Unlimited
      <3>4. IsFiniteSet(inputs[q])
        BY <1>1, <3>1, InputsFinite
      <3>5. \A s \in Severities : /\ Whole(q).findingsBySeverity[s] \in Nat
                                  /\ Whole(q).findingsBySeverity[s] > 0 <=> Risk(inputs[q], s)
        BY <3>4, RisksRolledUp DEF Whole
      <3>6. /\ Whole(q).findingsBySeverity["critical"] <= gate[r].args.maxCritical
            /\ Whole(q).findingsBySeverity["high"] <= gate[r].args.maxHigh
            /\ Whole(q).findingsBySeverity["medium"] <= gate[r].args.maxMedium
        BY <3>1, <3>3, <3>5 DEF Violations, Severities
      <3>7. ASSUME NEW s \in {"critical", "high", "medium"} \ Allowed(gate[r].args)
            PROVE  ~Risk(inputs[q], s)
        <4>1. s \in Severities
          BY DEF Severities
        <4>2. CASE s = "critical"
          BY <3>3, <3>5, <3>6, <3>7, <4>1, <4>2 DEF Allowed, If
        <4>3. CASE s = "high"
          BY <3>3, <3>5, <3>6, <3>7, <4>1, <4>3 DEF Allowed, If
        <4>4. CASE s = "medium"
          BY <3>3, <3>5, <3>6, <3>7, <4>1, <4>4 DEF Allowed, If
        <4>5. QED
          BY <4>2, <4>3, <4>4
      <3>8. ASSUME gate[r].args.minEphemeralPct = Percent
            PROVE  NearlyAll(EphemeralOf(Edges(inputs[q])), Edges(inputs[q]))
        <4>1. ~(Whole(q).ephemeralPct < Percent)
          BY <3>1, <3>8 DEF Violations
        <4>2. Whole(q).ephemeralPct \in Int /\ Percent \in Nat
          BY <3>4, FullCoverage, PercentAssumption DEF Whole
        <4>3. Whole(q).ephemeralPct >= Percent
          BY <4>1, <4>2
        <4>4. QED
          BY <3>4, <4>3, FullCoverage DEF Whole
      <3>9. QED
        BY <3>1, <3>7, <3>8
    <2>2. QED
      BY <2>1 DEF GateExplained
  <1>2. QED
    BY <1>1, EndsInit, EndsStep, JudgedInit, JudgedStep, PTL DEF Spec

\* The report counts every risk and lists no other, whatever it could not read; a share it
\* tells as full leaves out one edge in 2 * Percent at most.
THEOREM ReportHonest == Spec => []ReportAgrees
  <1>1. ASSUME Ends, Judged PROVE ReportAgrees
    <2> SUFFICES ASSUME NEW r \in Runs, reports[r].made, reports[r].error = Null
                 PROVE  LET says == reports[r].says
                            E == Edges(inputs[r])
                        IN  /\ \A s \in Severities :
                                  /\ Listed(says, s) <= says.bySeverity[s]
                                  /\ Listed(says, s) > 0 => Risk(inputs[r], s)
                                  /\ Risk(inputs[r], s) => says.bySeverity[s] > 0
                            /\ says.ephemeralPct = Percent => NearlyAll(EphemeralOf(E), E)
                            /\ says.conditionalAccessPct = Percent => NearlyAll(ConditionalOf(E), E)
      BY DEF ReportAgrees
    <2> DEFINE says == reports[r].says
               E == Edges(inputs[r])
    <2>1. /\ phase[r] \in {"built", "over"}
          /\ \E lost \in SUBSET E : says = renderPosture(Whole(r), E \ lost)
      BY <1>1 DEF Judged, Reported
    <2>2. PICK lost \in SUBSET E : says = renderPosture(Whole(r), E \ lost)
      BY <2>1
    <2>3. IsFiniteSet(inputs[r]) /\ IsFiniteSet(E)
      BY <1>1, <2>1, InputsFinite, EdgesFinite
    <2>4. /\ says.bySeverity = Whole(r).findingsBySeverity
          /\ says.ephemeralPct = Whole(r).ephemeralPct
          /\ says.conditionalAccessPct = Whole(r).conditionalAccessPct
          /\ says.findings = collectFindings(E \ lost)
      BY <2>2 DEF renderPosture
    <2>5. ASSUME NEW s \in Severities
          PROVE  /\ Listed(says, s) <= says.bySeverity[s]
                 /\ Listed(says, s) > 0 => Risk(inputs[r], s)
                 /\ Risk(inputs[r], s) => says.bySeverity[s] > 0
      <3> DEFINE All == {f \in collectFindings(E) : Severity(f[2]) = s}
                 Some == {f \in collectFindings(E \ lost) : Severity(f[2]) = s}
      <3>1. Some \subseteq All
        BY DEF collectFindings
      <3>2. IsFiniteSet(All)
        BY <2>3, FindingsFinite
      <3>3. Listed(says, s) = Cardinality(Some) /\ says.bySeverity[s] = Cardinality(All)
        BY <2>4 DEF Listed, Whole, computeInventory
      <3>4. says.bySeverity[s] > 0 <=> Risk(inputs[r], s)
        BY <2>3, <2>4, RisksRolledUp DEF Whole
      <3> HIDE DEF All, Some, says
      <3>5. Cardinality(Some) \in Nat /\ Cardinality(All) \in Nat /\ Cardinality(Some) <= Cardinality(All)
        BY <3>1, <3>2, FS_Subset, FS_CardinalityType
      <3>6. QED
        BY <3>3, <3>4, <3>5
    <2>6. /\ Whole(r).ephemeralPct >= Percent => NearlyAll(EphemeralOf(E), E)
          /\ Whole(r).conditionalAccessPct >= Percent => NearlyAll(ConditionalOf(E), E)
      BY <2>3, FullCoverage DEF Whole
    <2>7. Percent >= Percent
      BY PercentAssumption
    <2>8. QED
      BY <2>4, <2>5, <2>6, <2>7
  <1>2. QED
    BY <1>1, EndsInit, EndsStep, JudgedInit, JudgedStep, PTL DEF Spec

-----------------------------------------------------------------------------
(* What of the edges is still in the store when a build is over.           *)

LEMMA PairsEqual == ASSUME NEW s, NEW a, NEW b, <<s, a>> = <<s, b>> PROVE a = b
  OBVIOUS

LEMMA TriplesEqual ==
  ASSUME NEW s, NEW a, NEW b, NEW c, NEW d, <<s, a, b>> = <<s, c, d>>
  PROVE  a = c /\ b = d
  OBVIOUS

LEMMA PairsApart == ASSUME NEW s, NEW t, s # t, NEW a, NEW b PROVE <<s, a>> # <<t, b>>
  OBVIOUS

LEMMA PairNoTriple == ASSUME NEW s, NEW t, NEW a, NEW b, NEW c PROVE <<s, a>> # <<t, b, c>>
  <1>1. Len(<<s, a>>) = 2 /\ Len(<<t, b, c>>) = 3
    OBVIOUS
  <1>2. QED
    BY <1>1

LEMMA SinglesEqual == ASSUME NEW a, NEW b, <<a>> = <<b>> PROVE a = b
  <1>1. <<a>>[1] = a /\ <<b>>[1] = b
    OBVIOUS
  <1>2. QED
    BY <1>1

\* The parts of an edge.
LEMMA EdgeParts ==
  ASSUME NEW o, NEW s, NEW l, NEW t, NEW m, NEW i, NEW y, NEW k, NEW c,
         NEW e, e = Edge(o, <<s, l>>, <<t, m>>, i, y, k, c)
  PROVE  e.of = o /\ e.id[1] = s /\ e.id[2] = l /\ e.id[3] = t /\ e.id[4] = m /\ e.id[5] = i /\ e.id[6] = y
  BY DEF Edge, trustEdgeId


\* The item an edge comes from, and the parts of its id that this item decides.
LEMMA SecretEdge ==
  ASSUME NEW I, I \subseteq Items, NEW e \in githubEdges(I)
  PROVE  \E s \in Of(I, "actions_secret") :
            /\ s \in ActionsSecret /\ s.looksLikeCloudCredential /\ e.id[6] = "github-secret"
            /\ e.id[1] = GithubOrg(s.org) /\ e.id[2] = <<s.place>> /\ e.id[4] = <<s.name>>
            /\ e = Edge(s, <<GithubOrg(s.org), <<s.place>>>>, <<Unresolved, <<s.name>>>>, Static,
                        "github-secret", FALSE, {"GITHUB_STATIC_CLOUD_CREDENTIAL"})
  <1>1. PICK s \in {t \in Of(I, "actions_secret") : t.looksLikeCloudCredential} :
           e = Edge(s, <<GithubOrg(s.org), <<s.place>>>>, <<Unresolved, <<s.name>>>>, Static,
                    "github-secret", FALSE, {"GITHUB_STATIC_CLOUD_CREDENTIAL"})
    BY DEF githubEdges
  <1>2. s \in ActionsSecret
    BY <1>1 DEF Of, Items, ActionsSecret, OidcSubject, WifPool, WifProvider, ServiceAccount, SaKey,
                AccessApp, AccessPolicy, IdentityProvider, ServiceToken
  <1>3. /\ e.id[1] = GithubOrg(s.org) /\ e.id[2] = <<s.place>> /\ e.id[4] = <<s.name>>
        /\ e.id[6] = "github-secret"
    BY <1>1 DEF Edge, trustEdgeId
  <1>4. QED
    BY <1>1, <1>2, <1>3

LEMMA KeyEdge ==
  ASSUME NEW I, I \subseteq Items, NEW e \in keyEdges(I)
  PROVE  \E k \in Of(I, "sa_key") :
            /\ k \in SaKey /\ k.userManaged /\ e.id[6] = "sa-key"
            /\ e.id[2] = <<k.key>> /\ e.id[3] = Project(k.project) /\ e.id[4] = <<"account", k.email>>
            /\ e = Edge(k, <<Unresolved, <<k.key>>>>, <<Project(k.project), <<"account", k.email>>>>, Static,
                        "sa-key", FALSE, {"GCP_USER_MANAGED_SA_KEY"})
  <1>1. PICK k \in {j \in Of(I, "sa_key") : j.userManaged} :
           e = Edge(k, <<Unresolved, <<k.key>>>>, <<Project(k.project), <<"account", k.email>>>>, Static,
                    "sa-key", FALSE, {"GCP_USER_MANAGED_SA_KEY"})
    BY DEF keyEdges
  <1>2. k \in SaKey
    BY <1>1 DEF Of, Items, ActionsSecret, OidcSubject, WifPool, WifProvider, ServiceAccount, SaKey,
                AccessApp, AccessPolicy, IdentityProvider, ServiceToken
  <1>3. /\ e.id[2] = <<k.key>> /\ e.id[3] = Project(k.project) /\ e.id[4] = <<"account", k.email>>
        /\ e.id[6] = "sa-key"
    BY <1>1 DEF Edge, trustEdgeId
  <1>4. QED
    BY <1>1, <1>2, <1>3

LEMMA TokenEdge ==
  ASSUME NEW I, NEW e \in tokenEdges(I)
  PROVE  \E t \in Of(I, "service_token") :
            /\ e.of = t /\ e.id[6] = "cf-service-token"
            /\ e.id[2] = <<t.name>> /\ e.id[3] = Account(t.account)
            /\ e = Edge(t, <<Unresolved, <<t.name>>>>, <<Account(t.account), <<"account">>>>, Static,
                        "cf-service-token", FALSE, If(t.longLived, "CF_SERVICE_TOKEN_NO_EXPIRY"))
  <1>1. PICK t \in Of(I, "service_token") :
           e = Edge(t, <<Unresolved, <<t.name>>>>, <<Account(t.account), <<"account">>>>, Static,
                    "cf-service-token", FALSE, If(t.longLived, "CF_SERVICE_TOKEN_NO_EXPIRY"))
    BY DEF tokenEdges
  <1>2. /\ e.of = t /\ e.id[2] = <<t.name>> /\ e.id[3] = Account(t.account)
        /\ e.id[6] = "cf-service-token"
    BY <1>1 DEF Edge, trustEdgeId
  <1>3. QED
    BY <1>1, <1>2

LEMMA ProviderEdge ==
  ASSUME NEW I, NEW e \in providerEdges(I)
  PROVE  \E p \in Of(I, "wif_provider") : \E t \in Targets(I, p) :
            /\ e.of = p /\ e.id[6] = "oidc-federation"
            /\ e.id[3] = Project(p.project) /\ e.id[4] = t /\ e.id[5] = SourceIssuer(p)
            /\ e = Edge(p, <<SourceDomain(p), SourceLabel(p)>>, <<Project(p.project), t>>,
                        SourceIssuer(p), "oidc-federation", p.conditioned, providerFindings(p))
  <1>1. PICK p \in Of(I, "wif_provider") : \E t \in Targets(I, p) :
           e = Edge(p, <<SourceDomain(p), SourceLabel(p)>>, <<Project(p.project), t>>,
                    SourceIssuer(p), "oidc-federation", p.conditioned, providerFindings(p))
    BY DEF providerEdges
  <1>2. PICK t \in Targets(I, p) :
           e = Edge(p, <<SourceDomain(p), SourceLabel(p)>>, <<Project(p.project), t>>,
                    SourceIssuer(p), "oidc-federation", p.conditioned, providerFindings(p))
    BY <1>1
  <1>3. /\ e.of = p /\ e.id[6] = "oidc-federation"
        /\ e.id[3] = Project(p.project) /\ e.id[4] = t /\ e.id[5] = SourceIssuer(p)
    BY <1>2, EdgeParts
  <1>4. QED
    BY <1>2, <1>3

\* A login has an edge to its account and one to every application that names it.
LEMMA IdpEdge ==
  ASSUME NEW I, NEW e \in idpEdges(I)
  PROVE  \E d \in Of(I, "identity_provider") :
            /\ e.id[1] = External(d.id) /\ e.id[6] = "oidc-federation"
            /\ \/ /\ e.id[3] = Account(d.account)
                  /\ e = Edge(d, Login(d), <<Account(d.account), <<"account">>>>, d.issuer,
                              "oidc-federation", FALSE, evaluateIdp(I, d))
               \/ \E a \in appsOf(I, d.account) :
                     /\ e.id[3] = App(a)
                     /\ e = Edge(d, Login(d), <<App(a), <<a.name>>>>, d.issuer, "oidc-federation",
                                 appConditional(I, a), {})
  <1>1. CASE \E d \in Of(I, "identity_provider") :
                e = Edge(d, Login(d), <<Account(d.account), <<"account">>>>, d.issuer,
                         "oidc-federation", FALSE, evaluateIdp(I, d))
    <2>1. PICK d \in Of(I, "identity_provider") :
             e = Edge(d, Login(d), <<Account(d.account), <<"account">>>>, d.issuer,
                      "oidc-federation", FALSE, evaluateIdp(I, d))
      BY <1>1
    <2>2. e.id[1] = External(d.id) /\ e.id[6] = "oidc-federation" /\ e.id[3] = Account(d.account)
      BY <2>1 DEF Login, Edge, trustEdgeId
    <2>3. QED
      BY <2>1, <2>2
  <1>2. CASE \E d \in Of(I, "identity_provider") :
                \E a \in {b \in appsOf(I, d.account) : d.id \in b.allowedIdps} :
                   e = Edge(d, Login(d), <<App(a), <<a.name>>>>, d.issuer, "oidc-federation",
                            appConditional(I, a), {})
    <2>0. PICK d \in Of(I, "identity_provider") :
             \E a \in {b \in appsOf(I, d.account) : d.id \in b.allowedIdps} :
                   e = Edge(d, Login(d), <<App(a), <<a.name>>>>, d.issuer, "oidc-federation",
                            appConditional(I, a), {})
      BY <1>2
    <2>1. PICK a \in appsOf(I, d.account) :
             e = Edge(d, Login(d), <<App(a), <<a.name>>>>, d.issuer, "oidc-federation",
                      appConditional(I, a), {})
      BY <2>0
    <2>2. e.id[1] = External(d.id) /\ e.id[6] = "oidc-federation" /\ e.id[3] = App(a)
      BY <2>1, EdgeParts DEF Login
    <2>3. QED
      BY <2>1, <2>2
  <1>3. QED
    BY <1>1, <1>2 DEF idpEdges

LEMMA AppEdge ==
  ASSUME NEW I, NEW e \in appEdges(I)
  PROVE  \E a \in Of(I, "access_app") :
            /\ e.id[1] = Account(a.account) /\ e.id[3] = App(a) /\ e.id[6] = "oidc-federation"
            /\ e = Edge(a, <<Account(a.account), <<"Access-authenticated users">>>>, <<App(a), <<a.name>>>>,
                        <<"cloudflare-access">>, "oidc-federation", appConditional(I, a), appFindings(I, a))
  <1>1. PICK a \in Of(I, "access_app") :
           e = Edge(a, <<Account(a.account), <<"Access-authenticated users">>>>, <<App(a), <<a.name>>>>,
                    <<"cloudflare-access">>, "oidc-federation", appConditional(I, a), appFindings(I, a))
    BY DEF appEdges
  <1>2. PICK users : users = <<"Access-authenticated users">>
    OBVIOUS
  <1>3. e = Edge(a, <<Account(a.account), users>>, <<App(a), <<a.name>>>>, <<"cloudflare-access">>,
                 "oidc-federation", appConditional(I, a), appFindings(I, a))
    BY <1>1, <1>2, Zenon
  <1>4. e.id[1] = Account(a.account) /\ e.id[3] = App(a) /\ e.id[6] = "oidc-federation"
    BY <1>3, EdgeParts
  <1>5. QED
    BY <1>1, <1>4


\* Edges of one slice with one id are one edge, or those of twins.
OneOrTwins(e, f) == e = f \/ (e.of # f.of /\ Twins(e.of, f.of))

LEMMA SecretsDiffer ==
  ASSUME NEW I, I \subseteq Items, NEW e \in githubEdges(I), NEW f \in githubEdges(I), e.id = f.id
  PROVE  OneOrTwins(e, f)
  <1>1. PICK s \in Of(I, "actions_secret") :
            /\ s \in ActionsSecret /\ s.looksLikeCloudCredential
            /\ e.id[1] = GithubOrg(s.org) /\ e.id[2] = <<s.place>> /\ e.id[4] = <<s.name>>
            /\ e = Edge(s, <<GithubOrg(s.org), <<s.place>>>>, <<Unresolved, <<s.name>>>>, Static,
                        "github-secret", FALSE, {"GITHUB_STATIC_CLOUD_CREDENTIAL"})
    BY SecretEdge
  <1>2. PICK t \in Of(I, "actions_secret") :
            /\ t \in ActionsSecret /\ t.looksLikeCloudCredential
            /\ f.id[1] = GithubOrg(t.org) /\ f.id[2] = <<t.place>> /\ f.id[4] = <<t.name>>
            /\ f = Edge(t, <<GithubOrg(t.org), <<t.place>>>>, <<Unresolved, <<t.name>>>>, Static,
                        "github-secret", FALSE, {"GITHUB_STATIC_CLOUD_CREDENTIAL"})
    BY SecretEdge
  <1>3. <<"github", s.org>> = <<"github", t.org>> /\ <<s.place>> = <<t.place>> /\ <<s.name>> = <<t.name>>
    BY <1>1, <1>2, Zenon DEF GithubOrg
  <1>4. s.org = t.org
    BY <1>3, PairsEqual
  <1>5. s.place = t.place
    BY <1>3, SinglesEqual
  <1>6. s.name = t.name
    BY <1>3, SinglesEqual
  <1>7. s = t
    BY <1>1, <1>2, <1>4, <1>5, <1>6 DEF ActionsSecret
  <1>8. QED
    BY <1>1, <1>2, <1>7 DEF OneOrTwins

LEMMA KeysDiffer ==
  ASSUME NEW I, I \subseteq Items, NEW e \in keyEdges(I), NEW f \in keyEdges(I), e.id = f.id
  PROVE  OneOrTwins(e, f)
  <1>1. PICK k \in Of(I, "sa_key") :
            /\ k \in SaKey /\ k.userManaged
            /\ e.id[2] = <<k.key>> /\ e.id[3] = Project(k.project) /\ e.id[4] = <<"account", k.email>>
            /\ e = Edge(k, <<Unresolved, <<k.key>>>>, <<Project(k.project), <<"account", k.email>>>>, Static,
                        "sa-key", FALSE, {"GCP_USER_MANAGED_SA_KEY"})
    BY KeyEdge
  <1>2. PICK j \in Of(I, "sa_key") :
            /\ j \in SaKey /\ j.userManaged
            /\ f.id[2] = <<j.key>> /\ f.id[3] = Project(j.project) /\ f.id[4] = <<"account", j.email>>
            /\ f = Edge(j, <<Unresolved, <<j.key>>>>, <<Project(j.project), <<"account", j.email>>>>, Static,
                        "sa-key", FALSE, {"GCP_USER_MANAGED_SA_KEY"})
    BY KeyEdge
  <1>3. /\ <<"gcp", k.project>> = <<"gcp", j.project>> /\ <<k.key>> = <<j.key>>
        /\ <<"account", k.email>> = <<"account", j.email>>
    BY <1>1, <1>2, Zenon DEF Project
  <1>4. k.project = j.project /\ k.email = j.email
    BY <1>3, PairsEqual
  <1>5. k.key = j.key
    BY <1>3, SinglesEqual
  <1>6. k = j
    BY <1>1, <1>2, <1>4, <1>5 DEF SaKey
  <1>7. QED
    BY <1>1, <1>2, <1>6 DEF OneOrTwins

LEMMA TokensDiffer ==
  ASSUME NEW I, NEW e \in tokenEdges(I), NEW f \in tokenEdges(I), e.id = f.id
  PROVE  OneOrTwins(e, f)
  <1>1. PICK t \in Of(I, "service_token") :
            /\ e.of = t /\ e.id[2] = <<t.name>> /\ e.id[3] = Account(t.account)
            /\ e = Edge(t, <<Unresolved, <<t.name>>>>, <<Account(t.account), <<"account">>>>, Static,
                        "cf-service-token", FALSE, If(t.longLived, "CF_SERVICE_TOKEN_NO_EXPIRY"))
    BY TokenEdge
  <1>2. PICK u \in Of(I, "service_token") :
            /\ f.of = u /\ f.id[2] = <<u.name>> /\ f.id[3] = Account(u.account)
            /\ f = Edge(u, <<Unresolved, <<u.name>>>>, <<Account(u.account), <<"account">>>>, Static,
                        "cf-service-token", FALSE, If(u.longLived, "CF_SERVICE_TOKEN_NO_EXPIRY"))
    BY TokenEdge
  <1>3. <<"cloudflare", t.account>> = <<"cloudflare", u.account>> /\ <<t.name>> = <<u.name>>
    BY <1>1, <1>2, Zenon DEF Account
  <1>4. t.account = u.account
    BY <1>3, PairsEqual
  <1>5. t.name = u.name
    BY <1>3, SinglesEqual
  <1>6. CASE t = u
    BY <1>1, <1>2, <1>6 DEF OneOrTwins
  <1>7. CASE t # u
    BY <1>1, <1>2, <1>4, <1>5, <1>7 DEF OneOrTwins, Twins, Of
  <1>8. QED
    BY <1>6, <1>7

LEMMA ProvidersDiffer ==
  ASSUME NEW I, NEW e \in providerEdges(I), NEW f \in providerEdges(I), e.id = f.id
  PROVE  OneOrTwins(e, f)
  <1> DEFINE From(x, p, t) ==
                /\ x.of = p /\ x.id[6] = "oidc-federation"
                /\ x.id[3] = Project(p.project) /\ x.id[4] = t /\ x.id[5] = SourceIssuer(p)
                /\ x = Edge(p, <<SourceDomain(p), SourceLabel(p)>>, <<Project(p.project), t>>,
                            SourceIssuer(p), "oidc-federation", p.conditioned, providerFindings(p))
  <1>0. ASSUME NEW x \in providerEdges(I)
        PROVE  \E p \in Of(I, "wif_provider") : \E t \in Targets(I, p) : From(x, p, t)
    BY ProviderEdge
  <1>1. \E p \in Of(I, "wif_provider") : \E t \in Targets(I, p) : From(e, p, t)
    BY <1>0
  <1>2. \E q \in Of(I, "wif_provider") : \E u \in Targets(I, q) : From(f, q, u)
    BY <1>0
  <1>3. PICK p \in Of(I, "wif_provider") : \E t \in Targets(I, p) : From(e, p, t)
    BY <1>1
  <1>4. PICK t \in Targets(I, p) : From(e, p, t)
    BY <1>3
  <1>5. PICK q \in Of(I, "wif_provider") : \E u \in Targets(I, q) : From(f, q, u)
    BY <1>2
  <1>6. PICK u \in Targets(I, q) : From(f, q, u)
    BY <1>5
  <1>7. <<"gcp", p.project>> = <<"gcp", q.project>> /\ t = u /\ SourceIssuer(p) = SourceIssuer(q)
    BY <1>4, <1>6, Zenon DEF Project
  <1>8. p.project = q.project
    BY <1>7, PairsEqual
  <1>9. CASE p = q
    BY <1>4, <1>6, <1>7, <1>9 DEF OneOrTwins
  <1>10. CASE p # q
    BY <1>4, <1>6, <1>7, <1>8, <1>10 DEF OneOrTwins, Twins, Of
  <1>11. QED
    BY <1>9, <1>10

\* What a store that keeps one application and one login of each id gives.
Keyed(I) ==
    \A i, j \in Of(I, "access_app") \cup Of(I, "identity_provider") :
       i.spec = j.spec /\ i.account = j.account /\ i.id = j.id => i = j

LEMMA SameApp ==
  ASSUME NEW I, Keyed(I), NEW a \in Of(I, "access_app"), NEW b \in Of(I, "access_app"), App(a) = App(b)
  PROVE  a = b
  <1>1. <<"cloudflare app", a.account, a.id>> = <<"cloudflare app", b.account, b.id>>
    BY Zenon DEF App
  <1>2. a.account = b.account /\ a.id = b.id
    BY <1>1, TriplesEqual, Zenon
  <1>3. QED
    BY <1>2 DEF Keyed, Of

LEMMA AppsDiffer ==
  ASSUME NEW I, Keyed(I), NEW e \in appEdges(I), NEW f \in appEdges(I), e.id = f.id
  PROVE  OneOrTwins(e, f)
  <1> DEFINE From(x, a) ==
                /\ x.id[3] = App(a)
                /\ x = Edge(a, <<Account(a.account), <<"Access-authenticated users">>>>, <<App(a), <<a.name>>>>,
                        <<"cloudflare-access">>, "oidc-federation", appConditional(I, a), appFindings(I, a))
  <1>1. PICK a \in Of(I, "access_app") : From(e, a)
    BY AppEdge, Zenon
  <1>2. PICK b \in Of(I, "access_app") : From(f, b)
    BY AppEdge, Zenon
  <1>3. App(a) = App(b)
    BY <1>1, <1>2, Zenon
  <1>4. a = b
    BY <1>3, SameApp
  <1>5. e = f
    BY <1>1, <1>2, <1>4, Zenon
  <1>6. QED
    BY <1>5 DEF OneOrTwins

LEMMA IdpsDiffer ==
  ASSUME NEW I, Keyed(I), NEW e \in idpEdges(I), NEW f \in idpEdges(I), e.id = f.id
  PROVE  OneOrTwins(e, f)
  <1> DEFINE OfAccount(x, d) ==
                /\ x.id[3] = Account(d.account)
                /\ x = Edge(d, Login(d), <<Account(d.account), <<"account">>>>, d.issuer,
                            "oidc-federation", FALSE, evaluateIdp(I, d))
             OfApp(x, d, a) ==
                /\ x.id[3] = App(a)
                /\ x = Edge(d, Login(d), <<App(a), <<a.name>>>>, d.issuer, "oidc-federation",
                            appConditional(I, a), {})
             From(x, d) ==
                /\ x.id[1] = External(d.id)
                /\ OfAccount(x, d) \/ \E a \in appsOf(I, d.account) : OfApp(x, d, a)
  <1>1. PICK d \in Of(I, "identity_provider") : From(e, d)
    BY IdpEdge, Zenon
  <1>2. PICK c \in Of(I, "identity_provider") : From(f, c)
    BY IdpEdge, Zenon
  <1>3. d.id = c.id
    <2>1. <<"external", d.id>> = <<"external", c.id>>
      BY <1>1, <1>2, Zenon DEF External
    <2>2. QED
      BY <2>1, PairsEqual
  <1>4. d.account = c.account => d = c
    BY <1>3 DEF Keyed, Of
  <1>5. ASSUME NEW x, NEW y PROVE Account(x) # App(y)
    BY PairNoTriple, Zenon DEF Account, App
  <1>6. CASE OfAccount(e, d) /\ OfAccount(f, c)
    <2>1. <<"cloudflare", d.account>> = <<"cloudflare", c.account>>
      BY <1>6, Zenon DEF Account
    <2>2. d = c
      BY <1>4, <2>1, PairsEqual
    <2>3. QED
      BY <1>6, <2>2, Zenon DEF OneOrTwins
  <1>7. CASE \E a \in appsOf(I, d.account), b \in appsOf(I, c.account) : OfApp(e, d, a) /\ OfApp(f, c, b)
    <2>1. PICK a \in appsOf(I, d.account), b \in appsOf(I, c.account) : OfApp(e, d, a) /\ OfApp(f, c, b)
      BY <1>7
    <2>2. App(a) = App(b)
      BY <2>1, Zenon
    <2>3. a \in Of(I, "access_app") /\ b \in Of(I, "access_app") /\ a.account = d.account /\ b.account = c.account
      BY DEF appsOf
    <2>4. a = b
      BY <2>2, <2>3, SameApp
    <2>5. d = c
      BY <1>4, <2>3, <2>4
    <2>6. QED
      BY <2>1, <2>4, <2>5, Zenon DEF OneOrTwins
  <1>8. QED
    BY <1>1, <1>2, <1>5, <1>6, <1>7, Zenon


\* The type and the ends in an id tell the slices apart.
LEMMA FederationApart ==
  ASSUME NEW I
  PROVE  /\ \A e \in providerEdges(I) : \E x : e.id[3] = <<"gcp", x>>
         /\ \A e \in idpEdges(I) : \E x, y : e.id[3] \in {<<"cloudflare", x>>, <<"cloudflare app", x, y>>}
         /\ \A e \in appEdges(I) : \E x, y : e.id[3] = <<"cloudflare app", x, y>>
         /\ \A e \in idpEdges(I) : \E x : e.id[1] = <<"external", x>>
         /\ \A e \in appEdges(I) : \E x : e.id[1] = <<"cloudflare", x>>
         /\ \A e \in providerEdges(I) \cup idpEdges(I) \cup appEdges(I) : e.id[6] = "oidc-federation"
  <1>1. ASSUME NEW e \in providerEdges(I)
        PROVE  (\E x : e.id[3] = <<"gcp", x>>) /\ e.id[6] = "oidc-federation"
    BY ProviderEdge, Zenon DEF Project
  <1>2. ASSUME NEW e \in idpEdges(I)
        PROVE  /\ \E x, y : e.id[3] \in {<<"cloudflare", x>>, <<"cloudflare app", x, y>>}
               /\ \E x : e.id[1] = <<"external", x>>
               /\ e.id[6] = "oidc-federation"
    <2> DEFINE ToAccount(d) == e = Edge(d, Login(d), <<Account(d.account), <<"account">>>>, d.issuer,
                                        "oidc-federation", FALSE, evaluateIdp(I, d))
               ToApp(d, a) == e = Edge(d, Login(d), <<App(a), <<a.name>>>>, d.issuer, "oidc-federation",
                                       appConditional(I, a), {})
    <2>0. PICK d \in Of(I, "identity_provider") :
             /\ e.id[1] = External(d.id) /\ e.id[6] = "oidc-federation"
             /\ \/ e.id[3] = Account(d.account) /\ ToAccount(d)
                \/ \E a \in appsOf(I, d.account) : e.id[3] = App(a) /\ ToApp(d, a)
      BY IdpEdge, Zenon
    <2>1. /\ e.id[1] = External(d.id) /\ e.id[6] = "oidc-federation"
          /\ e.id[3] = Account(d.account) \/ \E a \in appsOf(I, d.account) : e.id[3] = App(a)
      BY <2>0, Zenon
    <2>2. \E x : e.id[1] = <<"external", x>>
      BY <2>1, Zenon DEF External
    <2>3. \E x, y : e.id[3] \in {<<"cloudflare", x>>, <<"cloudflare app", x, y>>}
      <3>1. CASE e.id[3] = Account(d.account)
        BY <3>1, Zenon DEF Account
      <3>2. CASE \E a \in appsOf(I, d.account) : e.id[3] = App(a)
        BY <3>2, Zenon DEF App
      <3>3. QED
        BY <2>1, <3>1, <3>2
    <2>5. QED
      BY <2>1, <2>2, <2>3, Zenon
  <1>3. ASSUME NEW e \in appEdges(I)
        PROVE  /\ \E x, y : e.id[3] = <<"cloudflare app", x, y>>
               /\ \E x : e.id[1] = <<"cloudflare", x>>
               /\ e.id[6] = "oidc-federation"
    <2>1. PICK a \in Of(I, "access_app") :
             e.id[1] = Account(a.account) /\ e.id[3] = App(a) /\ e.id[6] = "oidc-federation"
      BY AppEdge, Zenon
    <2>2. QED
      BY <2>1, Zenon DEF Account, App
  <1>4. QED
    BY <1>1, <1>2, <1>3, Zenon

LEMMA TypesApart ==
  ASSUME NEW I, I \subseteq Items
  PROVE  /\ \A e \in githubEdges(I) : e.id[6] = "github-secret"
         /\ \A e \in keyEdges(I) : e.id[6] = "sa-key"
         /\ \A e \in tokenEdges(I) : e.id[6] = "cf-service-token"
  <1>1. ASSUME NEW e \in githubEdges(I) PROVE e.id[6] = "github-secret"
    BY SecretEdge, Zenon
  <1>2. ASSUME NEW e \in keyEdges(I) PROVE e.id[6] = "sa-key"
    BY KeyEdge, Zenon
  <1>3. ASSUME NEW e \in tokenEdges(I) PROVE e.id[6] = "cf-service-token"
    BY TokenEdge, Zenon
  <1>4. QED
    BY <1>1, <1>2, <1>3, Zenon

LEMMA SlicesApart ==
  ASSUME NEW I, I \subseteq Items, NEW e \in Edges(I), NEW f \in Edges(I), e.id = f.id
  PROVE  \/ e \in githubEdges(I) /\ f \in githubEdges(I)
         \/ e \in providerEdges(I) /\ f \in providerEdges(I)
         \/ e \in keyEdges(I) /\ f \in keyEdges(I)
         \/ e \in idpEdges(I) /\ f \in idpEdges(I)
         \/ e \in appEdges(I) /\ f \in appEdges(I)
         \/ e \in tokenEdges(I) /\ f \in tokenEdges(I)
  <1> DEFINE Federated == providerEdges(I) \cup idpEdges(I) \cup appEdges(I)
  <1>1. ASSUME NEW g \in Edges(I)
        PROVE  \/ g \in githubEdges(I) /\ g.id[6] = "github-secret"
               \/ g \in keyEdges(I) /\ g.id[6] = "sa-key"
               \/ g \in tokenEdges(I) /\ g.id[6] = "cf-service-token"
               \/ g \in Federated /\ g.id[6] = "oidc-federation"
    BY <1>1, TypesApart, FederationApart DEF Edges, gcpEdges, cloudflareEdges
  <1>2. ASSUME NEW g \in providerEdges(I), NEW h \in idpEdges(I) \cup appEdges(I) PROVE g.id # h.id
    <2>1. PICK x : g.id[3] = <<"gcp", x>>
      BY FederationApart, Zenon
    <2>2. PICK y, z : h.id[3] \in {<<"cloudflare", y>>, <<"cloudflare app", y, z>>}
      <3>1. CASE h \in idpEdges(I)
        BY <3>1, FederationApart, Zenon
      <3>2. CASE h \in appEdges(I)
        <4>1. PICK y, z : h.id[3] = <<"cloudflare app", y, z>>
          BY <3>2, FederationApart, Zenon
        <4>2. QED
          BY <4>1, Zenon
      <3>3. QED
        BY <1>2, <3>1, <3>2, Zenon
    <2>3. <<"gcp", x>> # <<"cloudflare", y>>
      BY PairsApart
    <2>4. <<"gcp", x>> # <<"cloudflare app", y, z>>
      BY PairNoTriple, Zenon
    <2>5. QED
      BY <2>1, <2>2, <2>3, <2>4, Zenon
  <1>3. ASSUME NEW g \in idpEdges(I), NEW h \in appEdges(I) PROVE g.id # h.id
    <2>1. PICK x : g.id[1] = <<"external", x>>
      BY FederationApart, Zenon
    <2>2. PICK y : h.id[1] = <<"cloudflare", y>>
      BY FederationApart, Zenon
    <2>3. <<"external", x>> # <<"cloudflare", y>>
      BY PairsApart
    <2>4. QED
      BY <2>1, <2>2, <2>3, Zenon
  <1>4. CASE e \in Federated /\ f \in Federated
    BY <1>2, <1>3, <1>4
  <1>5. CASE ~(e \in Federated /\ f \in Federated)
    <2> HIDE DEF Federated
    <2>1. QED
      BY <1>1, <1>5
  <1>6. QED
    BY <1>4, <1>5

\* Two derived edges with one id are those of twins.
LEMMA SameIdTwins ==
  ASSUME NEW I, I \subseteq Items, Keyed(I), NEW e \in Edges(I), NEW f \in Edges(I), e.id = f.id
  PROVE  OneOrTwins(e, f)
  BY SlicesApart, SecretsDiffer, KeysDiffer, TokensDiffer, ProvidersDiffer, AppsDiffer, IdpsDiffer

\* While a build has the store for itself, each edge it has written is there, or has made
\* room for another of its own with the same id.
Kept(r) ==
    (phase[r] \in {"building", "built"} /\ Alone(r)) =>
       /\ edges \subseteq Edges(inputs[r])
       /\ \A e \in Edges(inputs[r]) \ edgesLeft[r] : \E f \in edges : f.id = e.id
Untouched == (\A q \in Runs : phase[q] = "idle") => edges = {}
KeptInv == Untouched /\ \A r \in Runs : Kept(r)

LEMMA KeptInit == Init => KeptInv
  BY DEF Init, KeptInv, Untouched, Kept

LEMMA KeptStep == Ends /\ KeptInv /\ [Next]_vars => KeptInv'
  <1> SUFFICES ASSUME Ends, KeptInv, [Next]_vars PROVE KeptInv'
    OBVIOUS
  <1> USE DEF Ends, Shape, Phases
  <1>1. ASSUME NEW r \in Runs, Build(r) PROVE KeptInv'
    <2>1. PICK I \in Inputs[r] :
             /\ inputs' = [inputs EXCEPT ![r] = I]
             /\ edgesLeft' = [edgesLeft EXCEPT ![r] = Edges(I)]
      BY <1>1 DEF Build
    <2>2. phase[r] = "idle" /\ phase' = [phase EXCEPT ![r] = "building"] /\ edges' = edges
      BY <1>1 DEF Build, store
    <2>3. ASSUME NEW q \in Runs, q # r, phase'[q] \in {"building", "built"} PROVE ~Alone(q)'
      BY <2>2, <2>3 DEF Alone
    <2>4. Alone(r)' => edges' = {}
      BY <2>2 DEF Alone, KeptInv, Untouched
    <2>5. Edges(inputs'[r]) \ edgesLeft'[r] = {}
      BY <2>1
    <2>6. QED
      BY <2>2, <2>3, <2>4, <2>5 DEF KeptInv, Kept, Untouched
  <1>2. ASSUME NEW r \in Runs, WriteEdge(r) PROVE KeptInv'
    <2>1. PICK e \in edgesLeft[r] :
             /\ edges' = writeResource(edges, e)
             /\ edgesLeft' = [edgesLeft EXCEPT ![r] = @ \ {e}]
      BY <1>2 DEF WriteEdge
    <2>2. phase[r] = "building" /\ UNCHANGED <<phase, inputs>>
      BY <1>2 DEF WriteEdge
    <2>3. ASSUME NEW q \in Runs, q # r PROVE ~Alone(q)
      BY <2>2, <2>3 DEF Alone
    <2>4. ASSUME Alone(r) PROVE Kept(r)'
      <3>1. e \in Edges(inputs[r]) /\ Kept(r)
        BY DEF TypeOK, KeptInv
      <3>2. edges' \subseteq Edges(inputs[r])
        BY <2>1, <2>2, <2>4, <3>1 DEF Kept, writeResource
      <3>3. ASSUME NEW g \in Edges(inputs[r]) \ edgesLeft'[r] PROVE \E f \in edges' : f.id = g.id
        <4>1. CASE g = e
          BY <2>1, <4>1 DEF writeResource
        <4>2. CASE g # e
          <5>1. PICK f \in edges : f.id = g.id
            BY <2>1, <2>2, <2>4, <3>1, <3>3, <4>2 DEF Kept
          <5>2. QED
            BY <2>1, <5>1 DEF writeResource
        <4>3. QED
          BY <4>1, <4>2
      <3>4. QED
        BY <2>2, <3>2, <3>3 DEF Kept
    <2>5. QED
      BY <2>2, <2>3, <2>4 DEF KeptInv, Kept, Untouched, Alone
  <1>3. ASSUME NEW r \in Runs, WriteDomain(r) PROVE KeptInv'
    BY <1>3 DEF WriteDomain, KeptInv, Kept, Untouched, Alone
  <1>4. ASSUME NEW r \in Runs, WriteInventory(r) \/ BuildFails(r) \/ assert_posture(r) PROVE KeptInv'
    <2>1. /\ phase[r] \in {"building", "built", "failed"} /\ UNCHANGED <<inputs, edges>>
          /\ \/ phase' = [phase EXCEPT ![r] = "built"] /\ phase[r] = "building" /\ UNCHANGED edgesLeft
             \/ phase' = [phase EXCEPT ![r] = "failed"]
             \/ phase' = [phase EXCEPT ![r] = "over"]
      BY <1>4 DEF WriteInventory, BuildFails, assert_posture, store
    <2>2. ASSUME NEW q \in Runs, q # r PROVE ~Alone(q)'
      BY <2>1, <2>2 DEF Alone
    <2>3. Kept(r)'
      BY <2>1 DEF KeptInv, Kept, Alone
    <2>4. Untouched'
      BY <2>1 DEF Untouched
    <2>5. QED
      BY <2>2, <2>3, <2>4 DEF KeptInv, Kept
  <1>5. ASSUME NEW r \in Runs, Report(r) PROVE KeptInv'
    BY <1>5 DEF Report, Tells, store, KeptInv, Kept, Untouched, Alone
  <1>6. CASE UNCHANGED vars
    BY <1>6 DEF vars, store, KeptInv, Kept, Untouched, Alone
  <1>7. QED
    BY <1>1, <1>2, <1>3, <1>4, <1>5, <1>6 DEF Next, Moves

\* buildTrustGraph, trustEdgeId: when a build is over that had the store for itself, every
\* edge it derived is stored, unless another edge with its id is there instead, of an item
\* the id does not tell from its own: a provider of the same project and issuer, or a token
\* of the same account and name.
THEOREM EdgesArePut == Spec => []EdgesStored
  <1>1. ASSUME Ends, KeptInv PROVE EdgesStored
    <2> SUFFICES ASSUME NEW r \in Runs, phase[r] = "built", Alone(r), NEW e \in Edges(inputs[r])
                 PROVE  e \in edges \/ \E f \in edges : e.id = f.id /\ e.of # f.of /\ Twins(e.of, f.of)
      BY DEF EdgesStored
    <2>1. Kept(r) /\ edgesLeft[r] = {} /\ inputs[r] \in Inputs[r]
      BY <1>1 DEF KeptInv, Ends, TypeOK
    <2>2. PICK f \in edges : f.id = e.id
      BY <2>1 DEF Kept
    <2>3. f \in Edges(inputs[r])
      BY <2>1 DEF Kept
    <2>4. inputs[r] \subseteq Items /\ Keyed(inputs[r])
      BY <2>1, InputsAssumption, KeysAssumption DEF Keyed
    <2>5. OneOrTwins(e, f)
      BY <2>2, <2>3, <2>4, SameIdTwins
    <2>6. QED
      BY <2>2, <2>5 DEF OneOrTwins
  <1>2. QED
    BY <1>1, EndsInit, EndsStep, KeptInit, KeptStep, PTL DEF Spec
-----------------------------------------------------------------------------
(* Sequences of sequences, joined.                                         *)

LEMMA Least ==
    ASSUME NEW T, T \subseteq Nat, T # {}
    PROVE  \E m \in T : \A n \in T : m <= n
<1> DEFINE R == OpToRel(<, Nat)
<1>1. IsWellFoundedOn(R, Nat)
    BY NatLessThanWellFounded
<1>2. PICK x \in T : \A y \in T : <<y, x>> \notin R
    <2> HIDE DEF R
    <2> QED BY <1>1, WFMin
<1>3. \A y \in T : ~(y < x)
    BY <1>2 DEF OpToRel
<1> QED BY <1>3

\* The beginnings of a sequence of sequences, joined.
Joins(g, ss, n) == g = [i \in 1 .. n |-> IF i = 1 THEN ss[i] ELSE g[i - 1] \o ss[i]]

LEMMA JoinsExist ==
    ASSUME NEW S, NEW n \in Nat \ {0}, NEW ss \in [1 .. n -> Seq(S)]
    PROVE  \E g \in [1 .. n -> Seq(S)] : Joins(g, ss, n)
<1> DEFINE Has(m) == \E g \in [1 .. m -> Seq(S)] : Joins(g, ss, m)
           T == {m \in 1 .. n : ~Has(m)}
<1> SUFFICES ASSUME T # {} PROVE FALSE
    <2>1. n \in 1 .. n OBVIOUS
    <2> QED BY <2>1
<1>1. PICK m \in T : \A j \in T : m <= j
    <2>1. T \subseteq Nat OBVIOUS
    <2> HIDE DEF T
    <2> QED BY <2>1, Least
<1>2. m \in 1 .. n /\ ~Has(m)
    OBVIOUS
<1>3. CASE m = 1
    <2> DEFINE g == [i \in 1 .. 1 |-> ss[1]]
    <2>1. g \in [1 .. 1 -> Seq(S)]
        <3>1. ss[1] \in Seq(S) OBVIOUS
        <3> QED BY <3>1
    <2>2. Joins(g, ss, 1)
        BY DEF Joins
    <2> QED BY <2>1, <2>2, <1>2, <1>3
<1>4. CASE m # 1
    <2>1. m - 1 \in 1 .. n /\ m - 1 \notin T
        <3>1. m - 1 \in 1 .. n /\ ~(m <= m - 1)
            <4> HIDE DEF T, Has
            <4> QED BY <1>2, <1>4
        <3> HIDE DEF T
        <3> QED BY <3>1, <1>1
    <2>2. PICK h \in [1 .. m - 1 -> Seq(S)] : Joins(h, ss, m - 1)
        BY <2>1
    <2> DEFINE g == [i \in 1 .. m |-> IF i = m THEN h[m - 1] \o ss[m] ELSE h[i]]
    <2>3. h[m - 1] \o ss[m] \in Seq(S)
        <3>1. h[m - 1] \in Seq(S) /\ ss[m] \in Seq(S)
            BY <2>1, <1>2
        <3> QED BY <3>1, ConcatProperties
    <2>4. g \in [1 .. m -> Seq(S)]
        BY <2>3, <1>2
    <2>5. ASSUME NEW i \in 1 .. m
          PROVE  g[i] = IF i = 1 THEN ss[i] ELSE g[i - 1] \o ss[i]
        <3>1. CASE i = m
            <4>1. g[i] = h[m - 1] \o ss[m]
                BY <3>1, <1>2
            <4>2. m - 1 \in 1 .. m /\ m - 1 # m
                BY <1>2, <2>1
            <4>3. g[m - 1] = h[m - 1]
                BY <4>2
            <4> HIDE DEF g
            <4> QED BY <4>1, <4>3, <3>1, <1>4
        <3>2. CASE i # m
            <4>1. i \in 1 .. m - 1
                BY <3>2, <1>2
            <4>2. h[i] = IF i = 1 THEN ss[i] ELSE h[i - 1] \o ss[i]
                BY <2>2, <4>1 DEF Joins
            <4>3. g[i] = h[i]
                BY <3>2
            <4>4. i # 1 => g[i - 1] = h[i - 1]
                <5> SUFFICES ASSUME i # 1 PROVE g[i - 1] = h[i - 1]
                    OBVIOUS
                <5>1. i - 1 \in 1 .. m /\ i - 1 # m
                    BY <4>1, <1>2
                <5> QED BY <5>1
            <4> HIDE DEF g
            <4> QED BY <4>2, <4>3, <4>4
        <3> QED BY <3>1, <3>2
    <2>6. Joins(g, ss, m)
        <3> DEFINE e == [i \in 1 .. m |-> IF i = 1 THEN ss[i] ELSE g[i - 1] \o ss[i]]
        <3>1. g = [i \in 1 .. m |-> g[i]] OBVIOUS
        <3>2. \A i \in 1 .. m : g[i] = e[i]
            <4> HIDE DEF g
            <4> QED BY <2>5
        <3>3. DOMAIN g = 1 .. m /\ DOMAIN e = 1 .. m
            OBVIOUS
        <3>4. g = e
            <4>1. e = [i \in 1 .. m |-> e[i]] OBVIOUS
            <4> HIDE DEF g, e
            <4> QED BY <3>1, <4>1, <3>2
        <3> QED BY <3>4 DEF Joins
    <2> QED BY <2>4, <2>6, <1>2
<1> QED BY <1>3, <1>4

\* The joined beginnings are sequences of the same elements, and hold all that was joined.
Gathers(s, S, ss, n) ==
    /\ s \in Seq(S)
    /\ \A i \in 1 .. n : \A k \in 1 .. Len(ss[i]) : \E m \in 1 .. Len(s) : s[m] = ss[i][k]

LEMMA JoinsHold ==
    ASSUME NEW S, NEW n \in Nat \ {0}, NEW ss \in [1 .. n -> Seq(S)], NEW g, Joins(g, ss, n)
    PROVE  Gathers(g[n], S, ss, n)
<1> DEFINE Holds(j) ==
              /\ g[j] \in Seq(S)
              /\ \A i \in 1 .. j : \A k \in 1 .. Len(ss[i]) :
                    \E m \in 1 .. Len(g[j]) : g[j][m] = ss[i][k]
           T == {j \in 1 .. n : ~Holds(j)}
<1>1. \A j \in 1 .. n : g[j] = IF j = 1 THEN ss[j] ELSE g[j - 1] \o ss[j]
    BY DEF Joins
<1>2. ASSUME T # {} PROVE FALSE
    <2>1. PICK j \in T : \A l \in T : j <= l
        <3>1. T \subseteq Nat OBVIOUS
        <3> HIDE DEF T
        <3> QED BY <3>1, <1>2, Least
    <2>2. j \in 1 .. n /\ ~Holds(j)
        OBVIOUS
    <2>3. ss[j] \in Seq(S)
        BY <2>2
    <2>4. CASE j = 1
        <3>a. 1 \in 1 .. n
            OBVIOUS
        <3>b. g[1] = IF 1 = 1 THEN ss[1] ELSE g[1 - 1] \o ss[1]
            BY <1>1, <3>a, Zenon
        <3>1. g[1] = ss[1]
            BY <3>b, Zenon
        <3>2. Holds(1)
            BY <3>1, <2>3, <2>4
        <3> QED BY <3>2, <2>2, <2>4
    <2>5. CASE j # 1
        <3>1. j - 1 \in 1 .. n /\ ~(j <= j - 1)
            <4> HIDE DEF T, Holds
            <4> QED BY <2>2, <2>5
        <3>2. Holds(j - 1)
            <4>1. j - 1 \notin T
                <5> HIDE DEF T
                <5> QED BY <3>1, <2>1
            <4> HIDE DEF Holds
            <4> QED BY <4>1, <3>1
        <3>3. g[j] = g[j - 1] \o ss[j]
            BY <1>1, <2>2, <2>5
        <3> DEFINE h == g[j - 1]  t == ss[j]
        <3>4. h \in Seq(S) /\ t \in Seq(S)
            BY <3>2, <2>3
        <3>5. /\ h \o t \in Seq(S) /\ Len(h \o t) = Len(h) + Len(t)
              /\ \A i \in 1 .. Len(h) + Len(t) :
                    (h \o t)[i] = IF i <= Len(h) THEN h[i] ELSE t[i - Len(h)]
            <4> HIDE DEF h, t
            <4> QED BY <3>4, ConcatProperties
        <3>6. Len(h) \in Nat /\ Len(t) \in Nat
            <4> HIDE DEF h, t
            <4> QED BY <3>4, LenProperties
        <3>7. ASSUME NEW i \in 1 .. j, NEW k \in 1 .. Len(ss[i])
              PROVE  \E m \in 1 .. Len(h \o t) : (h \o t)[m] = ss[i][k]
            <4>1. CASE i = j
                <5> DEFINE m == Len(h) + k
                <5>1. m \in 1 .. Len(h) + Len(t) /\ ~(m <= Len(h)) /\ m - Len(h) = k
                    <6>1. k \in 1 .. Len(t)
                        BY <4>1
                    <6> HIDE DEF h, t
                    <6> QED BY <6>1, <3>6
                <5>2. (h \o t)[m] = t[k]
                    <6> HIDE DEF h, t, m
                    <6> QED BY <5>1, <3>5
                <5>3. ss[i][k] = t[k]
                    BY <4>1
                <5> HIDE DEF h, t, m
                <5> QED BY <5>1, <5>2, <5>3, <3>5
            <4>2. CASE i # j
                <5>1. i \in 1 .. j - 1
                    <6>1. j \in Nat
                        BY <2>2
                    <6> QED BY <6>1, <4>2
                <5>2. PICK m \in 1 .. Len(h) : h[m] = ss[i][k]
                    BY <5>1, <3>2
                <5>3. m \in 1 .. Len(h) + Len(t) /\ m <= Len(h)
                    <6> HIDE DEF h, t
                    <6> QED BY <3>6
                <5> HIDE DEF h, t
                <5> QED BY <5>2, <5>3, <3>5
            <4> QED BY <4>1, <4>2
        <3>8. Holds(j)
            <4>1. g[j] \in Seq(S)
                BY <3>3, <3>5
            <4>2. \A i \in 1 .. j : \A k \in 1 .. Len(ss[i]) :
                     \E m \in 1 .. Len(g[j]) : g[j][m] = ss[i][k]
                BY <3>3, <3>7
            <4> QED BY <4>1, <4>2
        <3> QED BY <3>8, <2>2
    <2> QED BY <2>4, <2>5
<1>3. n \in 1 .. n
    OBVIOUS
<1>4. Holds(n)
    <2>1. n \notin T
        BY <1>2
    <2> HIDE DEF Holds
    <2> QED BY <2>1, <1>3
<1> QED BY <1>4 DEF Gathers

\* What FlattenSeq returns.
LEMMA Flattened ==
    ASSUME NEW S, NEW ss \in Seq(Seq(S))
    PROVE  Gathers(Gate!FlattenSeq(ss), S, ss, Len(ss))
<1> DEFINE n == Len(ss)
<1>1. n \in Nat /\ ss \in [1 .. n -> Seq(S)]
    OBVIOUS
<1>2. CASE n = 0
    <2>1. Gate!FlattenSeq(ss) = ss /\ ss = << >>
        BY <1>2 DEF Gate!FlattenSeq
    <2> QED BY <2>1, <1>2 DEF Gathers
<1>3. CASE n # 0
    <2>1. PICK h : Joins(h, ss, n)
        <3> HIDE DEF n
        <3> QED BY <1>1, <1>3, JoinsExist
    <2> DEFINE g == CHOOSE f : Joins(f, ss, n)
    <2>2. Joins(g, ss, n)
        <3> HIDE DEF n
        <3> QED BY <2>1
    <2>3. Gate!FlattenSeq(ss) = g[n]
        BY <1>3 DEF Gate!FlattenSeq, Joins
    <2> HIDE DEF g, n
    <2>4. n \in Nat \ {0} /\ ss \in [1 .. n -> Seq(S)]
        BY <1>1, <1>3
    <2>5. Gathers(g[n], S, ss, n)
        BY <2>4, <2>2, JoinsHold
    <2>6. n = Len(ss)
        BY DEF n
    <2> QED BY <2>3, <2>5, <2>6
<1> QED BY <1>2, <1>3

-----------------------------------------------------------------------------
(* The scans: the inductive invariant.                                     *)

ScopeNames ==
    DOMAIN Repos \cup (UNION {Gate!ToSet(Repos[o]) : o \in DOMAIN Repos})
      \cup (UNION {Gate!ToSet(Projects[f]) : f \in FaultCases})
      \cup (UNION {Gate!ToSet(Accounts[f]) : f \in FaultCases})
ReadKinds ==
    {"secrets", "environments", "environmentSecrets", "repositories", "pools", "providers",
     "accounts", "keys", "apps", "policies", "tokens"}
ScopeReads ==
    {r \in [within : SUBSET ScopeNames, item : ScopeNames \X ReadKinds, ends : ScopeNames \cup {Gate!Tolerated}] :
        r.ends = Gate!Tolerated \/ r.ends \in r.within}

\* With the world w, the store st and the notes n, what r reads is stored or noted.
Told(w, st, n, r) ==
    (/\ r.item \in ScanItems /\ w[r.item] # "absent"
     /\ \A j \in ScanItems : j # r.item /\ StoredAs[j] = StoredAs[r.item] => w[j] = "absent") =>
       \/ st[StoredAs[r.item]] = [item |-> r.item, is |-> w[r.item]]
       \/ ({r.item} \cup {Gate!Whole(s) : s \in r.within}) \cap n # {}

ReadsBy(p) == Gate!ReadsOf(faults, p)

\* The scan of p is at a read of its own, and what it passed since it began is told.
Going(p) == scan[p] \in {"running", "succeeded"} /\ quiet
Passed(p) ==
    \E k \in 1 .. Len(ReadsBy(p)) + 1 :
       /\ todo[p] = SubSeq(ReadsBy(p), k, Len(ReadsBy(p)))
       /\ Going(p) => \A m \in 1 .. k - 1 : Told(world, stored, notes[p], ReadsBy(p)[m])

ScanInv ==
    /\ DOMAIN todo = Gate!Providers /\ DOMAIN notes = Gate!Providers
    /\ \A p \in Gate!Providers : Passed(p)
    /\ \A p \in Gate!Providers : scan[p] = "succeeded" => todo[p] = << >>

\* The steps of a workflow follow each other.
OrderInv ==
    /\ running = "none" => scan = Gate!NoScans /\ build = "pending" /\ verdict = "pending"
    /\ build # "pending" => \A p \in Gate!Providers : Gate!Completed(scan[p])
    /\ verdict # "pending" => Gate!Completed(build)

\* What the build was given is what is stored, and the gate's verdict is on what it made.
JudgedInv ==
    /\ \A i \in ScanItems \ Gate!Targets : world[i] = "absent"
    /\ build # "pending" => given = {stored[n] : n \in Gate!Instances} \ {Gate!Nothing}
    /\ build = "succeeded" => posture = Gate!computeInventory(given)
    /\ verdict = "succeeded" => posture.built /\ ~Gate!Violates(posture)

\* The type invariant, but for what is left to read.
GateTypes ==
    /\ faults \in FaultCases
    /\ world \in [ScanItems -> Gate!Held]
    /\ DOMAIN stored = Gate!Instances
    /\ \A n \in Gate!Instances :
          stored[n] = Gate!Nothing \/ (stored[n] \in Gate!Stored /\ StoredAs[stored[n].item] = n)
    /\ posture \in [critical : Nat, high : Nat, built : BOOLEAN]
    /\ running \in Gate!Workflows \cup {"none"}
    /\ scan \in [Gate!Providers -> Gate!States]
    /\ build \in Gate!States /\ verdict \in Gate!States
    /\ given \subseteq Gate!Stored
    /\ quiet \in BOOLEAN

GateInv == GateTypes /\ ScanInv /\ OrderInv /\ JudgedInv

-----------------------------------------------------------------------------
(* What the scans read.                                                    *)

Asks(s, item) == \E k \in DOMAIN s : s[k].item = item

\* Every read of the model is well-formed.
LEMMA ReadTyped ==
    ASSUME NEW w \in SUBSET ScopeNames, NEW s \in w, NEW kind \in ReadKinds,
           NEW e, e = s \/ e = Gate!Tolerated
    PROVE  Gate!Read(w, s, kind, e) \in ScopeReads /\ Gate!Read(w, s, kind, e).item = <<s, kind>>
<1> DEFINE T == Gate!Tolerated
<1>1. s \in ScopeNames
    OBVIOUS
<1>2. Gate!Read(w, s, kind, e) = [within |-> w, item |-> <<s, kind>>, ends |-> e]
    BY DEF Gate!Read
<1>3. e \in ScopeNames \cup {T}
    BY <1>1
<1>4. <<s, kind>> \in ScopeNames \X ReadKinds
    BY <1>1
<1> QED BY <1>2, <1>3, <1>4 DEF ScopeReads

\* Of three reads, each is asked for.
LEMMA ThreeAsk ==
    ASSUME NEW a \in ScopeReads, NEW b \in ScopeReads, NEW c \in ScopeReads
    PROVE  /\ <<a, b, c>> \in Seq(ScopeReads)
           /\ Asks(<<a, b, c>>, a.item) /\ Asks(<<a, b, c>>, b.item) /\ Asks(<<a, b, c>>, c.item)
<1> DEFINE s == <<a, b, c>>
<1>1. s \in Seq(ScopeReads)
    OBVIOUS
<1>2. DOMAIN s = 1 .. 3 /\ s[1] = a /\ s[2] = b /\ s[3] = c
    OBVIOUS
<1> HIDE DEF s
<1>3. 1 \in DOMAIN s /\ 2 \in DOMAIN s /\ 3 \in DOMAIN s
    BY <1>2
<1>4. Asks(s, a.item) /\ Asks(s, b.item) /\ Asks(s, c.item)
    BY <1>2, <1>3 DEF Asks
<1> QED BY <1>1, <1>4 DEF s

\* A repository's reads: its secrets, its environments and theirs.
LEMMA RepoReadsAsk ==
    ASSUME NEW o \in ScopeNames, NEW r \in ScopeNames
    PROVE  /\ Gate!RepoReads(o, r) \in Seq(ScopeReads)
           /\ \A kind \in Gate!RepoKinds : Asks(Gate!RepoReads(o, r), <<r, kind>>)
<1> DEFINE w == {o, r}
           a == Gate!Read(w, r, "secrets", Gate!Tolerated)
           b == Gate!Read(w, r, "environments", r)
           c == Gate!Read(w, r, "environmentSecrets", Gate!Tolerated)
<1>1. w \in SUBSET ScopeNames /\ r \in w
    OBVIOUS
<1>2. Gate!RepoReads(o, r) = <<a, b, c>>
    BY DEF Gate!RepoReads
<1>3. "secrets" \in ReadKinds /\ "environments" \in ReadKinds /\ "environmentSecrets" \in ReadKinds
    BY DEF ReadKinds
<1> HIDE DEF w
<1>4. a \in ScopeReads /\ a.item = <<r, "secrets">>
    BY <1>1, <1>3, ReadTyped
<1>5. b \in ScopeReads
    BY <1>1, <1>3, ReadTyped
<1>6. c \in ScopeReads /\ c.item = <<r, "environmentSecrets">>
    BY <1>1, <1>3, ReadTyped
<1> HIDE DEF a, b, c
<1>7. /\ <<a, b, c>> \in Seq(ScopeReads)
      /\ Asks(<<a, b, c>>, a.item) /\ Asks(<<a, b, c>>, c.item)
    BY <1>4, <1>5, <1>6, ThreeAsk
<1>8. Asks(<<a, b, c>>, <<r, "secrets">>) /\ Asks(<<a, b, c>>, <<r, "environmentSecrets">>)
    BY <1>4, <1>6, <1>7
<1> QED BY <1>2, <1>7, <1>8 DEF Gate!RepoKinds

\* What is asked for first or then is asked for by both together.
LEMMA JoinedAsk ==
    ASSUME NEW s \in Seq(ScopeReads), NEW t \in Seq(ScopeReads)
    PROVE  /\ s \o t \in Seq(ScopeReads)
           /\ \A i : (Asks(s, i) \/ Asks(t, i)) => Asks(s \o t, i)
<1>1. /\ s \o t \in Seq(ScopeReads) /\ Len(s \o t) = Len(s) + Len(t)
      /\ \A k \in 1 .. Len(s) + Len(t) : (s \o t)[k] = IF k <= Len(s) THEN s[k] ELSE t[k - Len(s)]
    BY ConcatProperties
<1>2. /\ Len(s) \in Nat /\ Len(t) \in Nat
      /\ DOMAIN s = 1 .. Len(s) /\ DOMAIN t = 1 .. Len(t)
    BY LenProperties
<1>3. DOMAIN (s \o t) = 1 .. Len(s) + Len(t)
    BY <1>1, LenProperties
<1> DEFINE u == s \o t
<1> HIDE DEF u
<1>4. ASSUME NEW i, Asks(s, i) PROVE Asks(u, i)
    <2>1. PICK k \in DOMAIN s : s[k].item = i
        BY <1>4 DEF Asks
    <2>2. k \in 1 .. Len(s) + Len(t) /\ k <= Len(s)
        BY <2>1, <1>2
    <2>3. u[k] = s[k] /\ k \in DOMAIN u
        BY <2>2, <1>1, <1>3 DEF u
    <2> QED BY <2>1, <2>3 DEF Asks
<1>5. ASSUME NEW i, Asks(t, i) PROVE Asks(u, i)
    <2>1. PICK k \in DOMAIN t : t[k].item = i
        BY <1>5 DEF Asks
    <2> DEFINE m == Len(s) + k
    <2>2. m \in 1 .. Len(s) + Len(t) /\ ~(m <= Len(s)) /\ m - Len(s) = k
        BY <2>1, <1>2
    <2>3. u[m] = t[k] /\ m \in DOMAIN u
        <3> HIDE DEF m
        <3> QED BY <2>2, <1>1, <1>3 DEF u
    <2> HIDE DEF m
    <2> QED BY <2>1, <2>3 DEF Asks
<1> QED BY <1>1, <1>4, <1>5 DEF u

\* What one of several sequences asks for, they ask for joined.
LEMMA FlattenedAsk ==
    ASSUME NEW ss \in Seq(Seq(ScopeReads))
    PROVE  /\ Gate!FlattenSeq(ss) \in Seq(ScopeReads)
           /\ \A n \in 1 .. Len(ss) : \A i : Asks(ss[n], i) => Asks(Gate!FlattenSeq(ss), i)
<1>1. Gathers(Gate!FlattenSeq(ss), ScopeReads, ss, Len(ss))
    BY Flattened
<1> DEFINE u == Gate!FlattenSeq(ss)
<1> HIDE DEF u
<1>2. u \in Seq(ScopeReads)
    BY <1>1 DEF Gathers, u
<1>3. ASSUME NEW n \in 1 .. Len(ss), NEW i, Asks(ss[n], i) PROVE Asks(u, i)
    <2>1. ss[n] \in Seq(ScopeReads)
        BY ElementOfSeq
    <2>2. PICK k \in 1 .. Len(ss[n]) : ss[n][k].item = i
        BY <2>1, <1>3 DEF Asks
    <2>3. PICK m \in 1 .. Len(u) : u[m] = ss[n][k]
        BY <1>1 DEF Gathers, u
    <2>4. m \in DOMAIN u
        BY <1>2, LenProperties
    <2> QED BY <2>2, <2>3, <2>4 DEF Asks
<1> QED BY <1>2, <1>3 DEF u


\* A sequence is its elements in order.
LEMMA ElementsOf ==
    ASSUME NEW s, Gate!IsSequence(s)
    PROVE  /\ Len(s) \in Nat /\ DOMAIN s = 1 .. Len(s)
           /\ \A i \in 1 .. Len(s) : s[i] \in Gate!ToSet(s)
           /\ \A x \in Gate!ToSet(s) : \E i \in 1 .. Len(s) : s[i] = x
<1>1. s \in Seq(Gate!ToSet(s))
    BY DEF Gate!IsSequence
<1> DEFINE S == Gate!ToSet(s)
<1>2. s \in Seq(S)
    BY <1>1
<1>3. Len(s) \in Nat /\ DOMAIN s = 1 .. Len(s)
    <2> HIDE DEF S
    <2> QED BY <1>2, LenProperties
<1>4. \A x \in S : \E i \in DOMAIN s : s[i] = x
    BY DEF Gate!ToSet
<1>5. \A i \in DOMAIN s : s[i] \in S
    BY DEF Gate!ToSet
<1> QED BY <1>3, <1>4, <1>5

\* An organisation's reads: its secrets and repositories, and theirs.
LEMMA OrgReadsAsk ==
    ASSUME NEW o \in DOMAIN Repos
    PROVE  /\ Gate!OrgReads(o) \in Seq(ScopeReads)
           /\ \A kind \in Gate!OrgKinds : Asks(Gate!OrgReads(o), <<o, kind>>)
           /\ \A r \in Gate!ToSet(Repos[o]), kind \in Gate!RepoKinds :
                 Asks(Gate!OrgReads(o), <<r, kind>>)
<1> DEFINE a == Gate!Read({o}, o, "secrets", Gate!Tolerated)
           b == Gate!Read({o}, o, "repositories", o)
           s == <<a, b>>
           rs == Repos[o]
           ss == [i \in DOMAIN rs |-> Gate!RepoReads(o, rs[i])]
           t == Gate!FlattenSeq(ss)
<1>1. Gate!OrgReads(o) = s \o t
    BY DEF Gate!OrgReads
<1>2. {o} \in SUBSET ScopeNames /\ o \in {o} /\ o \in ScopeNames
    BY DEF ScopeNames
<1>3. a \in ScopeReads /\ a.item = <<o, "secrets">>
    <2>1. "secrets" \in ReadKinds
        BY DEF ReadKinds
    <2> QED BY <2>1, <1>2, ReadTyped
<1>4. b \in ScopeReads
    <2>1. "repositories" \in ReadKinds
        BY DEF ReadKinds
    <2> QED BY <2>1, <1>2, ReadTyped
<1>5. s \in Seq(ScopeReads) /\ Asks(s, <<o, "secrets">>)
    <2> HIDE DEF a, b
    <2>1. s \in Seq(ScopeReads) /\ 1 \in DOMAIN s /\ s[1] = a
        BY <1>3, <1>4
    <2> HIDE DEF s
    <2> QED BY <2>1, <1>3 DEF Asks
<1>6. Gate!IsSequence(rs)
    BY GateAssumption DEF Gate!Assumptions
<1>7. \A i \in 1 .. Len(rs) : rs[i] \in ScopeNames
    <2>1. \A i \in 1 .. Len(rs) : rs[i] \in Gate!ToSet(rs)
        <3> HIDE DEF rs
        <3> QED BY <1>6, ElementsOf
    <2>2. Gate!ToSet(rs) \subseteq ScopeNames
        BY DEF ScopeNames
    <2> QED BY <2>1, <2>2
<1>8. Len(rs) \in Nat /\ DOMAIN rs = 1 .. Len(rs)
    <2> HIDE DEF rs
    <2> QED BY <1>6, ElementsOf
<1>9. ss \in Seq(Seq(ScopeReads)) /\ Len(ss) = Len(rs)
    <2>1. \A i \in 1 .. Len(rs) : Gate!RepoReads(o, rs[i]) \in Seq(ScopeReads)
        <3> HIDE DEF rs
        <3> QED BY <1>2, <1>7, RepoReadsAsk
    <2>2. ss \in [1 .. Len(rs) -> Seq(ScopeReads)]
        BY <2>1, <1>8
    <2> HIDE DEF ss, rs
    <2> QED BY <2>2, <1>8
<1>10. /\ t \in Seq(ScopeReads)
       /\ \A n \in 1 .. Len(ss) : \A i : Asks(ss[n], i) => Asks(t, i)
    <2> HIDE DEF ss
    <2> QED BY <1>9, FlattenedAsk
<1>11. ASSUME NEW r \in Gate!ToSet(rs), NEW kind \in Gate!RepoKinds
       PROVE  Asks(t, <<r, kind>>)
    <2>1. PICK n \in 1 .. Len(rs) : rs[n] = r
        <3> HIDE DEF rs
        <3> QED BY <1>6, ElementsOf
    <2>2. ss[n] = Gate!RepoReads(o, r)
        BY <2>1, <1>8
    <2>3. r \in ScopeNames
        <3> HIDE DEF rs
        <3> QED BY <2>1, <1>7
    <2>4. Asks(Gate!RepoReads(o, r), <<r, kind>>)
        BY <2>3, <1>2, RepoReadsAsk
    <2> HIDE DEF ss, t, rs
    <2> QED BY <2>1, <2>2, <2>4, <1>9, <1>10
<1>12. /\ s \o t \in Seq(ScopeReads)
       /\ \A i : (Asks(s, i) \/ Asks(t, i)) => Asks(s \o t, i)
    <2> HIDE DEF s, t
    <2> QED BY <1>5, <1>10, JoinedAsk
<1> HIDE DEF s, t
<1>13. \A kind \in Gate!OrgKinds : Asks(s \o t, <<o, kind>>)
    BY <1>5, <1>12 DEF Gate!OrgKinds
<1>14. \A r \in Gate!ToSet(Repos[o]), kind \in Gate!RepoKinds : Asks(s \o t, <<r, kind>>)
    BY <1>11, <1>12
<1> QED BY <1>1, <1>12, <1>13, <1>14

\* A project's reads.
LEMMA ProjectReadsAsk ==
    ASSUME NEW p \in ScopeNames
    PROVE  /\ Gate!ProjectReads(p) \in Seq(ScopeReads)
           /\ \A kind \in Gate!ProjectKinds : Asks(Gate!ProjectReads(p), <<p, kind>>)
<1> DEFINE w == {p}
           a == Gate!Read(w, p, "pools", p)
           b == Gate!Read(w, p, "providers", Gate!Tolerated)
           c == Gate!Read(w, p, "accounts", p)
           d == Gate!Read(w, p, "keys", Gate!Tolerated)
           s == <<a, b, c, d>>
<1>1. Gate!ProjectReads(p) = s
    BY DEF Gate!ProjectReads
<1>2. w \in SUBSET ScopeNames /\ p \in w
    OBVIOUS
<1>3. "pools" \in ReadKinds /\ "providers" \in ReadKinds /\ "accounts" \in ReadKinds /\ "keys" \in ReadKinds
    BY DEF ReadKinds
<1> HIDE DEF w
<1>4. a \in ScopeReads
    BY <1>2, <1>3, ReadTyped
<1>5. b \in ScopeReads /\ b.item = <<p, "providers">>
    BY <1>2, <1>3, ReadTyped
<1>6. c \in ScopeReads
    BY <1>2, <1>3, ReadTyped
<1>7. d \in ScopeReads /\ d.item = <<p, "keys">>
    BY <1>2, <1>3, ReadTyped
<1> HIDE DEF a, b, c, d
<1>8. s \in Seq(ScopeReads) /\ 2 \in DOMAIN s /\ 4 \in DOMAIN s /\ s[2] = b /\ s[4] = d
    BY <1>4, <1>5, <1>6, <1>7
<1> HIDE DEF s
<1>9. Asks(s, <<p, "providers">>) /\ Asks(s, <<p, "keys">>)
    BY <1>5, <1>7, <1>8 DEF Asks
<1> QED BY <1>1, <1>8, <1>9 DEF Gate!ProjectKinds

\* An account's reads.
LEMMA AccountReadsAsk ==
    ASSUME NEW a \in ScopeNames
    PROVE  /\ Gate!AccountReads(a) \in Seq(ScopeReads)
           /\ \A kind \in Gate!AccountKinds : Asks(Gate!AccountReads(a), <<a, kind>>)
<1> DEFINE w == {a}
           x == Gate!Read(w, a, "apps", a)
           y == Gate!Read(w, a, "policies", Gate!Tolerated)
           z == Gate!Read(w, a, "tokens", a)
<1>1. Gate!AccountReads(a) = <<x, y, z>>
    BY DEF Gate!AccountReads
<1>2. w \in SUBSET ScopeNames /\ a \in w
    OBVIOUS
<1>3. "apps" \in ReadKinds /\ "policies" \in ReadKinds /\ "tokens" \in ReadKinds
    BY DEF ReadKinds
<1> HIDE DEF w
<1>4. x \in ScopeReads
    BY <1>2, <1>3, ReadTyped
<1>5. y \in ScopeReads /\ y.item = <<a, "policies">>
    BY <1>2, <1>3, ReadTyped
<1>6. z \in ScopeReads /\ z.item = <<a, "tokens">>
    BY <1>2, <1>3, ReadTyped
<1> HIDE DEF x, y, z
<1>7. /\ <<x, y, z>> \in Seq(ScopeReads)
      /\ Asks(<<x, y, z>>, y.item) /\ Asks(<<x, y, z>>, z.item)
    BY <1>4, <1>5, <1>6, ThreeAsk
<1>8. Asks(<<x, y, z>>, <<a, "policies">>) /\ Asks(<<x, y, z>>, <<a, "tokens">>)
    BY <1>5, <1>6, <1>7
<1> QED BY <1>1, <1>7, <1>8 DEF Gate!AccountKinds


\* What is read of a sequence of scopes, one after the other.
LEMMA ScopesAsk ==
    ASSUME NEW n \in Nat, NEW ss \in [1 .. n -> Seq(ScopeReads)]
    PROVE  /\ Gate!FlattenSeq(ss) \in Seq(ScopeReads)
           /\ \A k \in 1 .. n : \A i : Asks(ss[k], i) => Asks(Gate!FlattenSeq(ss), i)
<1>1. ss \in Seq(Seq(ScopeReads)) /\ Len(ss) = n
    OBVIOUS
<1> QED BY <1>1, FlattenedAsk

\* GitHub's scan.
LEMMA GithubAsks ==
    ASSUME NEW f \in FaultCases
    PROVE  /\ Gate!ReadsOf(f, "github") \in Seq(ScopeReads)
           /\ \A o \in Gate!ToSet(Orgs[f]) :
                 /\ \A kind \in Gate!OrgKinds : Asks(Gate!ReadsOf(f, "github"), <<o, kind>>)
                 /\ \A r \in Gate!ToSet(Repos[o]), kind \in Gate!RepoKinds :
                       Asks(Gate!ReadsOf(f, "github"), <<r, kind>>)
<1> DEFINE orgs == Orgs[f]
           n == Len(orgs)
           ss == [i \in DOMAIN orgs |-> Gate!OrgReads(orgs[i])]
           t == Gate!FlattenSeq(ss)
<1>1. Gate!ReadsOf(f, "github") = t
    BY DEF Gate!ReadsOf
<1>2. orgs \in Seq(DOMAIN Repos)
    BY GateAssumption DEF Gate!Assumptions
<1>3. n \in Nat /\ DOMAIN orgs = 1 .. n /\ \A i \in 1 .. n : orgs[i] \in DOMAIN Repos
    <2> HIDE DEF orgs
    <2> QED BY <1>2, LenProperties, ElementOfSeq
<1>4. ss \in [1 .. n -> Seq(ScopeReads)]
    <2>1. \A i \in 1 .. n : Gate!OrgReads(orgs[i]) \in Seq(ScopeReads)
        <3> HIDE DEF orgs, n
        <3> QED BY <1>3, OrgReadsAsk
    <2> HIDE DEF orgs, n
    <2> QED BY <1>3, <2>1
<1>5. /\ t \in Seq(ScopeReads)
      /\ \A k \in 1 .. n : \A i : Asks(ss[k], i) => Asks(t, i)
    <2> HIDE DEF ss, n
    <2> QED BY <1>3, <1>4, ScopesAsk
<1>6. ASSUME NEW o \in Gate!ToSet(orgs)
      PROVE  /\ \A kind \in Gate!OrgKinds : Asks(t, <<o, kind>>)
             /\ \A r \in Gate!ToSet(Repos[o]), kind \in Gate!RepoKinds : Asks(t, <<r, kind>>)
    <2>1. PICK k \in DOMAIN orgs : orgs[k] = o
        BY DEF Gate!ToSet
    <2>2. ss[k] = Gate!OrgReads(o) /\ k \in 1 .. n /\ o \in DOMAIN Repos
        BY <2>1, <1>3
    <2> HIDE DEF ss, t, n, orgs
    <2>3. \A i : Asks(Gate!OrgReads(o), i) => Asks(t, i)
        BY <2>2, <1>5
    <2>4. /\ \A kind \in Gate!OrgKinds : Asks(Gate!OrgReads(o), <<o, kind>>)
          /\ \A r \in Gate!ToSet(Repos[o]), kind \in Gate!RepoKinds :
                Asks(Gate!OrgReads(o), <<r, kind>>)
        BY <2>2, OrgReadsAsk
    <2> QED BY <2>3, <2>4
<1> QED BY <1>1, <1>5, <1>6

LEMMA ConfiguredNamed ==
    ASSUME NEW f \in FaultCases
    PROVE  Gate!ToSet(Projects[f]) \subseteq ScopeNames /\ Gate!ToSet(Accounts[f]) \subseteq ScopeNames
<1>1. ASSUME NEW x \in Gate!ToSet(Projects[f]) PROVE x \in ScopeNames
    <2>1. x \in UNION {Gate!ToSet(Projects[g]) : g \in FaultCases}
        BY <1>1
    <2> QED BY <2>1 DEF ScopeNames
<1>2. ASSUME NEW x \in Gate!ToSet(Accounts[f]) PROVE x \in ScopeNames
    <2>1. x \in UNION {Gate!ToSet(Accounts[g]) : g \in FaultCases}
        BY <1>2
    <2> QED BY <2>1 DEF ScopeNames
<1> QED BY <1>1, <1>2

\* GCP's scan.
LEMMA GcpAsks ==
    ASSUME NEW f \in FaultCases
    PROVE  /\ Gate!ReadsOf(f, "gcp") \in Seq(ScopeReads)
           /\ \A p \in Gate!ToSet(Projects[f]), kind \in Gate!ProjectKinds :
                 Asks(Gate!ReadsOf(f, "gcp"), <<p, kind>>)
<1> DEFINE projects == Projects[f]
           n == Len(projects)
           ss == [i \in DOMAIN projects |-> Gate!ProjectReads(projects[i])]
           t == Gate!FlattenSeq(ss)
<1>1. Gate!ReadsOf(f, "gcp") = t
    BY DEF Gate!ReadsOf
<1>2. Gate!IsSequence(projects)
    BY GateAssumption DEF Gate!Assumptions
<1>3. n \in Nat /\ DOMAIN projects = 1 .. n /\ \A i \in 1 .. n : projects[i] \in Gate!ToSet(projects)
    <2> HIDE DEF projects
    <2> QED BY <1>2, ElementsOf
<1>4. Gate!ToSet(projects) \subseteq ScopeNames
    BY ConfiguredNamed
<1>5. ss \in [1 .. n -> Seq(ScopeReads)]
    <2>1. \A i \in 1 .. n : Gate!ProjectReads(projects[i]) \in Seq(ScopeReads)
        <3> HIDE DEF projects, n
        <3> QED BY <1>3, <1>4, ProjectReadsAsk
    <2> HIDE DEF projects, n
    <2> QED BY <1>3, <2>1
<1>6. /\ t \in Seq(ScopeReads)
      /\ \A k \in 1 .. n : \A i : Asks(ss[k], i) => Asks(t, i)
    <2> HIDE DEF ss, n
    <2> QED BY <1>3, <1>5, ScopesAsk
<1>7. ASSUME NEW p \in Gate!ToSet(projects), NEW kind \in Gate!ProjectKinds
      PROVE  Asks(t, <<p, kind>>)
    <2>1. PICK k \in DOMAIN projects : projects[k] = p
        BY DEF Gate!ToSet
    <2>2. ss[k] = Gate!ProjectReads(p) /\ k \in 1 .. n /\ p \in ScopeNames
        BY <2>1, <1>3, <1>4
    <2> HIDE DEF ss, t, n, projects
    <2> QED BY <2>2, <1>6, ProjectReadsAsk
<1> QED BY <1>1, <1>6, <1>7

\* Cloudflare's scan.
LEMMA CloudflareAsks ==
    ASSUME NEW f \in FaultCases
    PROVE  /\ Gate!ReadsOf(f, "cloudflare") \in Seq(ScopeReads)
           /\ \A a \in Gate!ToSet(Accounts[f]), kind \in Gate!AccountKinds :
                 Asks(Gate!ReadsOf(f, "cloudflare"), <<a, kind>>)
<1> DEFINE accounts == Accounts[f]
           n == Len(accounts)
           ss == [i \in DOMAIN accounts |-> Gate!AccountReads(accounts[i])]
           t == Gate!FlattenSeq(ss)
<1>1. Gate!ReadsOf(f, "cloudflare") = t
    BY DEF Gate!ReadsOf
<1>2. Gate!IsSequence(accounts)
    BY GateAssumption DEF Gate!Assumptions
<1>3. n \in Nat /\ DOMAIN accounts = 1 .. n /\ \A i \in 1 .. n : accounts[i] \in Gate!ToSet(accounts)
    <2> HIDE DEF accounts
    <2> QED BY <1>2, ElementsOf
<1>4. Gate!ToSet(accounts) \subseteq ScopeNames
    BY ConfiguredNamed
<1>5. ss \in [1 .. n -> Seq(ScopeReads)]
    <2>1. \A i \in 1 .. n : Gate!AccountReads(accounts[i]) \in Seq(ScopeReads)
        <3> HIDE DEF accounts, n
        <3> QED BY <1>3, <1>4, AccountReadsAsk
    <2> HIDE DEF accounts, n
    <2> QED BY <1>3, <2>1
<1>6. /\ t \in Seq(ScopeReads)
      /\ \A k \in 1 .. n : \A i : Asks(ss[k], i) => Asks(t, i)
    <2> HIDE DEF ss, n
    <2> QED BY <1>3, <1>5, ScopesAsk
<1>7. ASSUME NEW a \in Gate!ToSet(accounts), NEW kind \in Gate!AccountKinds
      PROVE  Asks(t, <<a, kind>>)
    <2>1. PICK k \in DOMAIN accounts : accounts[k] = a
        BY DEF Gate!ToSet
    <2>2. ss[k] = Gate!AccountReads(a) /\ k \in 1 .. n /\ a \in ScopeNames
        BY <2>1, <1>3, <1>4
    <2> HIDE DEF ss, t, n, accounts
    <2> QED BY <2>2, <1>6, AccountReadsAsk
<1> QED BY <1>1, <1>6, <1>7

\* Every scan is a sequence of reads.
LEMMA ReadsTyped ==
    ASSUME NEW f \in FaultCases, NEW p \in Gate!Providers
    PROVE  Gate!ReadsOf(f, p) \in Seq(ScopeReads)
BY GithubAsks, GcpAsks, CloudflareAsks DEF Gate!Providers

LEMMA ScopesSplit ==
    ASSUME NEW f, f = faults, NEW x, x \in Gate!Scopes
    PROVE  \/ x \in Gate!ToSet(Orgs[f])
           \/ \E o \in Gate!ToSet(Orgs[f]) : x \in Gate!ToSet(Repos[o])
           \/ x \in Gate!ToSet(Projects[f])
           \/ x \in Gate!ToSet(Accounts[f])
BY DEF Gate!Scopes

\* An item within what is configured is asked for by a scan.
LEMMA TargetsAsked ==
    ASSUME NEW f, f = faults, f \in FaultCases, NEW i \in Gate!Targets
    PROVE  \E p \in Gate!Providers : Asks(Gate!ReadsOf(f, p), i)
<1>1. i \in ScanItems /\ i = <<i[1], i[2]>> /\ i[1] \in Gate!Scopes
    BY GateAssumption DEF Gate!Targets, Gate!Assumptions
<1>2. "github" \in Gate!Providers /\ "gcp" \in Gate!Providers /\ "cloudflare" \in Gate!Providers
    BY DEF Gate!Providers
<1>3. CASE i[1] \in Gate!ToSet(Orgs[f])
    <2>1. i[2] \in Gate!OrgKinds
        BY <1>1, <1>3, GateAssumption DEF Gate!Assumptions
    <2>2. Asks(Gate!ReadsOf(f, "github"), <<i[1], i[2]>>)
        BY <2>1, <1>3, GithubAsks
    <2> QED BY <2>2, <1>1, <1>2
<1>4. CASE \E o \in Gate!ToSet(Orgs[f]) : i[1] \in Gate!ToSet(Repos[o])
    <2>1. PICK o \in Gate!ToSet(Orgs[f]) : i[1] \in Gate!ToSet(Repos[o])
        BY <1>4
    <2>2. o \in DOMAIN Repos
        <3>1. PICK k \in DOMAIN Orgs[f] : Orgs[f][k] = o
            BY DEF Gate!ToSet
        <3>2. Orgs[f] \in Seq(DOMAIN Repos)
            BY GateAssumption DEF Gate!Assumptions
        <3> QED BY <3>1, <3>2
    <2>3. i[2] \in Gate!RepoKinds
        BY <1>1, <2>1, <2>2, GateAssumption DEF Gate!Assumptions
    <2>4. Asks(Gate!ReadsOf(f, "github"), <<i[1], i[2]>>)
        BY <2>1, <2>3, GithubAsks
    <2> QED BY <2>4, <1>1, <1>2
<1>5. CASE i[1] \in Gate!ToSet(Projects[f])
    <2>1. i[2] \in Gate!ProjectKinds
        BY <1>1, <1>5, GateAssumption DEF Gate!Assumptions
    <2>2. Asks(Gate!ReadsOf(f, "gcp"), <<i[1], i[2]>>)
        BY <2>1, <1>5, GcpAsks
    <2> QED BY <2>2, <1>1, <1>2
<1>6. CASE i[1] \in Gate!ToSet(Accounts[f])
    <2>1. i[2] \in Gate!AccountKinds
        BY <1>1, <1>6, GateAssumption DEF Gate!Assumptions
    <2>2. Asks(Gate!ReadsOf(f, "cloudflare"), <<i[1], i[2]>>)
        BY <2>1, <1>6, CloudflareAsks
    <2> QED BY <2>2, <1>1, <1>2
<1>7. \/ i[1] \in Gate!ToSet(Orgs[f])
      \/ \E o \in Gate!ToSet(Orgs[f]) : i[1] \in Gate!ToSet(Repos[o])
      \/ i[1] \in Gate!ToSet(Projects[f])
      \/ i[1] \in Gate!ToSet(Accounts[f])
    BY <1>1, ScopesSplit
<1> QED BY <1>3, <1>4, <1>5, <1>6, <1>7


-----------------------------------------------------------------------------
(* The steps of the scans.                                                 *)

\* Reading on: the reads from the k-th on, without the first.
LEMMA ReadOn ==
    ASSUME NEW S, NEW s \in Seq(S), NEW k \in 1 .. Len(s) + 1, SubSeq(s, k, Len(s)) # << >>
    PROVE  /\ k \in 1 .. Len(s)
           /\ Head(SubSeq(s, k, Len(s))) = s[k]
           /\ Tail(SubSeq(s, k, Len(s))) = SubSeq(s, k + 1, Len(s))
<1>1. Len(s) \in Nat
    BY LenProperties
<1>2. k \in 1 .. Len(s)
    <2> SUFFICES ASSUME k = Len(s) + 1 PROVE FALSE
        BY <1>1
    <2>1. Len(s) < k /\ k \in Int /\ Len(s) \in Int
        BY <1>1
    <2> QED BY <2>1, SubSeqEmpty
<1>3. Len(s) \in k .. Len(s)
    BY <1>1, <1>2
<1> QED BY <1>2, <1>3, HeadTailOfSubSeq

\* What is left of the reads after a failure that ends a scope.
LEMMA SkipOn ==
    ASSUME NEW s \in Seq(ScopeReads), NEW k \in 1 .. Len(s),
           NEW r, r = s[k], r.ends # Gate!Tolerated
    PROVE  \E n \in k + 1 .. Len(s) + 1 :
              /\ Gate!Rest(SubSeq(s, k, Len(s)), r) = SubSeq(s, n, Len(s))
              /\ \A m \in k .. n - 1 : r.ends \in s[m].within
<1> DEFINE t == SubSeq(s, k, Len(s))
           outside == {j \in DOMAIN t : r.ends \notin t[j].within}
<1>1. Len(s) \in Nat /\ k \in Int /\ \A i \in 1 .. Len(s) : s[i] \in ScopeReads
    BY LenProperties, ElementOfSeq
<1>2. /\ t \in Seq(ScopeReads) /\ Len(t) = Len(s) - k + 1
      /\ \A i \in 1 .. Len(s) - k + 1 : t[i] = s[k + i - 1]
    BY <1>1, SubSeqProperties
<1>3. DOMAIN t = 1 .. Len(t) /\ Len(t) \in Nat
    <2> HIDE DEF t
    <2> QED BY <1>2, LenProperties
<1>4. Gate!Rest(t, r) = IF outside = {} THEN << >> ELSE SubSeq(t, Gate!Min(outside), Len(t))
    BY DEF Gate!Rest
<1>5. r.ends \in r.within
    <2>1. r \in ScopeReads
        BY <1>1
    <2> QED BY <2>1 DEF ScopeReads
<1> HIDE DEF t
<1>6. \A j \in 1 .. Len(t) : j \notin outside => r.ends \in t[j].within
    BY <1>3
<1>7. CASE outside = {}
    <2>1. Gate!Rest(t, r) = SubSeq(s, Len(s) + 1, Len(s))
        BY <1>1, <1>4, <1>7, SubSeqEmpty
    <2>2. ASSUME NEW m \in k .. Len(s) PROVE r.ends \in s[m].within
        <3>1. m - k + 1 \in 1 .. Len(t) /\ k + (m - k + 1) - 1 = m
            BY <1>1, <1>2
        <3>2. t[m - k + 1] = s[m]
            BY <3>1, <1>2
        <3>3. r.ends \in t[m - k + 1].within
            <4> HIDE DEF outside
            <4> QED BY <3>1, <1>6, <1>7
        <3> QED BY <3>2, <3>3
    <2>3. Len(s) + 1 \in k + 1 .. Len(s) + 1 /\ Len(s) + 1 - 1 = Len(s)
        BY <1>1
    <2> QED BY <2>1, <2>2, <2>3 DEF t
<1>8. CASE outside # {}
    <2> DEFINE x == Gate!Min(outside)
    <2>1. x \in outside /\ \A j \in outside : x <= j
        <3>1. outside \subseteq Nat
            BY <1>3
        <3> HIDE DEF outside
        <3>2. \E j \in outside : \A i \in outside : j <= i
            BY <3>1, <1>8, Least
        <3> QED BY <3>2 DEF Gate!Min
    <2>2. x \in 1 .. Len(t) /\ r.ends \notin t[x].within
        BY <2>1, <1>3
    <2>3. x # 1
        <3>1. t[1] = s[k]
            BY <1>1, <1>2
        <3> QED BY <3>1, <2>2, <1>5
    <2> HIDE DEF x
    <2>4. SubSeq(t, x, Len(t)) = SubSeq(s, k + x - 1, k + Len(t) - 1)
        <3>1. /\ s \in Seq(ScopeReads) /\ k \in 1 .. Len(s) /\ Len(s) \in 1 .. Len(s)
              /\ x \in 1 .. Len(s) - k + 1 /\ Len(t) \in 1 .. Len(s) - k + 1
            BY <1>1, <1>2, <2>2
        <3> QED BY <3>1, SubSeqOfSubSeq DEF t
    <2>5. k + Len(t) - 1 = Len(s)
        BY <1>1, <1>2
    <2> DEFINE n == k + x - 1
    <2>6. n \in k + 1 .. Len(s) + 1
        BY <1>1, <1>2, <2>2, <2>3
    <2>7. Gate!Rest(t, r) = SubSeq(s, n, Len(s))
        BY <1>4, <1>8, <2>4, <2>5 DEF x
    <2>8. ASSUME NEW m \in k .. n - 1 PROVE r.ends \in s[m].within
        <3>1. m - k + 1 \in 1 .. Len(t) /\ k + (m - k + 1) - 1 = m /\ ~(x <= m - k + 1)
            BY <1>1, <1>2, <2>2
        <3>2. t[m - k + 1] = s[m]
            BY <3>1, <1>2
        <3>3. r.ends \in t[m - k + 1].within
            <4>1. m - k + 1 \notin outside
                <5> HIDE DEF outside
                <5> QED BY <3>1, <2>1
            <4> HIDE DEF outside
            <4> QED BY <4>1, <3>1, <1>6
        <3> QED BY <3>2, <3>3
    <2> HIDE DEF n
    <2> QED BY <2>6, <2>7, <2>8 DEF t
<1> QED BY <1>7, <1>8

\* A note or a write of what is there takes nothing back that was told.
LEMMA ToldKept ==
    ASSUME NEW w, NEW st, NEW n, NEW r, Told(w, st, n, r), NEW more, NEW i,
           DOMAIN st = Gate!Instances
    PROVE  /\ Told(w, st, n \cup more, r)
           /\ (i \in ScanItems /\ w[i] # "absent") =>
                 Told(w, [st EXCEPT ![StoredAs[i]] = [item |-> i, is |-> w[i]]], n, r)
<1>1. Told(w, st, n \cup more, r)
    BY DEF Told
<1>2. ASSUME i \in ScanItems, w[i] # "absent"
      PROVE  Told(w, [st EXCEPT ![StoredAs[i]] = [item |-> i, is |-> w[i]]], n, r)
    <2> DEFINE new == [st EXCEPT ![StoredAs[i]] = [item |-> i, is |-> w[i]]]
    <2>1. SUFFICES ASSUME r.item \in ScanItems, w[r.item] # "absent",
                          \A j \in ScanItems : j # r.item /\ StoredAs[j] = StoredAs[r.item] => w[j] = "absent",
                          st[StoredAs[r.item]] = [item |-> r.item, is |-> w[r.item]]
                   PROVE  new[StoredAs[r.item]] = [item |-> r.item, is |-> w[r.item]]
        BY DEF Told
    <2>2. StoredAs[r.item] \in DOMAIN st
        BY <2>1 DEF Gate!Instances
    <2>3. CASE i = r.item
        BY <2>2, <2>3
    <2>4. CASE i # r.item
        <3>1. StoredAs[i] # StoredAs[r.item]
            BY <1>2, <2>1, <2>4
        <3> QED BY <3>1, <2>1, <2>2
    <2> QED BY <2>3, <2>4
<1> QED BY <1>1, <1>2

\* What has just been read, and is there, is told.
LEMMA ToldWhenRead ==
    ASSUME NEW w, NEW st, NEW n, NEW r, DOMAIN st = Gate!Instances
    PROVE  /\ (r.item \in ScanItems /\ w[r.item] # "absent") =>
                 Told(w, [st EXCEPT ![StoredAs[r.item]] = [item |-> r.item, is |-> w[r.item]]], n, r)
           /\ ~(r.item \in ScanItems /\ w[r.item] # "absent") => Told(w, st, n, r)
<1>1. ASSUME r.item \in ScanItems
      PROVE  StoredAs[r.item] \in DOMAIN st
    BY <1>1 DEF Gate!Instances
<1> QED BY <1>1 DEF Told

\* And so is what a note tells of.
LEMMA ToldWhenNoted ==
    ASSUME NEW w, NEW st, NEW n, NEW r,
           r.item \in n \/ \E s \in r.within : Gate!Whole(s) \in n
    PROVE  Told(w, st, n, r)
BY DEF Told


-----------------------------------------------------------------------------
(* The invariant of the gate's runs.                                       *)

LEMMA ProvidersRead ==
    ASSUME NEW p \in Gate!Providers, faults \in FaultCases
    PROVE  ReadsBy(p) \in Seq(ScopeReads) /\ Len(ReadsBy(p)) \in Nat
<1>1. ReadsBy(p) \in Seq(ScopeReads)
    BY ReadsTyped DEF ReadsBy
<1> QED BY <1>1, LenProperties

LEMMA SameReads ==
    ASSUME faults' = faults, NEW p
    PROVE  ReadsBy(p)' = ReadsBy(p)
BY DEF ReadsBy

\* A scan that does not read stays where it is.
LEMMA PassedKept ==
    ASSUME NEW p, Passed(p), faults' = faults, todo'[p] = todo[p],
           Going(p)' => /\ Going(p)
                        /\ \A r : Told(world, stored, notes[p], r) => Told(world', stored', notes'[p], r)
    PROVE  Passed(p)'
<1> DEFINE R == ReadsBy(p)
<1>1. ReadsBy(p)' = R
    BY SameReads
<1>2. PICK k \in 1 .. Len(R) + 1 :
         /\ todo[p] = SubSeq(R, k, Len(R))
         /\ Going(p) => \A m \in 1 .. k - 1 : Told(world, stored, notes[p], R[m])
    BY DEF Passed
<1> HIDE DEF R
<1>3. Going(p)' => \A m \in 1 .. k - 1 : Told(world', stored', notes'[p], R[m])
    BY <1>2
<1> QED BY <1>1, <1>2, <1>3 DEF Passed

\* A scan starts with all of its reads.
LEMMA PassedAtStart ==
    ASSUME NEW p \in Gate!Providers, faults' = faults, faults \in FaultCases,
           (todo'[p] = Gate!Reads(p)) \/ (todo'[p] = << >> /\ ~Going(p)')
    PROVE  Passed(p)'
<1> DEFINE R == ReadsBy(p)
<1>1. ReadsBy(p)' = R /\ Gate!Reads(p) = R
    BY SameReads DEF ReadsBy, Gate!Reads
<1>2. R \in Seq(ScopeReads) /\ Len(R) \in Nat
    BY ProvidersRead
<1> HIDE DEF R
<1>3. CASE todo'[p] = R
    <2>1. SubSeq(R, 1, Len(R)) = R
        BY <1>2, SubSeqFull
    <2>2. 1 \in 1 .. Len(R) + 1 /\ \A m \in 1 .. 1 - 1 : FALSE
        BY <1>2
    <2> QED BY <1>1, <1>3, <2>1, <2>2 DEF Passed
<1>4. CASE todo'[p] = << >> /\ ~Going(p)'
    <2>1. SubSeq(R, Len(R) + 1, Len(R)) = << >>
        BY <1>2, SubSeqEmpty
    <2>2. Len(R) + 1 \in 1 .. Len(R) + 1
        BY <1>2
    <2> QED BY <1>1, <1>4, <2>1, <2>2 DEF Passed
<1> QED BY <1>1, <1>3, <1>4

\* A read that succeeds.
LEMMA PassedRead ==
    ASSUME GateInv, NEW p \in Gate!Providers, Gate!ReadOk(p), faults' = faults
    PROVE  Passed(p)'
<1> DEFINE R == ReadsBy(p)
<1>1. ReadsBy(p)' = R /\ R \in Seq(ScopeReads) /\ Len(R) \in Nat
    BY SameReads, ProvidersRead DEF GateInv, GateTypes
<1>2. PICK k \in 1 .. Len(R) + 1 :
         /\ todo[p] = SubSeq(R, k, Len(R))
         /\ Going(p) => \A m \in 1 .. k - 1 : Told(world, stored, notes[p], R[m])
    BY DEF Passed, GateInv, ScanInv
<1> HIDE DEF R
<1>3. todo[p] # << >> /\ todo'[p] = Tail(todo[p]) /\ DOMAIN stored = Gate!Instances
    BY DEF GateInv, GateTypes, ScanInv, Gate!ReadOk
<1>4. /\ k \in 1 .. Len(R)
      /\ Head(todo[p]) = R[k]
      /\ Tail(todo[p]) = SubSeq(R, k + 1, Len(R))
    BY <1>1, <1>2, <1>3, ReadOn
<1> DEFINE i == R[k].item
           new == [stored EXCEPT ![StoredAs[i]] = [item |-> i, is |-> world[i]]]
<1>5. stored' = IF i \in ScanItems /\ world[i] # "absent" THEN new ELSE stored
    BY <1>4 DEF Gate!ReadOk, Gate!writeResource
<1>6. world' = world /\ notes' = notes /\ scan' = scan /\ quiet' = quiet
    BY DEF Gate!ReadOk
<1>7. Told(world, stored', notes[p], R[k])
    BY <1>3, <1>5, ToldWhenRead
<1>8. \A r : Told(world, stored, notes[p], r) => Told(world, stored', notes[p], r)
    <2> SUFFICES ASSUME NEW r, Told(world, stored, notes[p], r)
                 PROVE  Told(world, stored', notes[p], r)
        OBVIOUS
    <2> HIDE DEF i
    <2>1. (i \in ScanItems /\ world[i] # "absent") => Told(world, new, notes[p], r)
        BY <1>3, ToldKept
    <2> HIDE DEF new
    <2> QED BY <2>1, <1>5
<1> HIDE DEF i, new
<1>9. Going(p)' => \A m \in 1 .. k + 1 - 1 : Told(world', stored', notes'[p], R[m])
    <2> SUFFICES ASSUME Going(p)', NEW m \in 1 .. k + 1 - 1
                 PROVE  Told(world', stored', notes'[p], R[m])
        OBVIOUS
    <2>1. Going(p)
        BY <1>6 DEF Going
    <2>2. m \in 1 .. k - 1 \/ m = k
        BY <1>1
    <2> QED BY <2>1, <2>2, <1>2, <1>6, <1>7, <1>8
<1> DEFINE n == k + 1
<1>10. n \in 1 .. Len(R) + 1 /\ todo'[p] = SubSeq(R, n, Len(R))
    BY <1>1, <1>3, <1>4
<1>11. Going(p)' => \A m \in 1 .. n - 1 : Told(world', stored', notes'[p], R[m])
    BY <1>9
<1> HIDE DEF n
<1> QED BY <1>1, <1>10, <1>11 DEF Passed

\* A read that fails.
LEMMA PassedFailed ==
    ASSUME GateInv, NEW p \in Gate!Providers, Gate!ReadFails(p), faults' = faults
    PROVE  Passed(p)'
<1> DEFINE R == ReadsBy(p)
<1>1. ReadsBy(p)' = R /\ R \in Seq(ScopeReads) /\ Len(R) \in Nat
    BY SameReads, ProvidersRead DEF GateInv, GateTypes
<1>2. PICK k \in 1 .. Len(R) + 1 :
         /\ todo[p] = SubSeq(R, k, Len(R))
         /\ Going(p) => \A m \in 1 .. k - 1 : Told(world, stored, notes[p], R[m])
    BY DEF Passed, GateInv, ScanInv
<1> HIDE DEF R
<1>3. /\ todo[p] # << >> /\ DOMAIN stored = Gate!Instances
      /\ todo'[p] = Gate!Rest(todo[p], Head(todo[p]))
      /\ notes'[p] = notes[p] \cup Gate!Noted(Head(todo[p]))
    BY DEF GateInv, GateTypes, ScanInv, Gate!ReadFails
<1>4. /\ k \in 1 .. Len(R)
      /\ Head(todo[p]) = R[k]
      /\ Tail(todo[p]) = SubSeq(R, k + 1, Len(R))
    BY <1>1, <1>2, <1>3, ReadOn
<1>5. world' = world /\ stored' = stored /\ scan' = scan /\ quiet' = quiet
    BY DEF Gate!ReadFails
<1>6. ASSUME NEW r, Told(world, stored, notes[p], r)
      PROVE  Told(world, stored, notes'[p], r)
    <2>1. Told(world, stored, notes[p] \cup Gate!Noted(Head(todo[p])), r)
        BY <1>3, <1>6, ToldKept
    <2> QED BY <2>1, <1>3
<1>7. PICK n \in k + 1 .. Len(R) + 1 :
         /\ todo'[p] = SubSeq(R, n, Len(R))
         /\ \A m \in k .. n - 1 : Told(world, stored, notes'[p], R[m])
    <2>1. CASE R[k].ends = Gate!Tolerated
        <3>1. todo'[p] = SubSeq(R, k + 1, Len(R)) /\ notes'[p] = notes[p] \cup {R[k].item}
            BY <1>3, <1>4, <2>1 DEF Gate!Rest, Gate!Noted
        <3>2. Told(world, stored, notes'[p], R[k])
            BY <3>1, ToldWhenNoted
        <3> DEFINE n == k + 1
        <3>3. n \in k + 1 .. Len(R) + 1 /\ \A m \in k .. n - 1 : m = k
            BY <1>1, <1>4
        <3>4. todo'[p] = SubSeq(R, n, Len(R))
            BY <3>1
        <3>5. \A m \in k .. n - 1 : Told(world, stored, notes'[p], R[m])
            BY <3>2, <3>3
        <3> HIDE DEF n
        <3> QED BY <3>3, <3>4, <3>5
    <2>2. CASE R[k].ends # Gate!Tolerated
        <3>1. PICK n \in k + 1 .. Len(R) + 1 :
                 /\ Gate!Rest(SubSeq(R, k, Len(R)), R[k]) = SubSeq(R, n, Len(R))
                 /\ \A m \in k .. n - 1 : R[k].ends \in R[m].within
            BY <1>1, <1>4, <2>2, SkipOn
        <3>2. todo'[p] = SubSeq(R, n, Len(R))
            BY <1>2, <1>3, <1>4, <3>1
        <3>3. Gate!Whole(R[k].ends) \in notes'[p]
            BY <1>3, <1>4, <2>2 DEF Gate!Noted
        <3>4. \A m \in k .. n - 1 : Told(world, stored, notes'[p], R[m])
            BY <3>1, <3>3, ToldWhenNoted
        <3> QED BY <3>2, <3>4
    <2> QED BY <2>1, <2>2
<1>8. Going(p)' => \A m \in 1 .. n - 1 : Told(world', stored', notes'[p], R[m])
    <2> SUFFICES ASSUME Going(p)', NEW m \in 1 .. n - 1
                 PROVE  Told(world', stored', notes'[p], R[m])
        OBVIOUS
    <2>1. Going(p)
        BY <1>5 DEF Going
    <2>2. m \in 1 .. k - 1 \/ m \in k .. n - 1
        BY <1>1
    <2> QED BY <2>1, <2>2, <1>2, <1>5, <1>6, <1>7
<1>9. n \in 1 .. Len(R) + 1
    BY <1>1, <1>4
<1> QED BY <1>1, <1>7, <1>8, <1>9 DEF Passed


LEMMA FewItems == IsFiniteSet(ScanItems) /\ \A S : Gate!Cardinality(S) = Cardinality(S)
<1>1. IsFiniteSet(ScanItems)
    BY GateAssumption DEF Gate!Assumptions, Gate!IsFiniteSet, IsFiniteSet
<1>2. ASSUME NEW S PROVE Gate!Cardinality(S) = Cardinality(S)
    BY DEF Gate!Cardinality, Cardinality
<1> QED BY <1>1, <1>2

\* What the build is given is finite.
LEMMA GivenFinite ==
    ASSUME given = {stored[n] : n \in Gate!Instances} \ {Gate!Nothing}
    PROVE  IsFiniteSet(given)
<1> DEFINE names == [i \in ScanItems |-> StoredAs[i]]
           T == {stored[n] : n \in Gate!Instances}
           held == [n \in Gate!Instances |-> stored[n]]
<1>1. IsFiniteSet(Gate!Instances)
    <2>1. names \in Surjection(ScanItems, Gate!Instances)
        BY DEF Surjection, Gate!Instances
    <2> QED BY <2>1, FewItems, FS_Surjection
<1>2. IsFiniteSet(T)
    <2>1. held \in Surjection(Gate!Instances, T)
        BY DEF Surjection
    <2> HIDE DEF held, T
    <2> QED BY <2>1, <1>1, FS_Surjection
<1> QED BY <1>2, FS_Subset

LEMMA InventoryTyped ==
    ASSUME NEW S, IsFiniteSet(S)
    PROVE  Gate!computeInventory(S) \in [critical : Nat, high : Nat, built : BOOLEAN]
<1>1. ASSUME NEW severity PROVE Gate!Cardinality(Gate!Findings(S, severity)) \in Nat
    <2>1. Gate!Findings(S, severity) \subseteq S
        BY DEF Gate!Findings
    <2> QED BY <2>1, FewItems, FS_Subset, FS_CardinalityType
<1> QED BY <1>1 DEF Gate!computeInventory

LEMMA GateTypesKept ==
    ASSUME GateInv, Gate!Moves, faults' = faults
    PROVE  GateTypes'
<1> USE DEF GateTypes
<1>1. GateTypes
    BY DEF GateInv
<1>2. CASE \E w \in Gate!Workflows : Gate!Begin(w)
    BY <1>1, <1>2 DEF Gate!Begin, Gate!scans
<1>3. ASSUME NEW p \in Gate!Providers, Gate!StartScan(p) PROVE GateTypes'
    <2>1. scan' \in [Gate!Providers -> Gate!States]
        BY <1>1, <1>3 DEF Gate!StartScan, Gate!States
    <2> QED BY <2>1, <1>1, <1>3 DEF Gate!StartScan
<1>4. ASSUME NEW p \in Gate!Providers, Gate!ScanThrows(p) PROVE GateTypes'
    <2>1. scan' \in [Gate!Providers -> Gate!States]
        BY <1>1, <1>4 DEF Gate!ScanThrows, Gate!States
    <2> QED BY <2>1, <1>1, <1>4 DEF Gate!ScanThrows
<1>5. ASSUME NEW p \in Gate!Providers, Gate!ReadOk(p) PROVE GateTypes'
    <2> DEFINE i == Head(todo[p]).item
    <2>1. stored' = IF i \in ScanItems /\ world[i] # "absent" THEN Gate!writeResource(stored, i) ELSE stored
        BY <1>5 DEF Gate!ReadOk
    <2> HIDE DEF i
    <2>2. ASSUME i \in ScanItems, world[i] # "absent"
          PROVE  /\ DOMAIN stored' = Gate!Instances
                 /\ \A n \in Gate!Instances :
                       stored'[n] = Gate!Nothing
                       \/ (stored'[n] \in Gate!Stored /\ StoredAs[stored'[n].item] = n)
        <3>1. stored' = [stored EXCEPT ![StoredAs[i]] = [item |-> i, is |-> world[i]]]
            BY <2>1, <2>2 DEF Gate!writeResource
        <3>2. [item |-> i, is |-> world[i]] \in Gate!Stored
            BY <1>1, <2>2 DEF Gate!Stored, Gate!Held
        <3> QED BY <3>1, <3>2, <1>1
    <2>3. /\ DOMAIN stored' = Gate!Instances
          /\ \A n \in Gate!Instances :
                stored'[n] = Gate!Nothing
                \/ (stored'[n] \in Gate!Stored /\ StoredAs[stored'[n].item] = n)
        BY <2>1, <2>2, <1>1
    <2>4. UNCHANGED <<world, posture, running, scan, build, verdict, given, quiet>>
        BY <1>5 DEF Gate!ReadOk
    <2> QED BY <2>3, <2>4, <1>1
<1>6. ASSUME NEW p \in Gate!Providers, Gate!ReadFails(p) PROVE GateTypes'
    BY <1>1, <1>6 DEF Gate!ReadFails
<1>7. ASSUME NEW p \in Gate!Providers, Gate!EndScan(p) PROVE GateTypes'
    <2>1. scan' \in [Gate!Providers -> Gate!States]
        BY <1>1, <1>7 DEF Gate!EndScan, Gate!States
    <2> QED BY <2>1, <1>1, <1>7 DEF Gate!EndScan
<1>8. CASE Gate!StartBuild
    <2>1. given' \subseteq Gate!Stored
        BY <1>1, <1>8 DEF Gate!StartBuild
    <2> QED BY <2>1, <1>1, <1>8 DEF Gate!StartBuild, Gate!States, Gate!scans
<1>9. CASE Gate!Build
    <2>1. posture' \in [critical : Nat, high : Nat, built : BOOLEAN]
        <3>1. IsFiniteSet(given)
            BY <1>9, GivenFinite DEF GateInv, JudgedInv, Gate!Build
        <3> QED BY <3>1, <1>9, InventoryTyped DEF Gate!Build
    <2> QED BY <2>1, <1>1, <1>9 DEF Gate!Build, Gate!States, Gate!scans
<1>10. CASE Gate!BuildFails
    BY <1>1, <1>10 DEF Gate!BuildFails, Gate!States, Gate!scans
<1>11. CASE Gate!assert_posture
    BY <1>1, <1>11 DEF Gate!assert_posture, Gate!States, Gate!scans
<1>12. CASE Gate!End
    BY <1>1, <1>12 DEF Gate!End, Gate!States, Gate!NoScans
<1>13. CASE Gate!Drift
    <2>1. PICK i \in Gate!Targets, h \in Gate!Held : world' = [world EXCEPT ![i] = h]
        BY <1>13 DEF Gate!Drift
    <2>2. world' \in [ScanItems -> Gate!Held]
        BY <2>1, <1>1
    <2>3. quiet' \in BOOLEAN
        <3>1. quiet' = (running = "none")
            BY <1>13 DEF Gate!Drift
        <3> QED BY <3>1, Zenon
    <2>4. UNCHANGED <<stored, posture, running, scan, build, verdict, given>>
        BY <1>13 DEF Gate!Drift, Gate!scans
    <2> QED BY <2>2, <2>3, <2>4, <1>1
<1>14. CASE Gate!Expire
    <2>1. PICK n \in Gate!Instances : stored' = [stored EXCEPT ![n] = Gate!Nothing]
        BY <1>14 DEF Gate!Expire
    <2> QED BY <2>1, <1>1, <1>14 DEF Gate!Expire, Gate!steps, Gate!scans
<1> QED BY <1>2, <1>3, <1>4, <1>5, <1>6, <1>7, <1>8, <1>9, <1>10, <1>11, <1>12, <1>13, <1>14
        DEF Gate!Moves, Gate!Workflow, Gate!Scan

LEMMA ScansKept ==
    ASSUME GateInv, Gate!Moves, faults' = faults
    PROVE  ScanInv'
<1>1. /\ DOMAIN todo = Gate!Providers /\ DOMAIN notes = Gate!Providers
      /\ \A p \in Gate!Providers : Passed(p)
      /\ \A p \in Gate!Providers : scan[p] = "succeeded" => todo[p] = << >>
      /\ DOMAIN scan = Gate!Providers /\ faults \in FaultCases
    BY DEF GateInv, ScanInv, GateTypes
<1>2. ASSUME UNCHANGED <<world, stored, scan, todo, notes, quiet>> PROVE ScanInv'
    <2>1. \A p \in Gate!Providers : Passed(p)'
        BY <1>1, <1>2, PassedKept DEF Going
    <2> QED BY <2>1, <1>1, <1>2 DEF ScanInv
<1>3. ASSUME NEW p \in Gate!Providers, Gate!StartScan(p) PROVE ScanInv'
    <2>1. /\ scan' = [scan EXCEPT ![p] = "running"] /\ todo' = [todo EXCEPT ![p] = Gate!Reads(p)]
          /\ UNCHANGED <<world, stored, notes, quiet>>
        BY <1>3 DEF Gate!StartScan
    <2>2. ASSUME NEW q \in Gate!Providers PROVE Passed(q)'
        <3>1. CASE q = p
            <4>1. todo'[q] = Gate!Reads(q)
                BY <1>1, <2>1, <3>1
            <4> QED BY <4>1, <1>1, PassedAtStart
        <3>2. CASE q # p
            <4>1. todo'[q] = todo[q] /\ scan'[q] = scan[q]
                BY <1>1, <2>1, <3>2
            <4> QED BY <4>1, <2>1, <1>1, PassedKept DEF Going
        <3> QED BY <3>1, <3>2
    <2>3. \A q \in Gate!Providers : scan'[q] = "succeeded" => todo'[q] = << >>
        BY <1>1, <2>1
    <2> QED BY <2>1, <2>2, <2>3, <1>1 DEF ScanInv
<1>4. ASSUME NEW p \in Gate!Providers, Gate!ScanThrows(p) PROVE ScanInv'
    <2>1. /\ scan' = [scan EXCEPT ![p] = "failed"]
          /\ UNCHANGED <<world, stored, todo, notes, quiet>>
        BY <1>4 DEF Gate!ScanThrows
    <2>2. ASSUME NEW q \in Gate!Providers PROVE Passed(q)'
        <3>1. scan'[q] = scan[q] \/ scan'[q] = "failed"
            BY <1>1, <2>1
        <3> QED BY <3>1, <2>1, <1>1, PassedKept DEF Going
    <2>3. \A q \in Gate!Providers : scan'[q] = "succeeded" => todo'[q] = << >>
        BY <1>1, <2>1
    <2> QED BY <2>1, <2>2, <2>3, <1>1 DEF ScanInv
<1>5. ASSUME NEW p \in Gate!Providers, Gate!ReadOk(p) PROVE ScanInv'
    <2>1. /\ todo' = [todo EXCEPT ![p] = Tail(todo[p])] /\ scan[p] = "running"
          /\ UNCHANGED <<world, scan, notes, quiet>>
        BY <1>5 DEF Gate!ReadOk, Gate!Scanning
    <2>2. ASSUME NEW q \in Gate!Providers PROVE Passed(q)'
        <3>1. CASE q = p
            BY <3>1, <1>5, PassedRead
        <3>2. CASE q # p
            <4>1. todo'[q] = todo[q]
                BY <1>1, <2>1, <3>2
            <4>2. ASSUME NEW r, Told(world, stored, notes[q], r)
                  PROVE  Told(world', stored', notes'[q], r)
                <5> DEFINE i == Head(todo[p]).item
                <5>1. stored' = IF i \in ScanItems /\ world[i] # "absent"
                                THEN [stored EXCEPT ![StoredAs[i]] = [item |-> i, is |-> world[i]]]
                                ELSE stored
                    BY <1>5 DEF Gate!ReadOk, Gate!writeResource
                <5>2. DOMAIN stored = Gate!Instances
                    BY DEF GateInv, GateTypes
                <5> HIDE DEF i
                <5> QED BY <5>1, <5>2, <4>2, <2>1, ToldKept
            <4> QED BY <4>1, <4>2, <2>1, <1>1, PassedKept DEF Going
        <3> QED BY <3>1, <3>2
    <2>3. \A q \in Gate!Providers : scan'[q] = "succeeded" => todo'[q] = << >>
        BY <1>1, <2>1
    <2> QED BY <2>1, <2>2, <2>3, <1>1 DEF ScanInv
<1>6. ASSUME NEW p \in Gate!Providers, Gate!ReadFails(p) PROVE ScanInv'
    <2>1. /\ todo' = [todo EXCEPT ![p] = Gate!Rest(todo[p], Head(todo[p]))] /\ scan[p] = "running"
          /\ notes' = [notes EXCEPT ![p] = notes[p] \cup Gate!Noted(Head(todo[p]))]
          /\ UNCHANGED <<world, stored, scan, quiet>>
        BY <1>6 DEF Gate!ReadFails, Gate!Scanning
    <2>2. ASSUME NEW q \in Gate!Providers PROVE Passed(q)'
        <3>1. CASE q = p
            BY <3>1, <1>6, PassedFailed
        <3>2. CASE q # p
            <4>1. todo'[q] = todo[q] /\ notes'[q] = notes[q]
                BY <1>1, <2>1, <3>2
            <4> QED BY <4>1, <2>1, <1>1, PassedKept DEF Going
        <3> QED BY <3>1, <3>2
    <2>3. \A q \in Gate!Providers : scan'[q] = "succeeded" => todo'[q] = << >>
        BY <1>1, <2>1
    <2> QED BY <2>1, <2>2, <2>3, <1>1 DEF ScanInv
<1>7. ASSUME NEW p \in Gate!Providers, Gate!EndScan(p) PROVE ScanInv'
    <2>1. /\ scan' = [scan EXCEPT ![p] = "succeeded"] /\ scan[p] = "running" /\ todo[p] = << >>
          /\ UNCHANGED <<world, stored, todo, notes, quiet>>
        BY <1>7 DEF Gate!EndScan, Gate!Scanning
    <2>2. ASSUME NEW q \in Gate!Providers PROVE Passed(q)'
        <3>1. Going(q)' => Going(q)
            BY <1>1, <2>1 DEF Going
        <3> QED BY <3>1, <2>1, <1>1, PassedKept
    <2>3. \A q \in Gate!Providers : scan'[q] = "succeeded" => todo'[q] = << >>
        BY <1>1, <2>1
    <2> QED BY <2>1, <2>2, <2>3, <1>1 DEF ScanInv
<1>8. CASE Gate!End
    <2>1. /\ scan' = Gate!NoScans /\ todo' = Gate!NoReads /\ notes' = Gate!NoNotes
        BY <1>8 DEF Gate!End
    <2>2. ASSUME NEW q \in Gate!Providers PROVE Passed(q)' /\ scan'[q] # "succeeded"
        <3>1. scan'[q] = "pending" /\ todo'[q] = << >>
            BY <2>1 DEF Gate!NoScans, Gate!NoReads
        <3>2. ~Going(q)'
            BY <3>1 DEF Going
        <3> QED BY <3>1, <3>2, <1>1, PassedAtStart
    <2> QED BY <2>1, <2>2 DEF ScanInv, Gate!NoReads, Gate!NoNotes
<1>9. ASSUME UNCHANGED <<scan, todo, notes>>, quiet' => running = "none" PROVE ScanInv'
    <2>1. ASSUME NEW q \in Gate!Providers PROVE Passed(q)'
        <3>1. ~Going(q)'
            BY <1>9 DEF Going, GateInv, OrderInv, Gate!NoScans
        <3> QED BY <3>1, <1>1, <1>9, PassedKept
    <2> QED BY <2>1, <1>1, <1>9 DEF ScanInv
<1>10. CASE Gate!Drift
    <2>1. quiet' = (running = "none") /\ UNCHANGED <<scan, todo, notes>>
        BY <1>10 DEF Gate!Drift, Gate!scans
    <2>2. quiet' => running = "none"
        BY <2>1, Zenon
    <2> QED BY <2>1, <2>2, <1>9
<1>11. CASE Gate!Expire
    BY <1>11, <1>9 DEF Gate!Expire, Gate!steps, Gate!scans
<1>12. CASE (\E w \in Gate!Workflows : Gate!Begin(w)) \/ Gate!StartBuild \/ Gate!Build \/ Gate!BuildFails
    BY <1>12, <1>2 DEF Gate!Begin, Gate!StartBuild, Gate!Build, Gate!BuildFails, Gate!scans
<1>13. CASE Gate!assert_posture
    BY <1>13, <1>2 DEF Gate!assert_posture, Gate!scans
<1> QED BY <1>3, <1>4, <1>5, <1>6, <1>7, <1>8, <1>10, <1>11, <1>12, <1>13
        DEF Gate!Moves, Gate!Workflow, Gate!Scan


LEMMA OrderKept ==
    ASSUME GateInv, Gate!Moves, faults' = faults
    PROVE  OrderInv'
<1> USE DEF OrderInv
<1>1. /\ OrderInv /\ DOMAIN scan = Gate!Providers
      /\ build \in Gate!States /\ verdict \in Gate!States
    BY DEF GateInv, GateTypes
<1>2. ASSUME running # "none", build = "pending", verdict = "pending",
             running' = running, build' = build, verdict' = verdict
      PROVE  OrderInv'
    BY <1>2
<1>3. ASSUME NEW p \in Gate!Providers, Gate!Scan(p) PROVE OrderInv'
    <2>1. scan[p] \in {"pending", "running"} /\ UNCHANGED <<running, build, verdict>>
        BY <1>3 DEF Gate!Scan, Gate!StartScan, Gate!ScanThrows, Gate!ReadOk, Gate!ReadFails,
                    Gate!EndScan, Gate!Scanning
    <2>2. running # "none"
        <3>1. scan[p] = "pending" => running # "none"
            BY <1>3 DEF Gate!Scan, Gate!StartScan, Gate!ScanThrows, Gate!ReadOk, Gate!ReadFails,
                        Gate!EndScan, Gate!Scanning
        <3> QED BY <3>1, <2>1, <1>1 DEF Gate!NoScans
    <2>3. build = "pending" /\ verdict = "pending"
        BY <2>1, <1>1 DEF Gate!Completed
    <2> QED BY <2>1, <2>2, <2>3, <1>2
<1>4. CASE \E w \in Gate!Workflows : Gate!Begin(w)
    BY <1>1, <1>4 DEF Gate!Begin, Gate!Workflows, Gate!scans
<1>5. CASE Gate!StartBuild
    BY <1>1, <1>5 DEF Gate!StartBuild, Gate!scans, Gate!Completed
<1>6. CASE Gate!Build \/ Gate!BuildFails
    BY <1>1, <1>6 DEF Gate!Build, Gate!BuildFails, Gate!scans, Gate!Completed
<1>7. CASE Gate!assert_posture
    BY <1>1, <1>7 DEF Gate!assert_posture, Gate!scans, Gate!Completed
<1>8. CASE Gate!End
    BY <1>8 DEF Gate!End
<1>9. CASE Gate!Drift \/ Gate!Expire
    BY <1>1, <1>9 DEF Gate!Drift, Gate!Expire, Gate!steps, Gate!scans
<1> QED BY <1>3, <1>4, <1>5, <1>6, <1>7, <1>8, <1>9 DEF Gate!Moves, Gate!Workflow

LEMMA JudgedKept ==
    ASSUME GateInv, Gate!Moves, faults' = faults
    PROVE  JudgedInv'
<1> USE DEF JudgedInv
<1>1. /\ JudgedInv /\ OrderInv /\ DOMAIN scan = Gate!Providers /\ world \in [ScanItems -> Gate!Held]
      /\ build \in Gate!States /\ verdict \in Gate!States
    BY DEF GateInv, GateTypes
<1>2. Gate!Targets' = Gate!Targets
    BY DEF Gate!Targets, Gate!Scopes
<1>3. ASSUME UNCHANGED <<world, stored, posture, build, verdict, given>> PROVE JudgedInv'
    BY <1>1, <1>2, <1>3
<1>4. ASSUME UNCHANGED <<world, posture, build, verdict, given>>, build = "pending", verdict = "pending"
      PROVE JudgedInv'
    BY <1>1, <1>2, <1>4
<1>5. ASSUME NEW p \in Gate!Providers, Gate!Scan(p) PROVE JudgedInv'
    <2>1. scan[p] \in {"pending", "running"} /\ UNCHANGED <<world, posture, build, verdict, given>>
        BY <1>5 DEF Gate!Scan, Gate!StartScan, Gate!ScanThrows, Gate!ReadOk, Gate!ReadFails,
                    Gate!EndScan, Gate!Scanning
    <2>2. build = "pending" /\ verdict = "pending"
        BY <2>1, <1>1 DEF Gate!Completed, OrderInv
    <2> QED BY <2>1, <2>2, <1>4
<1>6. CASE \E w \in Gate!Workflows : Gate!Begin(w)
    BY <1>6, <1>3 DEF Gate!Begin
<1>7. CASE Gate!StartBuild
    <2>1. /\ given' = {stored[n] : n \in Gate!Instances} \ {Gate!Nothing} /\ build = "pending"
          /\ build' = "running" /\ UNCHANGED <<world, stored, posture, verdict>>
        BY <1>7 DEF Gate!StartBuild
    <2>2. verdict = "pending"
        BY <2>1, <1>1 DEF OrderInv, Gate!Completed
    <2> QED BY <2>1, <2>2, <1>1, <1>2
<1>8. CASE Gate!Build
    <2>1. verdict = "pending"
        BY <1>8, <1>1 DEF Gate!Build, OrderInv, Gate!Completed
    <2> QED BY <2>1, <1>1, <1>2, <1>8 DEF Gate!Build
<1>9. CASE Gate!BuildFails
    <2>1. verdict = "pending"
        BY <1>9, <1>1 DEF Gate!BuildFails, OrderInv, Gate!Completed
    <2> QED BY <2>1, <1>1, <1>2, <1>9 DEF Gate!BuildFails
<1>10. CASE Gate!assert_posture
    <2>1. UNCHANGED <<world, stored, posture, build, given>>
        BY <1>10 DEF Gate!assert_posture
    <2>2. verdict' = "succeeded" => posture.built /\ ~Gate!Violates(posture)
        BY <1>10 DEF Gate!assert_posture
    <2>3. (verdict = "succeeded" => posture.built /\ ~Gate!Violates(posture))'
        BY <2>1, <2>2 DEF Gate!Violates, Gate!maxCritical, Gate!maxHigh
    <2> QED BY <2>1, <2>3, <1>1, <1>2
<1>11. CASE Gate!End
    BY <1>11, <1>1, <1>2 DEF Gate!End
<1>12. CASE Gate!Drift
    <2>1. \A i \in ScanItems \ Gate!Targets : world'[i] = world[i]
        <3>1. PICK i \in Gate!Targets, h \in Gate!Held : world' = [world EXCEPT ![i] = h]
            BY <1>12 DEF Gate!Drift
        <3> QED BY <3>1, <1>1
    <2>2. UNCHANGED <<stored, posture, build, verdict, given>>
        BY <1>12 DEF Gate!Drift
    <2> QED BY <2>1, <2>2, <1>1, <1>2
<1>13. CASE Gate!Expire
    <2>1. build = "pending" /\ verdict = "pending"
        BY <1>13, <1>1 DEF Gate!Expire, OrderInv
    <2> QED BY <2>1, <1>13, <1>4 DEF Gate!Expire, Gate!steps
<1> QED BY <1>5, <1>6, <1>7, <1>8, <1>9, <1>10, <1>11, <1>12, <1>13 DEF Gate!Moves, Gate!Workflow

LEMMA GateInvInit == ASSUME Gate!Init PROVE GateInv
<1> USE DEF Gate!Init
<1>1. GateTypes
    BY DEF GateTypes, Gate!NoScans, Gate!States, Gate!NoInventory
<1>2. ScanInv
    <2>1. ASSUME NEW p \in Gate!Providers PROVE Passed(p) /\ scan[p] # "succeeded"
        <3>1. scan[p] = "pending" /\ todo[p] = << >>
            BY DEF Gate!NoScans, Gate!NoReads
        <3>2. ~Going(p)
            BY <3>1 DEF Going
        <3>3. ReadsBy(p) \in Seq(ScopeReads) /\ Len(ReadsBy(p)) \in Nat
            BY <1>1, ProvidersRead DEF GateTypes
        <3> DEFINE n == Len(ReadsBy(p)) + 1
        <3>4. n \in 1 .. Len(ReadsBy(p)) + 1 /\ SubSeq(ReadsBy(p), n, Len(ReadsBy(p))) = << >>
            BY <3>3, SubSeqEmpty
        <3> HIDE DEF n
        <3> QED BY <3>1, <3>2, <3>4 DEF Passed
    <2> QED BY <2>1 DEF ScanInv, Gate!NoReads, Gate!NoNotes
<1> QED BY <1>1, <1>2 DEF GateInv, OrderInv, JudgedInv

LEMMA GateInvKept == ASSUME GateInv, Gate!Next PROVE GateInv'
BY GateTypesKept, ScansKept, OrderKept, JudgedKept DEF GateInv, Gate!Next

-----------------------------------------------------------------------------
(* What the invariant says of the scans and of the gate.                   *)

LEMMA GateTyped == ASSUME GateInv PROVE Gate!TypeOK
<1>1. ASSUME NEW p \in Gate!Providers
      PROVE  todo[p] = << >> \/ \E k \in DOMAIN Gate!Reads(p) : todo[p] = Gate!From(p, k)
    <2> DEFINE R == ReadsBy(p)
    <2>1. R \in Seq(ScopeReads) /\ Len(R) \in Nat /\ Gate!Reads(p) = R /\ DOMAIN R = 1 .. Len(R)
        BY ProvidersRead, LenProperties DEF GateInv, GateTypes, Gate!Reads, ReadsBy
    <2>2. PICK k \in 1 .. Len(R) + 1 : todo[p] = SubSeq(R, k, Len(R))
        BY DEF GateInv, ScanInv, Passed
    <2> HIDE DEF R
    <2>3. CASE k = Len(R) + 1
        BY <2>1, <2>2, <2>3, SubSeqEmpty
    <2>4. CASE k # Len(R) + 1
        <3>1. k \in DOMAIN R
            BY <2>1, <2>4
        <3> QED BY <3>1, <2>1, <2>2 DEF Gate!From
    <2> QED BY <2>3, <2>4
<1> QED BY <1>1 DEF Gate!TypeOK, GateInv, GateTypes

LEMMA ScanTold ==
    ASSUME GateInv, NEW p \in Gate!Providers, scan[p] = "succeeded", quiet,
           NEW m \in DOMAIN Gate!Reads(p)
    PROVE  Told(world, stored, notes[p], Gate!Reads(p)[m])
<1> DEFINE R == ReadsBy(p)
<1>1. R \in Seq(ScopeReads) /\ Len(R) \in Nat /\ Gate!Reads(p) = R /\ DOMAIN R = 1 .. Len(R)
    BY ProvidersRead, LenProperties DEF GateInv, GateTypes, Gate!Reads, ReadsBy
<1>2. PICK k \in 1 .. Len(R) + 1 :
         /\ todo[p] = SubSeq(R, k, Len(R))
         /\ Going(p) => \A j \in 1 .. k - 1 : Told(world, stored, notes[p], R[j])
    BY DEF GateInv, ScanInv, Passed
<1> HIDE DEF R
<1>3. todo[p] = << >> /\ Going(p)
    BY DEF GateInv, ScanInv, Going
<1>4. k = Len(R) + 1
    <2> SUFFICES ASSUME k \in 1 .. Len(R) PROVE FALSE
        BY <1>1
    <2>1. Len(R) \in 1 .. Len(R) /\ k \in Int
        BY <1>1
    <2>2. Len(SubSeq(R, k, Len(R))) = Len(R) - k + 1
        BY <1>1, <2>1, SubSeqProperties
    <2>3. Len(<< >>) = 0
        OBVIOUS
    <2> QED BY <1>1, <1>2, <1>3, <2>1, <2>2, <2>3
<1>5. m \in 1 .. k - 1
    BY <1>1, <1>4
<1> QED BY <1>1, <1>2, <1>3, <1>5

LEMMA MissesAreNoted == ASSUME GateInv PROVE Gate!MissesNoted
<1> SUFFICES ASSUME NEW p \in Gate!Providers, scan[p] = "succeeded", quiet,
                    NEW i \in Gate!ReadBy(p), world[i] # "absent", Gate!Alone(i)
             PROVE  stored[StoredAs[i]] = [item |-> i, is |-> world[i]] \/ Gate!NotedFor(i, p)
    BY DEF Gate!MissesNoted
<1>1. PICK m \in DOMAIN Gate!Reads(p) : Gate!Reads(p)[m].item = i
    BY DEF Gate!ReadBy
<1> DEFINE r == Gate!Reads(p)[m]
<1>2. Told(world, stored, notes[p], r) /\ r.item = i /\ i \in ScanItems
    BY <1>1, ScanTold DEF Gate!ReadBy
<1> HIDE DEF r
<1>3. \/ stored[StoredAs[i]] = [item |-> i, is |-> world[i]]
      \/ ({i} \cup {Gate!Whole(s) : s \in r.within}) \cap notes[p] # {}
    BY <1>2 DEF Told, Gate!Alone
<1> QED BY <1>1, <1>2, <1>3 DEF Gate!NotedFor, r

LEMMA GateIsSound == ASSUME GateInv PROVE Gate!GateSound
<1> SUFFICES ASSUME Gate!Clean, Gate!Succeeds, NEW i \in ScanItems, world[i] = "flagged", Gate!Alone(i),
                    Gate!Severity(i) \in {"critical", "high"}
             PROVE  FALSE
    BY DEF Gate!GateSound
<1> DEFINE f == faults  severity == Gate!Severity(i)
<1>1. f \in FaultCases /\ i \in Gate!Targets
    BY DEF GateInv, GateTypes, JudgedInv
<1>2. PICK p \in Gate!Providers : Asks(Gate!Reads(p), i)
    BY <1>1, TargetsAsked DEF Gate!Reads
<1>3. quiet /\ scan[p] = "succeeded" /\ notes[p] = {}
    BY DEF Gate!Clean
<1>4. PICK m \in DOMAIN Gate!Reads(p) : Gate!Reads(p)[m].item = i
    BY <1>2 DEF Asks
<1>5. Told(world, stored, notes[p], Gate!Reads(p)[m])
    BY <1>3, ScanTold
<1>6. stored[StoredAs[i]] = [item |-> i, is |-> "flagged"]
    BY <1>3, <1>4, <1>5 DEF Told, Gate!Alone
<1>7. [item |-> i, is |-> "flagged"] \in given
    <2>1. given = {stored[n] : n \in Gate!Instances} \ {Gate!Nothing}
        BY DEF GateInv, JudgedInv, Gate!Succeeds
    <2>2. StoredAs[i] \in Gate!Instances
        BY DEF Gate!Instances
    <2>3. [item |-> i, is |-> "flagged"] # Gate!Nothing
        BY DEF Gate!Nothing
    <2> QED BY <2>1, <2>2, <2>3, <1>6
<1>8. Gate!Cardinality(Gate!Findings(given, severity)) \in Nat \ {0}
    <2>1. [item |-> i, is |-> "flagged"] \in Gate!Findings(given, severity)
        BY <1>7 DEF Gate!Findings
    <2>2. IsFiniteSet(given)
        BY GivenFinite DEF GateInv, JudgedInv, Gate!Succeeds
    <2>3. IsFiniteSet(Gate!Findings(given, severity))
        <3>1. Gate!Findings(given, severity) \subseteq given
            BY DEF Gate!Findings
        <3> QED BY <2>2, <3>1, FS_Subset
    <2> HIDE DEF severity
    <2> QED BY <2>1, <2>3, FewItems, FS_EmptySet, FS_CardinalityType
<1>9. posture = Gate!computeInventory(given) /\ ~Gate!Violates(posture)
    BY DEF GateInv, JudgedInv, Gate!Succeeds
<1>10. /\ posture.critical = Gate!Cardinality(Gate!Findings(given, "critical"))
       /\ posture.high = Gate!Cardinality(Gate!Findings(given, "high"))
    BY <1>9 DEF Gate!computeInventory
<1>11. severity = "critical" \/ severity = "high"
    OBVIOUS
<1> HIDE DEF severity
<1> QED BY <1>8, <1>9, <1>10, <1>11 DEF Gate!Violates, Gate!maxCritical, Gate!maxHigh

\* A scan that succeeds has stored or noted everything it was to read, and a gate that
\* passes after scans without notes has left no critical or high finding unseen: whatever
\* the providers hold, however much of it there is, and whichever reads and builds fail.
THEOREM ScansAreTrue == TrustSpec => []ScansTrue
<1>1. TrustInit => GateInv
    BY GateInvInit DEF TrustInit
<1>2. GateInv /\ [TrustNext]_workVars => GateInv'
    <2> SUFFICES ASSUME GateInv, [TrustNext]_workVars PROVE GateInv'
        OBVIOUS
    <2>1. CASE Gate!Next
        BY <2>1, GateInvKept
    <2>2. CASE UNCHANGED gateVars
        BY <2>2 DEF gateVars, GateInv, GateTypes, ScanInv, Passed, Going, ReadsBy, OrderInv, JudgedInv,
                    Gate!Targets, Gate!Scopes
    <2> QED BY <2>1, <2>2 DEF TrustNext, workVars
<1>3. GateInv => ScansTrue
    BY GateTyped, MissesAreNoted, GateIsSound DEF ScansTrue
<1> QED BY <1>1, <1>2, <1>3, PTL DEF TrustSpec
=============================================================================
