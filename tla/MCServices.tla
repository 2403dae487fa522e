---------------------------- MODULE MCServices ----------------------------
(* What runs beside the request path.  The parts share no state, so a      *)
(* behaviour is about one of them, and the others stay as they start.      *)
EXTENDS DashboardExport, AIAnalysis, IdentityPolicy, GraphQLPolicy, GraphQLDocument,
        AdminSessions, HostAddresses, FrontendManager, SiteRouting, SelfUpdate, EventForwarding,
        ContractDrift, BackendRevocation

CONSTANTS i1, i2, d1, m1, m2, s1, k1, k2, r1, r2, w1, l1, l2, a1, a2, o1, o2

VARIABLE service   \* what this behaviour is about

MCItems == {i1, i2}
MCReaders == {d1}
MCNoted == {m1, m2}
MCSites == {s1}
MCClients == {k1, k2}
MCRequests == {r1, r2}
MCWorkers == {w1}
MCSubnets == "x" :> "e0" @@ "y" :> "auto"
MCLogins == {l1, l2}
MCAdmins == {a1, a2}
MCCalls == {o1, o2}
OldFiles == "conf" :> "old" @@ "bin" :> "old"
Pack(files) == [files |-> files, signed |-> TRUE, intact |-> TRUE, permitted |-> TRUE]
MCPackages == {Pack("conf" :> "new" @@ "bin" :> "new"), Pack("conf" :> "newer"), [Pack("bin" :> "bad") EXCEPT !.intact = FALSE]}
(* One exchange of everything that comes in twos: the parts are apart.     *)
Swap(a, b) == (a :> b) @@ (b :> a)
Partner == Swap(i1, i2) @@ Swap(k1, k2) @@ Swap(r1, r2) @@ Swap(l1, l2) @@ Swap(a1, a2) @@ Swap(o1, o2)
Interchangeable == {[x \in DOMAIN Partner |-> IF p[o1] = o1 THEN x ELSE Partner[x]] : p \in Permutations({o1, o2})}

(* Documents of one operation and up to two fragments, nested three deep,  *)
(* and some with a selection set that is as wide as it may be or wider.    *)
Leaves == {Field("a", <<>>), Field("b", <<>>), Spread("f"), Spread("g")}
Kids == {<<s>> : s \in Leaves} \cup {<<s, t>> : s, t \in Leaves}
Nested == Leaves \cup {Field("a", k) : k \in Kids} \cup {Inline(k) : k \in Kids}
FragmentF == {<<Field("b", <<>>)>>, <<Field("a", <<Spread("g")>>)>>, <<Spread("g"), Field("a", <<>>)>>, <<Inline(<<Spread("f")>>)>>}
FragmentG == {<<Field("a", <<>>)>>, <<Field("b", <<Field("b", <<>>)>>)>>, <<Spread("f")>>}
MCDocuments ==
  LET fragments == {[n \in {"f"} |-> x] : x \in FragmentF} \cup {[n \in {"f", "g"} |-> IF n = "f" THEN x ELSE y] : x \in FragmentF, y \in FragmentG}
  IN  {[body |-> <<s>>, fragments |-> x] : s \in Nested, x \in fragments}
      \cup {[body |-> <<s, Field("a", <<Spread("f")>>)>>, fragments |-> x] : s \in Nested, x \in fragments}
      \cup {[body |-> <<s, s, s, s>> \o t, fragments |-> [n \in {"f"} |-> <<s, s, s, s>> \o u]] :
               s \in {Field("a", <<>>), Inline(<<Field("b", <<>>)>>)}, t, u \in {<<>>, <<Field("b", <<>>)>>}}
Types == "Query" :> ("a" :> "T" @@ "b" :> "Int") @@ "T" :> ("a" :> "Int")
MCPolicies == {[depth |-> 1, complexity |-> 2, allowed |-> {}, denied |-> {<<"a", "b">>}, contract |-> Types],
               [depth |-> 2, complexity |-> 0, allowed |-> {<<"a">>, <<"a", "a">>}, denied |-> {}, contract |-> Types]}

(* Configurations: names that collide, are blank or unknown; hostnames     *)
(* that are one name in two forms.                                         *)
H(labels) == [labels |-> labels, form |-> "plain"]
Dotted(labels) == [labels |-> labels, form |-> "dot"]
Object(n, f) == [name |-> n, fields |-> f]
PoolOf(n, m) == [name |-> n, members |-> m, fields |-> "good"]
SiteOf(n, a, hosts, tls) == [name |-> n, listen |-> a, hosts |-> hosts, tls |-> tls, pool |-> "p", policy |-> "q", fields |-> "good"]
TheDefault == Object("default", "good")

ObjectLists == {<<>>, <<Object("", "good")>>, <<Object("p", "partial")>>, <<Object("p", "good")>>,
                <<Object("q", "good"), Object("p", "good")>>, <<Object("p", "good"), Object("p", "good")>>}
PoolLists == {<<>>, <<PoolOf("p", <<>>)>>, <<PoolOf("p", <<"p">>)>>, <<PoolOf("p", <<"p", "q">>)>>,
              <<PoolOf("q", <<"p">>), PoolOf("p", <<"p">>)>>, <<PoolOf("p", <<"p">>), PoolOf("p", <<"p">>)>>}
TheSite == [SiteOf("s", "x", <<H(<<"a">>)>>, "none") EXCEPT !.policy = "p"]
SiteLists == {<<>>, <<TheSite>>}
  \cup {<<[TheSite EXCEPT !.name = "", !.listen = a]>> : a \in {"", "x"}}
  \cup {<<[TheSite EXCEPT !.pool = n, !.policy = q]>> : n, q \in {"", "p", "q"}}
  \cup {<<[TheSite EXCEPT !.hosts = h, !.tls = t]>> : h \in {<<>>, <<H(<<"a">>), Dotted(<<"a">>)>>, <<H(<<"a">>)>>}, t \in {"file", "hsm", "half"}}
  \cup {<<TheSite, [TheSite EXCEPT !.name = n, !.listen = a, !.hosts = <<Dotted(<<"a">>)>>]>> : n \in {"s", "t"}, a \in {"x", "y"}}
MCDrafts == {[fields |-> "good", frontend |-> b, policies |-> q, nodes |-> n, pools |-> p, sites |-> s] :
               b \in BOOLEAN, q \in ObjectLists, n \in ObjectLists, p \in PoolLists, s \in SiteLists}

MCHosts == {<<"x">>, <<"a", "x">>, <<"a", "b", "x">>, <<"y">>}
TwoSites == {<<SiteOf("s", "x", g, t), SiteOf("r", a, h, "file")>> :
               g \in {<<H(<<"a", "x">>)>>, <<H(<<"*", "x">>), Dotted(<<"a", "b", "x">>)>>, <<H(<<"*", "x">>)>>},
               h \in {<<H(<<"*", "b", "x">>), Dotted(<<"a", "x">>)>>, <<H(<<"*">>), H(<<"x">>)>>}, t \in {"none", "file"}, a \in {"x", "y"}}
MCSiteConfigs ==
  {[fields |-> "good", frontend |-> b, policies |-> <<Object("q", "good")>>, nodes |-> <<Object("n", "good")>>,
    pools |-> <<PoolOf("p", <<"n">>)>>, sites |-> s] : b \in BOOLEAN, s \in TwoSites}
MCRank == "r" :> 1 @@ "s" :> 2

(* Contracts: one operation with many bodies, and one body with what else  *)
(* an operation declares.                                                  *)
A == << <<"a", 0>> >>
B == << <<"b", 0>> >>
AdotB == A \o B
Leaf(t) == [kind |-> "leaf", type |-> t, format |-> "", enum |-> ""]
Enum == [Leaf("string") EXCEPT !.enum = "enum"]
Obj(props, req) == [kind |-> "object", props |-> props, required |-> req]
Arr(s) == [kind |-> "array", items |-> s]
AllOf(branches) == [kind |-> "all", branches |-> branches]
RefTo(n) == [kind |-> "ref", to |-> n]

MCLeaves == {Leaf(t) : t \in {"string", "integer", "number"}} \cup {Enum}
Inner == {Arr(Obj(B :> Leaf("string"), r)) : r \in {{}, {B}}} \cup {Leaf("integer"), Arr(Leaf("integer")), RefTo("T"), Obj(<<>>, {})} \cup {Obj(B :> Leaf("string"), r) : r \in {{}, {B}}}
Bodies3 ==
  {Obj(A :> s, r) : s \in MCLeaves \cup Inner, r \in {{}, {A}}}
  \cup {Obj(A :> s @@ B :> Leaf("string"), r) : s \in {Leaf("integer"), Obj(B :> Leaf("string"), {})}, r \in {{}, {A}, {B}}}
  \cup {AllOf(<<Obj(A :> Leaf("integer"), {}), s>>) : s \in {Obj(A :> Leaf("integer"), {A}), Obj(B :> Leaf("string"), {}), RefTo("T"), Obj(A :> Leaf("number"), {})}}
  \cup {AllOf(<<Obj(A :> s, {}), Obj(A :> t, {})>>) : s, t \in {Leaf("string"), Enum, Obj(B :> Leaf("string"), {})}}
  \cup {Obj(AdotB :> Leaf("string"), r) : r \in {{}, {AdotB}}}
  \cup {Obj(A :> Arr(s), {A}) : s \in {Obj(B :> Leaf("string"), {B}), Arr(Leaf("integer"))}}
  \cup {RefTo("T"), RefTo("U"), RefTo("V"), Arr(Leaf("integer")), Leaf("string"), Leaf(""), Obj(<<>>, {})}
Defs == "T" :> Obj(B :> Leaf("string"), {B}) @@ "U" :> Obj(A :> RefTo("T") @@ B :> RefTo("U"), {}) @@ "V" :> RefTo("V")

Param(t, req) == [type |-> t, format |-> "", required |-> req]
Plain3 == [parameters |-> <<>>, own |-> FALSE, security |-> <<>>, body |-> Json :> Obj(A :> Leaf("integer"), {}),
           responses |-> "200" :> (Json :> Obj(A :> Leaf("integer"), {}))]
Doc(path, method, o) == [defs |-> Defs, schemes |-> "key" :> "apikey" @@ "jwt" :> "bearer" @@ "odd" :> "", security |-> <<{"key"}>>,
                         paths |-> path :> [shared |-> <<"query", "q">> :> Param("string", FALSE), ops |-> method :> o]]
Variants ==
  {[Plain3 EXCEPT !.body = Json :> s] : s \in Bodies3}
  \cup {[Plain3 EXCEPT !.body = b] : b \in {NoContent, Json :> NoSchema, "xml" :> Leaf("string"), Json :> Leaf("integer") @@ "xml" :> Leaf("string")}}
  \cup {[Plain3 EXCEPT !.parameters = <<i, "q">> :> Param(t, req)] : i \in {"query", "path"}, t \in {"string", "integer"}, req \in BOOLEAN}
  \cup {[Plain3 EXCEPT !.own = TRUE, !.security = s] : s \in {<<>>, <<{}>>, <<{"jwt"}>>, <<{"key"}, {"jwt", "odd"}>>, <<{"key"}, {"jwt"}>>, <<{"key", "jwt"}>>}}
  \cup {[Plain3 EXCEPT !.responses = r] : r \in {<<>>, "200" :> NoContent, "200" :> (Json :> Obj(A :> Leaf("string"), {}))}}
MCContractDocs == {Doc(<<"v", "{x}">>, "POST", o) : o \in Variants}
                  \cup {Doc(<<"v", "{y}">>, "POST", Plain3), Doc(<<"v", "{y}">>, "PUT", Plain3)}
                  \cup {[Doc(<<"v", "{x}">>, "POST", Plain3) EXCEPT !.paths = @ @@ (<<"v", p>> :> [shared |-> <<>>, ops |-> "POST" :> Plain3])] : p \in {"w", "{y}"}}

Scalar(t) == [type |-> t, facets |-> {}]
Struct(props) == [type |-> "object", props |-> props, facets |-> {}]
List(vs) == [type |-> "array", items |-> vs, facets |-> {}]
Scalars == {Scalar("string"), Scalar("integer")} \cup {[Scalar("string") EXCEPT !.facets = {f}] : f \in {"enum", "digits"}}
Parts3 == Scalars \cup {Struct(<<>>), Struct(B :> Scalar("string")), List({}), List({Scalar("integer")}), List({Struct(<<>>)}), List({List({Scalar("integer")})})}
Values3 == Parts3 \cup {Struct(A :> v) : v \in Parts3} \cup {Struct(A :> v @@ B :> Scalar("string")) : v \in Parts3} \cup {Struct(AdotB :> v) : v \in Scalars} \cup {Struct(B :> Struct(A :> Struct(B :> Scalar("string"))))}
MCRequest == [key |-> <<"POST", <<"v", "{id}">>>>, parameters |-> <<>>, media |-> Json, body |-> <<>>, credentials |-> {"key"}]
MCClientRequests ==
  {[MCRequest EXCEPT !.body = <<v>>] : v \in Values3} \cup {[MCRequest EXCEPT !.credentials = c] : c \in {{}, {"jwt"}, {"key", "jwt"}}}
  \cup {[MCRequest EXCEPT !.key[1] = "PUT"], [MCRequest EXCEPT !.media = "xml", !.body = <<Scalar("string")>>]}
  \cup {[MCRequest EXCEPT !.parameters = k :> t] : k \in {<<"query", "q">>, <<"path", "q">>}, t \in {"string", "integer"}}
MCPlaceholders == {"{x}", "{y}", "{id}", "{uuid}"}
MCMediaRank == Json :> 1 @@ "xml" :> 2
MCSeen(site, m, segment, ignored) == [site |-> site, host |-> IF site = "t" THEN "g" ELSE "h", key |-> <<m, <<"v", segment>>>>, ignored |-> ignored]
MCObservations ==
  {{}} \cup {{MCSeen("s", "POST", "{id}", FALSE)} \cup more : more \in
     {{}, {MCSeen("s", "PUT", "{id}", FALSE)}, {MCSeen("t", "PUT", "{id}", FALSE)}, {MCSeen("r", "PUT", "w", TRUE), MCSeen("r", "POST", "w", FALSE)},
      {MCSeen("s", "POST", "{uuid}", FALSE)}, {MCSeen("t", "POST", "{id}", FALSE), MCSeen("s", "POST", "w", FALSE)}}}

AnyDocument == [body |-> <<Field("a", <<>>)>>, fragments |-> [n \in {"f"} |-> <<Field("b", <<>>)>>], policy |-> CHOOSE p \in MCPolicies : TRUE]
MCTLS(m, f, us) == [mode |-> m, file |-> f, urls |-> us]
AnyTLS == MCTLS("soft", FALSE, {})
MCPoolTLS == {AnyTLS, MCTLS("soft", TRUE, MCCalls), MCTLS("hard", FALSE, MCCalls), MCTLS("hard", TRUE, {})}

AnyDraft == CHOOSE c \in MCDrafts : c.sites = <<>>

Parts == {"pages", "detections", "ai", "keys", "promotion", "contracts", "documents", "analysis", "accounts", "guesses",
          "addresses", "frontend", "configs", "routing", "updates", "syslog", "notifications", "versions", "drift", "revocation"}

ServicesInit == /\ service \in Parts
                /\ DashboardInit /\ (service # "pages" => configured = NoItems)
                /\ SessionsInit /\ \A u \in Accounts : service = "guesses" \/ (service = "accounts" /\ u = "u") \/ accounts[u] = Nil
                /\ DocumentInit /\ (service # "analysis" => document = AnyDocument)
                /\ IF service = "configs" THEN ValidationInit ELSE candidate = AnyDraft
                /\ IF service = "versions" THEN ContractsInit ELSE compared = <<>>
                /\ IF service = "drift" THEN DriftInit ELSE contract = <<>> /\ inventory = {} /\ traffic = {}
                /\ IF service = "routing" THEN RoutingInit ELSE runtime = NoConfig /\ next = NoConfig /\ sockets = {}
                /\ AIInit /\ IdentityInit /\ GraphQLInit /\ HostInit /\ FrontendInit /\ UpdateInit /\ EventInit
                /\ RevocationInit /\ (service # "revocation" => poolTLS = AnyTLS)

(* Everything but what the behaviour is about.                             *)
Beside(own) ==
  /\ IF own = "dashboard" THEN TRUE ELSE UNCHANGED dashboardVars
  /\ IF own = "ai" THEN TRUE ELSE UNCHANGED aiVars
  /\ IF own = "identity" THEN TRUE ELSE UNCHANGED identityVars
  /\ IF own = "graphql" THEN TRUE ELSE UNCHANGED graphqlVars
  /\ IF own = "sessions" THEN TRUE ELSE UNCHANGED sessionVars
  /\ IF own = "host" THEN TRUE ELSE UNCHANGED hostVars
  /\ IF own = "frontend" THEN TRUE ELSE UNCHANGED frontendVars
  /\ IF own = "routing" THEN TRUE ELSE UNCHANGED routingVars
  /\ IF own = "update" THEN TRUE ELSE UNCHANGED updateVars
  /\ IF own = "events" THEN TRUE ELSE UNCHANGED eventVars
  /\ IF own = "revocation" THEN TRUE ELSE UNCHANGED crlVars

ServicesNext ==
  /\ UNCHANGED <<service, document, driftVars>>
  /\ \/ /\ service \in {"pages", "detections"} /\ DashboardNext
        /\ IF service = "detections" THEN UNCHANGED <<configured, readerVars>>
           ELSE /\ noted' = {} /\ process' # "draining"
                /\ configured' # configured => reading = [r \in Readers |-> "idle"]   \* the one reader has taken its copy
        /\ Beside("dashboard")
     \/ service = "ai" /\ AINext /\ Beside("ai")
     \/ /\ service \in {"keys", "promotion"} /\ IdentityNext
        /\ IF service = "keys" THEN writing' = {} /\ edits' < MaxEdits ELSE fetches' = 0 /\ rotations' = 0
        /\ Beside("identity")
     \/ /\ service \in {"contracts", "documents"} /\ GraphQLNext
        /\ IF service = "contracts" THEN call' = Idle8 /\ persisted' = {} /\ \A n \in Names \ {Broad} : rules'[n] = No
                                   ELSE saving8' = {} /\ edits8' <= 4
        /\ Beside("graphql")
     \/ /\ service \in {"accounts", "guesses"} /\ SessionsNext
        /\ IF service = "accounts" THEN /\ entries' = <<>> /\ accounts'["v"] = Nil
                                        /\ \A l \in Logins : logins'[l] # Nil => logins'[l].user = "u"
                                   ELSE userEdits' = 0 /\ UNCHANGED reloads
        /\ Beside("sessions")
     \/ service = "addresses" /\ HostNext /\ Beside("host")
     \/ service = "frontend" /\ FrontendNext /\ Beside("frontend")
     \/ service = "routing" /\ RoutingNext /\ Beside("routing")
     \/ service = "updates" /\ UpdateNext /\ Beside("update")
     \/ /\ service \in {"syslog", "notifications"} /\ EventNext
        /\ IF service = "syslog" THEN nextID' = 0 /\ UNCHANGED notify ELSE writer' = Idle /\ UNCHANGED endpoint
        /\ Beside("events")
     \/ service = "revocation" /\ RevocationNext /\ Beside("revocation")

servicesVars == <<service, document, driftVars, dashboardVars, aiVars, identityVars, graphqlVars, sessionVars, hostVars, frontendVars,
                  routingVars, updateVars, eventVars, crlVars>>
ServicesSpec == ServicesInit /\ [][ServicesNext]_servicesVars
=============================================================================
