-------------------------- MODULE ConfigValidation --------------------------
(***************************************************************************)
(* The checks a configuration passes before it is saved as a draft or      *)
(* built into a runtime (main.go: validateDraft, validate), what loading a *)
(* file adds to it (migrateConfig), and the references buildRuntime then   *)
(* follows without looking.                                                *)
(*                                                                         *)
(* "fields" stands for everything an object holds besides its name and its *)
(* references: both checks accept "good", only validateDraft accepts       *)
(* "partial", neither accepts "bad".  A hostname is a sequence of labels   *)
(* and a form; another form of the same labels (a port, a final dot, upper *)
(* case) is normalized to them.                                            *)
(***************************************************************************)
EXTENDS Integers, Sequences, FiniteSets, Functions

CONSTANTS Drafts,        \* configurations the validation run looks at
          DefaultPolicy, \* the policy migrateConfig makes up
          DefaultListen  \* the address it gives a site without one

(* What a configuration is made of.                                        *)
Grades == {"good", "partial", "bad"}
Objects == [name : STRING, fields : Grades]
Hostnames == [labels : Seq(STRING), form : STRING]
PoolRec == [name : STRING, fields : Grades, members : Seq(STRING)]
SiteRec == [name : STRING, fields : Grades, listen : STRING, hosts : Seq(Hostnames), tls : STRING,
            pool : STRING, policy : STRING]
Configs == [fields : Grades, frontend : BOOLEAN, policies : Seq(Objects), nodes : Seq(Objects),
            pools : Seq(PoolRec), sites : Seq(SiteRec)]

ASSUME ConfigAssumption ==
  /\ DefaultPolicy \in Objects /\ DefaultPolicy.fields # "bad"
  /\ Drafts \subseteq Configs

VARIABLE candidate

Blank == ""

Normalized(h) == h.labels
CatchAll == <<"*">>

NamesOf(objects) == {objects[i].name : i \in DOMAIN objects}
Distinct(objects) == \A i, j \in DOMAIN objects : objects[i].name = objects[j].name => i = j
DistinctOrBlank(objects) ==
  \A i, j \in DOMAIN objects : objects[i].name = objects[j].name /\ objects[i].name # Blank => i = j

-----------------------------------------------------------------------------
(* validateSiteTLSKeyProvider: a certificate needs a key, in a file or in  *)
(* an HSM; the frontend can only use files.                                *)
TLSKeyValid(s, frontend) == s.tls \in {"none", "file"} \/ (s.tls = "hsm" /\ ~frontend)

siteTLSEnabled(s) == s.tls \in {"file", "hsm"}

DraftValid(c) ==
  /\ c.fields # "bad"
  /\ \A objects \in {c.policies, c.nodes, c.pools, c.sites} :
       DistinctOrBlank(objects) /\ \A i \in DOMAIN objects : objects[i].fields # "bad"
  /\ \A i \in DOMAIN c.sites : TLSKeyValid(c.sites[i], c.frontend)

ValidObjects(objects) ==
  \A i \in DOMAIN objects : objects[i].name # Blank /\ objects[i].fields = "good"

ValidPolicies(c) == c.policies # <<>> /\ ValidObjects(c.policies) /\ Distinct(c.policies)
ValidNodes(c) == ValidObjects(c.nodes) /\ Distinct(c.nodes)

(* Mutated form: members may name any node.                                *)
PoolsOfAnyNode(c) == ValidObjects(c.pools) /\ Distinct(c.pools) /\ \A i \in DOMAIN c.pools : c.pools[i].members # <<>>

ValidPools(c) ==
  /\ ValidObjects(c.pools) /\ Distinct(c.pools)
  /\ \A i \in DOMAIN c.pools : /\ c.pools[i].members # <<>>
                               /\ Range(c.pools[i].members) \subseteq NamesOf(c.nodes)

(* The hostnames of an address, as <<site, hostname>> positions.           *)
Claims(c, a) == UNION {{i} \X DOMAIN c.sites[i].hosts : i \in {j \in DOMAIN c.sites : c.sites[j].listen = a}}

ClaimedOnce(c, a) ==
  \A p, q \in Claims(c, a) : Normalized(c.sites[p[1]].hosts[p[2]]) = Normalized(c.sites[q[1]].hosts[q[2]]) => p = q

ValidSites(c) ==
  /\ c.sites # <<>> /\ ValidObjects(c.sites)
  /\ \A i \in DOMAIN c.sites :
       LET s == c.sites[i]
       IN  /\ s.listen # Blank /\ s.hosts # <<>> /\ TLSKeyValid(s, c.frontend)
           /\ s.pool # Blank /\ s.pool \in NamesOf(c.pools)
           /\ s.policy # Blank /\ s.policy \in NamesOf(c.policies)
           /\ \A k \in DOMAIN s.hosts : Normalized(s.hosts[k]) # <<>>
           /\ ClaimedOnce(c, s.listen)

Valid(c) == c.fields = "good" /\ ValidPolicies(c) /\ ValidNodes(c) /\ ValidPools(c) /\ ValidSites(c)

-----------------------------------------------------------------------------
(* loadConfig: policies and addresses older files lack.                    *)
Upgraded(s, first) ==
  [name |-> s.name, fields |-> s.fields, listen |-> IF s.listen = Blank THEN DefaultListen ELSE s.listen,
   hosts |-> s.hosts, tls |-> s.tls, pool |-> s.pool, policy |-> IF s.policy = Blank THEN first ELSE s.policy]

Migrate(c) ==
  LET policies == IF c.policies = <<>> THEN <<DefaultPolicy>> ELSE c.policies
  IN [fields |-> c.fields, frontend |-> c.frontend, policies |-> policies, nodes |-> c.nodes, pools |-> c.pools,
      sites |-> [i \in DOMAIN c.sites |-> Upgraded(c.sites[i], policies[1].name)]]

(* The tables buildRuntime indexes by name; a later entry replaces one of  *)
(* the same name, an unknown name gives Go's zero value.                   *)
Resolve(objects, name) ==
  LET found == {i \in DOMAIN objects : objects[i].name = name}
  IN  IF found = {} THEN 0 ELSE CHOOSE i \in found : \A j \in found : j <= i

(* What the sites and pools of a runtime were built from: nothing missing, *)
(* nothing but the one object of that name.                                *)
Only(objects, name) == {i \in DOMAIN objects : objects[i].name = name} = {Resolve(objects, name)}

Builds(c) ==
  /\ \A i \in DOMAIN c.sites : Only(c.pools, c.sites[i].pool) /\ Only(c.policies, c.sites[i].policy)
  /\ \A i \in DOMAIN c.pools : \A k \in DOMAIN c.pools[i].members : Only(c.nodes, c.pools[i].members[k])

ValidationInit == candidate \in Drafts
ValidationSpec == ValidationInit /\ [][UNCHANGED candidate]_candidate

(* A configuration that validate accepts can be built, is the same after a *)
(* restart has loaded it, and can be saved as a draft unless two sites     *)
(* have one name, which only validateDraft asks about.  What was saved as  *)
(* a draft can still be saved after it was loaded.                         *)
Agreed(c) ==
  /\ Valid(c) => Builds(c) /\ Migrate(c) = c /\ (Distinct(c.sites) => DraftValid(c))
  /\ DraftValid(c) => DraftValid(Migrate(c))

AcceptedBuilds == Agreed(candidate)
=============================================================================
