--------------------------- MODULE IdentityPolicy ---------------------------
(***************************************************************************)
(* API identity (identity_api5.go): trusted issuers, a policy per          *)
(* operation that starts in DETECT and is promoted to ENFORCE, the runtime *)
(* snapshot requests load, and the verifier of each issuer with its cache  *)
(* of keys, the refresh when it expires and the one when a key is missing. *)
(*                                                                         *)
(* What an issuer is trusted for (issuer name, JWKS URL, audiences,        *)
(* algorithms, claim paths) is one value, a trust; what a policy requires  *)
(* is another.  A token names its key; whether its signature, its claims   *)
(* and its identity satisfy the policy is chosen when it is judged.  The   *)
(* issuer's own server rotates its keys.  The list of violations, kept to  *)
(* be read, is left out; so is the handling of malformed tokens, which     *)
(* ends like a missing one.                                                *)
(***************************************************************************)
EXTENDS Naturals, FiniteSets

CONSTANTS Operations, Issuers, Trusts, Requirements, Tokens,   \* Tokens: ids of requests
          MaxEdits, MaxWriting, MaxRotations, MaxFetches       \* bounds

ASSUME IdentityAssumption == MaxEdits \in Nat

VARIABLES
  issuers, policies,     \* the store
  runtimes, snapshot,    \* verifier of each issuer; what requests load
  cache, refreshing,     \* of each verifier: its keys; who holds refreshMu
  published,             \* external: the keys behind each trust
  bearer,                \* the request that carries each token
  writing, stateFile,    \* saves between their snapshot and their rename; the file
  edits, rotations, fetches,
  promoted               \* every (policy, trust) an operator put into ENFORCE

policyVars == <<issuers, policies, runtimes, snapshot, promoted>>
keyVars == <<cache, refreshing, fetches>>
saveVars == <<writing, stateFile>>
identityVars == <<policyVars, keyVars, published, rotations, bearer, saveVars, edits>>

None == [is |-> "none"]
NoKeys == [keys |-> {}, fresh |-> FALSE, version |-> 0, missed |-> FALSE]
Verifiers == Issuers \X (1..MaxEdits)    \* the edit a verifier is born of

IdentityInit ==
  /\ issuers = [i \in Issuers |-> None] /\ policies = [o \in Operations |-> None]
  /\ runtimes = [i \in Issuers |-> None] /\ snapshot = [o \in Operations |-> None]
  /\ cache = [v \in Verifiers |-> NoKeys] /\ refreshing = [v \in Verifiers |-> "free"] /\ fetches = 0
  /\ published = [t \in Trusts |-> 0] /\ rotations = 0
  /\ bearer = [q \in Tokens |-> None]
  /\ writing = {} /\ stateFile = None /\ edits = 0 /\ promoted = {}

-----------------------------------------------------------------------------
(* The store.  Every operation ends by rebuilding what requests see.       *)

(* Mutated form: an issuer is the same whatever it is trusted for.         *)
SameIssuer(a, b) == TRUE

SameTrust(a, b) == a.trust = b.trust

(* A verifier lives on, with its keys, while its configuration is the same;*)
(* requests that hold an older one keep it.                                *)
Rebuild(iss, pol, old) ==
  LET Runtime(i) == IF iss[i] = None \/ ~iss[i].enabled THEN None
                    ELSE IF old[i] # None /\ SameTrust(old[i], iss[i]) THEN old[i]
                    ELSE [is |-> "verifier", trust |-> iss[i].trust, id |-> <<i, edits'>>]
      rts == [i \in Issuers |-> Runtime(i)]
  IN  /\ issuers' = iss /\ policies' = pol /\ runtimes' = rts
      /\ snapshot' = [o \in Operations |->
           IF pol[o] = None THEN None
           ELSE [is |-> "rule", policy |-> pol[o], verifier |-> rts[pol[o].issuer]]]

Edit == edits < MaxEdits /\ edits' = edits + 1

(* upsertIssuer: a change of trust sends its policies back to DETECT; an   *)
(* issuer that policies name cannot be disabled.                           *)
UpsertIssuer(i, t, on) ==
  LET new == [is |-> "issuer", trust |-> t, enabled |-> on]
      changed == issuers[i] # None /\ ~SameTrust(issuers[i], new)
  IN  /\ Edit
      /\ on \/ \A o \in Operations : policies[o] # None => policies[o].issuer # i
      /\ Rebuild([issuers EXCEPT ![i] = new],
                 [o \in Operations |->
                    IF changed /\ policies[o] # None /\ policies[o].issuer = i
                      THEN [policies[o] EXCEPT !.mode = "DETECT"] ELSE policies[o]],
                 [runtimes EXCEPT ![i] = IF changed THEN None ELSE @])
      /\ UNCHANGED <<promoted, keyVars, published, rotations, bearer, saveVars>>

(* Mutated form: policies are compared without what they require.          *)
SameParties(a, b) == a.issuer = b.issuer

SameSemantics(a, b) == a.issuer = b.issuer /\ a.requires = b.requires

UpsertPolicy(o, i, r) ==
  LET asked == [is |-> "policy", issuer |-> i, requires |-> r, mode |-> "DETECT"]
      kept == policies[o] # None /\ SameSemantics(policies[o], asked)
  IN  /\ Edit /\ issuers[i] # None /\ issuers[i].enabled
      /\ Rebuild(issuers,
                 [policies EXCEPT ![o] = [asked EXCEPT !.mode = IF kept THEN policies[o].mode ELSE "DETECT"]],
                 runtimes)
      /\ UNCHANGED <<promoted, keyVars, published, rotations, bearer, saveVars>>

Form(p, iss) == [requires |-> p.requires, issuer |-> p.issuer,
                 trust |-> IF iss[p.issuer] = None THEN "none" ELSE iss[p.issuer].trust]

SetPolicyMode(o, m) ==
  /\ Edit /\ policies[o] # None /\ policies[o].mode # m
  /\ Rebuild(issuers, [policies EXCEPT ![o].mode = m], runtimes)
  /\ promoted' = IF m = "ENFORCE" THEN promoted \cup {Form(policies[o], issuers)} ELSE promoted
  /\ UNCHANGED <<keyVars, published, rotations, bearer, saveVars>>

DeletePolicy(o) ==
  /\ Edit /\ policies[o] # None
  /\ Rebuild(issuers, [policies EXCEPT ![o] = None], runtimes)
  /\ UNCHANGED <<promoted, keyVars, published, rotations, bearer, saveVars>>

(* Each handler saves after its operation: the state is copied under the   *)
(* lock and written later, or not at all.                                  *)
SaveState ==
  /\ Cardinality(writing) < MaxWriting
  /\ writing' = writing \cup {[is |-> "file", issuers |-> issuers, policies |-> policies]}
  /\ UNCHANGED <<policyVars, keyVars, published, rotations, bearer, stateFile, edits>>

SaveWritten ==
  /\ \E s \in writing : writing' = writing \ {s} /\ stateFile' \in {s, stateFile}
  /\ UNCHANGED <<policyVars, keyVars, published, rotations, bearer, edits>>

(* A crash, and load: keys are not persisted.                              *)
Restart ==
  /\ Edit /\ stateFile # None
  /\ Rebuild(stateFile.issuers, stateFile.policies, [i \in Issuers |-> None])
  /\ cache' = [v \in Verifiers |-> NoKeys] /\ refreshing' = [v \in Verifiers |-> "free"]
  /\ bearer' = [q \in Tokens |-> None] /\ writing' = {}
  /\ UNCHANGED <<promoted, fetches, published, rotations, stateFile>>

-----------------------------------------------------------------------------
(* External: an issuer replaces its key.                                   *)
Rotate(t) == /\ rotations < MaxRotations /\ rotations' = rotations + 1
             /\ published' = [published EXCEPT ![t] = @ + 1]
             /\ UNCHANGED <<policyVars, keyVars, bearer, saveVars, edits>>

KeyOf(t) == <<t, published[t]>>
Keys == Trusts \X (0..MaxRotations)

-----------------------------------------------------------------------------
(* wrap and verify.                                                        *)

Becomes(q, b) == /\ bearer' = [bearer EXCEPT ![q] = b]
                 /\ UNCHANGED <<policyVars, published, rotations, saveVars, edits>>
Outcome(b, how) == [b EXCEPT !.at = how]

(* The rule of the moment is kept for the whole request; without a token   *)
(* or a verifier it is decided at once.                                    *)
Decides(b, good) == IF good \/ b.rule.policy.mode = "DETECT" THEN Outcome(b, "forwarded") ELSE Outcome(b, "rejected")

RequestStarts(q, o, k) ==
  LET b == [is |-> "request", at |-> "cache", rule |-> snapshot[o], key |-> k, set |-> NoKeys,
            trusted |-> Form(snapshot[o].policy, issuers).trust, verified |-> FALSE]
  IN  /\ bearer[q] = None /\ snapshot[o] # None
      /\ Becomes(q, IF snapshot[o].verifier = None \/ k = <<>> THEN Decides(b, FALSE) ELSE b)
      /\ UNCHANGED keyVars

Verifier(q) == bearer[q].rule.verifier.id

(* refresh: cached keys that have not expired, or else a fetch by whoever  *)
(* takes refreshMu, which looks again first.                               *)
UseCache(q) ==
  /\ bearer[q].at = "cache" /\ cache[Verifier(q)].fresh
  /\ Becomes(q, [bearer[q] EXCEPT !.at = "select", !.set = cache[Verifier(q)]])
  /\ UNCHANGED keyVars

BeginFetch(q) ==
  LET v == Verifier(q)
      c == cache[v]
  IN  /\ refreshing[v] = "free" /\ fetches < MaxFetches
      /\ \/ bearer[q].at = "cache" /\ ~c.fresh
         \/ bearer[q].at = "missing" /\ c.version = bearer[q].set.version /\ ~c.missed
      /\ refreshing' = [refreshing EXCEPT ![v] = q] /\ fetches' = fetches + 1
      /\ Becomes(q, [bearer[q] EXCEPT !.at = IF @ = "cache" THEN "fetch" ELSE "refetch"])
      /\ UNCHANGED cache

(* The keys the issuer publishes now, or an error, which rejects.          *)
EndFetch(q) ==
  LET v == Verifier(q)
      got == [keys |-> {KeyOf(bearer[q].rule.verifier.trust)}, fresh |-> TRUE, version |-> fetches,
              missed |-> cache[v].missed \/ bearer[q].at = "refetch"]
  IN  /\ bearer[q].at \in {"fetch", "refetch"}
      /\ refreshing' = [refreshing EXCEPT ![v] = "free"]
      /\ \/ /\ cache' = [cache EXCEPT ![v] = got]
            /\ Becomes(q, [bearer[q] EXCEPT !.at = IF @ = "fetch" THEN "select" ELSE "reselect", !.set = got])
         \/ Becomes(q, Decides(bearer[q], FALSE)) /\ UNCHANGED cache
      /\ UNCHANGED fetches

(* refreshForKeyMiss: another request has replaced the set, or the last    *)
(* refetch is too recent.                                                  *)
ReuseOnMiss(q) ==
  LET c == cache[Verifier(q)]
  IN  /\ bearer[q].at = "missing" /\ refreshing[Verifier(q)] = "free"
      /\ c.version # bearer[q].set.version \/ c.missed
      /\ Becomes(q, [bearer[q] EXCEPT !.at = "reselect", !.set = c])
      /\ UNCHANGED keyVars

(* selectJWTKey: the one key of that id and a compatible kind.             *)
Selects(set, key) == key \in set.keys

(* What the signature, the claims and the requirements give.               *)
Judge(q) ==
  LET b == bearer[q]
  IN  /\ b.at \in {"select", "reselect"}
      /\ IF Selects(b.set, b.key) THEN \E good \in BOOLEAN : Becomes(q, Decides([b EXCEPT !.verified = good], good))
         ELSE IF b.at = "select" THEN Becomes(q, [b EXCEPT !.at = "missing"])
         ELSE Becomes(q, Decides(b, FALSE))
      /\ UNCHANGED keyVars

Reply(q) == /\ bearer[q].at \in {"forwarded", "rejected"}
                /\ Becomes(q, None) /\ UNCHANGED keyVars

(* refreshIssuer: the operator has the keys fetched again.                 *)
RefreshIssuer(i) ==
  LET v == runtimes[i].id
  IN  /\ runtimes[i] # None /\ refreshing[v] = "free" /\ fetches < MaxFetches /\ fetches' = fetches + 1
      /\ cache' = [cache EXCEPT ![v] = [@ EXCEPT !.keys = {KeyOf(runtimes[i].trust)}, !.fresh = TRUE,
                                                 !.version = fetches']]
      /\ UNCHANGED <<policyVars, refreshing, published, rotations, bearer, saveVars, edits>>

CacheExpires(v) == /\ cache[v].fresh /\ cache' = [cache EXCEPT ![v].fresh = FALSE]
                   /\ UNCHANGED <<policyVars, refreshing, fetches, published, rotations, bearer, saveVars, edits>>
WindowEnds(v) == /\ cache[v].missed /\ cache' = [cache EXCEPT ![v].missed = FALSE]
                 /\ UNCHANGED <<policyVars, refreshing, fetches, published, rotations, bearer, saveVars, edits>>

IdentityNext ==
  \/ \E i \in Issuers, t \in Trusts, on \in BOOLEAN : UpsertIssuer(i, t, on)
  \/ \E o \in Operations : \/ \E i \in Issuers, r \in Requirements : UpsertPolicy(o, i, r)
                           \/ \E m \in {"DETECT", "ENFORCE"} : SetPolicyMode(o, m)
                           \/ DeletePolicy(o)
  \/ SaveState \/ SaveWritten \/ Restart
  \/ \E t \in Trusts : Rotate(t)
  \/ \E q \in Tokens, o \in Operations, k \in Keys \cup {<<>>} : RequestStarts(q, o, k)
  \/ \E q \in {p \in Tokens : bearer[p] # None} :
       UseCache(q) \/ BeginFetch(q) \/ EndFetch(q) \/ ReuseOnMiss(q) \/ Judge(q) \/ Reply(q)
  \/ \E i \in Issuers : RefreshIssuer(i)
  \/ \E v \in Verifiers : CacheExpires(v) \/ WindowEnds(v)

IdentitySpec == IdentityInit /\ [][IdentityNext]_identityVars

-----------------------------------------------------------------------------
(* Properties.                                                             *)

(* Nothing is rejected under a rule an operator has not promoted in just   *)
(* this form - the same requirements, issuer and trust -, whatever edits   *)
(* of policies and issuers, saves that overtake each other and restarts    *)
(* come between.                                                           *)
EnforceIsPromoted ==
  /\ \A o \in Operations : policies[o] # None /\ policies[o].mode = "ENFORCE" => Form(policies[o], issuers) \in promoted
  /\ \A q \in Tokens : bearer[q] # None /\ bearer[q].at = "rejected" =>
       \E f \in promoted : f.requires = bearer[q].rule.policy.requires /\ f.trust = bearer[q].trusted

(* A token is accepted on a key that belongs to the trust its policy named *)
(* when the request came: no keys cached for an earlier configuration of   *)
(* the issuer outlive the change.                                          *)
VerifiedByTrusted ==
  \A q \in Tokens : bearer[q] # None /\ bearer[q].verified => bearer[q].key[1] = bearer[q].trusted

(* Why the first holds: a store, wherever it is kept, enforces only what   *)
(* was promoted, and names only issuers it has; a request keeps the rule   *)
(* it found.                                                               *)
IssuerRec == [is : {"issuer"}, trust : Trusts, enabled : BOOLEAN]
PolicyRec == [is : {"policy"}, issuer : Issuers, requires : Requirements, mode : {"DETECT", "ENFORCE"}]

Sanctioned(iss, pol, done) ==
  /\ iss \in [Issuers -> {None} \cup IssuerRec] /\ pol \in [Operations -> {None} \cup PolicyRec]
  /\ \A o \in Operations : pol[o] # None =>
       /\ iss[pol[o].issuer] # None
       /\ pol[o].mode = "ENFORCE" => Form(pol[o], iss) \in done

StoresInv ==
  /\ Sanctioned(issuers, policies, promoted)
  /\ stateFile # None => Sanctioned(stateFile.issuers, stateFile.policies, promoted)
  /\ \A s \in writing : Sanctioned(s.issuers, s.policies, promoted)
  /\ \A o \in Operations : IF policies[o] = None THEN snapshot[o] = None
                           ELSE snapshot[o] # None /\ snapshot[o].policy = policies[o]

RuleKept(b) ==
  /\ {"at", "rule", "trusted", "set", "verified", "key"} \subseteq DOMAIN b
  /\ b.rule.policy \in PolicyRec
  /\ b.rule.policy.mode = "ENFORCE" =>
       \E f \in promoted : f.requires = b.rule.policy.requires /\ f.trust = b.trusted
  /\ b.at = "rejected" => b.rule.policy.mode = "ENFORCE"

BearersInv == DOMAIN bearer = Tokens /\ \A q \in Tokens : bearer[q] # None => RuleKept(bearer[q])

PromotionInv == StoresInv /\ BearersInv

(* Why the second holds: a verifier keeps its trust as long as someone     *)
(* uses it, no two trusts share an id, and only keys of the trust are      *)
(* cached under it.                                                        *)
VerifierRec == [is : {"verifier"}, trust : Trusts, id : Verifiers]

InUse == {runtimes[i] : i \in {j \in Issuers : runtimes[j] # None}}
         \cup {bearer[q].rule.verifier : q \in {p \in Tokens : bearer[p] # None /\ bearer[p].rule.verifier # None}}

CacheInv ==
  /\ edits \in Nat /\ DOMAIN cache = Verifiers
  /\ \A v \in Verifiers : "keys" \in DOMAIN cache[v] /\ (v[2] > edits => cache[v].keys = {})
  /\ \A x \in InUse : /\ x \in VerifierRec /\ x.id[2] <= edits
                     /\ \A k \in cache[x.id].keys : k[1] = x.trust
  /\ \A x, y \in InUse : x.id = y.id => x.trust = y.trust

RuntimesInv ==
  /\ DOMAIN runtimes = Issuers
  /\ \A i \in Issuers : runtimes[i] # None => issuers[i] # None /\ runtimes[i].trust = issuers[i].trust
  /\ \A o \in Operations : snapshot[o] # None => snapshot[o].verifier = runtimes[policies[o].issuer]

KeysKept(b) ==
  /\ b.rule.verifier # None => b.rule.verifier.trust = b.trusted
  /\ b.at \notin {"forwarded", "rejected"} => b.rule.verifier # None
  /\ \A k \in b.set.keys : k[1] = b.trusted
  /\ b.verified => b.key[1] = b.trusted

KeysInv == CacheInv /\ RuntimesInv /\ \A q \in Tokens : bearer[q] # None => KeysKept(bearer[q])
=============================================================================
