--------------------------- MODULE GraphQLPolicy ---------------------------
(***************************************************************************)
(* GraphQL inspection (graphql_api8.go) of one endpoint: imported schema   *)
(* contracts, policies that go LEARN, DETECT, ENFORCE, persisted queries   *)
(* learned from traffic by a worker, the snapshot requests read, saves and *)
(* restarts.                                                               *)
(*                                                                         *)
(* A request reads the snapshot up to four times: for a persisted query,   *)
(* a fallback, its policy and its contract.  A document is valid, or it is *)
(* malformed (not parsed, over a limit, a hash unknown or wrong); whether  *)
(* a valid one satisfies limits, fields and contract is chosen.  The       *)
(* inventory of operations, violations and the object telemetry drawn from *)
(* variables are left out; they decide nothing here.                       *)
(***************************************************************************)
EXTENDS Naturals, FiniteSets, Sequences

CONSTANTS Names, Broad,              \* operation names policies are for; Broad: any operation
          Schemas, Sdl, Limits,      \* contract names, what they declare, what policies demand
          Hashes, Queue8,            \* persisted queries; capacity of the queue
          MaxEdits8, MaxWriting8     \* bounds

ASSUME GraphQLAssumption == Broad \in Names

VARIABLES
  contracts, rules, persisted,   \* the store
  seen8,                         \* the snapshot: contracts, rules, persisted
  observed,                      \* queue of hashes to learn
  call,                          \* the request being inspected
  saving8, file8, edits8,
  reviewed                       \* every (limits, contract) that was in DETECT

store8 == <<contracts, rules, persisted, seen8, reviewed>>
disk8 == <<saving8, file8>>
graphqlVars == <<store8, observed, call, disk8, edits8>>

No == [is |-> "no"]
Idle8 == [at |-> "idle"]

GraphQLInit ==
  /\ contracts = [c \in Schemas |-> No] /\ rules = [n \in Names |-> No] /\ persisted = {}
  /\ seen8 = [contracts |-> contracts, rules |-> rules, persisted |-> {}]
  /\ observed = <<>> /\ call = Idle8 /\ saving8 = {} /\ file8 = seen8 /\ edits8 = 0
  /\ reviewed = {}

-----------------------------------------------------------------------------
(* The store.                                                              *)

(* What a policy enforces: its limits and the contract it names.           *)
Meaning(p, cs) == [limits |-> p.limits, contract |-> IF p.schema = "" THEN No ELSE cs[p.schema]]

Rebuilt(cs, rs, ps) ==
  /\ contracts' = cs /\ rules' = rs /\ persisted' = ps
  /\ seen8' = [contracts |-> cs, rules |-> rs, persisted |-> ps]
  /\ reviewed' = reviewed \cup {Meaning(rs[n], cs) : n \in {m \in Names : rs[m] # No /\ rs[m].mode = "DETECT"}}

Edit8 == /\ edits8 < MaxEdits8 /\ edits8' = edits8 + 1
         /\ UNCHANGED <<observed, call, disk8>>

(* Mutated form: policies keep their mode when their contract changes.     *)
Unmoved(p, c) == p

Relearn(p, c) == IF p # No /\ p.schema = c THEN [p EXCEPT !.mode = "LEARN"] ELSE p

UpsertSchemaContract(c, x) ==
  LET new == [is |-> "contract", declares |-> x]
  IN  /\ Edit8
      /\ Rebuilt([contracts EXCEPT ![c] = new],
                 [n \in Names |-> IF contracts[c] \in {No, new} THEN rules[n] ELSE Relearn(rules[n], c)], persisted)

DeleteSchemaContract(c) ==
  /\ Edit8 /\ contracts[c] # No
  /\ \A n \in Names : rules[n] # No => rules[n].schema # c
  /\ Rebuilt([contracts EXCEPT ![c] = No], rules, persisted)

(* Any edit of a policy returns it to LEARN.                               *)
UpsertRule(n, c, l) ==
  /\ Edit8
  /\ c # "" => contracts[c] # No
  /\ Rebuilt(contracts, [rules EXCEPT ![n] = [is |-> "rule", schema |-> c, limits |-> l, mode |-> "LEARN"]], persisted)

GraphQLModeTransition(from, to) ==
  <<from, to>> \in {<<"LEARN", "DETECT">>, <<"DETECT", "LEARN">>, <<"DETECT", "ENFORCE">>,
                    <<"ENFORCE", "DETECT">>, <<"ENFORCE", "LEARN">>}

SetRuleMode(n, m) ==
  /\ Edit8 /\ rules[n] # No /\ GraphQLModeTransition(rules[n].mode, m)
  /\ Rebuilt(contracts, [rules EXCEPT ![n].mode = m], persisted)

DeleteRule(n) == Edit8 /\ rules[n] # No /\ Rebuilt(contracts, [rules EXCEPT ![n] = No], persisted)

-----------------------------------------------------------------------------
(* The worker, and expiry of what it learned.                              *)

LearnPersisted ==
  /\ observed # <<>> /\ observed' = Tail(observed)
  /\ Rebuilt(contracts, rules, persisted \cup {Head(observed)})
  /\ UNCHANGED <<call, disk8, edits8>>

(* Thirty days without use; found when an observation is processed or a    *)
(* save prunes, of which only the former rebuilds the snapshot.            *)
ForgetPersisted(h) ==
  /\ \/ Rebuilt(contracts, rules, persisted \ {h})
     \/ persisted' = persisted \ {h} /\ UNCHANGED <<contracts, rules, seen8, reviewed>>
  /\ UNCHANGED <<observed, call, disk8, edits8>>

SaveGraphQL ==
  /\ Cardinality(saving8) < MaxWriting8
  /\ saving8' = saving8 \cup {[contracts |-> contracts, rules |-> rules, persisted |-> persisted]}
  /\ UNCHANGED <<store8, observed, call, file8, edits8>>

GraphQLSaved ==
  /\ \E s \in saving8 : saving8' = saving8 \ {s} /\ file8' \in {s, file8}
  /\ UNCHANGED <<store8, observed, call, edits8>>

LoadGraphQL ==
  /\ edits8 < MaxEdits8 /\ edits8' = edits8 + 1
  /\ Rebuilt(file8.contracts, file8.rules, file8.persisted)
  /\ observed' = <<>> /\ call' = Idle8 /\ saving8' = {}
  /\ UNCHANGED file8

-----------------------------------------------------------------------------
(* wrap.                                                                   *)

CallIs(c) == call' = c /\ UNCHANGED <<store8, disk8, edits8>>

Rank(n) == CASE seen8.rules[n].mode = "ENFORCE" -> 3 [] seen8.rules[n].mode = "DETECT" -> 2 [] OTHER -> 1
Better(n, m) == Rank(n) > Rank(m) \/ (Rank(n) = Rank(m) /\ n = Broad)

Configured == {n \in Names : seen8.rules[n] # No}
Fallback == {n \in Configured : \A m \in Configured \ {n} : Better(n, m) \/ ~Better(m, n)}

(* What comes: no GraphQL envelope, which only a configured endpoint looks *)
(* at; a document with or without the hash of a persisted query; a hash.   *)
Receive(kind, n, h) ==
  /\ call = Idle8
  /\ CallIs(IF kind = "other" /\ Configured = {} THEN call
            ELSE [at |-> "policy", name |-> n, hash |-> h,
                  kind |-> IF kind = "hash" THEN IF h \in seen8.persisted THEN "valid" ELSE "malformed"
                           ELSE IF kind = "other" THEN "malformed" ELSE kind])
  /\ UNCHANGED observed

(* The policy of the operation, of any operation, or for a malformed       *)
(* document the strictest of the endpoint.                                 *)
FindRule ==
  /\ call.at = "policy"
  /\ LET mine == {call.name, Broad} \cap Configured
         use(n) == CallIs([at |-> "contract", hash |-> call.hash, kind |-> call.kind, rule |-> seen8.rules[n]])
     IN  CASE call.kind = "malformed" /\ Configured # {} -> \E n \in Fallback : use(n)
           [] call.kind # "malformed" /\ mine # {} -> use(IF call.name \in mine THEN call.name ELSE Broad)
           [] OTHER -> CallIs([at |-> "none", hash |-> call.hash, kind |-> call.kind])
  /\ UNCHANGED observed

(* The contract is looked up in the snapshot of this moment, the document  *)
(* judged, what was learned queued unless the queue is full, and a         *)
(* violation of a policy in ENFORCE blocks.                                *)
JudgeDocument(violates) ==
  LET blocks == call.at = "contract" /\ call.rule.mode = "ENFORCE" /\ violates
  IN  /\ call.at \in {"contract", "none"}
      /\ call.kind = "malformed" => violates
      /\ observed' = IF call.kind = "registers" /\ Len(observed) < Queue8 THEN Append(observed, call.hash) ELSE observed
      /\ CallIs([at |-> "done", blocked |-> blocks])

Respond8 == call.at = "done" /\ CallIs(Idle8) /\ UNCHANGED observed

GraphQLNext ==
  \/ \E c \in Schemas : DeleteSchemaContract(c) \/ \E x \in Sdl : UpsertSchemaContract(c, x)
  \/ \E n \in Names : \/ \E c \in Schemas \cup {""}, l \in Limits : UpsertRule(n, c, l)
                      \/ \E m \in {"LEARN", "DETECT", "ENFORCE"} : SetRuleMode(n, m)
                      \/ DeleteRule(n)
  \/ LearnPersisted \/ \E h \in Hashes : ForgetPersisted(h)
  \/ SaveGraphQL \/ GraphQLSaved \/ LoadGraphQL
  \/ \E kind \in {"other", "malformed", "valid", "registers", "hash"}, n \in Names, h \in Hashes : Receive(kind, n, h)
  \/ FindRule \/ (\E v \in BOOLEAN : JudgeDocument(v)) \/ Respond8

GraphQLSpec == GraphQLInit /\ [][GraphQLNext]_graphqlVars

-----------------------------------------------------------------------------
(* Properties.                                                             *)

(* Only what was in DETECT as it stands - the limits together with the     *)
(* contract they refer to - is in ENFORCE for requests: not a policy whose *)
(* contract was imported anew, nor one that a restart takes from an older  *)
(* file.                                                                   *)
EnforceIsReviewed ==
  \A n \in Names : seen8.rules[n] # No /\ seen8.rules[n].mode = "ENFORCE"
                    => Meaning(seen8.rules[n], seen8.contracts) \in reviewed

(* Why: a store, wherever it is kept, has only policies whose contract it  *)
(* has too, and those beyond LEARN mean what was in DETECT.                *)
Contract8 == [is : {"contract"}, declares : Sdl]
Rule8 == [is : {"rule"}, schema : Schemas \cup {""}, limits : Limits, mode : {"LEARN", "DETECT", "ENFORCE"}]

Vetted(cs, rs) ==
  /\ cs \in [Schemas -> {No} \cup Contract8] /\ rs \in [Names -> {No} \cup Rule8]
  /\ \A n \in Names : rs[n] # No =>
       /\ rs[n].schema # "" => cs[rs[n].schema] # No
       /\ rs[n].mode # "LEARN" => Meaning(rs[n], cs) \in reviewed

(* The inductive invariant.                                                *)
GraphQLInv ==
  /\ Vetted(contracts, rules) /\ seen8.contracts = contracts /\ seen8.rules = rules
  /\ Vetted(file8.contracts, file8.rules)
  /\ \A s \in saving8 : Vetted(s.contracts, s.rules)
=============================================================================
