--------------------------- MODULE ContractDrift ---------------------------
(***************************************************************************)
(* Contracts against traffic (api3_contract.go: matchContractOperations,   *)
(* driftAgainstLearnedSchema, authRequirementDrift): declared operations   *)
(* are bound to observed ones, and what schema learning has seen of them   *)
(* (schema_api2.go) is compared with what they declare.                    *)
(*                                                                         *)
(* An observed operation is [site, host, key, path, ignored]: one per site *)
(* and normalized path.  Which of the observed types of a field dominates  *)
(* is left open, as are enumerations.                                      *)
(***************************************************************************)
EXTENDS APIContracts

CONSTANTS Observations,   \* sets of observed operations
          LearnedHeaders  \* headers schema learning looks at

VARIABLES contract,  \* the document, or <<>>
          inventory,  \* operations seen
          traffic    \* requests to the operations that are bound

driftVars == <<compared, contract, inventory, traffic>>

-----------------------------------------------------------------------------
(* matchContractOperations: method and normalized path score 0.8, the same *)
(* fingerprint, of the path with {id}, 0.2 more; candidates within 0.05 of *)
(* the best make the binding ambiguous.                                    *)
Candidates(key) == {o \in inventory : o.key[1] = key[1] /\ NormalPath(o.key[2]) = key[2]}
Exact(key) == {o \in Candidates(key) : o.key = key}

BestCandidates(key) == IF Exact(key) = {} THEN Candidates(key) ELSE Exact(key)

MatchContractOperations(v) ==
  [key \in DOMAIN v.ops |-> [status |-> IF Candidates(key) = {} THEN "UNMATCHED"
                                        ELSE IF Cardinality(BestCandidates(key)) = 1 THEN "MATCHED" ELSE "AMBIGUOUS",
                             to |-> BestCandidates(key)]]

Event(type, at) == [type |-> type, at |-> at]

(* Observed operations no binding names, of a site or host of one that is. *)
Undeclared(bindings) ==
  LET matched == UNION {bindings[k].to : k \in {k \in DOMAIN bindings : bindings[k].status = "MATCHED"}}
  IN  {Event("UNDECLARED_ENDPOINT", o) : o \in
         {o \in inventory \ matched : ~o.ignored /\ \E m \in matched : o.site = m.site \/ o.host = m.host}}

-----------------------------------------------------------------------------
(* flattenJSONSamples: what learning records of a body, as <<place, type,  *)
(* real type>>; an array is a field beside its items, and text that reads  *)
(* as a number is one.                                                     *)
InferScalarType(v) == IF v.type = "string" /\ "digits" \in v.facets THEN "integer" ELSE v.type

LearnedItem(prefix) == IF prefix = <<>> THEN << <<"", 1>> >> ELSE Bumped(prefix)

RECURSIVE BodySamples(_, _)
BodySamples(v, prefix) ==
  CASE v.type = "object" -> UNION {BodySamples(v.props[n], prefix \o n) : n \in DOMAIN v.props}
    [] v.type = "array" -> {<<FallbackPath(prefix), "array", "array">>} \cup UNION {BodySamples(i, LearnedItem(prefix)) : i \in v.items}
    [] OTHER -> {<<FallbackPath(prefix), InferScalarType(v), v.type>>}

(* Parameters of the query and the path, and some headers.                 *)
LearnedParameters(r) ==
  {<<k, r.parameters[k], "string">> : k \in {k \in DOMAIN r.parameters : k[1] \in {"query", "path"} \/ k \in LearnedHeaders}}

SchemaTypesCompatible(d, o) == d = o \/ (d = "number" /\ o = "integer")

FieldDrift(fields, samples) ==
  LET seenAt == {s[1] : s \in samples}
  IN  {Event("MISSING_REQUIRED_FIELD", k) : k \in {k \in DOMAIN fields : fields[k].required /\ k \notin seenAt}}
      \cup {Event("TYPE_DRIFT", s[1]) : s \in {s \in samples : s[1] \in DOMAIN fields /\ fields[s[1]].type # "" /\ ~SchemaTypesCompatible(fields[s[1]].type, s[2])}}

UnknownFields(fields, samples) == {Event("UNKNOWN_FIELD", p) : p \in {s[1] : s \in samples} \ DOMAIN fields}

EveryScheme(schemes, alternative, families) == \A s \in alternative : schemes[s] \in families

(* authRequirementDrift: an anonymous alternative, one that cannot be told *)
(* from here, or one that an observed request met, settles it.             *)
AuthRequirementDrift(schemes, security, seenFamilies) ==
  \A i \in DOMAIN security :
    /\ security[i] # {} /\ \A s \in security[i] : schemes[s] # ""
    /\ \A families \in seenFamilies : ~EveryScheme(schemes, security[i], families)

Families(schemes, credentials) == {schemes[c] : c \in credentials} \ {""}

(* The events of an operation that is bound, after the requests of traffic.*)
OperationDrift(v, key) ==
  LET op == v.ops[key]
      requests == {r \in traffic : r.key = key}
      bodies == {r \in requests : r.body # <<>>}
      samples == UNION {BodySamples(r.body[1], <<>>) : r \in bodies}
  IN  FieldDrift(Index(op.request.fields), samples) \cup UnknownFields(Index(op.request.fields), samples)
      \cup FieldDrift(op.parameters, UNION {LearnedParameters(r) : r \in requests})
      \cup (IF op.request.media # {} /\ bodies # {} /\ op.request.media \cap {r.media : r \in bodies} = {}
              THEN {Event("CONTENT_TYPE_DRIFT", key)} ELSE {})
      \cup (IF op.security # <<>> /\ requests # {} /\ AuthRequirementDrift(v.schemes, op.security, {Families(v.schemes, r.credentials) : r \in requests})
              THEN {Event("AUTH_DRIFT", key)} ELSE {})

DriftAgainstLearnedSchema(v) ==
  LET bindings == MatchContractOperations(v)
      bound == {k \in DOMAIN v.ops : bindings[k].status = "MATCHED" /\ \E r \in traffic : r.key = k}
  IN  Undeclared(bindings) \cup UNION {OperationDrift(v, k) : k \in bound}
      \cup {Event("MISSING_ENDPOINT", k) : k \in {k \in DOMAIN v.ops : bindings[k].status = "UNMATCHED"}}

DriftInit ==
  /\ contract \in {d \in ContractDocs : Parses(d)} /\ inventory \in Observations
  /\ traffic \in {{r} : r \in ClientRequests} \cup {{}}

-----------------------------------------------------------------------------
(* Where learning and the contract name one thing differently: an array    *)
(* with items, everything in a body that is one, and text that reads as a  *)
(* number.                                                                 *)
Misnamed(r) ==
  {s[1] : s \in {s \in LearnedParameters(r) : s[2] # s[3]}}
  \cup (IF r.body = <<>> THEN {} ELSE {s[1] : s \in {s \in BodySamples(r.body[1], <<>>) : "array" = s[2] \/ s[1][1] = <<"", 1>> \/ s[2] # s[3]}})

(* Every drift has a cause.  Requests that the contract accepts and that   *)
(* use only what it declares give none, but for required fields they may   *)
(* leave out or learning does not see, and for arrays, which learning      *)
(* records beside their items, and text that reads as a number; an         *)
(* endpoint is reported as undeclared only in the site or host of a bound  *)
(* one, and if another observed path was bound in its place or none is     *)
(* declared.  And an operation is reported exactly if its observed request *)
(* lacks what each alternative of its security asks for and all of them    *)
(* can be told.                                                            *)
DriftHasCause ==
  contract # <<>> => \A v \in Parse(contract) :
  LET drift == DriftAgainstLearnedSchema(v)
  IN  /\ (\A r \in traffic : Accepts(contract, r) /\ OnlyDeclared(v, r)) /\ FlatDocument(contract) =>
           \A e \in drift : /\ e.type \notin {"AUTH_DRIFT", "CONTENT_TYPE_DRIFT"}
                            /\ e.type \in {"UNKNOWN_FIELD", "TYPE_DRIFT"} => \E r \in traffic : e.at \in Misnamed(r)
      /\ \A e \in drift : e.type = "UNDECLARED_ENDPOINT" =>
           /\ \E o \in inventory \ {e.at} : (o.site = e.at.site \/ o.host = e.at.host) /\ <<o.key[1], NormalPath(o.key[2])>> \in DOMAIN v.ops
           /\ <<e.at.key[1], NormalPath(e.at.key[2])>> \in DOMAIN v.ops =>
                \E o \in inventory \ {e.at} : o.key[1] = e.at.key[1] /\ NormalPath(o.key[2]) = NormalPath(e.at.key[2])
      /\ \A r \in traffic : \A o \in inventory :
           r.key = o.key /\ r.key \in DOMAIN v.ops /\ Cardinality(inventory) = 1 =>
             LET security == v.ops[r.key].security
             IN  (security # <<>> /\ \A i \in DOMAIN security :
                    /\ \A s \in security[i] : v.schemes[s] # ""
                    /\ \E s \in security[i] : v.schemes[s] \notin {v.schemes[c] : c \in r.credentials}) <=> Event("AUTH_DRIFT", r.key) \in drift

(* A contract keeps its meaning from import to comparison and export, and  *)
(* what is reported against it comes from the traffic (api3_contract.go).  *)
ContractsSound == VersionsKeepMeaning /\ DriftHasCause
=============================================================================
