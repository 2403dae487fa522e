---------------------------- MODULE APIContracts ----------------------------
(***************************************************************************)
(* OpenAPI contracts (api3_contract.go, api3_export.go): a document is     *)
(* parsed into operations whose body schemas are flattened into fields;    *)
(* versions are compared field by field, and exported by building schemas  *)
(* from the fields again.                                                  *)
(*                                                                         *)
(* A schema is a leaf with a type, a format and an enum, an object, an     *)
(* array, an allOf or a reference; "none" is a missing one.  A name is the *)
(* sequence of its parts between dots, each <<text, k>>: the text followed *)
(* by k times "[]".  A path, names joined by dots, is a sequence of parts  *)
(* again: what was one name is no longer seen.                             *)
(***************************************************************************)
EXTENDS Naturals, Sequences, SequencesExt, FiniteSets, Functions, TLC

CONSTANTS ContractDocs,   \* documents
          ClientRequests, \* requests
          SchemaDepth,    \* the limit of 16 references and levels
          Json, MediaRank,\* the preferred media type; their order
          Placeholders    \* path segments that stand for a parameter

VARIABLE compared  \* two documents, or <<>>

Root == <<"$", 0>>
Unresolved == [kind |-> "unresolved"]
NoSchema == [kind |-> "none"]
NoContent == <<>>

-----------------------------------------------------------------------------
(* resolveObject: references are followed to something else.               *)
RECURSIVE ResolveObject(_, _, _, _)
ResolveObject(defs, s, seenRefs, depth) ==
  IF depth > SchemaDepth THEN Unresolved
  ELSE IF s.kind # "ref" THEN s
  ELSE IF s.to \in seenRefs \/ s.to \notin DOMAIN defs THEN Unresolved
  ELSE ResolveObject(defs, defs[s.to], seenRefs \cup {s.to}, depth + 1)

FallbackPath(prefix) == IF prefix = <<>> THEN <<Root>> ELSE prefix
Bumped(path) == [path EXCEPT ![Len(path)] = <<@[1], @[2] + 1>>]
ItemPath(prefix) == Bumped(FallbackPath(prefix))

(* dedupeContractFields: of one path, type and format the first branch of  *)
(* allOf gives the field, with its enum; it is required if any says so.    *)
SameKey(f, g) == f.path = g.path /\ f.type = g.type /\ f.format = g.format
Deduped(branches) ==
  LET all == UNION Range(branches)
      First(i) == {f \in branches[i] : \A j \in 1 .. i - 1 : \A g \in branches[j] : ~SameKey(f, g)}
  IN  {[f EXCEPT !.required = \E g \in all : SameKey(f, g) /\ g.required] : f \in UNION {First(i) : i \in DOMAIN branches}}

RECURSIVE Flatten(_, _, _, _, _)
Flatten(defs, s, prefix, required, depth) ==
  LET One(type, format, enum) == {[path |-> FallbackPath(prefix), type |-> type, format |-> format, enum |-> enum, required |-> required]}
      target == ResolveObject(defs, s, {}, depth)
      kids == CASE s.kind = "object" -> UNION {Flatten(defs, s.props[n], prefix \o n, n \in s.required, depth + 1) : n \in DOMAIN s.props}
                [] s.kind = "array" -> Flatten(defs, s.items, ItemPath(prefix), required, depth + 1)
                [] s.kind = "all" -> Deduped([i \in DOMAIN s.branches |-> Flatten(defs, s.branches[i], prefix, required, depth + 1)])
  IN  IF depth > SchemaDepth THEN {}
      ELSE CASE s.kind = "ref" -> IF target = Unresolved THEN One("", "", "") ELSE Flatten(defs, target, prefix, required, depth + 1)
             [] s.kind = "all" -> kids
             [] s.kind = "object" -> IF kids = {} /\ prefix # <<>> THEN One("object", "", "") ELSE kids
             [] s.kind = "array" -> IF kids = {} THEN One("array", "", "") ELSE kids
             [] s.kind = "leaf" -> One(s.type, s.format, s.enum)
             [] OTHER -> {}

(* Of fields with one path the last counts, in a comparison and an export; *)
(* which is the last, after allOf, is left open when a document is parsed. *)
OnePerPath(fields) ==
  {s \in SUBSET fields : \A f \in fields : Cardinality({g \in s : g.path = f.path}) = 1}

-----------------------------------------------------------------------------
(* parseOpenAPIDocument.                                                   *)
NormalPath(path) == [i \in DOMAIN path |-> IF path[i] \in Placeholders THEN "{id}" ELSE path[i]]

Declared(doc) == UNION {{<<m, p>> : m \in DOMAIN doc.paths[p].ops} : p \in DOMAIN doc.paths}
KeyOfOperation(d) == <<d[1], NormalPath(d[2])>>

(* Ambiguous normalized operations are refused.                            *)
Parses(doc) == \A d, e \in Declared(doc) : KeyOfOperation(d) = KeyOfOperation(e) => d = e

(* firstContentSchema: JSON, else the first media type with a schema.      *)
FirstContentSchema(content) ==
  LET with == {m \in DOMAIN content : content[m] # NoSchema}
  IN  IF Json \in with THEN {Json} ELSE {m \in with : \A n \in with : MediaRank[m] <= MediaRank[n]}

ParsedContent(defs, content) ==
  {[fields |-> fields, media |-> DOMAIN content] :
     fields \in OnePerPath(UNION {Flatten(defs, content[m], <<>>, FALSE, 0) : m \in FirstContentSchema(content)})}

(* Parameters of the operation over those of the path; those in the path   *)
(* are required.                                                           *)
MergedParameters(shared, own) ==
  LET all == own @@ shared
  IN  [k \in DOMAIN all |-> [all[k] EXCEPT !.required = @ \/ k[1] = "path"]]

ParsedOperation(doc, d) ==
  LET o == doc.paths[d[2]].ops[d[1]]
      described == {s \in DOMAIN o.responses : o.responses[s] # NoContent}
      contents == UNION {ParsedContent(doc.defs, o.responses[s]) : s \in described}
  IN  {[path |-> d[2], request |-> request, responses |-> responses,
        parameters |-> MergedParameters(doc.paths[d[2]].shared, o.parameters),
        security |-> IF o.own THEN o.security ELSE doc.security] :
         request \in ParsedContent(doc.defs, o.body),
         responses \in {f \in [described -> contents] : \A s \in described : f[s] \in ParsedContent(doc.defs, o.responses[s])}}

(* The versions a document may become.                                     *)
Parse(doc) ==
  LET ops == [key \in {KeyOfOperation(d) : d \in Declared(doc)} |->
                ParsedOperation(doc, CHOOSE d \in Declared(doc) : KeyOfOperation(d) = key)]
  IN  {[schemes |-> doc.schemes, ops |-> f] :
         f \in {f \in [DOMAIN ops -> UNION Range(ops)] : \A key \in DOMAIN ops : f[key] \in ops[key]}}

-----------------------------------------------------------------------------
(* compareContractVersions.                                                *)
Index(fields) == [p \in {f.path : f \in fields} |-> CHOOSE f \in fields : f.path = p]

Change(change, severity) == [change |-> change, severity |-> severity]

Changes(old, new, widens) ==
  LET both == DOMAIN old \cap DOMAIN new
      Needs(x) == IF x.required THEN "BREAKING" ELSE "INFO"
  IN  {Change("REMOVED", "BREAKING") : k \in DOMAIN old \ DOMAIN new}
      \cup {Change("ADDED", Needs(new[k])) : k \in DOMAIN new \ DOMAIN old}
      \cup {Change("TYPE_CHANGED", IF <<old[k].type, new[k].type>> \in widens THEN "WARNING" ELSE "BREAKING") : k \in {k \in both : old[k].type # new[k].type}}
      \cup {Change("FORMAT_CHANGED", "WARNING") : k \in {k \in both : old[k].format # new[k].format}}
      \cup {Change("REQUIRED_CHANGED", Needs(new[k])) : k \in {k \in both : old[k].required # new[k].required}}

EnumChanges(old, new) ==
  {Change("ENUM_CHANGED", "WARNING") : k \in {k \in DOMAIN old \cap DOMAIN new : old[k].enum # new[k].enum}}
FieldChanges(old, new) == Changes(Index(old), Index(new), {<<"integer", "number">>}) \cup EnumChanges(Index(old), Index(new))
ParameterChanges(old, new) == Changes(old, new, {})

MediaChanges(old, new) == IF old # new THEN {Change("CONTENT_TYPE_CHANGED", "WARNING")} ELSE {}

(* Mutated form: the fingerprint has no groups.                            *)
Ungrouped(old, new) ==
  IF UNION Range(old) # UNION Range(new) THEN {Change("SECURITY_REQUIREMENT_CHANGED", "BREAKING")} ELSE {}

(* securityFingerprint: alternatives in their order.                       *)
SecurityChanges(old, new) == IF old # new THEN {Change("SECURITY_REQUIREMENT_CHANGED", "BREAKING")} ELSE {}

ContentOf(responses, s) == IF s \in DOMAIN responses THEN responses[s] ELSE [fields |-> {}, media |-> {}]

OperationChanges(old, new) ==
  FieldChanges(old.request.fields, new.request.fields)
  \cup UNION {FieldChanges(ContentOf(old.responses, s).fields, ContentOf(new.responses, s).fields)
              \cup MediaChanges(ContentOf(old.responses, s).media, ContentOf(new.responses, s).media)
                : s \in DOMAIN old.responses \cup DOMAIN new.responses}
  \cup ParameterChanges(old.parameters, new.parameters)
  \cup MediaChanges(old.request.media, new.request.media)
  \cup SecurityChanges(old.security, new.security)

CompareContractVersions(from, to) ==
  (IF from.schemes # to.schemes THEN {Change("SECURITY_SCHEME_CHANGED", "WARNING")} ELSE {})
  \cup {Change("OPERATION_REMOVED", "BREAKING") : k \in DOMAIN from.ops \ DOMAIN to.ops}
  \cup UNION {OperationChanges(from.ops[k], to.ops[k]) : k \in DOMAIN from.ops \cap DOMAIN to.ops}
  \cup {Change("OPERATION_ADDED", "INFO") : k \in DOMAIN to.ops \ DOMAIN from.ops}

-----------------------------------------------------------------------------
(* exportDocument.  A part that ends in "[]" marks its node as array, and  *)
(* every part is the name of a property.                                   *)
NodeNames(path) == [i \in DOMAIN path |-> IF path[i][2] > 0 THEN <<path[i][1], path[i][2] - 1>> ELSE path[i]]

LeafNode(f) == CASE f.type = "object" -> [kind |-> "object", props |-> <<>>, required |-> {}]
                 [] f.type = "array" -> [kind |-> "array", items |-> NoSchema]
                 [] OTHER -> [kind |-> "leaf", type |-> IF f.type = "" THEN "string" ELSE f.type, format |-> f.format, enum |-> f.enum]

RequiredNames(fields, at, names) == {n \in names : \E f \in fields : NodeNames(f.path) = at \o n /\ f.required}

RECURSIVE NodeSchema(_, _)
NodeSchema(fields, at) ==
  LET below == {f \in fields : IsStrictPrefix(at, NodeNames(f.path))}
      names == {<<NodeNames(f.path)[Len(at) + 1]>> : f \in below}
      plain == IF names = {} THEN LeafNode(CHOOSE f \in fields : NodeNames(f.path) = at)
               ELSE [kind |-> "object", required |-> RequiredNames(fields, at, names),
                     props |-> [n \in names |-> NodeSchema(fields, at \o n)]]
      marked == at # <<>> /\ \E f \in fields : IsPrefix(at, NodeNames(f.path)) /\ f.path[Len(at)][2] > 0
  IN  IF marked THEN [kind |-> "array", items |-> plain] ELSE plain

SchemaFromFlatFields(fields) ==
  LET whole == {f \in fields : f.path = <<Root>>}
  IN  IF whole = fields THEN LeafNode(CHOOSE f \in whole : TRUE) ELSE NodeSchema(fields \ whole, <<>>)

(* A body without fields is left out, with its media types.                *)
ExportContent(content) ==
  IF content.fields = {} THEN NoContent ELSE [m \in content.media |-> SchemaFromFlatFields(content.fields)]

ExportDocument(v) ==
  LET At(path) == {k \in DOMAIN v.ops : v.ops[k].path = path}
  IN  [defs |-> <<>>, schemes |-> v.schemes, security |-> <<>>,
       paths |-> [path \in {v.ops[k].path : k \in DOMAIN v.ops} |->
         [shared |-> <<>>,
          ops |-> [m \in {k[1] : k \in At(path)} |->
            LET o == v.ops[CHOOSE k \in At(path) : k[1] = m]
            IN  [parameters |-> o.parameters, own |-> o.security # <<>>, security |-> o.security,
                 body |-> ExportContent(o.request),
                 responses |-> [s \in DOMAIN o.responses |-> ExportContent(o.responses[s])]]]]]]

-----------------------------------------------------------------------------
(* What a document means: the requests it allows.  What a parameter says   *)
(* is text, whatever it reads as.                                          *)
RECURSIVE Allows(_, _, _)
Allows(defs, s, v) ==
  CASE s.kind = "ref" -> Allows(defs, ResolveObject(defs, s, {}, 0), v)
    [] s.kind = "all" -> \A b \in Range(s.branches) : Allows(defs, b, v)
    [] s.kind = "array" -> v.type = "array" /\ \A i \in v.items : Allows(defs, s.items, i)
    [] s.kind = "object" -> /\ v.type = "object" /\ s.required \subseteq DOMAIN v.props
                            /\ \A n \in DOMAIN v.props \cap DOMAIN s.props : Allows(defs, s.props[n], v.props[n])
    [] s.kind = "leaf" -> /\ s.type \in {"", v.type} \/ <<v.type, s.type>> = <<"integer", "number">>
                          /\ {s.format, s.enum} \subseteq v.facets \cup {""}
    [] OTHER -> s.kind = "none"

Satisfied(security, credentials) == security = <<>> \/ \E i \in DOMAIN security : security[i] \subseteq credentials

Accepts(doc, r) ==
  \E d \in Declared(doc) :
    LET o == doc.paths[d[2]].ops[d[1]]
        parameters == MergedParameters(doc.paths[d[2]].shared, o.parameters)
    IN  /\ KeyOfOperation(d) = r.key
        /\ \A k \in DOMAIN parameters : IF k \in DOMAIN r.parameters THEN parameters[k].type \in {"", "string", r.parameters[k]}
                                                                   ELSE ~parameters[k].required
        /\ IF o.body = NoContent THEN r.body = <<>>
           ELSE r.body # <<>> => r.media \in DOMAIN o.body /\ Allows(doc.defs, o.body[r.media], r.body[1])
        /\ Satisfied(IF o.own THEN o.security ELSE doc.security, r.credentials)

(* The places a value fills, named as a schema's are.                      *)
RECURSIVE Places(_, _)
Places(v, prefix) ==
  CASE v.type = "object" -> IF v.props = <<>> THEN {prefix} ELSE UNION {Places(v.props[n], prefix \o n) : n \in DOMAIN v.props}
    [] v.type = "array" -> IF v.items = {} THEN {ItemPath(prefix)} ELSE UNION {Places(i, ItemPath(prefix)) : i \in v.items}
    [] OTHER -> {FallbackPath(prefix)}

RECURSIVE HasDots(_)
HasDots(v) ==
  CASE v.type = "object" -> \E n \in DOMAIN v.props : Len(n) > 1 \/ HasDots(v.props[n])
    [] v.type = "array" -> \E i \in v.items : HasDots(i)
    [] OTHER -> FALSE

(* The request uses only what the version declares, and no name with a     *)
(* dot, which reads as two.                                                *)
OnlyDeclared(v, r) ==
  /\ r.key \in DOMAIN v.ops /\ DOMAIN r.parameters \subseteq DOMAIN v.ops[r.key].parameters
  /\ r.body # <<>> => /\ ~HasDots(r.body[1])
                      /\ \A p \in Places(r.body[1], <<>>) : \E f \in v.ops[r.key].request.fields : IsPrefix(p, f.path)

(* A schema whose meaning its fields keep: what is required has no fields  *)
(* of its own below it, an array is neither the body nor an item, every    *)
(* leaf has a type, and no name has a dot.                                 *)
RECURSIVE Flat(_, _, _)
Flat(defs, s, depth) ==
  IF depth > SchemaDepth THEN FALSE
  ELSE CASE s.kind = "ref" -> Flat(defs, ResolveObject(defs, s, {}, depth), depth + 1)
         [] s.kind = "all" -> \A b \in Range(s.branches) : Flat(defs, b, depth + 1)
         [] s.kind = "array" -> s.items.kind \notin {"array", "none"} /\ Flat(defs, s.items, depth + 1)
         [] s.kind = "object" -> \A n \in DOMAIN s.props : /\ Flat(defs, s.props[n], depth + 1) /\ Len(n) = 1
                                                           /\ n \in s.required => s.props[n].kind = "leaf"
         [] OTHER -> s.kind = "leaf" /\ s.type # ""

(* Two fields of an allOf that say the same, or of different properties of *)
(* one object.                                                             *)
Agree(f, g) ==
  \/ [f EXCEPT !.required = g.required] = g
  \/ /\ Root \notin {NodeNames(f.path)[1], NodeNames(g.path)[1]}
     /\ \E i \in DOMAIN f.path \cap DOMAIN g.path :
          SubSeq(f.path, 1, i - 1) = SubSeq(g.path, 1, i - 1) /\ NodeNames(f.path)[i] # NodeNames(g.path)[i]

(* The branches of every allOf agree about what they all declare.          *)
RECURSIVE Agreeing(_, _, _)
Agreeing(defs, s, depth) ==
  IF depth > SchemaDepth THEN TRUE
  ELSE CASE s.kind = "ref" -> Agreeing(defs, ResolveObject(defs, s, {}, depth), depth + 1)
         [] s.kind = "all" ->
              /\ \A b \in Range(s.branches) : Agreeing(defs, b, depth + 1)
              /\ \A i, j \in DOMAIN s.branches : i < j =>
                   \A f \in Flatten(defs, s.branches[i], <<>>, FALSE, depth + 1), g \in Flatten(defs, s.branches[j], <<>>, FALSE, depth + 1) : Agree(f, g)
         [] s.kind = "array" -> Agreeing(defs, s.items, depth + 1)
         [] s.kind = "object" -> \A n \in DOMAIN s.props : Agreeing(defs, s.props[n], depth + 1)
         [] OTHER -> TRUE

DeclaredBodies(doc) == {doc.paths[d[2]].ops[d[1]].body : d \in Declared(doc)}

(* ... and the bodies of one media type that has a schema.                 *)
FlatDocument(doc) ==
  \A body \in DeclaredBodies(doc) : \A m \in DOMAIN body :
    DOMAIN body = {m} /\ body[m].kind # "array" /\ Flat(doc.defs, body[m], 0) /\ Flatten(doc.defs, body[m], <<>>, FALSE, 0) # {}
AgreeingDocument(doc) == \A body \in DeclaredBodies(doc) : \A m \in DOMAIN body : Agreeing(doc.defs, body[m], 0)

ContractsInit ==
  \E from, to \in {d \in ContractDocs : Parses(d)} : \E old \in Parse(from), new \in Parse(to) :
    compared = <<from, to, old, new>>

-----------------------------------------------------------------------------
(* If the comparison of two versions shows nothing above INFO, the new one *)
(* accepts every request made by what the old one declares and accepts     *)
(* (API3_TEST_MATRIX.md, "Version comparison"), for schemas whose meaning  *)
(* flattening keeps; and of an allOf whose branches say different things   *)
(* of one place only one of them is compared, so the new version must have *)
(* none.                                                                   *)
QuietMeansCompatible ==
  compared # <<>> =>
  LET from == compared[1] to == compared[2] old == compared[3]
      quiet == \A c \in CompareContractVersions(old, compared[4]) : c.severity = "INFO"
  IN  quiet /\ FlatDocument(from) /\ FlatDocument(to) /\ AgreeingDocument(to) =>
        \A r \in ClientRequests : Accepts(from, r) /\ OnlyDeclared(old, r) => Accepts(to, r)

(* For such schemas an exported document can be imported again, compares   *)
(* as equal and accepts the same requests.                                 *)
ExportRoundTrips ==
  compared # <<>> =>
  LET doc == compared[1] version == compared[3] again == ExportDocument(version)
  IN  FlatDocument(doc) /\ AgreeingDocument(doc) =>
        /\ Parses(again) /\ \A v \in Parse(again) : CompareContractVersions(version, v) = {}
        /\ \A r \in ClientRequests : Accepts(doc, r) <=> Accepts(again, r)

(* Comparing and exporting keep what the documents mean.                   *)
VersionsKeepMeaning == QuietMeansCompatible /\ ExportRoundTrips
=============================================================================
