-------------------------- MODULE GraphQLDocument --------------------------
(***************************************************************************)
(* What GraphQL inspection (graphql_api8.go) makes of a parsed document:   *)
(* one walk over selections, fragments followed by name, collects fields,  *)
(* depth and complexity; a policy and an imported contract judge these.    *)
(* A client can write one selection in many ways - through fragments,      *)
(* inline fragments, repetition - and must not escape a policy by that.    *)
(*                                                                         *)
(* Field paths are sequences of names.  Aliases, arguments and directives  *)
(* are dropped by the parser; operation types other than query, and        *)
(* introspection, are left out.                                            *)
(***************************************************************************)
EXTENDS Naturals, Sequences, SequencesExt, FiniteSets

CONSTANTS Documents,            \* [body, fragments]: parsed documents
          DocumentPolicies,     \* [depth, complexity, allowed, denied, contract]
          AbsoluteDepth, AbsoluteComplexity, MaxFields

VARIABLE document               \* [body, fragments, policy]

(* What selection() returns.                                               *)
Field(n, kids) == [is |-> "field", name |-> n, kids |-> kids]
Inline(kids) == [is |-> "inline", kids |-> kids]
Spread(n) == [is |-> "spread", name |-> n]

Failed == [ok |-> FALSE, fields |-> {}, complexity |-> 0, depth |-> 0]
Empty == [Failed EXCEPT !.ok = TRUE]
Plus(a, b) ==
  IF a.ok /\ b.ok
  THEN [ok |-> TRUE, fields |-> a.fields \cup b.fields, complexity |-> a.complexity + b.complexity,
        depth |-> IF a.depth > b.depth THEN a.depth ELSE b.depth]
  ELSE Failed

(* Mutated form: a fragment counts as a level of its own.                  *)
OneDeeper(depth) == depth + 1
(* Where the selections of a fragment are.                                 *)
SpreadDepth(depth) == depth

RECURSIVE Walk(_, _, _, _, _)
Walk(sels, fragments, prefix, depth, stack) ==
  LET visit(s) ==
        CASE s.is = "spread" /\ (s.name \in stack \/ s.name \notin DOMAIN fragments) -> Failed
          [] s.is = "spread" -> Walk(fragments[s.name], fragments, prefix, SpreadDepth(depth), stack \cup {s.name})
          [] s.is = "inline" -> Walk(s.kids, fragments, prefix, depth, stack)
          [] OTHER -> LET path == Append(prefix, s.name)
                          here == [ok |-> TRUE, fields |-> {path}, complexity |-> 1, depth |-> depth]
                      IN  IF s.kids = <<>> THEN here ELSE Plus(here, Walk(s.kids, fragments, path, depth + 1, stack))
  IN  IF depth > AbsoluteDepth THEN Failed ELSE FoldLeft(LAMBDA a, s : Plus(a, visit(s)), Empty, sels)

(* selectionSet refuses a document with one set that is too wide, used or  *)
(* not.                                                                    *)
RECURSIVE Wide(_)
Wide(sels) == Len(sels) > MaxFields \/ \E i \in DOMAIN sels : sels[i].is # "spread" /\ Wide(sels[i].kids)
Narrow(d) == ~Wide(d.body) /\ \A f \in DOMAIN d.fragments : ~Wide(d.fragments[f])

Analyze(d) ==
  LET a == Walk(d.body, d.fragments, <<>>, 1, {})
  IN  IF ~Narrow(d) \/ a.complexity > AbsoluteComplexity \/ Cardinality(a.fields) > MaxFields THEN Failed ELSE a

(* A field the contract declares for the type that the path reaches; below *)
(* a type it does not describe, any.                                       *)
RECURSIVE SchemaAllows(_, _, _)
SchemaAllows(types, type, path) ==
  path = <<>> \/ type \notin DOMAIN types
  \/ (Head(path) \in DOMAIN types[type] /\ SchemaAllows(types, types[type][Head(path)], Tail(path)))

EvaluatePolicy(p, a) ==
  {v \in {"depth", "complexity", "schema", "allowed", "denied"} :
     CASE v = "depth" -> p.depth > 0 /\ a.depth > p.depth
       [] v = "complexity" -> p.complexity > 0 /\ a.complexity > p.complexity
       [] v = "schema" -> \E f \in a.fields : ~SchemaAllows(p.contract, "Query", f)
       [] v = "allowed" -> p.allowed # {} /\ ~(a.fields \subseteq p.allowed)
       [] OTHER -> p.denied \cap a.fields # {}}

(* "malformed" when the document has no analysis.                          *)
Verdict(d, p) == LET a == Analyze(d) IN IF a.ok THEN EvaluatePolicy(p, a) ELSE {"malformed"}

DocumentInit == \E d \in Documents, p \in DocumentPolicies :
                  document = [body |-> d.body, fragments |-> d.fragments, policy |-> p]

-----------------------------------------------------------------------------
(* The reference: what a server answers, with every fragment in place.     *)

(* The fragments a selection uses, by name, at any remove.                 *)
RECURSIVE Named(_)
Named(sels) == UNION {IF sels[i].is = "spread" THEN {sels[i].name} ELSE Named(sels[i].kids) : i \in DOMAIN sels}

RECURSIVE Uses(_, _, _)
Uses(names, fragments, n) ==
  IF n = 0 THEN names
  ELSE Uses(names \cup UNION {Named(fragments[f]) : f \in names \cap DOMAIN fragments}, fragments, n - 1)

WellFormed(d) ==
  LET n == Cardinality(DOMAIN d.fragments) + 1
      used == Uses(Named(d.body), d.fragments, n)
  IN  used \subseteq DOMAIN d.fragments /\ \A f \in used : f \notin Uses(Named(d.fragments[f]), d.fragments, n)

RECURSIVE InPlace(_, _)
InPlace(sels, fragments) ==
  FlattenSeq([i \in DOMAIN sels |->
    CASE sels[i].is = "spread" -> InPlace(fragments[sels[i].name], fragments)
      [] sels[i].is = "inline" -> InPlace(sels[i].kids, fragments)
      [] OTHER -> <<Field(sels[i].name, InPlace(sels[i].kids, fragments))>>])

RECURSIVE Paths(_)
Paths(tree) == FlattenSeq([i \in DOMAIN tree |->
                 <<<<tree[i].name>>>> \o [j \in DOMAIN Paths(tree[i].kids) |-> <<tree[i].name>> \o Paths(tree[i].kids)[j]]])

RECURSIVE Conforms(_, _, _)
Conforms(tree, types, type) ==
  type \in DOMAIN types =>
    \A i \in DOMAIN tree : tree[i].name \in DOMAIN types[type]
                           /\ Conforms(tree[i].kids, types, types[type][tree[i].name])

(* A document is judged by what it selects, however it is written: it is   *)
(* malformed if a fragment is missing or contains itself or what it        *)
(* selects is too deep, too much or has too many different fields, and     *)
(* otherwise violates exactly what the same document with every fragment   *)
(* in its place violates, field by field.  How it is written counts only   *)
(* where one of its selection sets alone is too wide.                      *)
JudgedByWhatItSelects ==
  LET p == document.policy  v == Verdict(document, p)
      tree == InPlace(document.body, document.fragments)
      paths == Paths(tree)
      tooDeep(n) == \E i \in DOMAIN paths : Len(paths[i]) > n
      selects(s) == {i \in DOMAIN paths : paths[i] \in s} # {}
      tooMany == Len(paths) > AbsoluteComplexity \/ Cardinality({paths[i] : i \in DOMAIN paths}) > MaxFields
  IN  IF ~Narrow(document) \/ ~WellFormed(document) THEN v = {"malformed"}
      ELSE IF tooDeep(AbsoluteDepth) \/ tooMany THEN v = {"malformed"}
      ELSE /\ "depth" \in v <=> p.depth > 0 /\ tooDeep(p.depth)
           /\ "complexity" \in v <=> p.complexity > 0 /\ Len(paths) > p.complexity
           /\ "schema" \in v <=> ~Conforms(tree, p.contract, "Query")
           /\ "denied" \in v <=> selects(p.denied)
           /\ "allowed" \in v <=> p.allowed # {} /\ \E i \in DOMAIN paths : paths[i] \notin p.allowed
           /\ "malformed" \notin v
=============================================================================
