---------------------------- MODULE SchemaReview ----------------------------
(***************************************************************************)
(* From observed requests to an approved schema (schema_api2.go,           *)
(* api_security_handlers.go, the promotion in positive_schema_api4.go).    *)
(* Requests of one operation are folded into an aggregate; after each of   *)
(* them the candidate is rebuilt, and its version grows when its meaning   *)
(* changes.  Operators approve a candidate or return it, an AI connector   *)
(* comments on a copy it was given some time before, and an approved       *)
(* candidate is promoted to a profile.  Each handler reads the candidate   *)
(* under the lock and acts later.                                          *)
(*                                                                         *)
(* A field's type stands for all that its samples show of it (type,        *)
(* format, enumerated value).                                              *)
(***************************************************************************)
EXTENDS Integers, FiniteSets, FiniteSetsExt

CONSTANTS Fields, Types,      \* Types: numbers, in the order of their names
          MinSamples,         \* schemaCandidateMinSamples
          MaxFields,          \* schemaMaxFields
          Handlers,           \* admin requests at work
          MaxRequests, MaxEdits   \* bounds

ASSUME SchemaAssumption == /\ Types \subseteq Nat /\ IsFiniteSet(Types)
                           /\ MinSamples \in Nat \ {0} /\ MaxFields \in Nat \ {0}

VARIABLES
  agg,        \* requests folded, and field -> type -> samples
  cand,       \* the candidate
  ignored,    \* the operation is ignored
  handler,    \* what each admin request has read
  promoted,   \* contents that were promoted
  approved,   \* history: contents an operator's approval was stored for
  edits

schemaVars == <<agg, cand, ignored, handler, promoted, approved, edits>>

NoReview == [by |-> "nobody", verdict |-> "none", version |-> 0]
NoCandidate == [status |-> "NONE", version |-> 0, review |-> NoReview]
Idle(h) == handler[h].kind = "idle"
AtRest == [kind |-> "idle"]

SchemaInit ==
  /\ agg = [n |-> 0, counts |-> [f \in {} |-> [t \in Types |-> 0]]]
  /\ cand = NoCandidate /\ ignored = FALSE
  /\ handler = [h \in Handlers |-> AtRest]
  /\ promoted = {} /\ approved = {} /\ edits = 0

-----------------------------------------------------------------------------
(* What the samples of one request look like: some fields, each of a type. *)
Samples == UNION {[S -> Types] : S \in SUBSET Fields}

(* The aggregate with one more request; new fields only while there is     *)
(* room.                                                                   *)
Folds(s) ==
  LET known == DOMAIN agg.counts
      fresh == DOMAIN s \ known
      room == MaxFields - Cardinality(known)
      fits == IF Cardinality(fresh) <= room THEN {fresh} ELSE kSubset(room, fresh)
      Count(f, t) == (IF f \in known THEN agg.counts[f][t] ELSE 0)
                     + (IF f \in DOMAIN s /\ s[f] = t THEN 1 ELSE 0)
  IN {[n |-> agg.n + 1,
       counts |-> [f \in known \cup new |-> [t \in Types |-> Count(f, t)]]] : new \in fits}

(* buildCandidateFromAggregate: what a field of the candidate says.        *)
Eligible(a) == a.n >= MinSamples
Seen(a, f) == MapThenSumSet(LAMBDA t : a.counts[f][t], Types)
Main(a, f) == CHOOSE t \in Types :
                \A u \in Types : \/ a.counts[f][u] < a.counts[f][t]
                                 \/ a.counts[f][u] = a.counts[f][t] /\ t <= u
FieldOf(a, f) == [types |-> {t \in Types : a.counts[f][t] > 0}, main |-> Main(a, f),
                  required |-> Eligible(a) /\ 1000 * Seen(a, f) >= 995 * a.n]
Content(a) == [f \in DOMAIN a.counts |-> FieldOf(a, f)]

(* Mutated form: a change of what is required goes unnoticed.              *)
SameTypes(a, b) ==
  /\ DOMAIN a.counts = DOMAIN b.counts
  /\ \A f \in DOMAIN a.counts : FieldOf(a, f).types = FieldOf(b, f).types

(* schemaCandidateSemanticallyEqual.                                       *)
SameMeaning(a, b) == Content(a) = Content(b)

(* The candidate after the aggregate became a.                             *)
Rebuilt(a) ==
  LET status == IF Eligible(a) THEN "CANDIDATE" ELSE "LEARNING"
  IN IF cand = NoCandidate THEN [status |-> status, version |-> 1, review |-> NoReview]
     ELSE IF ~SameMeaning(agg, a) \/ (cand.status = "LEARNING" /\ Eligible(a))
            THEN [cand EXCEPT !.version = @ + 1, !.status = status]
     ELSE cand

(* note, for an operation that is not ignored.                             *)
Note ==
  /\ ~ignored /\ agg.n < MaxRequests
  /\ \E s \in Samples : \E a \in Folds(s) : agg' = a /\ cand' = Rebuilt(a)
  /\ UNCHANGED <<ignored, handler, promoted, approved, edits>>

-----------------------------------------------------------------------------
Edit == edits < MaxEdits /\ edits' = edits + 1

(* handleSchemaReview and handleSchemaAIReview read the candidate.         *)
ReadForReview(h, kind) ==
  /\ Idle(h) /\ cand # NoCandidate /\ Edit
  /\ kind # "ai" => cand.status # "LEARNING"
  /\ handler' = [handler EXCEPT ![h] = [kind |-> kind]]
  /\ UNCHANGED <<agg, cand, ignored, promoted, approved>>

Verdicts == [approve |-> "approved", return |-> "returned_to_candidate", ai |-> "approve"]

(* The status a review leaves: the connector is advisory.                  *)
StatusAfter(kind, status) ==
  [approve |-> "REVIEWED", return |-> "CANDIDATE", ai |-> status][kind]

(* setReview stamps the version the candidate has now.                     *)
SetReview(h) ==
  /\ handler[h].kind \in {"approve", "return", "ai"}
  /\ LET k == handler[h].kind
     IN /\ cand' = [cand EXCEPT
             !.status = StatusAfter(k, @),
             !.review = [by |-> IF k = "ai" THEN "openai" ELSE "operator",
                         verdict |-> Verdicts[k], version |-> cand.version]]
        /\ approved' = IF k = "approve" THEN approved \cup {Content(agg)} ELSE approved
  /\ handler' = [handler EXCEPT ![h] = AtRest]
  /\ UNCHANGED <<agg, ignored, promoted, edits>>

(* The connector fails, or its answer is not usable.                       *)
ReviewFails(h) ==
  /\ handler[h].kind = "ai" /\ handler' = [handler EXCEPT ![h] = AtRest]
  /\ UNCHANGED <<agg, cand, ignored, promoted, approved, edits>>

(* handlePositiveSchemaPromote copies the candidate and the operation, and *)
(* reads the request before it promotes the copy.                          *)
ReadForPromotion(h) ==
  /\ Idle(h) /\ cand # NoCandidate /\ Edit
  /\ handler' = [handler EXCEPT ![h] =
       [kind |-> "promote", cand |-> cand, content |-> Content(agg), ignored |-> ignored]]
  /\ UNCHANGED <<agg, cand, ignored, promoted, approved>>

ApprovedNow(c) == /\ c.status = "REVIEWED" /\ c.review.by = "operator"
                  /\ c.review.verdict = "approved" /\ c.review.version = c.version

Promote(h) ==
  /\ handler[h].kind = "promote"
  /\ LET copy == handler[h]
     IN promoted' = IF ApprovedNow(copy.cand) /\ ~copy.ignored /\ DOMAIN copy.content # {}
                      THEN promoted \cup {copy.content} ELSE promoted
  /\ handler' = [handler EXCEPT ![h] = AtRest]
  /\ UNCHANGED <<agg, cand, ignored, approved, edits>>

(* handleAPIOperationIgnore.                                               *)
Ignore == /\ Edit /\ ignored' = ~ignored
          /\ UNCHANGED <<agg, cand, handler, promoted, approved>>

SchemaNext ==
  \/ Note \/ Ignore
  \/ \E h \in Handlers : \/ \E k \in {"approve", "return", "ai"} : ReadForReview(h, k)
                         \/ SetReview(h) \/ ReviewFails(h)
                         \/ ReadForPromotion(h) \/ Promote(h)

SchemaSpec == SchemaInit /\ [][SchemaNext]_schemaVars
-----------------------------------------------------------------------------
(* Properties.                                                             *)

(* Whatever requests, reviews, connector answers and promotions interleave *)
(* between a handler's read and its act, a profile only ever has a content *)
(* for which an operator's approval was stored, and the schema of a        *)
(* candidate that counts as approved is that content still.                *)
ProfilesAreApproved ==
  /\ promoted \subseteq approved
  /\ ApprovedNow(cand) => Content(agg) \in approved

(* Why: a review stamps the version it sees, and the version grows with    *)
(* every change of the meaning; a copy is judged with its own stamp.       *)
ReviewInv ==
  /\ cand.version \in Nat /\ cand.review.version \in Nat /\ cand.review.version <= cand.version
  /\ DOMAIN cand = {"status", "version", "review"}
  /\ DOMAIN handler = Handlers
  /\ \A h \in Handlers : handler[h].kind = "promote" =>
       (ApprovedNow(handler[h].cand) => handler[h].content \in approved)

(* The inductive invariant.                                                *)
SchemaInv == ReviewInv /\ ProfilesAreApproved
=============================================================================
