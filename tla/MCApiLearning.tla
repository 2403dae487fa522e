--------------------------- MODULE MCApiLearning ---------------------------
(* The stores that learn an API from its traffic.  They share no state, so *)
(* a behaviour is about one of them and the others stay as they start.     *)
EXTENDS SchemaReview, PositiveSchema, SequenceLearning, ObjectAuthorization, TLC

CONSTANTS f1, f2, u1, u2, k1, s1, s2, w1, w2, op1, op2

VARIABLE store   \* the store this behaviour is about

MCFields == {f1, f2}
MCHandlers == {u1, u2}
MCKinds == {k1}
MCKeys == {s1, s2}
MCWorkflows == {w1, w2}
MCOps == {op1, op2}
MCIdentities == {u1, u2}
MCTenantOf == (u1 :> "t1") @@ (u2 :> "t2")
MCScopes == {[loc |-> "any", kind |-> "any", min |-> "MEDIUM"],
             [loc |-> "any", kind |-> "identity", min |-> "MEDIUM"]}

ApiInit == /\ SchemaInit /\ PositiveInit /\ SequenceInit /\ ObjectsInit
           /\ store \in {"schema", "positive", "sequence", "objects"}

ApiNext ==
  /\ UNCHANGED store
  /\ \/ store = "schema" /\ SchemaNext /\ UNCHANGED <<positiveVars, seqVars, objectVars>>
     \/ store = "positive" /\ PositiveNext /\ UNCHANGED <<schemaVars, seqVars, objectVars>>
     \/ store = "sequence" /\ SequenceNext /\ UNCHANGED <<schemaVars, positiveVars, objectVars>>
     \/ store = "objects" /\ ObjectsNext /\ UNCHANGED <<schemaVars, positiveVars, seqVars>>

ApiSpec == ApiInit /\ [][ApiNext]_<<store, schemaVars, positiveVars, seqVars, objectVars>>
=============================================================================
