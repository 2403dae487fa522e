--------------------------- MODULE MCDurableFiles ---------------------------
(* What is on disk: config.json with its draft, and the state files of the *)
(* learning stores.  The parts share no state, so a behaviour is about one *)
(* of them and the other stays as it starts.                               *)
EXTENDS MCControlPlane, StatePlanes

CONSTANTS r1, r2, o1

VARIABLE part   \* the files this behaviour is about

MCObserved == {r1, r2}
MCOperators == {o1}

DurableInit == /\ Init /\ PlanesInit /\ part \in {"config", "planes"}
               /\ part = "planes" => live.shared = go1

Planes(A) == part = "planes" /\ A /\ UNCHANGED <<part, vars>>
DurableNext == \/ part = "config" /\ Next /\ UNCHANGED <<part, planesVars>>
               \/ Planes(PlanesNext)

allVars == <<part, vars, planesVars>>

DurableSpec ==
  /\ DurableInit /\ [][DurableNext]_allVars
  /\ \A p \in Publishers \ {Autosave} : WF_allVars(Planes(Continues(p)))
  /\ SF_allVars(Planes(Continues(Autosave))) /\ WF_allVars(Planes(Autosaves))
=============================================================================
