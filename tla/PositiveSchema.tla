--------------------------- MODULE PositiveSchema ---------------------------
(***************************************************************************)
(* The deployment of schema profiles for one operation                     *)
(* (positive_schema_api4.go): profile versions, the mode of the deployed   *)
(* one (LEARN, DETECT, ENFORCE), a bounded stack of earlier deployments to *)
(* roll back to, exceptions, the runtime snapshot that requests are        *)
(* checked against, and the file a restart reads.  Every operation changes *)
(* memory under the lock, rebuilds the snapshot, and saves later, without  *)
(* a lock, so saves may finish out of order or fail.                       *)
(*                                                                         *)
(* A profile is a number, never used twice; its version is its place in    *)
(* profiles, and a restart from an older file uses a version again.        *)
(***************************************************************************)
EXTENDS Integers, Sequences, FiniteSets, SequencesExt

CONSTANTS Kinds,              \* violation types
          MaxHistory,         \* positiveSchemaMaxHistory
          MaxExceptions,      \* positiveSchemaMaxExceptions
          MaxProfiles, MaxSaves, MaxOps   \* bounds

ASSUME PositiveAssumption == MaxHistory \in Nat \ {0} /\ MaxExceptions \in Nat

VARIABLES
  born,       \* profiles ever made
  profiles,   \* version -> profile
  dep,        \* deployed version and mode
  history,    \* earlier deployments
  exceptions, \* seq of [version, kind, enabled]
  runtime,    \* what requests are checked against
  request,    \* the policy a request has loaded
  blocked,    \* history: profiles that rejected a request
  detected,   \* history: profiles that were deployed in DETECT
  saving,     \* snapshots being written
  file, ops

positiveVars == <<born, profiles, dep, history, exceptions, runtime, request,
                  blocked, detected, saving, file, ops>>

Modes == {"LEARN", "DETECT", "ENFORCE"}
NoDeployment == [version |-> 0, mode |-> "LEARN"]
NoPolicy == [profile |-> 0, version |-> 0, mode |-> "LEARN", exceptions |-> {}]
Stored == [profiles |-> profiles, dep |-> dep, history |-> history, exceptions |-> exceptions]
Nothing == [profiles |-> <<>>, dep |-> NoDeployment, history |-> <<>>, exceptions |-> <<>>]

PositiveInit ==
  /\ born = 0 /\ profiles = <<>> /\ dep = NoDeployment /\ history = <<>>
  /\ exceptions = <<>> /\ runtime = NoPolicy /\ request = NoPolicy
  /\ blocked = {} /\ detected = {} /\ saving = {} /\ file = Nothing /\ ops = 0

-----------------------------------------------------------------------------
(* rebuildRuntimeLocked.                                                   *)
Policy(ps, d, exs) ==
  IF d.version \notin DOMAIN ps THEN NoPolicy
  ELSE [profile |-> ps[d.version], version |-> d.version, mode |-> d.mode,
        exceptions |-> {[version |-> e.version, kind |-> e.kind] :
                          e \in {x \in ToSet(exs) : x.enabled}}]

(* pushPositiveHistory.                                                    *)
Pushed(h, d) == LET all == Append(h, d)
                IN IF Len(all) > MaxHistory THEN SubSeq(all, Len(all) - MaxHistory + 1, Len(all))
                   ELSE all
Earlier == IF dep = NoDeployment THEN history ELSE Pushed(history, dep)

Operation == ops < MaxOps /\ ops' = ops + 1

(* The end of an operation: the snapshot is rebuilt before the lock goes.  *)
Deploy(d) ==
  /\ dep' = d /\ runtime' = Policy(profiles', d, exceptions')
  /\ detected' = IF d.mode = "DETECT" THEN detected \cup {profiles'[d.version]} ELSE detected
  /\ UNCHANGED <<request, blocked, saving, file>>

(* promote: a new version, deployed if it is the first or asked for.       *)
PromoteProfile(activate) ==
  /\ Operation /\ born < MaxProfiles /\ born' = born + 1
  /\ profiles' = Append(profiles, born')
  /\ UNCHANGED exceptions
  /\ IF dep = NoDeployment \/ activate
       THEN /\ history' = Earlier
            /\ Deploy([version |-> Len(profiles'), mode |-> "LEARN"])
       ELSE UNCHANGED history /\ Deploy(dep)

(* Mutated form: a version activated in the mode of the one before.        *)
ModeKept(mode) == mode

(* validPositiveModeTransition, and ENFORCE only from DETECT.              *)
ModeStep(from, to) == \/ from = "LEARN" /\ to = "DETECT"
                      \/ from = "DETECT" /\ to \in {"LEARN", "ENFORCE"}
                      \/ from = "ENFORCE" /\ to \in {"DETECT", "LEARN"}
ModeOfActivated(mode) == "LEARN"

SetMode(mode) ==
  /\ Operation /\ dep # NoDeployment /\ ModeStep(dep.mode, mode)
  /\ history' = Pushed(history, dep)
  /\ UNCHANGED <<born, profiles, exceptions>>
  /\ Deploy([dep EXCEPT !.mode = mode])

(* The block status changes: a rollback point, in the same mode.           *)
SetBlockStatus ==
  /\ Operation /\ dep # NoDeployment /\ dep.mode # "ENFORCE"
  /\ history' = Pushed(history, dep)
  /\ UNCHANGED <<born, profiles, exceptions>> /\ Deploy(dep)

Activate(v) ==
  /\ Operation /\ history' = Earlier
  /\ UNCHANGED <<born, profiles, exceptions>>
  /\ Deploy([version |-> v, mode |-> ModeOfActivated(dep.mode)])

(* rollback takes the newest earlier deployment, mode and all; pushing the *)
(* restored state for its reason and dropping it again changes nothing, as *)
(* the stack is below its bound then.                                      *)
RollBack ==
  /\ Operation /\ history # <<>>
  /\ Last(history).version \in DOMAIN profiles
  /\ history' = Front(history)
  /\ UNCHANGED <<born, profiles, exceptions>> /\ Deploy(Last(history))

(* Versions an exception is for: one, or any (0).                          *)
AddException(v, k) ==
  /\ Operation /\ Len(exceptions) < MaxExceptions /\ dep # NoDeployment
  /\ exceptions' = Append(exceptions, [version |-> v, kind |-> k, enabled |-> TRUE])
  /\ UNCHANGED <<born, profiles, history>> /\ Deploy(dep)

SetExceptionEnabled(i) ==
  /\ Operation /\ exceptions' = [exceptions EXCEPT ![i].enabled = ~@]
  /\ UNCHANGED <<born, profiles, history>> /\ Deploy(dep)

-----------------------------------------------------------------------------
(* wrap: a request takes the policy of the moment it arrives, and is       *)
(* decided later.                                                          *)
LoadPolicy ==
  /\ request = NoPolicy /\ runtime # NoPolicy /\ request' = runtime
  /\ UNCHANGED <<born, profiles, dep, history, exceptions, runtime, blocked, detected,
                 saving, file, ops>>

(* applyPositiveExceptions, with those that have not expired.              *)
Exempt(p, live) == {k \in Kinds : \E e \in live : e.version \in {0, p.version} /\ e.kind = k}

Decide ==
  /\ request # NoPolicy /\ request' = NoPolicy
  /\ \E found \in SUBSET Kinds : \E live \in SUBSET request.exceptions :
       blocked' = IF request.mode = "ENFORCE" /\ ~(found \subseteq Exempt(request, live))
                    THEN blocked \cup {request.profile} ELSE blocked
  /\ UNCHANGED <<born, profiles, dep, history, exceptions, runtime, detected, saving, file, ops>>

-----------------------------------------------------------------------------
(* save copies the state under the lock and writes it later, or fails.     *)
SaveBegins ==
  /\ Cardinality(saving) < MaxSaves /\ Stored \notin saving
  /\ saving' = saving \cup {Stored}
  /\ UNCHANGED <<born, profiles, dep, history, exceptions, runtime, request, blocked,
                 detected, file, ops>>

SaveEnds ==
  /\ \E s \in saving : saving' = saving \ {s} /\ file' \in {s, file}
  /\ UNCHANGED <<born, profiles, dep, history, exceptions, runtime, request, blocked,
                 detected, ops>>

(* A crash, and load.                                                      *)
Reload ==
  /\ Operation /\ file # Nothing
  /\ profiles' = file.profiles /\ history' = file.history /\ exceptions' = file.exceptions
  /\ dep' = file.dep /\ runtime' = Policy(file.profiles, file.dep, file.exceptions)
  /\ request' = NoPolicy /\ saving' = {}
  /\ UNCHANGED <<born, blocked, detected, file>>

(* The admin handlers: what each takes from its request.                   *)
HandlePromote == \E a \in BOOLEAN : PromoteProfile(a)
HandleMode == SetBlockStatus \/ \E m \in Modes : SetMode(m)
HandleActivate == \E v \in DOMAIN profiles : Activate(v)
HandleExceptionCreate == \E v \in DOMAIN profiles \cup {0}, k \in Kinds : AddException(v, k)
HandleExceptionToggle == \E i \in DOMAIN exceptions : SetExceptionEnabled(i)

PositiveNext ==
  \/ HandlePromote \/ HandleMode \/ HandleActivate \/ RollBack
  \/ HandleExceptionCreate \/ HandleExceptionToggle
  \/ LoadPolicy \/ Decide \/ SaveBegins \/ SaveEnds \/ Reload

PositiveSpec == PositiveInit /\ [][PositiveNext]_positiveVars
-----------------------------------------------------------------------------
(* Properties.                                                             *)

(* A profile rejects requests only after it was deployed in DETECT: the    *)
(* mode is not inherited by a version activated later, and neither a       *)
(* rollback through a history that was cut at its bound nor a restart from *)
(* a file that was overwritten by an older snapshot puts a profile into    *)
(* ENFORCE that was never observed.                                        *)
EnforceAfterDetect ==
  /\ blocked \subseteq detected
  /\ \A p \in {runtime, request} : p.mode = "ENFORCE" => p.profile \in detected

(* Why: wherever a deployment can come from - memory, its history, a save, *)
(* the file -, one beyond LEARN names a profile that has been in DETECT;   *)
(* versions are only appended to a store that refers to them.              *)
Deployment == [version : Nat, mode : Modes]

WasObserved(ps, d, seen) ==
  d = NoDeployment \/ (d.version \in DOMAIN ps /\ (d.mode # "LEARN" => ps[d.version] \in seen))

StoreSound(ps, d, h, seen) ==
  /\ ps \in Seq(Nat) /\ d \in Deployment /\ h \in Seq(Deployment)
  /\ WasObserved(ps, d, seen) /\ \A i \in DOMAIN h : WasObserved(ps, h[i], seen)

(* The inductive invariant.                                                *)
PositiveInv ==
  /\ born \in Nat /\ ops \in Nat
  /\ StoreSound(profiles, dep, history, detected) /\ StoreSound(file.profiles, file.dep, file.history, detected)
  /\ \A s \in saving : StoreSound(s.profiles, s.dep, s.history, detected)
  /\ EnforceAfterDetect
=============================================================================
