----------------------------- MODULE SchemaProofs -----------------------------
(* Proofs about what is learned from the traffic of an API, for any bounds *)
(* and times: a schema's way from observed requests to rejected ones (the  *)
(* review of candidates, the deployment of profiles), how clients walk     *)
(* from operation to operation, and the evidence of broken object          *)
(* authorization.                                                          *)
EXTENDS SchemaReview, PositiveSchema, SequenceLearning, ObjectAuthorization,
        FiniteSetTheorems, WellFoundedInduction, TLAPS

(* The candidate's invariant at the start.                                 *)
LEMMA SchemaStart ==
  ASSUME SchemaInit
  PROVE  SchemaInv
  BY DEF SchemaInit, SchemaInv, ReviewInv, ProfilesAreApproved, ApprovedNow, NoCandidate, NoReview, AtRest

(* A request changes what is approved only with the version.               *)
LEMMA NoteStep ==
  ASSUME SchemaInv, Note
  PROVE  SchemaInv'
<1>1. PICK a : agg' = a /\ cand' = Rebuilt(a)
  BY DEF Note
<1>2. UNCHANGED <<ignored, handler, promoted, approved, edits>>
  BY DEF Note
<1>3. \/ cand' = cand /\ Content(agg') = Content(agg)
      \/ cand'.review = NoReview /\ cand'.version = 1 /\ DOMAIN cand' = DOMAIN cand
      \/ cand'.review = cand.review /\ cand'.version = cand.version + 1 /\ DOMAIN cand' = DOMAIN cand
  <2> DEFINE st == IF Eligible(a) THEN "CANDIDATE" ELSE "LEARNING"
  <2>1. CASE cand = NoCandidate
    <3>1. cand' = [status |-> st, version |-> 1, review |-> NoReview]
      BY <1>1, <2>1 DEF Rebuilt
    <3> QED BY <3>1 DEF SchemaInv, ReviewInv
  <2>2. CASE cand # NoCandidate /\ (~SameMeaning(agg, a) \/ (cand.status = "LEARNING" /\ Eligible(a)))
    <3>1. cand' = [cand EXCEPT !.version = @ + 1, !.status = st]
      BY <1>1, <2>2 DEF Rebuilt
    <3> QED BY <3>1 DEF SchemaInv, ReviewInv
  <2>3. CASE cand # NoCandidate /\ ~(~SameMeaning(agg, a) \/ (cand.status = "LEARNING" /\ Eligible(a)))
    BY <1>1, <2>3 DEF Rebuilt, SameMeaning
  <2> QED BY <2>1, <2>2, <2>3
<1>4. ReviewInv'
  BY <1>2, <1>3 DEF SchemaInv, ReviewInv, NoReview
<1>5. ApprovedNow(cand)' => Content(agg)' \in approved'
  <2>1. CASE cand' = cand /\ Content(agg') = Content(agg)
    BY <1>2, <2>1 DEF SchemaInv, ProfilesAreApproved, ApprovedNow
  <2>2. CASE cand'.review = NoReview
    BY <2>2 DEF ApprovedNow, NoReview
  <2>3. CASE cand'.review = cand.review /\ cand'.version = cand.version + 1
    BY <2>3 DEF SchemaInv, ReviewInv, ApprovedNow
  <2> QED BY <1>3, <2>1, <2>2, <2>3
<1> QED BY <1>2, <1>4, <1>5 DEF SchemaInv, ProfilesAreApproved

(* A review is stored: an operator's approval for the meaning of now.      *)
LEMMA ReviewStep ==
  ASSUME SchemaInv, NEW h \in Handlers, SetReview(h)
  PROVE  SchemaInv'
<1> DEFINE k == handler[h].kind
<1>1. /\ k \in {"approve", "return", "ai"} /\ handler' = [handler EXCEPT ![h] = AtRest]
      /\ cand' = [cand EXCEPT !.status = StatusAfter(k, @),
                    !.review = [by |-> IF k = "ai" THEN "openai" ELSE "operator",
                                verdict |-> Verdicts[k], version |-> cand.version]]
      /\ approved' = IF k = "approve" THEN approved \cup {Content(agg)} ELSE approved
      /\ UNCHANGED <<agg, ignored, promoted, edits>>
  BY DEF SetReview
<1> HIDE DEF k
<1>2. /\ cand'.version = cand.version /\ cand'.review.version = cand.version
      /\ DOMAIN cand' = DOMAIN cand /\ approved \subseteq approved'
      /\ cand'.review.by = (IF k = "ai" THEN "openai" ELSE "operator") /\ cand'.review.verdict = Verdicts[k]
  BY <1>1 DEF SchemaInv, ReviewInv
<1>3. ReviewInv'
  <2>1. DOMAIN handler' = Handlers /\ \A g \in Handlers : handler'[g].kind = "promote" => handler'[g] = handler[g]
    BY <1>1 DEF SchemaInv, ReviewInv, AtRest
  <2> QED BY <1>2, <2>1 DEF SchemaInv, ReviewInv, ApprovedNow
<1>4. ApprovedNow(cand)' => Content(agg)' \in approved'
  <2>1. CASE k = "approve"
    BY <1>1, <2>1
  <2>2. CASE k = "return"
    BY <1>2, <2>2 DEF ApprovedNow, Verdicts
  <2>3. CASE k = "ai"
    BY <1>2, <2>3 DEF ApprovedNow
  <2> QED BY <1>1, <2>1, <2>2, <2>3
<1> QED BY <1>1, <1>2, <1>3, <1>4 DEF SchemaInv, ProfilesAreApproved

(* A handler that reads takes what is approved now; the candidate stays.   *)
LEMMA ReadSteps ==
  ASSUME SchemaInv, NEW h \in Handlers, NEW r, handler' = [handler EXCEPT ![h] = r],
         UNCHANGED <<agg, cand, approved>>, promoted' \subseteq approved,
         r.kind = "promote" => (ApprovedNow(r.cand) => r.content \in approved)
  PROVE  SchemaInv'
<1>1. ReviewInv'
  <2>1. DOMAIN handler' = Handlers /\ \A g \in Handlers : handler'[g] = IF g = h THEN r ELSE handler[g]
    BY DEF SchemaInv, ReviewInv
  <2>2. ASSUME NEW g \in Handlers, handler'[g].kind = "promote", ApprovedNow(handler'[g].cand)
        PROVE  handler'[g].content \in approved
    <3>1. CASE g = h
      BY <2>1, <2>2, <3>1
    <3>2. CASE g # h
      BY <2>1, <2>2, <3>2 DEF SchemaInv, ReviewInv
    <3> QED BY <3>1, <3>2
  <2> QED BY <2>1, <2>2 DEF SchemaInv, ReviewInv
<1>2. ProfilesAreApproved'
  BY DEF SchemaInv, ProfilesAreApproved, ApprovedNow
<1> QED BY <1>1, <1>2 DEF SchemaInv

(* Promotions and the reads before reviews and promotions.                 *)
LEMMA HandlerSteps ==
  ASSUME SchemaInv, NEW h \in Handlers,
         (\E k \in {"approve", "return", "ai"} : ReadForReview(h, k)) \/ ReviewFails(h)
           \/ ReadForPromotion(h) \/ Promote(h)
  PROVE  SchemaInv'
<1>0. promoted \subseteq approved /\ AtRest.kind = "idle"
  BY DEF SchemaInv, ProfilesAreApproved, AtRest
<1>1. ASSUME NEW k \in {"approve", "return", "ai"}, ReadForReview(h, k) PROVE SchemaInv'
  <2>1. /\ handler' = [handler EXCEPT ![h] = [kind |-> k]] /\ UNCHANGED <<agg, cand, approved, promoted>>
        /\ [kind |-> k].kind # "promote"
    BY <1>1 DEF ReadForReview
  <2> QED BY <1>0, <2>1, ReadSteps
<1>2. CASE ReviewFails(h)
  <2>1. handler' = [handler EXCEPT ![h] = AtRest] /\ UNCHANGED <<agg, cand, approved, promoted>>
    BY <1>2 DEF ReviewFails
  <2> QED BY <1>0, <2>1, ReadSteps
<1>3. CASE ReadForPromotion(h)
  <2> DEFINE r == [kind |-> "promote", cand |-> cand, content |-> Content(agg), ignored |-> ignored]
  <2>1. handler' = [handler EXCEPT ![h] = r] /\ UNCHANGED <<agg, cand, approved, promoted>>
    BY <1>3 DEF ReadForPromotion
  <2>2. ApprovedNow(r.cand) => r.content \in approved
    BY DEF SchemaInv, ProfilesAreApproved
  <2> HIDE DEF r
  <2> QED BY <1>0, <2>1, <2>2, ReadSteps
<1>4. CASE Promote(h)
  <2>1. /\ handler' = [handler EXCEPT ![h] = AtRest] /\ UNCHANGED <<agg, cand, approved>>
        /\ promoted' = promoted \/ (promoted' = promoted \cup {handler[h].content} /\ ApprovedNow(handler[h].cand))
        /\ handler[h].kind = "promote"
    BY <1>4 DEF Promote
  <2>2. promoted' \subseteq approved
    BY <1>0, <2>1 DEF SchemaInv, ReviewInv
  <2> QED BY <1>0, <2>1, <2>2, ReadSteps
<1> QED BY <1>1, <1>2, <1>3, <1>4

(* A profile only ever has a content for which an operator's approval was  *)
(* stored, for any requests, fields, samples and handlers: reads that are  *)
(* acted on later, connector answers and rebuilt candidates included.      *)
THEOREM PromotedIsApproved == SchemaSpec => []ProfilesAreApproved
<1>1. SchemaInit => SchemaInv
  BY SchemaStart
<1>2. ASSUME SchemaInv, [SchemaNext]_schemaVars PROVE SchemaInv'
  <2>1. CASE Ignore
    <3>1. UNCHANGED <<agg, cand, handler, promoted, approved>>
      BY <2>1 DEF Ignore
    <3> QED BY <1>2, <3>1 DEF SchemaInv, ReviewInv, ProfilesAreApproved, ApprovedNow
  <2>2. CASE UNCHANGED schemaVars
    BY <1>2, <2>2 DEF schemaVars, SchemaInv, ReviewInv, ProfilesAreApproved, ApprovedNow
  <2> QED BY <1>2, <2>1, <2>2, NoteStep, ReviewStep, HandlerSteps DEF SchemaNext
<1>3. SchemaInv => ProfilesAreApproved
  BY DEF SchemaInv
<1> QED BY <1>1, <1>2, <1>3, PTL DEF SchemaSpec

-----------------------------------------------------------------------------
(* pushPositiveHistory keeps what it was given, if anything.               *)
LEMMA PushedShape ==
  ASSUME NEW S, NEW h \in Seq(S), NEW d \in S
  PROVE  /\ Pushed(h, d) \in Seq(S)
         /\ \A i \in DOMAIN Pushed(h, d) : Pushed(h, d)[i] = d \/ \E j \in DOMAIN h : Pushed(h, d)[i] = h[j]
<1> DEFINE all == Append(h, d)
           m == Len(all) - MaxHistory + 1
<1>1. all \in Seq(S) /\ Len(all) = Len(h) + 1 /\ Len(h) \in Nat
  OBVIOUS
<1>2. \A i \in DOMAIN all : all[i] = d \/ \E j \in DOMAIN h : all[i] = h[j]
  OBVIOUS
<1>3. CASE Len(all) > MaxHistory
  <2>1. Pushed(h, d) = SubSeq(all, m, Len(all))
    BY <1>3 DEF Pushed
  <2>2. m \in 1..Len(all) + 1
    BY <1>1, <1>3, PositiveAssumption
  <2> HIDE DEF all, m
  <2>3. /\ SubSeq(all, m, Len(all)) \in Seq(S)
        /\ \A i \in DOMAIN SubSeq(all, m, Len(all)) : \E j \in DOMAIN all : SubSeq(all, m, Len(all))[i] = all[j]
    BY <1>1, <2>2
  <2> QED BY <1>2, <2>1, <2>3
<1>4. CASE ~(Len(all) > MaxHistory)
  BY <1>1, <1>2, <1>4 DEF Pushed
<1> QED BY <1>3, <1>4

(* A store stays sound when profiles are appended to it and others are     *)
(* observed.                                                               *)
LEMMA ObservedStays ==
  ASSUME NEW ps \in Seq(Nat), NEW more \in Seq(Nat), NEW d, NEW seen, NEW later, WasObserved(ps, d, seen),
         seen \subseteq later, Len(ps) <= Len(more), \A i \in DOMAIN ps : more[i] = ps[i]
  PROVE  WasObserved(more, d, later)
  BY DEF WasObserved

(* ... and when only more of them are observed.                            *)
LEMMA SoundStays ==
  ASSUME NEW ps, NEW d, NEW h, NEW seen, NEW later, StoreSound(ps, d, h, seen), seen \subseteq later
  PROVE  StoreSound(ps, d, h, later)
  BY DEF StoreSound, WasObserved

(* A deployment: what it adds to the store is sound, and so is what        *)
(* requests meet.                                                          *)
LEMMA DeployStep ==
  ASSUME PositiveInv, NEW d, Deploy(d), Operation, born' \in Nat,
         profiles' \in Seq(Nat), history' \in Seq(Deployment), d \in Deployment,
         d = NoDeployment \/ d.version \in DOMAIN profiles',
         d.mode = "ENFORCE" => profiles'[d.version] \in detected,
         \A i \in DOMAIN history' : WasObserved(profiles', history'[i], detected)
  PROVE  PositiveInv'
<1>1. /\ dep' = d /\ runtime' = Policy(profiles', d, exceptions')
      /\ UNCHANGED <<request, blocked, saving, file>>
      /\ detected \subseteq detected'
      /\ d.mode = "DETECT" => profiles'[d.version] \in detected'
  BY DEF Deploy
<1>2. NoDeployment.mode = "LEARN" /\ d.mode \in Modes
  BY DEF NoDeployment, Deployment
<1>3. WasObserved(profiles', d, detected')
  BY <1>1, <1>2 DEF WasObserved, Modes
<1>4. StoreSound(profiles', dep', history', detected')
  <2>1. \A i \in DOMAIN history' : WasObserved(profiles', history'[i], detected')
    BY <1>1 DEF WasObserved
  <2> QED BY <1>1, <1>3, <2>1 DEF StoreSound
<1>5. /\ StoreSound(file'.profiles, file'.dep, file'.history, detected')
      /\ \A s \in saving' : StoreSound(s.profiles, s.dep, s.history, detected')
  BY <1>1, SoundStays DEF PositiveInv
<1>6. runtime'.mode = "ENFORCE" => runtime'.profile \in detected'
  <2>1. CASE d.version \notin DOMAIN profiles'
    BY <1>1, <2>1 DEF Policy, NoPolicy
  <2>2. CASE d.version \in DOMAIN profiles'
    <3>1. runtime'.mode = d.mode /\ runtime'.profile = profiles'[d.version]
      BY <1>1, <2>2 DEF Policy
    <3> QED BY <1>1, <3>1
  <2> QED BY <2>1, <2>2
<1>7. EnforceAfterDetect'
  BY <1>1, <1>6 DEF PositiveInv, EnforceAfterDetect
<1>8. ops' \in Nat
  BY DEF Operation, PositiveInv
<1> QED BY <1>4, <1>5, <1>7, <1>8 DEF PositiveInv

(* Operations that leave the profiles alone.                               *)
LEMMA SameProfiles ==
  ASSUME PositiveInv, NEW d, Deploy(d), Operation, UNCHANGED <<born, profiles>>, d \in Deployment,
         d = NoDeployment \/ d.version \in DOMAIN profiles,
         d.mode = "ENFORCE" => profiles[d.version] \in detected,
         history' \in Seq(Deployment),
         \A i \in DOMAIN history' : WasObserved(profiles, history'[i], detected)
  PROVE  PositiveInv'
  BY DeployStep DEF PositiveInv, StoreSound

(* The history after a rollback point.                                     *)
LEMMA EarlierShape ==
  ASSUME PositiveInv, NEW h \in {history, Pushed(history, dep), Earlier}
  PROVE  h \in Seq(Deployment) /\ \A i \in DOMAIN h : WasObserved(profiles, h[i], detected)
<1>1. /\ history \in Seq(Deployment) /\ dep \in Deployment /\ WasObserved(profiles, dep, detected)
      /\ \A i \in DOMAIN history : WasObserved(profiles, history[i], detected)
  BY DEF PositiveInv, StoreSound
<1>2. h = history \/ h = Pushed(history, dep)
  BY DEF Earlier
<1>3. CASE h = Pushed(history, dep)
  <2>1. h \in Seq(Deployment) /\ \A i \in DOMAIN h : h[i] = dep \/ \E j \in DOMAIN history : h[i] = history[j]
    BY <1>1, <1>3, PushedShape
  <2> QED BY <1>1, <2>1
<1> QED BY <1>1, <1>2, <1>3

(* What is deployed can be deployed again.                                 *)
LEMMA DeployedAgain ==
  ASSUME PositiveInv
  PROVE  /\ profiles \in Seq(Nat) /\ dep \in Deployment
         /\ dep = NoDeployment \/ dep.version \in DOMAIN profiles
         /\ dep.mode \in {"DETECT", "ENFORCE"} => profiles[dep.version] \in detected
<1>1. NoDeployment.mode = "LEARN"
  BY DEF NoDeployment
<1> QED BY <1>1 DEF PositiveInv, StoreSound, WasObserved

-----------------------------------------------------------------------------
(* Operations of the store, one by one.                                    *)
LEMMA StoreSteps ==
  ASSUME PositiveInv, HandlePromote \/ HandleMode \/ HandleActivate \/ RollBack
                      \/ HandleExceptionCreate \/ HandleExceptionToggle
  PROVE  PositiveInv'
<1>0. Modes = {"LEARN", "DETECT", "ENFORCE"} /\ NoDeployment \in Deployment /\ NoDeployment.mode = "LEARN"
  BY DEF Modes, Deployment, NoDeployment
<1>1. ASSUME NEW a \in BOOLEAN, PromoteProfile(a) PROVE PositiveInv'
  <2>1. /\ Operation /\ born' \in Nat /\ profiles' = Append(profiles, born')
        /\ \/ history' = Earlier /\ Deploy([version |-> Len(profiles'), mode |-> "LEARN"])
           \/ history' = history /\ Deploy(dep)
    BY <1>1 DEF PromoteProfile, PositiveInv
  <2>2. /\ profiles' \in Seq(Nat) /\ Len(profiles') = Len(profiles) + 1 /\ Len(profiles) \in Nat
        /\ \A i \in DOMAIN profiles : i \in DOMAIN profiles' /\ profiles'[i] = profiles[i]
    BY <2>1, DeployedAgain
  <2>3. history' \in Seq(Deployment) /\ \A i \in DOMAIN history' : WasObserved(profiles, history'[i], detected)
    BY <2>1, EarlierShape
  <2>4. \A i \in DOMAIN history' : WasObserved(profiles', history'[i], detected)
    BY <2>2, <2>3, DeployedAgain, ObservedStays
  <2>5. CASE Deploy([version |-> Len(profiles'), mode |-> "LEARN"])
    <3>1. [version |-> Len(profiles'), mode |-> "LEARN"] \in Deployment /\ Len(profiles') \in DOMAIN profiles'
      BY <1>0, <2>2 DEF Deployment
    <3> QED BY <2>1, <2>2, <2>3, <2>4, <2>5, <3>1, DeployStep
  <2>6. CASE Deploy(dep)
    <3>1. /\ dep \in Deployment
          /\ dep = NoDeployment \/ dep.version \in DOMAIN profiles
          /\ dep.mode = "ENFORCE" => profiles[dep.version] \in detected
      BY DeployedAgain
    <3>2. dep = NoDeployment \/ dep.version \in DOMAIN profiles'
      BY <2>2, <3>1
    <3>3. dep.mode = "ENFORCE" => profiles'[dep.version] \in detected
      BY <1>0, <2>2, <3>1
    <3> QED BY <2>1, <2>2, <2>3, <2>4, <2>6, <3>1, <3>2, <3>3, DeployStep
  <2> QED BY <2>1, <2>5, <2>6
<1>2. CASE SetBlockStatus
  <2>1. /\ Deploy(dep) /\ Operation /\ UNCHANGED <<born, profiles>> /\ history' = Pushed(history, dep)
        /\ dep.mode # "ENFORCE"
    BY <1>2 DEF SetBlockStatus
  <2> QED BY <2>1, EarlierShape, DeployedAgain, SameProfiles
<1>3. ASSUME NEW m \in Modes, SetMode(m) PROVE PositiveInv'
  <2> DEFINE d == [dep EXCEPT !.mode = m]
  <2>1. /\ Deploy(d) /\ Operation /\ UNCHANGED <<born, profiles>> /\ history' = Pushed(history, dep)
        /\ dep # NoDeployment /\ ModeStep(dep.mode, m)
    BY <1>3 DEF SetMode
  <2>2. d \in Deployment /\ d.version = dep.version /\ d.mode = m
    BY DeployedAgain DEF Deployment
  <2>3. m = "ENFORCE" => dep.mode = "DETECT"
    BY <2>1 DEF ModeStep
  <2> HIDE DEF d
  <2> QED BY <2>1, <2>2, <2>3, EarlierShape, DeployedAgain, SameProfiles
<1>4. ASSUME NEW v \in DOMAIN profiles, Activate(v) PROVE PositiveInv'
  <2> DEFINE d == [version |-> v, mode |-> "LEARN"]
  <2>1. Deploy(d) /\ Operation /\ UNCHANGED <<born, profiles>> /\ history' = Earlier
    BY <1>4 DEF Activate, ModeOfActivated
  <2>2. d \in Deployment /\ d.version = v /\ d.mode = "LEARN"
    BY <1>0, DeployedAgain DEF Deployment
  <2> HIDE DEF d
  <2> QED BY <2>1, <2>2, EarlierShape, SameProfiles
<1>5. CASE RollBack
  <2> DEFINE d == Last(history)
  <2>1. /\ Deploy(d) /\ Operation /\ UNCHANGED <<born, profiles>> /\ history' = Front(history)
        /\ history # <<>> /\ d.version \in DOMAIN profiles
    BY <1>5 DEF RollBack
  <2>2. history \in Seq(Deployment) /\ \A i \in DOMAIN history : WasObserved(profiles, history[i], detected)
    BY DEF PositiveInv, StoreSound
  <2>3. Len(history) \in DOMAIN history /\ d = history[Len(history)]
    BY <2>1, <2>2 DEF Last
  <2>4. d \in Deployment /\ (d.mode = "ENFORCE" => profiles[d.version] \in detected)
    BY <1>0, <2>2, <2>3 DEF WasObserved
  <2>5. /\ history' \in Seq(Deployment)
        /\ \A i \in DOMAIN history' : i \in DOMAIN history /\ history'[i] = history[i]
    BY <2>1, <2>2 DEF Front
  <2> HIDE DEF d
  <2> QED BY <2>1, <2>2, <2>4, <2>5, SameProfiles
<1>6. CASE HandleExceptionCreate \/ HandleExceptionToggle
  <2>1. Deploy(dep) /\ Operation /\ UNCHANGED <<born, profiles>> /\ history' = history
    BY <1>6 DEF HandleExceptionCreate, HandleExceptionToggle, AddException, SetExceptionEnabled
  <2> QED BY <2>1, EarlierShape, DeployedAgain, SameProfiles
<1> QED BY <1>1, <1>2, <1>3, <1>4, <1>5, <1>6 DEF HandlePromote, HandleMode, HandleActivate

(* Requests, saves, restarts and stuttering.                               *)
LEMMA OtherSteps ==
  ASSUME PositiveInv, LoadPolicy \/ Decide \/ SaveBegins \/ SaveEnds \/ Reload \/ UNCHANGED positiveVars
  PROVE  PositiveInv'
<1>0. NoPolicy.mode = "LEARN"
  BY DEF NoPolicy
<1>1. CASE LoadPolicy
  <2>1. request' = runtime /\ UNCHANGED <<born, profiles, dep, history, runtime, blocked, detected, saving, file, ops>>
    BY <1>1 DEF LoadPolicy
  <2> QED BY <2>1 DEF PositiveInv, EnforceAfterDetect
<1>2. CASE Decide
  <2>1. /\ request' = NoPolicy /\ UNCHANGED <<born, profiles, dep, history, runtime, detected, saving, file, ops>>
        /\ blocked' \subseteq blocked \cup {x \in {request.profile} : request.mode = "ENFORCE"}
    BY <1>2 DEF Decide
  <2> QED BY <1>0, <2>1 DEF PositiveInv, EnforceAfterDetect
<1>3. CASE SaveBegins
  <2>1. /\ saving' = saving \cup {Stored}
        /\ UNCHANGED <<born, profiles, dep, history, runtime, request, blocked, detected, file, ops>>
    BY <1>3 DEF SaveBegins
  <2>2. Stored.profiles = profiles /\ Stored.dep = dep /\ Stored.history = history
    BY DEF Stored
  <2> QED BY <2>1, <2>2 DEF PositiveInv, EnforceAfterDetect
<1>4. CASE SaveEnds
  <2>1. /\ saving' \subseteq saving /\ file' \in saving \cup {file}
        /\ UNCHANGED <<born, profiles, dep, history, runtime, request, blocked, detected, ops>>
    BY <1>4 DEF SaveEnds
  <2> QED BY <2>1 DEF PositiveInv, EnforceAfterDetect
<1>5. CASE Reload
  <2>1. /\ profiles' = file.profiles /\ history' = file.history /\ dep' = file.dep
        /\ runtime' = Policy(file.profiles, file.dep, file.exceptions)
        /\ request' = NoPolicy /\ saving' = {} /\ UNCHANGED <<born, blocked, detected, file>> /\ Operation
    BY <1>5 DEF Reload
  <2>2. runtime'.mode = "ENFORCE" => runtime'.profile \in detected
    <3>1. CASE file.dep.version \notin DOMAIN file.profiles
      BY <1>0, <2>1, <3>1 DEF Policy
    <3>2. CASE file.dep.version \in DOMAIN file.profiles
      <4>1. runtime'.mode = file.dep.mode /\ runtime'.profile = file.profiles[file.dep.version]
        BY <2>1, <3>2 DEF Policy
      <4>2. WasObserved(file.profiles, file.dep, detected) /\ NoDeployment.mode = "LEARN"
        BY DEF PositiveInv, StoreSound, NoDeployment
      <4> QED BY <4>1, <4>2 DEF WasObserved
    <3> QED BY <3>1, <3>2
  <2>3. ops' \in Nat
    BY <2>1 DEF Operation, PositiveInv
  <2> QED BY <1>0, <2>1, <2>2, <2>3 DEF PositiveInv, EnforceAfterDetect
<1>6. CASE UNCHANGED positiveVars
  BY <1>6 DEF positiveVars, PositiveInv, EnforceAfterDetect
<1> QED BY <1>1, <1>2, <1>3, <1>4, <1>5, <1>6

(* Every place a deployment can come from is sound.                        *)
THEOREM DeploymentsSound == PositiveSpec => []PositiveInv
<1>1. PositiveInit => PositiveInv
  <2> SUFFICES ASSUME PositiveInit PROVE PositiveInv
    OBVIOUS
  <2>1. /\ Nothing.profiles = <<>> /\ Nothing.dep = NoDeployment /\ Nothing.history = <<>>
        /\ NoDeployment \in Deployment /\ NoPolicy.mode = "LEARN"
    BY DEF Nothing, NoDeployment, Deployment, Modes, NoPolicy
  <2>2. StoreSound(<<>>, NoDeployment, <<>>, {})
    BY <2>1 DEF StoreSound, WasObserved
  <2> QED BY <2>1, <2>2 DEF PositiveInit, PositiveInv, EnforceAfterDetect
<1>2. PositiveInv /\ [PositiveNext]_positiveVars => PositiveInv'
  BY StoreSteps, OtherSteps DEF PositiveNext
<1> QED BY <1>1, <1>2, PTL DEF PositiveSpec

(* A profile rejects requests only after it was deployed in DETECT         *)
(* (setMode, activate, rollback, load).                                    *)
THEOREM DetectBeforeEnforce == PositiveSpec => []EnforceAfterDetect
<1>1. PositiveInv => EnforceAfterDetect
  BY DEF PositiveInv
<1> QED BY <1>1, DeploymentsSound, PTL

(***************************************************************************)
(* Sequence learning: for any keys, workflows, operations, limits and      *)
(* times, observations applied in any order.                               *)
(***************************************************************************)

(* What the tables of a model are.                                         *)
LEMMA TablesFacts ==
  ASSUME NEW m, NEW ss, NEW es, NEW ws
  PROVE  /\ Tables(m, ss, es, ws).sessions = ss /\ Tables(m, ss, es, ws).edges = es
         /\ Tables(m, ss, es, ws).workflows = ws
  BY DEF Tables

(* A passage counts on an edge and leaves the other tables alone.          *)
LEMMA PassedKeeps ==
  ASSUME NEW m, NEW e, NEW s, NEW t
  PROVE  Passed(m, e, s, t).sessions = m.sessions /\ Passed(m, e, s, t).workflows = m.workflows
<1>1. PICK es : Passed(m, e, s, t) = Tables(m, m.sessions, es, m.workflows)
  BY DEF Passed
<1> QED BY <1>1, TablesFacts

(* A table that is not empty has an oldest entry.                          *)
LEMMA OldestThere ==
  ASSUME NEW f, IsFiniteSet(DOMAIN f), DOMAIN f # {}, \A x \in DOMAIN f : f[x].last \in Int
  PROVE  Oldest(f) \in DOMAIN f /\ \A y \in DOMAIN f : f[Oldest(f)].last <= f[y].last
<1> DEFINE D == DOMAIN f
           Below(x) == {y \in D : f[y].last < f[x].last}
           T == {Below(x) : x \in D}
<1>1. T \subseteq FiniteSubsetsOf(D)
  BY FS_Subset DEF FiniteSubsetsOf
<1>2. T # {}
  OBVIOUS
<1>3. IsWellFoundedOn(StrictSubsetOrdering(D), FiniteSubsetsOf(D))
  BY FS_StrictSubsetOrderingWellFounded
<1>4. PICK b \in T : \A c \in T : ~(<<c, b>> \in StrictSubsetOrdering(D))
  <2> HIDE DEF T, D
  <2> QED BY <1>1, <1>2, <1>3, WFMin
<1>5. PICK x \in D : b = Below(x)
  OBVIOUS
<1>6. \A y \in D : f[x].last <= f[y].last
  <2> SUFFICES ASSUME NEW y \in D, f[y].last < f[x].last PROVE FALSE
    OBVIOUS
  <2>1. Below(y) \subseteq Below(x)
    OBVIOUS
  <2>2. y \in Below(x) /\ y \notin Below(y)
    OBVIOUS
  <2>3. Below(y) \in T /\ Below(y) \in SUBSET D /\ Below(x) \in SUBSET D
    OBVIOUS
  <2>4. <<Below(y), Below(x)>> \in StrictSubsetOrdering(D)
    <3> HIDE DEF Below, D, T
    <3> QED BY <2>1, <2>2, <2>3 DEF StrictSubsetOrdering
  <2> QED BY <1>4, <1>5, <2>3, <2>4
<1> QED BY <1>6 DEF Oldest

(* What is left of a bounded set is bounded, and what has room for one     *)
(* more can take it.                                                       *)
LEMMA RoomWithin ==
  ASSUME NEW A, NEW max \in Nat, Within(A, max), NEW B
  PROVE  /\ B \subseteq A => Within(B, max)
         /\ \A k : B \subseteq A \cup {k} /\ Cardinality(A) < max => Within(B, max)
<1>1. IsFiniteSet(A) /\ Cardinality(A) \in Nat /\ Cardinality(A) <= max
  BY FS_CardinalityType DEF Within
<1>2. ASSUME B \subseteq A PROVE Within(B, max)
  <2>1. IsFiniteSet(B) /\ Cardinality(B) <= Cardinality(A)
    BY <1>1, <1>2, FS_Subset
  <2> QED BY <1>1, <2>1, FS_CardinalityType DEF Within
<1>3. ASSUME NEW k, B \subseteq A \cup {k}, Cardinality(A) < max PROVE Within(B, max)
  <2>1. /\ IsFiniteSet(A \cup {k})
        /\ Cardinality(A \cup {k}) = IF k \in A THEN Cardinality(A) ELSE Cardinality(A) + 1
    BY <1>1, FS_AddElement
  <2>2. IsFiniteSet(B) /\ Cardinality(B) <= Cardinality(A \cup {k})
    BY <1>3, <2>1, FS_Subset
  <2>3. Cardinality(B) \in Nat
    BY <2>2, FS_CardinalityType
  <2> QED BY <1>1, <1>3, <2>1, <2>2, <2>3 DEF Within
<1> QED BY <1>2, <1>3

(* A full table that loses an entry has room for one.                      *)
LEMMA OneLess ==
  ASSUME NEW A, NEW max \in Nat \ {0}, Within(A, max), NEW x \in A, NEW B, B \subseteq A \ {x}
  PROVE  Within(B, max) /\ Cardinality(B) < max
<1>1. IsFiniteSet(A) /\ Cardinality(A) \in Nat /\ Cardinality(A) <= max
  BY FS_CardinalityType DEF Within
<1>2. IsFiniteSet(A \ {x}) /\ Cardinality(A \ {x}) = Cardinality(A) - 1
  BY <1>1, FS_RemoveElement
<1>3. IsFiniteSet(B) /\ Cardinality(B) <= Cardinality(A \ {x})
  BY <1>2, FS_Subset
<1> QED BY <1>1, <1>2, <1>3, FS_CardinalityType DEF Within

LEMMA LaterFact ==
  ASSUME NEW a \in Int, NEW b \in Int
  PROVE  /\ Later(a, b) \in Int /\ a <= Later(a, b) /\ b <= Later(a, b)
         /\ Sooner(a, b) \in Int /\ Sooner(a, b) <= a /\ Sooner(a, b) <= b
  BY DEF Later, Sooner

(* x, y: a workflow's record before and after it was used.                 *)
Used(x, y) == /\ y.last \in Int /\ x.last <= y.last
              /\ y.first \in Int /\ y.first <= x.first
Timed(x) == x.last \in Int /\ x.first \in Int

(* p is m after some entries have gone: those left are as they were, but   *)
(* for workflows used since.                                               *)
Fewer(m, p) ==
  /\ DOMAIN p.sessions \subseteq DOMAIN m.sessions
  /\ \A k \in DOMAIN p.sessions : p.sessions[k] = m.sessions[k]
  /\ DOMAIN p.edges \subseteq DOMAIN m.edges
  /\ \A e \in DOMAIN p.edges : p.edges[e] = m.edges[e]

Rest(m, p) ==
  /\ Fewer(m, p)
  /\ \A e \in DOMAIN p.edges : e[1] \in DOMAIN p.workflows
  /\ \A w \in DOMAIN p.workflows : Timed(p.workflows[w])
  /\ \A w \in DOMAIN p.workflows \cap DOMAIN m.workflows : Used(m.workflows[w], p.workflows[w])

LEMMA RestKnown ==
  ASSUME NEW m, NEW n \in Nat, ModelKnown(m, n), NEW p, Rest(m, p),
         Within(DOMAIN p.workflows, MaxWorkflows)
  PROVE  ModelKnown(p, n)
<1>0. MaxSessions \in Nat /\ MaxTransitions \in Nat /\ MaxWorkflows \in Nat
  BY SequenceAssumption
<1>1. SessionsKnown(p, n)
  BY DEF ModelKnown, SessionsKnown, Rest, Fewer
<1>2. ASSUME NEW e \in DOMAIN p.edges PROVE EdgeKnown(p, n, e)
  <2>1. EdgeKnown(m, n, e) /\ p.edges[e] = m.edges[e] /\ e[1] \in DOMAIN p.workflows
    BY DEF ModelKnown, Rest, Fewer
  <2>2. e[1] \in DOMAIN m.workflows /\ Timed(m.workflows[e[1]])
    BY <2>1 DEF EdgeKnown, ModelKnown, Timed
  <2>3. Used(m.workflows[e[1]], p.workflows[e[1]])
    BY <2>1, <2>2 DEF Rest
  <2>4. /\ p.edges[e].last \in Int /\ p.edges[e].last <= p.workflows[e[1]].last
        /\ p.edges[e].first \in Int /\ p.workflows[e[1]].first <= p.edges[e].first
    BY <2>1, <2>2, <2>3 DEF EdgeKnown, Timed, Used
  <2>5. \A k \in DOMAIN p.sessions : p.sessions[k].id \in p.edges[e].sessions => e \in p.sessions[k].seen
    BY <2>1 DEF EdgeKnown, Rest, Fewer
  <2> QED BY <2>1, <2>4, <2>5 DEF EdgeKnown
<1>3. Within(DOMAIN p.sessions, MaxSessions) /\ Within(DOMAIN p.edges, MaxTransitions)
  BY <1>0, RoomWithin DEF ModelKnown, Rest, Fewer
<1> QED BY <1>1, <1>2, <1>3 DEF ModelKnown, Rest, Timed

LEMMA FinalizedRest ==
  ASSUME NEW m, NEW n \in Nat, ModelKnown(m, n), NEW S, NEW t \in Int
  PROVE  /\ Rest(m, Finalized(m, S, t))
         /\ DOMAIN Finalized(m, S, t).workflows = DOMAIN m.workflows
         /\ DOMAIN Finalized(m, S, t).sessions = DOMAIN m.sessions \ S
<1> DEFINE f == Finalized(m, S, t)
<1>1. /\ f.sessions = Without(m.sessions, S) /\ f.edges = m.edges
      /\ f.workflows = [w \in DOMAIN m.workflows |->
           IF \E k \in S : m.sessions[k].wf = w THEN Moved(m.workflows[w], t) ELSE m.workflows[w]]
  BY TablesFacts DEF Finalized
<1>2. \A w \in DOMAIN m.workflows : Timed(m.workflows[w])
  BY DEF ModelKnown, Timed
<1>3. \A w \in DOMAIN m.workflows : Used(m.workflows[w], Moved(m.workflows[w], t))
  BY <1>2, LaterFact DEF Moved, Used, Timed
<1>4. \A e \in DOMAIN m.edges : e[1] \in DOMAIN m.workflows
  BY DEF ModelKnown, EdgeKnown
<1>5. DOMAIN f.workflows = DOMAIN m.workflows
  BY <1>1
<1>6. \A w \in DOMAIN m.workflows : Timed(f.workflows[w]) /\ Used(m.workflows[w], f.workflows[w])
  BY <1>1, <1>2, <1>3 DEF Used, Timed
<1>7. DOMAIN f.sessions = DOMAIN m.sessions \ S /\ \A k \in DOMAIN f.sessions : f.sessions[k] = m.sessions[k]
  <2>1. f.sessions = Without(m.sessions, S)
    BY <1>1
  <2> HIDE DEF f
  <2> QED BY <2>1 DEF Without, Restrict
<1> HIDE DEF f
<1>8. Rest(m, f)
  BY <1>1, <1>4, <1>5, <1>6, <1>7 DEF Rest, Fewer
<1> QED BY <1>5, <1>7, <1>8 DEF f

(* Expired entries go; an edge expires no later than its workflow.         *)
LEMMA PrunedKnown ==
  ASSUME NEW m, NEW n \in Nat, ModelKnown(m, n), NEW t \in Int
  PROVE  ModelKnown(Pruned(m, t), n) /\ Rest(m, Pruned(m, t))
<1> DEFINE S == {k \in DOMAIN m.sessions : Expires(m.sessions[k]) <= t}
           f == Finalized(m, S, t)
           p == Pruned(m, t)
           E == {e \in DOMAIN f.edges : f.edges[e].last + TransitionTTL <= t}
           W == {w \in DOMAIN f.workflows : f.workflows[w].last + WorkflowTTL <= t}
<1>0. /\ TransitionTTL \in Nat /\ WorkflowTTL \in Nat /\ TransitionTTL <= WorkflowTTL
      /\ MaxWorkflows \in Nat
  BY SequenceAssumption
<1>1. Rest(m, f) /\ DOMAIN f.workflows = DOMAIN m.workflows
  BY FinalizedRest
<1>2. Within(DOMAIN f.workflows, MaxWorkflows)
  BY <1>1 DEF ModelKnown
<1>3. ModelKnown(f, n)
  <2> HIDE DEF f
  <2> QED BY <1>1, <1>2, RestKnown
<1>4. p.sessions = f.sessions /\ p.edges = Without(f.edges, E) /\ p.workflows = Without(f.workflows, W)
  <2>1. p = Tables(m, f.sessions, Without(f.edges, E), Without(f.workflows, W))
    BY DEF Pruned
  <2> HIDE DEF p, f, E, W
  <2> QED BY <2>1, TablesFacts
<1> HIDE DEF f, p, E, W
<1>5. DOMAIN p.edges = DOMAIN f.edges \ E /\ \A e \in DOMAIN p.edges : p.edges[e] = f.edges[e]
  BY <1>4 DEF Without, Restrict
<1>6. DOMAIN p.workflows = DOMAIN f.workflows \ W /\ \A w \in DOMAIN p.workflows : p.workflows[w] = f.workflows[w]
  BY <1>4 DEF Without, Restrict
<1>7. ASSUME NEW e \in DOMAIN p.edges PROVE e[1] \in DOMAIN p.workflows
  <2>1. EdgeKnown(f, n, e) /\ e \in DOMAIN f.edges
    BY <1>3, <1>5 DEF ModelKnown
  <2>2. ~(f.edges[e].last + TransitionTTL <= t) /\ f.edges[e].last \in Int
    BY <1>5, <2>1 DEF EdgeKnown, E
  <2>3. e[1] \in DOMAIN f.workflows /\ f.workflows[e[1]].last \in Int /\ f.edges[e].last <= f.workflows[e[1]].last
    BY <1>3, <2>1 DEF EdgeKnown, ModelKnown
  <2>4. ~(f.workflows[e[1]].last + WorkflowTTL <= t)
    BY <1>0, <2>2, <2>3
  <2> QED BY <1>6, <2>3, <2>4 DEF W
<1>8. Rest(f, p)
  <2>1. \A w \in DOMAIN p.workflows : Timed(p.workflows[w]) /\ Used(f.workflows[w], p.workflows[w])
    BY <1>3, <1>6 DEF ModelKnown, Used, Timed
  <2> QED BY <1>4, <1>5, <1>6, <1>7, <2>1 DEF Rest, Fewer
<1>9. Rest(m, p)
  BY <1>1, <1>4, <1>5, <1>6, <1>7 DEF Rest, Fewer
<1>10. Within(DOMAIN p.workflows, MaxWorkflows)
  BY <1>0, <1>2, <1>6, RoomWithin
<1>11. ModelKnown(p, n)
  BY <1>3, <1>8, <1>10, RestKnown
<1> QED BY <1>9, <1>11 DEF p

(* A model is known by its tables alone.                                   *)
LEMMA SameTables ==
  ASSUME NEW m, NEW n, ModelKnown(m, n), NEW p,
         p.sessions = m.sessions, p.edges = m.edges, p.workflows = m.workflows
  PROVE  ModelKnown(p, n)
  BY DEF ModelKnown, SessionsKnown, EdgeKnown

(* The oldest workflow makes room for a new one.                           *)
LEMMA EvictKnown ==
  ASSUME NEW m, NEW n \in Nat, ModelKnown(m, n), Cardinality(DOMAIN m.workflows) >= MaxWorkflows
  PROVE  LET p == EvictWorkflow(m) IN
         /\ Rest(m, p) /\ DOMAIN p.workflows \subseteq DOMAIN m.workflows
         /\ Within(DOMAIN p.workflows, MaxWorkflows) /\ Cardinality(DOMAIN p.workflows) < MaxWorkflows
<1> DEFINE x == Oldest(m.workflows)
           p == EvictWorkflow(m)
<1>0. MaxWorkflows \in Nat \ {0}
  BY SequenceAssumption
<1>1. Within(DOMAIN m.workflows, MaxWorkflows) /\ \A w \in DOMAIN m.workflows : Timed(m.workflows[w])
  BY DEF ModelKnown, Timed
<1>2. x \in DOMAIN m.workflows
  <2>1. DOMAIN m.workflows # {}
    BY <1>0, FS_EmptySet
  <2> QED BY <1>1, <2>1, OldestThere DEF Within, Timed
<1>3. /\ p.sessions = Without(m.sessions, {k \in DOMAIN m.sessions : m.sessions[k].wf = x})
      /\ p.edges = Without(m.edges, {e \in DOMAIN m.edges : e[1] = x})
      /\ p.workflows = Without(m.workflows, {x})
  BY TablesFacts DEF EvictWorkflow
<1>4. \A e \in DOMAIN m.edges : e[1] \in DOMAIN m.workflows
  BY DEF ModelKnown, EdgeKnown
<1> HIDE DEF p, x
<1>5. DOMAIN p.workflows = DOMAIN m.workflows \ {x} /\ \A w \in DOMAIN p.workflows : p.workflows[w] = m.workflows[w]
  BY <1>3 DEF Without, Restrict
<1>6. Fewer(m, p) /\ \A e \in DOMAIN p.edges : e \in DOMAIN m.edges /\ e[1] # x
  BY <1>3 DEF Without, Restrict, Fewer
<1>7. \A w \in DOMAIN p.workflows : Timed(p.workflows[w]) /\ Used(m.workflows[w], p.workflows[w])
  BY <1>1, <1>5 DEF Used, Timed
<1>8. Rest(m, p)
  BY <1>4, <1>5, <1>6, <1>7 DEF Rest
<1>9. Within(DOMAIN p.workflows, MaxWorkflows) /\ Cardinality(DOMAIN p.workflows) < MaxWorkflows
  BY <1>0, <1>1, <1>2, <1>5, OneLess
<1> QED BY <1>5, <1>8, <1>9 DEF p

LEMMA WithWorkflowKnown ==
  ASSUME NEW m, NEW n \in Nat, ModelKnown(m, n), NEW w, NEW t \in Int
  PROVE  LET p == WithWorkflow(m, w, t) IN ModelKnown(p, n) /\ Rest(m, p) /\ w \in DOMAIN p.workflows
<1> DEFINE p == WithWorkflow(m, w, t)
           r == IF Cardinality(DOMAIN m.workflows) >= MaxWorkflows THEN EvictWorkflow(m) ELSE m
<1>0. /\ MaxWorkflows \in Nat
      /\ \A x \in DOMAIN m.workflows : Timed(m.workflows[x]) /\ Used(m.workflows[x], m.workflows[x])
  BY SequenceAssumption DEF ModelKnown, Timed, Used
<1>1. CASE w \in DOMAIN m.workflows
  <2>1. p = m
    BY <1>1 DEF WithWorkflow
  <2>2. Rest(m, m)
    BY <1>0 DEF Rest, Fewer, ModelKnown, EdgeKnown
  <2> QED BY <1>1, <2>1, <2>2
<1>2. CASE w \notin DOMAIN m.workflows
  <2>1. /\ Rest(m, r) /\ DOMAIN r.workflows \subseteq DOMAIN m.workflows
        /\ Within(DOMAIN r.workflows, MaxWorkflows) /\ Cardinality(DOMAIN r.workflows) < MaxWorkflows
    <3>1. CASE Cardinality(DOMAIN m.workflows) >= MaxWorkflows
      BY <3>1, EvictKnown
    <3>2. CASE ~(Cardinality(DOMAIN m.workflows) >= MaxWorkflows)
      <4>1. Rest(m, m) /\ Within(DOMAIN m.workflows, MaxWorkflows)
        BY <1>0 DEF Rest, Fewer, ModelKnown, EdgeKnown
      <4>2. Cardinality(DOMAIN m.workflows) \in Nat
        BY <4>1, FS_CardinalityType DEF Within
      <4> QED BY <1>0, <3>2, <4>1, <4>2
    <3> QED BY <3>1, <3>2
  <2>2. p.sessions = r.sessions /\ p.edges = r.edges /\ p.workflows = Having(r.workflows, w, NewWorkflow(t))
    BY <1>2, TablesFacts DEF WithWorkflow
  <2> HIDE DEF p, r
  <2>3. DOMAIN p.workflows = DOMAIN r.workflows \cup {w} /\ Timed(p.workflows[w])
    BY <2>2 DEF Having, NewWorkflow, Timed
  <2>4. \A x \in DOMAIN r.workflows : x # w /\ p.workflows[x] = r.workflows[x]
    BY <1>2, <2>1, <2>2 DEF Having
  <2>5. Rest(m, p)
    <3>1. Fewer(m, p) /\ \A e \in DOMAIN p.edges : e[1] \in DOMAIN p.workflows
      BY <2>1, <2>2, <2>3 DEF Rest, Fewer
    <3>2. \A x \in DOMAIN p.workflows : Timed(p.workflows[x])
      BY <2>1, <2>3, <2>4 DEF Rest
    <3>3. \A x \in DOMAIN p.workflows \cap DOMAIN m.workflows : Used(m.workflows[x], p.workflows[x])
      BY <1>2, <2>1, <2>3, <2>4 DEF Rest
    <3> QED BY <3>1, <3>2, <3>3 DEF Rest
  <2>6. Within(DOMAIN p.workflows, MaxWorkflows)
    BY <1>0, <2>1, <2>3, RoomWithin
  <2>7. ModelKnown(p, n)
    BY <2>5, <2>6, RestKnown
  <2> QED BY <2>3, <2>5, <2>7 DEF p
<1> QED BY <1>1, <1>2

(* A workflow's record after an observation at time t.                     *)
LEMMA UsedKnown ==
  ASSUME NEW m, NEW n \in Nat, ModelKnown(m, n), NEW w \in DOMAIN m.workflows, NEW x,
         Used(m.workflows[w], x)
  PROVE  LET p == Tables(m, m.sessions, m.edges, Having(m.workflows, w, x)) IN
         /\ ModelKnown(p, n) /\ Rest(m, p) /\ DOMAIN p.workflows = DOMAIN m.workflows
         /\ p.workflows[w] = x
<1> DEFINE p == Tables(m, m.sessions, m.edges, Having(m.workflows, w, x))
<1>1. p.sessions = m.sessions /\ p.edges = m.edges /\ p.workflows = Having(m.workflows, w, x)
  BY TablesFacts
<1> HIDE DEF p
<1>2. DOMAIN p.workflows = DOMAIN m.workflows /\ p.workflows[w] = x
  BY <1>1 DEF Having
<1>3. \A y \in DOMAIN m.workflows : y # w => p.workflows[y] = m.workflows[y]
  BY <1>1 DEF Having
<1>4. \A y \in DOMAIN m.workflows : Timed(m.workflows[y])
  BY DEF ModelKnown, Timed
<1>5. \A e \in DOMAIN m.edges : e[1] \in DOMAIN m.workflows
  BY DEF ModelKnown, EdgeKnown
<1>6. \A y \in DOMAIN p.workflows : Timed(p.workflows[y]) /\ Used(m.workflows[y], p.workflows[y])
  BY <1>2, <1>3, <1>4 DEF Used, Timed
<1>7. Rest(m, p)
  BY <1>1, <1>2, <1>5, <1>6 DEF Rest, Fewer
<1>8. Within(DOMAIN p.workflows, MaxWorkflows)
  BY <1>2 DEF ModelKnown
<1>9. ModelKnown(p, n)
  BY <1>7, <1>8, RestKnown
<1> QED BY <1>2, <1>7, <1>9 DEF p

LEMMA FewerTwice ==
  ASSUME NEW m, NEW p, NEW r, Fewer(m, p), Fewer(p, r)
  PROVE  Fewer(m, r)
  BY DEF Fewer

(* An observation of w, whether a session began with it or not.            *)
LEMMA ObservedKnown ==
  ASSUME NEW m, NEW n \in Nat, ModelKnown(m, n), NEW w, NEW t \in Int
  PROVE  LET p == Observed(m, w, t) IN
         /\ ModelKnown(p, n) /\ Fewer(m, p) /\ w \in DOMAIN p.workflows
         /\ t <= p.workflows[w].last /\ p.workflows[w].first <= t
<1> DEFINE r == WithWorkflow(m, w, t)
           y == r.workflows[w]
           x == [obs |-> y.obs + 1, sessions |-> y.sessions, first |-> Sooner(y.first, t), last |-> Later(y.last, t),
                 entries |-> y.entries]
           p == Observed(m, w, t)
           q == Tables(r, r.sessions, r.edges, Having(r.workflows, w, x))
<1>1. ModelKnown(r, n) /\ Rest(m, r) /\ w \in DOMAIN r.workflows
  BY WithWorkflowKnown
<1>2. p = Tables(m, r.sessions, r.edges, Having(r.workflows, w, x))
  BY DEF Observed
<1>3. Used(r.workflows[w], x) /\ t <= x.last /\ x.first <= t
  <2>1. y.last \in Int /\ y.first \in Int
    BY <1>1 DEF ModelKnown
  <2> QED BY <2>1, LaterFact DEF Used
<1> HIDE DEF r, x
<1>4. ModelKnown(q, n) /\ Rest(r, q) /\ w \in DOMAIN q.workflows /\ q.workflows[w] = x
  BY <1>1, <1>3, UsedKnown
<1>5. p.sessions = q.sessions /\ p.edges = q.edges /\ p.workflows = q.workflows
  BY <1>2, TablesFacts
<1> HIDE DEF p, q
<1>6. ModelKnown(p, n)
  BY <1>4, <1>5, SameTables
<1>7. Fewer(m, r) /\ Fewer(r, q)
  BY <1>1, <1>4 DEF Rest
<1>8. Fewer(m, q)
  BY <1>7, FewerTwice
<1>9. Fewer(m, p)
  BY <1>5, <1>8 DEF Fewer
<1> QED BY <1>3, <1>4, <1>5, <1>6, <1>9 DEF p

LEMMA StartedKnown ==
  ASSUME NEW m, NEW n \in Nat, ModelKnown(m, n), NEW w, NEW o, NEW t \in Int
  PROVE  LET p == Started(m, w, o, t) IN ModelKnown(p, n) /\ Fewer(m, p)
<1> DEFINE r == WithWorkflow(m, w, t)
           y == r.workflows[w]
           x == [obs |-> y.obs, sessions |-> y.sessions + 1, first |-> Sooner(y.first, t), last |-> Later(y.last, t),
                 entries |-> Bumped(y.entries, o)]
           p == Started(m, w, o, t)
           q == Tables(r, r.sessions, r.edges, Having(r.workflows, w, x))
<1>1. ModelKnown(r, n) /\ Rest(m, r) /\ w \in DOMAIN r.workflows
  BY WithWorkflowKnown
<1>2. p = Tables(m, r.sessions, r.edges, Having(r.workflows, w, x))
  BY DEF Started
<1>3. Used(r.workflows[w], x)
  <2>1. y.last \in Int /\ y.first \in Int
    BY <1>1 DEF ModelKnown
  <2> QED BY <2>1, LaterFact DEF Used
<1> HIDE DEF r, x
<1>4. ModelKnown(q, n) /\ Rest(r, q)
  BY <1>1, <1>3, UsedKnown
<1>5. p.sessions = q.sessions /\ p.edges = q.edges /\ p.workflows = q.workflows
  BY <1>2, TablesFacts
<1> HIDE DEF p, q
<1>6. ModelKnown(p, n)
  BY <1>4, <1>5, SameTables
<1>7. Fewer(m, r) /\ Fewer(r, q)
  BY <1>1, <1>4 DEF Rest
<1>8. Fewer(m, q)
  BY <1>7, FewerTwice
<1>9. Fewer(m, p)
  BY <1>5, <1>8 DEF Fewer
<1> QED BY <1>6, <1>9 DEF p

(* A session that begins at a full table finds room.                       *)
LEMMA RoomKnown ==
  ASSUME NEW m, NEW n \in Nat, ModelKnown(m, n), NEW t \in Int
  PROVE  LET p == RoomForSession(m, t) IN
         ModelKnown(p, n) /\ Fewer(m, p) /\ Cardinality(DOMAIN p.sessions) < MaxSessions
<1> DEFINE x == Oldest(m.sessions)
           f == Finalized(m, {x}, t)
           p == RoomForSession(m, t)
<1>0. MaxSessions \in Nat \ {0}
  BY SequenceAssumption
<1>1. Within(DOMAIN m.sessions, MaxSessions) /\ Within(DOMAIN m.workflows, MaxWorkflows)
  BY DEF ModelKnown
<1>2. CASE Cardinality(DOMAIN m.sessions) >= MaxSessions
  <2>1. p = f
    BY <1>2 DEF RoomForSession
  <2>2. Rest(m, f) /\ DOMAIN f.workflows = DOMAIN m.workflows /\ DOMAIN f.sessions = DOMAIN m.sessions \ {x}
    BY FinalizedRest
  <2>3. x \in DOMAIN m.sessions
    <3>1. DOMAIN m.sessions # {}
      BY <1>0, <1>2, FS_EmptySet
    <3>2. \A k \in DOMAIN m.sessions : m.sessions[k].last \in Int
      BY DEF ModelKnown, SessionsKnown
    <3> QED BY <1>1, <3>1, <3>2, OldestThere DEF Within
  <2> HIDE DEF f, p, x
  <2>4. ModelKnown(f, n)
    BY <1>1, <2>2, RestKnown
  <2>5. Cardinality(DOMAIN f.sessions) < MaxSessions
    BY <1>0, <1>1, <2>2, <2>3, OneLess
  <2> QED BY <2>1, <2>2, <2>4, <2>5 DEF Rest, p
<1>3. CASE ~(Cardinality(DOMAIN m.sessions) >= MaxSessions)
  <2>1. p = m
    BY <1>3 DEF RoomForSession
  <2>2. Cardinality(DOMAIN m.sessions) \in Nat
    BY <1>1, FS_CardinalityType DEF Within
  <2>3. Cardinality(DOMAIN m.sessions) < MaxSessions
    BY <1>0, <1>3, <2>2
  <2> QED BY <2>1, <2>3 DEF Fewer
<1> QED BY <1>2, <1>3

(* A session's record after an observation.                                *)
LEMMA SessionKnown ==
  ASSUME NEW m, NEW n \in Nat, ModelKnown(m, n), NEW key, NEW x,
         x.id \in 0..n, x.last \in Int, x.cur \in Ops,
         \A k \in DOMAIN m.sessions : k # key => m.sessions[k].id # x.id,
         \A e \in DOMAIN m.edges : x.id \in m.edges[e].sessions => e \in x.seen,
         Within(DOMAIN m.sessions \cup {key}, MaxSessions)
  PROVE  ModelKnown(Tables(m, Having(m.sessions, key, x), m.edges, m.workflows), n + 1)
<1> DEFINE p == Tables(m, Having(m.sessions, key, x), m.edges, m.workflows)
<1>1. p.sessions = Having(m.sessions, key, x) /\ p.edges = m.edges /\ p.workflows = m.workflows
  BY TablesFacts
<1> HIDE DEF p
<1>2. DOMAIN p.sessions = DOMAIN m.sessions \cup {key} /\ p.sessions[key] = x
  BY <1>1 DEF Having
<1>3. \A k \in DOMAIN p.sessions : k # key => k \in DOMAIN m.sessions /\ p.sessions[k] = m.sessions[k]
  BY <1>1 DEF Having
<1>4. ASSUME NEW k \in DOMAIN p.sessions
      PROVE  p.sessions[k].id \in 0..n /\ p.sessions[k].last \in Int /\ p.sessions[k].cur \in Ops
  <2>1. CASE k = key
    BY <1>2, <2>1
  <2>2. CASE k # key
    <3>1. k \in DOMAIN m.sessions /\ p.sessions[k] = m.sessions[k]
      BY <1>3, <2>2
    <3>2. m.sessions[k].id \in 0..n - 1 /\ m.sessions[k].last \in Int /\ m.sessions[k].cur \in Ops
      BY <3>1 DEF ModelKnown, SessionsKnown
    <3> QED BY <3>1, <3>2
  <2> QED BY <2>1, <2>2
<1>5. ASSUME NEW j \in DOMAIN p.sessions, NEW k \in DOMAIN p.sessions, p.sessions[j].id = p.sessions[k].id
      PROVE  j = k
  <2>1. CASE j # key /\ k # key
    BY <1>3, <1>5, <2>1 DEF ModelKnown, SessionsKnown
  <2>2. CASE j = key \/ k = key
    BY <1>2, <1>3, <1>5, <2>2
  <2> QED BY <2>1, <2>2
<1>6. (n + 1) - 1 = n
  OBVIOUS
<1>7. SessionsKnown(p, n + 1)
  BY <1>4, <1>5, <1>6 DEF SessionsKnown
<1>8. ASSUME NEW e \in DOMAIN p.edges PROVE EdgeKnown(p, n + 1, e)
  <2>1. EdgeKnown(m, n, e) /\ e \in DOMAIN m.edges
    BY <1>1 DEF ModelKnown
  <2>2. \A k \in DOMAIN p.sessions : p.sessions[k].id \in p.edges[e].sessions => e \in p.sessions[k].seen
    BY <1>1, <1>2, <1>3, <2>1 DEF EdgeKnown
  <2>3. p.edges[e].sessions \subseteq 0..n
    BY <1>1, <2>1 DEF EdgeKnown
  <2> QED BY <1>1, <1>6, <2>1, <2>2, <2>3 DEF EdgeKnown
<1>9. Within(DOMAIN p.sessions, MaxSessions)
  BY <1>2
<1>10. ModelKnown(p, n + 1)
  BY <1>1, <1>7, <1>8, <1>9 DEF ModelKnown
<1> QED BY <1>10 DEF p

(* An edge's record after session key passed it.                           *)
LEMMA PassedKnown ==
  ASSUME NEW m, NEW n \in Nat, ModelKnown(m, n), NEW e \in Workflows \X Ops \X Ops, e[1] \in DOMAIN m.workflows,
         NEW t \in Int, t <= m.workflows[e[1]].last, m.workflows[e[1]].first <= t,
         NEW s, NEW key \in DOMAIN m.sessions, m.sessions[key].id = s.id,
         CountsSession(s, e) => e \in m.sessions[key].seen,
         e \in DOMAIN m.edges /\ s.id \in m.edges[e].sessions => e \in s.seen
  PROVE  ModelKnown(Passed(m, e, s, t), n)
<1> DEFINE p == Passed(m, e, s, t)
           es == IF e \notin DOMAIN m.edges /\ Cardinality(DOMAIN m.edges) >= MaxTransitions
                   THEN Without(m.edges, {Oldest(m.edges)}) ELSE m.edges
           old == IF e \in DOMAIN es THEN es[e] ELSE [obs |-> 0, n |-> 0, sessions |-> {}, first |-> t, last |-> t]
           new == [obs |-> old.obs + 1, n |-> old.n + (IF CountsSession(s, e) THEN 1 ELSE 0),
                   sessions |-> old.sessions \cup (IF CountsSession(s, e) THEN {s.id} ELSE {}),
                   first |-> old.first, last |-> t]
<1>0. MaxTransitions \in Nat \ {0}
  BY SequenceAssumption
<1>1. p.sessions = m.sessions /\ p.edges = Having(es, e, new) /\ p.workflows = m.workflows
  <2>1. p = Tables(m, m.sessions, Having(es, e, new), m.workflows)
    BY DEF Passed
  <2> HIDE DEF p, es, new
  <2> QED BY <2>1, TablesFacts
<1>2. Within(DOMAIN m.edges, MaxTransitions) /\ \A d \in DOMAIN m.edges : EdgeKnown(m, n, d)
  BY DEF ModelKnown
<1>3. /\ DOMAIN es \subseteq DOMAIN m.edges /\ \A d \in DOMAIN es : es[d] = m.edges[d]
      /\ e \in DOMAIN m.edges => es = m.edges
      /\ Within(DOMAIN es \cup {e}, MaxTransitions)
  <2>1. CASE e \in DOMAIN m.edges
    <3>1. es = m.edges /\ DOMAIN m.edges \cup {e} = DOMAIN m.edges
      BY <2>1
    <3> QED BY <1>2, <3>1
  <2>2. CASE e \notin DOMAIN m.edges /\ Cardinality(DOMAIN m.edges) >= MaxTransitions
    <3> DEFINE x == Oldest(m.edges)
    <3>1. x \in DOMAIN m.edges
      <4>1. DOMAIN m.edges # {}
        BY <1>0, <2>2, FS_EmptySet
      <4>2. \A d \in DOMAIN m.edges : m.edges[d].last \in Int
        BY <1>2 DEF EdgeKnown
      <4> QED BY <1>2, <4>1, <4>2, OldestThere DEF Within
    <3>2. es = Without(m.edges, {x})
      BY <2>2
    <3> HIDE DEF x, es
    <3>3. DOMAIN es = DOMAIN m.edges \ {x} /\ \A d \in DOMAIN es : es[d] = m.edges[d]
      BY <3>2 DEF Without, Restrict
    <3>4. Within(DOMAIN es, MaxTransitions) /\ Cardinality(DOMAIN es) < MaxTransitions
      BY <1>0, <1>2, <3>1, <3>3, OneLess
    <3>5. Within(DOMAIN es \cup {e}, MaxTransitions)
      BY <1>0, <3>4, RoomWithin
    <3> QED BY <2>2, <3>3, <3>5
  <2>3. CASE e \notin DOMAIN m.edges /\ ~(Cardinality(DOMAIN m.edges) >= MaxTransitions)
    <3>1. es = m.edges
      BY <2>3
    <3>2. Cardinality(DOMAIN m.edges) \in Nat
      BY <1>2, FS_CardinalityType DEF Within
    <3>3. Within(DOMAIN m.edges \cup {e}, MaxTransitions)
      BY <1>0, <1>2, <2>3, <3>2, RoomWithin
    <3> QED BY <2>3, <3>1, <3>3
  <2> QED BY <2>1, <2>2, <2>3
<1> HIDE DEF p, es
<1>4. /\ old.obs \in Nat /\ old.n \in Nat /\ old.n <= old.obs /\ IsFiniteSet(old.sessions)
      /\ old.n = Cardinality(old.sessions) /\ old.sessions \subseteq 0..n - 1
      /\ \A k \in DOMAIN m.sessions : m.sessions[k].id \in old.sessions => e \in m.sessions[k].seen
      /\ s.id \in old.sessions => e \in s.seen
      /\ old.first \in Int /\ m.workflows[e[1]].first <= old.first
  <2>1. CASE e \in DOMAIN es
    <3>1. old = m.edges[e] /\ EdgeKnown(m, n, e) /\ e \in DOMAIN m.edges
      BY <1>2, <1>3, <2>1
    <3> QED BY <3>1 DEF EdgeKnown
  <2>2. CASE e \notin DOMAIN es
    <3>1. old.obs = 0 /\ old.n = 0 /\ old.sessions = {} /\ old.first = t
      BY <2>2
    <3>2. IsFiniteSet({}) /\ Cardinality({}) = 0
      BY FS_EmptySet
    <3> QED BY <3>1, <3>2
  <2> QED BY <2>1, <2>2
<1>5. s.id \in 0..n - 1 /\ \A k \in DOMAIN m.sessions : m.sessions[k].id = s.id => k = key
  BY DEF ModelKnown, SessionsKnown
<1> HIDE DEF old
<1>6. /\ new.obs \in Nat /\ new.n \in Nat /\ new.n <= new.obs /\ IsFiniteSet(new.sessions)
      /\ new.n = Cardinality(new.sessions) /\ new.sessions \subseteq 0..n - 1
      /\ \A k \in DOMAIN m.sessions : m.sessions[k].id \in new.sessions => e \in m.sessions[k].seen
      /\ new.last = t /\ new.first \in Int /\ m.workflows[e[1]].first <= new.first
  <2>1. CASE CountsSession(s, e)
    <3>1. /\ new.obs = old.obs + 1 /\ new.n = old.n + 1 /\ new.sessions = old.sessions \cup {s.id}
          /\ new.last = t /\ new.first = old.first
      BY <2>1
    <3>2. s.id \notin old.sessions
      BY <1>4, <2>1 DEF CountsSession
    <3>3. IsFiniteSet(new.sessions) /\ Cardinality(new.sessions) = Cardinality(old.sessions) + 1
      <4> HIDE DEF new
      <4>1. PICK o : o = old.sessions
        OBVIOUS
      <4>2. IsFiniteSet(o) /\ s.id \notin o
        BY <1>4, <3>2, <4>1
      <4>3. IsFiniteSet(o \cup {s.id}) /\ Cardinality(o \cup {s.id}) = Cardinality(o) + 1
        BY <4>2, FS_AddElement
      <4> QED BY <3>1, <4>1, <4>3
    <3> HIDE DEF new
    <3>4. ASSUME NEW k \in DOMAIN m.sessions, m.sessions[k].id \in new.sessions PROVE e \in m.sessions[k].seen
      <4>1. m.sessions[k].id \in old.sessions \/ m.sessions[k].id = s.id
        BY <3>1, <3>4
      <4>2. CASE m.sessions[k].id = s.id
        BY <1>5, <2>1, <4>2
      <4> QED BY <1>4, <4>1, <4>2
    <3>5. new.sessions \subseteq 0..n - 1 /\ s.id \in 0..n - 1
      BY <1>4, <1>5, <3>1
    <3> QED BY <1>4, <3>1, <3>3, <3>4, <3>5
  <2>2. CASE ~CountsSession(s, e)
    <3>1. /\ new.obs = old.obs + 1 /\ new.n = old.n + 0 /\ new.sessions = old.sessions
          /\ new.last = t /\ new.first = old.first
      BY <2>2
    <3> HIDE DEF new
    <3> QED BY <1>4, <3>1
  <2> QED BY <2>1, <2>2
<1> HIDE DEF new
<1>7. DOMAIN p.edges = DOMAIN es \cup {e} /\ p.edges[e] = new
  BY <1>1 DEF Having
<1>8. \A d \in DOMAIN p.edges : d # e => d \in DOMAIN m.edges /\ p.edges[d] = m.edges[d]
  BY <1>1, <1>3 DEF Having
<1>9. ASSUME NEW d \in DOMAIN p.edges PROVE EdgeKnown(p, n, d)
  <2>1. CASE d = e
    BY <1>1, <1>6, <1>7, <2>1 DEF EdgeKnown
  <2>2. CASE d # e
    BY <1>1, <1>2, <1>8, <2>2 DEF EdgeKnown
  <2> QED BY <2>1, <2>2
<1>10. Within(DOMAIN p.edges, MaxTransitions)
  BY <1>3, <1>7
<1>11. SessionsKnown(p, n)
  BY <1>1 DEF ModelKnown, SessionsKnown
<1>12. ModelKnown(p, n)
  BY <1>1, <1>9, <1>10, <1>11 DEF ModelKnown
<1> QED BY <1>12 DEF p

(* The first observation of a session.                                     *)
LEMMA BeginningKnown ==
  ASSUME NEW m, NEW n \in Nat, ModelKnown(m, n), NEW key, NEW w, NEW o \in Ops, NEW t \in Int,
         NEW x, x.id = n, x.last = t, x.cur = o
  PROVE  LET q == Observed(Started(RoomForSession(m, t), w, o, t), w, t) IN
         ModelKnown(Tables(q, Having(q.sessions, key, x), q.edges, q.workflows), n + 1)
<1> DEFINE r == RoomForSession(m, t)
           b == Started(r, w, o, t)
           q == Observed(b, w, t)
<1>0. MaxSessions \in Nat
  BY SequenceAssumption
<1>1. ModelKnown(r, n) /\ Cardinality(DOMAIN r.sessions) < MaxSessions
  BY RoomKnown
<1> HIDE DEF r
<1>2. ModelKnown(b, n) /\ Fewer(r, b)
  BY <1>1, StartedKnown
<1> HIDE DEF b
<1>3. ModelKnown(q, n) /\ Fewer(b, q)
  BY <1>2, ObservedKnown
<1> HIDE DEF q
<1>4. Within(DOMAIN q.sessions \cup {key}, MaxSessions)
  <2>1. DOMAIN q.sessions \cup {key} \subseteq DOMAIN r.sessions \cup {key}
    BY <1>2, <1>3 DEF Fewer
  <2>2. Within(DOMAIN r.sessions, MaxSessions)
    BY <1>1 DEF ModelKnown
  <2> QED BY <1>0, <1>1, <2>1, <2>2, RoomWithin
<1>5. \A k \in DOMAIN q.sessions : q.sessions[k].id # x.id
  BY <1>3 DEF ModelKnown, SessionsKnown
<1>6. \A e \in DOMAIN q.edges : x.id \notin q.edges[e].sessions
  BY <1>3 DEF ModelKnown, EdgeKnown
<1>7. ModelKnown(Tables(q, Having(q.sessions, key, x), q.edges, q.workflows), n + 1)
  <2>1. x.id \in 0..n /\ x.last \in Int /\ x.cur \in Ops
    OBVIOUS
  <2> QED BY <1>3, <1>4, <1>5, <1>6, <2>1, SessionKnown
<1> QED BY <1>7 DEF q, b, r

(* A later observation of a session, after the operation it was at.        *)
LEMMA NextStepKnown ==
  ASSUME NEW m, NEW n \in Nat, ModelKnown(m, n), NEW key \in DOMAIN m.sessions, NEW w \in Workflows, NEW o \in Ops,
         NEW t \in Int, NEW x, x.id = m.sessions[key].id, x.last = t, x.cur = o,
         x.seen = m.sessions[key].seen \cup
                  (IF CountsSession(m.sessions[key], <<w, m.sessions[key].cur, o>>)
                     THEN {<<w, m.sessions[key].cur, o>>} ELSE {})
  PROVE  LET q == Observed(m, w, t)
             l == Passed(q, <<w, m.sessions[key].cur, o>>, m.sessions[key], t)
         IN ModelKnown(Tables(l, Having(l.sessions, key, x), l.edges, l.workflows), n + 1)
<1> DEFINE s == m.sessions[key]
           e == <<w, s.cur, o>>
           q == Observed(m, w, t)
           l == Passed(q, e, s, t)
           q2 == Tables(q, Having(q.sessions, key, x), q.edges, q.workflows)
           l2 == Passed(q2, e, s, t)
           p == Tables(l, Having(l.sessions, key, x), l.edges, l.workflows)
<1>0. MaxSessions \in Nat
  BY SequenceAssumption
<1>1. /\ s.id \in 0..n - 1 /\ s.cur \in Ops /\ \A k \in DOMAIN m.sessions : m.sessions[k].id = s.id => k = key
      /\ \A d \in DOMAIN m.edges : s.id \in m.edges[d].sessions => d \in s.seen
  BY DEF ModelKnown, SessionsKnown, EdgeKnown
<1>2. /\ ModelKnown(q, n) /\ Fewer(m, q) /\ w \in DOMAIN q.workflows
      /\ t <= q.workflows[w].last /\ q.workflows[w].first <= t
  BY ObservedKnown
<1> HIDE DEF q
<1>3. \A d \in DOMAIN q.edges : s.id \in q.edges[d].sessions => d \in s.seen
  BY <1>1, <1>2 DEF Fewer
<1>4. \A k \in DOMAIN q.sessions : k # key => q.sessions[k].id # s.id
  BY <1>1, <1>2 DEF Fewer
<1>5. Within(DOMAIN q.sessions \cup {key}, MaxSessions)
  <2>1. DOMAIN q.sessions \cup {key} \subseteq DOMAIN m.sessions
    BY <1>2 DEF Fewer
  <2>2. Within(DOMAIN m.sessions, MaxSessions)
    BY DEF ModelKnown
  <2> QED BY <1>0, <2>1, <2>2, RoomWithin
<1>6. ModelKnown(q2, n + 1)
  <2>1. x.id \in 0..n /\ x.last \in Int /\ x.cur \in Ops
    BY <1>1
  <2>2. \A d \in DOMAIN q.edges : x.id \in q.edges[d].sessions => d \in x.seen
    BY <1>3
  <2>3. \A k \in DOMAIN q.sessions : k # key => q.sessions[k].id # x.id
    BY <1>4
  <2> QED BY <1>2, <1>5, <2>1, <2>2, <2>3, SessionKnown
<1>7. /\ q2.sessions = Having(q.sessions, key, x) /\ q2.edges = q.edges /\ q2.workflows = q.workflows
      /\ key \in DOMAIN q2.sessions /\ q2.sessions[key] = x
  <2>1. q2.sessions = Having(q.sessions, key, x) /\ q2.edges = q.edges /\ q2.workflows = q.workflows
    BY TablesFacts
  <2> HIDE DEF q2
  <2> QED BY <2>1 DEF Having
<1>8. CountsSession(s, e) => e \in x.seen
  BY DEF CountsSession
<1>9. e \in Workflows \X Ops \X Ops /\ e[1] = w
  BY <1>1
<1> HIDE DEF s, e, q2
<1>10. ModelKnown(l2, n + 1)
  <2>1. /\ n + 1 \in Nat /\ e[1] \in DOMAIN q2.workflows
        /\ t <= q2.workflows[e[1]].last /\ q2.workflows[e[1]].first <= t
    BY <1>2, <1>7, <1>9
  <2>2. e \in DOMAIN q2.edges /\ s.id \in q2.edges[e].sessions => e \in s.seen
    BY <1>3, <1>7
  <2>3. q2.sessions[key].id = s.id /\ (CountsSession(s, e) => e \in q2.sessions[key].seen)
    BY <1>7, <1>8 DEF s
  <2> HIDE DEF l2
  <2> QED BY <1>6, <1>7, <1>9, <2>1, <2>2, <2>3, PassedKnown DEF l2
<1>11. l.sessions = q.sessions /\ l.workflows = q.workflows /\ l2.sessions = q2.sessions /\ l2.workflows = q2.workflows
  BY PassedKeeps
<1>12. l.edges = l2.edges
  BY <1>7, TablesFacts DEF Passed
<1> HIDE DEF l, l2
<1>13. p.sessions = l2.sessions /\ p.edges = l2.edges /\ p.workflows = l2.workflows
  BY <1>7, <1>11, <1>12, TablesFacts
<1> HIDE DEF p
<1>14. ModelKnown(p, n + 1)
  BY <1>10, <1>13, SameTables
<1> QED BY <1>14 DEF p, l, e, s, q

(* An observation.                                                         *)
LEMMA ProcessKeeps ==
  ASSUME SequenceIInv, NEW key \in Keys, NEW w \in Workflows, NEW o \in Ops, NEW t \in Int, Process(key, w, o, t)
  PROVE  SequenceIInv'
<1>0. events \in Nat /\ clock \in Nat /\ events' = events + 1 /\ clock' = clock
  BY DEF SequenceIInv, Process
<1>1. PICK m, n : m = model /\ n = events
  OBVIOUS
<1> DEFINE p == Pruned(m, t)
<1>2. n \in Nat /\ ModelKnown(m, n)
  BY <1>0, <1>1 DEF SequenceIInv
<1>3. ModelKnown(p, n)
  BY <1>2, PrunedKnown
<1>4. ModelKnown(model', n + 1)
  <2>1. CASE key \notin DOMAIN p.sessions
    <3> DEFINE x == [wf |-> w, cur |-> o, run |-> IF NoOp = o THEN 0 + 1 ELSE 1, started |-> t, last |-> t, id |-> n,
                     seen |-> {} \cup (IF NoOp # NoOp /\ CountsSession([wf |-> w, cur |-> NoOp, run |-> 0, seen |-> {},
                        started |-> t, last |-> t, id |-> n], <<w, NoOp, o>>) THEN {<<w, NoOp, o>>} ELSE {})]
               q == Observed(Started(RoomForSession(p, t), w, o, t), w, t)
               k == Tables(q, Having(q.sessions, key, x), q.edges, q.workflows)
    <3>1. model'.sessions = Having(q.sessions, key, x) /\ model'.edges = q.edges /\ model'.workflows = q.workflows
      BY <1>1, <2>1 DEF Process
    <3>2. x.id = n /\ x.last = t /\ x.cur = o
      OBVIOUS
    <3> HIDE DEF p, x
    <3>3. ModelKnown(k, n + 1)
      BY <1>2, <1>3, <3>2, BeginningKnown
    <3>4. k.sessions = Having(q.sessions, key, x) /\ k.edges = q.edges /\ k.workflows = q.workflows
      BY TablesFacts
    <3>5. PICK z : z = model'
      OBVIOUS
    <3> HIDE DEF k, q
    <3>6. ModelKnown(z, n + 1)
      BY <3>1, <3>3, <3>4, <3>5, SameTables
    <3> QED BY <3>5, <3>6
  <2>2. CASE key \in DOMAIN p.sessions
    <3> DEFINE s == p.sessions[key]
               e == <<w, s.cur, o>>
               x == [wf |-> s.wf, cur |-> o, run |-> IF s.cur = o THEN s.run + 1 ELSE 1, started |-> s.started,
                     last |-> t, id |-> s.id,
                     seen |-> s.seen \cup (IF s.cur # NoOp /\ CountsSession(s, e) THEN {e} ELSE {})]
               l == Passed(Observed(p, w, t), e, s, t)
               k == Tables(l, Having(l.sessions, key, x), l.edges, l.workflows)
    <3>1. s.cur # NoOp
      BY <1>3, <2>2, SequenceAssumption DEF ModelKnown, SessionsKnown
    <3>2. model'.sessions = Having(l.sessions, key, x) /\ model'.edges = l.edges /\ model'.workflows = l.workflows
      BY <1>1, <2>2, <3>1 DEF Process
    <3>3. /\ x.id = s.id /\ x.last = t /\ x.cur = o
          /\ x.seen = s.seen \cup (IF CountsSession(s, e) THEN {e} ELSE {})
      BY <3>1
    <3> HIDE DEF p, x
    <3>4. ModelKnown(k, n + 1)
      BY <1>2, <1>3, <2>2, <3>3, NextStepKnown
    <3>5. k.sessions = Having(l.sessions, key, x) /\ k.edges = l.edges /\ k.workflows = l.workflows
      BY TablesFacts
    <3>6. PICK z : z = model'
      OBVIOUS
    <3> HIDE DEF k, l
    <3>7. ModelKnown(z, n + 1)
      BY <3>2, <3>4, <3>5, <3>6, SameTables
    <3> QED BY <3>6, <3>7
  <2> QED BY <2>1, <2>2
<1>5. n + 1 = events'
  BY <1>0, <1>1
<1>6. ModelKnown(model', events')
  BY <1>4, <1>5
<1> QED BY <1>0, <1>6 DEF SequenceIInv

(* The tables when a model is new.                                         *)
LEMMA EmptyKnown ==
  ASSUME NEW m, m.sessions = None, m.edges = None, m.workflows = None, NEW n
  PROVE  ModelKnown(m, n)
<1>1. DOMAIN m.sessions = {} /\ DOMAIN m.edges = {} /\ DOMAIN m.workflows = {}
  BY DEF None
<1>2. \A max \in Nat : Within({}, max)
  BY FS_EmptySet DEF Within
<1>3. MaxSessions \in Nat /\ MaxTransitions \in Nat /\ MaxWorkflows \in Nat
  BY SequenceAssumption
<1> QED BY <1>1, <1>2, <1>3 DEF ModelKnown, SessionsKnown

(* The inductive invariant: an edge expires no later than its workflow, a  *)
(* session an edge counted remembers the edge, no two sessions began with  *)
(* the same event, and the tables keep their bounds.                       *)
THEOREM SequenceInvariant == SequenceSpec => []SequenceIInv
<1>1. SequenceInit => SequenceIInv
  <2> SUFFICES ASSUME SequenceInit PROVE SequenceIInv
    OBVIOUS
  <2>1. PICK m : m = model
    OBVIOUS
  <2>2. m.sessions = None /\ m.edges = None /\ m.workflows = None /\ clock = 0 /\ events = 0
    BY <2>1 DEF SequenceInit
  <2>3. ModelKnown(m, 0)
    BY <2>2, EmptyKnown
  <2> QED BY <2>1, <2>2, <2>3 DEF SequenceIInv
<1>2. SequenceIInv /\ [SequenceNext]_seqVars => SequenceIInv'
  <2> SUFFICES ASSUME SequenceIInv, [SequenceNext]_seqVars PROVE SequenceIInv'
    OBVIOUS
  <2>0. clock \in Nat /\ events \in Nat /\ ModelKnown(model, events)
    BY DEF SequenceIInv
  <2>1. ASSUME NEW key \in Keys, NEW w \in Workflows, NEW o \in Ops, NEW t \in {clock, Later(0, clock - 1)},
               Process(key, w, o, t) PROVE SequenceIInv'
    <3>1. t \in Int
      BY <2>0 DEF Later
    <3> QED BY <2>1, <3>1, ProcessKeeps
  <2>2. CASE Prune
    <3>1. PICK m, n, t : m = model /\ n = events /\ t = clock
      OBVIOUS
    <3>2. n \in Nat /\ t \in Int /\ ModelKnown(m, n)
      BY <2>0, <3>1
    <3>3. ModelKnown(Pruned(m, t), n)
      BY <3>2, PrunedKnown
    <3>4. PICK z : z = model'
      OBVIOUS
    <3>5. z.sessions = Pruned(m, t).sessions /\ z.edges = Pruned(m, t).edges /\ z.workflows = Pruned(m, t).workflows
      BY <2>2, <3>1, <3>4 DEF Prune
    <3>6. ModelKnown(z, n)
      BY <3>3, <3>5, SameTables
    <3> QED BY <2>0, <2>2, <3>1, <3>4, <3>6 DEF Prune, SequenceIInv
  <2>3. CASE ResetAndRelearn
    <3>1. PICK z, n : z = model' /\ n = events
      OBVIOUS
    <3>2. ModelKnown(z, n)
      BY <2>3, <3>1, EmptyKnown DEF ResetAndRelearn
    <3> QED BY <2>0, <2>3, <3>1, <3>2 DEF ResetAndRelearn, SequenceIInv
  <2>4. CASE TimePasses
    BY <2>0, <2>4 DEF TimePasses, SequenceIInv
  <2>5. CASE \E d \in BOOLEAN : SetSequenceMode(d)
    BY <2>0, <2>5 DEF SetSequenceMode, SequenceIInv
  <2>6. CASE SetException("unknown")
    BY <2>0, <2>6 DEF SetException, SequenceIInv
  <2>7. CASE UNCHANGED seqVars
    BY <2>0, <2>7 DEF seqVars, SequenceIInv
  <2> QED BY <2>1, <2>2, <2>3, <2>4, <2>5, <2>6, <2>7 DEF SequenceNext
<1> QED BY <1>1, <1>2, PTL DEF SequenceSpec

(* An operation that was never seen to follow is reported when it does.    *)
LEMMA FirstTimeReported ==
  ASSUME SequenceIInv, NEW k \in DOMAIN model.sessions, NEW w \in Workflows, NEW o \in Ops,
         detecting, excepted = {}, Process(k, w, o, clock), k \in DOMAIN Pruned(model, clock).sessions,
         SourceReady(Pruned(model, clock), w, model.sessions[k].cur, clock),
         <<w, model.sessions[k].cur, o>> \notin DOMAIN Pruned(model, clock).edges
  PROVE  model'.verdicts # {}
<1>1. PICK m, n, t : m = model /\ n = events /\ t = clock
  OBVIOUS
<1>2. n \in Nat /\ t \in Int /\ ModelKnown(m, n)
  BY <1>1 DEF SequenceIInv
<1> DEFINE p == Pruned(m, t)
           s == p.sessions[k]
           e == <<w, s.cur, o>>
           run == IF s.cur = o THEN s.run + 1 ELSE 1
           v == StepVerdicts(p, w, s.cur, o, run, t)
<1>3. ModelKnown(p, n) /\ Fewer(m, p)
  BY <1>2, PrunedKnown DEF Rest
<1>4. k \in DOMAIN p.sessions /\ s = m.sessions[k]
  BY <1>1, <1>3 DEF Fewer
<1>5. s.cur # NoOp
  BY <1>3, <1>4, SequenceAssumption DEF ModelKnown, SessionsKnown
<1>6. detecting => model'.verdicts = ({} \cup v) \ excepted
  BY <1>1, <1>4, <1>5 DEF Process, JudgedBy
<1>7. SourceReady(p, w, s.cur, t) /\ e \notin DOMAIN p.edges
  BY <1>1, <1>4
<1>8. WorkflowMature(p, w, t)
  BY <1>7 DEF SourceReady
<1> HIDE DEF p
<1>9. v # {}
  BY <1>7, <1>8 DEF StepVerdicts
<1> QED BY <1>6, <1>9

(* What is learned has the evidence it claims, whatever expires, is evicted *)
(* or relearned, and no observation is evidence for itself.                *)
THEOREM SequencesAlwaysSound == SequenceSpec => SequencesSound
<1>1. SequenceIInv => LearnedModelSound
  BY DEF SequenceIInv, LearnedModelSound, ModelKnown, EdgeKnown, Within
<1>2. SequenceIInv /\ [SequenceNext]_seqVars =>
        [\A k \in DOMAIN model.sessions, w \in Workflows, o \in Ops :
           LET from == model.sessions[k].cur IN
           /\ detecting /\ excepted = {} /\ Process(k, w, o, clock)
           /\ k \in DOMAIN Pruned(model, clock).sessions
           /\ SourceReady(Pruned(model, clock), w, from, clock)
           /\ <<w, from, o>> \notin DOMAIN Pruned(model, clock).edges
           => model'.verdicts # {}]_seqVars
  BY FirstTimeReported
<1> QED BY <1>1, <1>2, SequenceInvariant, PTL DEF SequenceSpec, SequencesSound, FirstTimeIsReported

(***************************************************************************)
(* Evidence of broken object authorization: for any identities, objects,   *)
(* policies, limits and times, and accesses that come out of order.        *)
(***************************************************************************)

(* What the stores' helpers keep.                                          *)
LEMMA StoreFacts ==
  ASSUME NEW f
  PROVE  /\ \A S : DOMAIN Minus(f, S) = DOMAIN f \ S /\ \A y \in DOMAIN f \ S : Minus(f, S)[y] = f[y]
         /\ \A x, v : /\ DOMAIN Put(f, x, v) = DOMAIN f \cup {x} /\ Put(f, x, v)[x] = v
                      /\ \A y \in DOMAIN f : y # x => Put(f, x, v)[y] = f[y]
         /\ \A t : DOMAIN Alive(f, t) \subseteq DOMAIN f /\ \A y \in DOMAIN Alive(f, t) : Alive(f, t)[y] = f[y]
  BY DEF Minus, Put, Alive, Restrict

(* What is left of a bounded set is bounded, and what has room for one     *)
(* more can take it.                                                       *)
LEMMA RoomForOne ==
  ASSUME NEW A, IsFiniteSet(A), NEW max \in Nat, NEW B, NEW k
  PROVE  /\ B \subseteq A => IsFiniteSet(B) /\ (Cardinality(A) <= max => Cardinality(B) <= max)
         /\ B \subseteq A \cup {k} => IsFiniteSet(B) /\ (Cardinality(A) < max => Cardinality(B) <= max)
<1>1. Cardinality(A) \in Nat
  BY FS_CardinalityType
<1>2. ASSUME B \subseteq A PROVE IsFiniteSet(B) /\ (Cardinality(A) <= max => Cardinality(B) <= max)
  <2>1. IsFiniteSet(B) /\ Cardinality(B) <= Cardinality(A)
    BY <1>2, FS_Subset
  <2> QED BY <1>1, <2>1, FS_CardinalityType
<1>3. ASSUME B \subseteq A \cup {k} PROVE IsFiniteSet(B) /\ (Cardinality(A) < max => Cardinality(B) <= max)
  <2>1. /\ IsFiniteSet(A \cup {k})
        /\ Cardinality(A \cup {k}) = IF k \in A THEN Cardinality(A) ELSE Cardinality(A) + 1
    BY FS_AddElement
  <2>2. IsFiniteSet(B) /\ Cardinality(B) <= Cardinality(A \cup {k})
    BY <1>3, <2>1, FS_Subset
  <2>3. Cardinality(B) \in Nat
    BY <2>2, FS_CardinalityType
  <2> QED BY <1>1, <2>1, <2>2, <2>3
<1> QED BY <1>2, <1>3

(* Fewer candidates, fewer relationships.                                  *)
LEMMA FewerBounded ==
  ASSUME NEW f, NEW g, DOMAIN g \subseteq DOMAIN f
  PROVE  /\ EvidenceBounded(f) => EvidenceBounded(g)
         /\ RelationsBounded(f) => RelationsBounded(g)
<1>0. MaxEvidence \in Nat /\ MaxRelations \in Nat /\ MaxPerIdentity \in Nat /\ MaxPerObject \in Nat
  BY ObjectsAssumption
<1>1. ASSUME EvidenceBounded(f) PROVE EvidenceBounded(g)
  <2>1. IsFiniteSet(DOMAIN g) /\ Cardinality(DOMAIN g) <= MaxEvidence
    BY <1>0, <1>1, RoomForOne DEF EvidenceBounded
  <2>2. ASSUME NEW i \in Identities PROVE Cardinality({c \in DOMAIN g : c[2] = i}) <= MaxPerIdentity
    <3> DEFINE A == {c \in DOMAIN f : c[2] = i}
               B == {c \in DOMAIN g : c[2] = i}
    <3>1. IsFiniteSet(DOMAIN f) /\ Cardinality(A) <= MaxPerIdentity
      BY <1>1 DEF EvidenceBounded
    <3>2. IsFiniteSet(A) /\ B \subseteq A
      BY <3>1, FS_Subset
    <3> HIDE DEF A, B
    <3>3. Cardinality(B) <= MaxPerIdentity
      BY <1>0, <3>1, <3>2, RoomForOne
    <3> QED BY <3>3 DEF B
  <2>3. ASSUME NEW x \in Segments, NEW o \in Objects
        PROVE  Cardinality({c \in DOMAIN g : c[3] = x /\ c[4] = o}) <= MaxPerObject
    <3> DEFINE A == {c \in DOMAIN f : c[3] = x /\ c[4] = o}
               B == {c \in DOMAIN g : c[3] = x /\ c[4] = o}
    <3>1. IsFiniteSet(DOMAIN f) /\ Cardinality(A) <= MaxPerObject
      BY <1>1 DEF EvidenceBounded
    <3>2. IsFiniteSet(A) /\ B \subseteq A
      BY <3>1, FS_Subset
    <3> HIDE DEF A, B
    <3>3. Cardinality(B) <= MaxPerObject
      BY <1>0, <3>1, <3>2, RoomForOne
    <3> QED BY <3>3 DEF B
  <2> QED BY <2>1, <2>2, <2>3 DEF EvidenceBounded
<1>2. ASSUME RelationsBounded(f) PROVE RelationsBounded(g)
  <2>1. IsFiniteSet(DOMAIN g) /\ Cardinality(DOMAIN g) <= MaxRelations
    BY <1>0, <1>2, RoomForOne DEF RelationsBounded
  <2>2. ASSUME NEW i \in Identities PROVE Cardinality({r \in DOMAIN g : r[1] = i}) <= MaxPerIdentity
    <3> DEFINE A == {r \in DOMAIN f : r[1] = i}
               B == {r \in DOMAIN g : r[1] = i}
    <3>1. IsFiniteSet(DOMAIN f) /\ Cardinality(A) <= MaxPerIdentity
      BY <1>2 DEF RelationsBounded
    <3>2. IsFiniteSet(A) /\ B \subseteq A
      BY <3>1, FS_Subset
    <3> HIDE DEF A, B
    <3>3. Cardinality(B) <= MaxPerIdentity
      BY <1>0, <3>1, <3>2, RoomForOne
    <3> QED BY <3>3 DEF B
  <2>3. ASSUME NEW x \in Segments, NEW o \in Objects
        PROVE  Cardinality({r \in DOMAIN g : r[2] = x /\ r[3] = o}) <= MaxPerObject
    <3> DEFINE A == {r \in DOMAIN f : r[2] = x /\ r[3] = o}
               B == {r \in DOMAIN g : r[2] = x /\ r[3] = o}
    <3>1. IsFiniteSet(DOMAIN f) /\ Cardinality(A) <= MaxPerObject
      BY <1>2 DEF RelationsBounded
    <3>2. IsFiniteSet(A) /\ B \subseteq A
      BY <3>1, FS_Subset
    <3> HIDE DEF A, B
    <3>3. Cardinality(B) <= MaxPerObject
      BY <1>0, <3>1, <3>2, RoomForOne
    <3> QED BY <3>3 DEF B
  <2> QED BY <2>1, <2>2, <2>3 DEF RelationsBounded
<1> QED BY <1>1, <1>2

EvidenceFine(ev) == EvidenceBounded(ev) /\ \A c \in DOMAIN ev : ev[c].last \in Int

(* A candidate is recorded where there is room.                            *)
LEMMA RecordKeeps ==
  ASSUME NEW ev, EvidenceFine(ev), NEW w \in WorkRec, NEW kind, NEW confidence
  PROVE  EvidenceFine(Record(ev, w, kind, confidence))
<1> DEFINE live == Alive(ev, w.at)
           c == <<kind, w.who, w.loc, w.what>>
           new == Record(ev, w, kind, confidence)
<1>0. MaxEvidence \in Nat /\ MaxPerIdentity \in Nat /\ MaxPerObject \in Nat
  BY ObjectsAssumption
<1>1. /\ w.at \in Int /\ w.who \in Identities /\ w.loc \in Segments /\ w.what \in Objects
      /\ c[2] = w.who /\ c[3] = w.loc /\ c[4] = w.what
  BY DEF WorkRec
<1>2. DOMAIN live \subseteq DOMAIN ev /\ \A y \in DOMAIN live : live[y] = ev[y]
  BY StoreFacts
<1>3. EvidenceFine(live)
  BY <1>2, FewerBounded DEF EvidenceFine
<1>4. PICK v : /\ v.last = w.at
               /\ new = IF c \in DOMAIN live \/ HasRoom(live, w) THEN Put(live, c, v) ELSE live
  BY DEF Record
<1> HIDE DEF live, c, new
<1>5. /\ DOMAIN Put(live, c, v) = DOMAIN live \cup {c}
      /\ \A y \in DOMAIN live \cup {c} : Put(live, c, v)[y].last \in Int
  <2>1. /\ DOMAIN Put(live, c, v) = DOMAIN live \cup {c} /\ Put(live, c, v)[c] = v
        /\ \A y \in DOMAIN live : y # c => Put(live, c, v)[y] = live[y]
    BY DEF Put
  <2>2. \A y \in DOMAIN live : live[y].last \in Int
    BY <1>3 DEF EvidenceFine
  <2>3. v.last \in Int
    BY <1>1, <1>4
  <2>4. ASSUME NEW y \in DOMAIN live \cup {c} PROVE Put(live, c, v)[y].last \in Int
    <3>1. CASE y = c
      BY <2>1, <2>3, <3>1
    <3>2. CASE y # c
      BY <2>1, <2>2, <3>2
    <3> QED BY <3>1, <3>2
  <2> QED BY <2>1, <2>4
<1>6. CASE ~(c \in DOMAIN live \/ HasRoom(live, w))
  BY <1>3, <1>4, <1>6 DEF new
<1>7. CASE c \in DOMAIN live
  <2>1. new = Put(live, c, v) /\ DOMAIN new = DOMAIN live
    BY <1>4, <1>5, <1>7
  <2>2. EvidenceBounded(new)
    BY <1>3, <2>1, FewerBounded DEF EvidenceFine
  <2> QED BY <2>1, <2>2, <1>5 DEF EvidenceFine, new
<1>8. CASE c \notin DOMAIN live /\ HasRoom(live, w)
  <2>1. new = Put(live, c, v) /\ DOMAIN new = DOMAIN live \cup {c}
    BY <1>4, <1>5, <1>8
  <2>2. /\ IsFiniteSet(DOMAIN live) /\ Cardinality(DOMAIN live) < MaxEvidence
        /\ Cardinality({y \in DOMAIN live : y[2] = w.who}) < MaxPerIdentity
        /\ Cardinality({y \in DOMAIN live : y[3] = w.loc /\ y[4] = w.what}) < MaxPerObject
    BY <1>3, <1>8 DEF HasRoom, EvidenceFine, EvidenceBounded
  <2>3. IsFiniteSet(DOMAIN new) /\ Cardinality(DOMAIN new) <= MaxEvidence
    BY <1>0, <2>1, <2>2, RoomForOne
  <2>4. ASSUME NEW i \in Identities PROVE Cardinality({y \in DOMAIN new : y[2] = i}) <= MaxPerIdentity
    <3> DEFINE A == {y \in DOMAIN live : y[2] = i}
               B == {y \in DOMAIN new : y[2] = i}
    <3>1. IsFiniteSet(A) /\ Cardinality(A) <= MaxPerIdentity
      BY <1>3, <2>2, FS_Subset DEF EvidenceFine, EvidenceBounded
    <3>2. i = w.who => Cardinality(A) < MaxPerIdentity
      BY <2>2
    <3>3. IF i = w.who THEN B \subseteq A \cup {c} ELSE B \subseteq A
      BY <1>1, <2>1
    <3> HIDE DEF A, B
    <3>4. Cardinality(B) <= MaxPerIdentity
      BY <1>0, <3>1, <3>2, <3>3, RoomForOne
    <3> QED BY <3>4 DEF B
  <2>5. ASSUME NEW x \in Segments, NEW o \in Objects
        PROVE  Cardinality({y \in DOMAIN new : y[3] = x /\ y[4] = o}) <= MaxPerObject
    <3> DEFINE A == {y \in DOMAIN live : y[3] = x /\ y[4] = o}
               B == {y \in DOMAIN new : y[3] = x /\ y[4] = o}
    <3>1. IsFiniteSet(A) /\ Cardinality(A) <= MaxPerObject
      BY <1>3, <2>2, FS_Subset DEF EvidenceFine, EvidenceBounded
    <3>2. x = w.loc /\ o = w.what => Cardinality(A) < MaxPerObject
      BY <2>2
    <3>3. IF x = w.loc /\ o = w.what THEN B \subseteq A \cup {c} ELSE B \subseteq A
      BY <1>1, <2>1
    <3> HIDE DEF A, B
    <3>4. Cardinality(B) <= MaxPerObject
      BY <1>0, <3>1, <3>2, <3>3, RoomForOne
    <3> QED BY <3>4 DEF B
  <2>6. EvidenceBounded(new)
    BY <2>3, <2>4, <2>5 DEF EvidenceBounded
  <2> QED BY <2>1, <2>6, <1>5 DEF EvidenceFine, new
<1> QED BY <1>6, <1>7, <1>8

(* All that an access shows is recorded so.                                *)
LEMMA RecordedKeeps ==
  ASSUME NEW ev, EvidenceFine(ev), NEW w \in WorkRec, NEW found
  PROVE  EvidenceFine(Recorded(ev, w, found))
<1> DEFINE Step(e, k) == IF k \in DOMAIN found THEN Record(e, w, k, found[k]) ELSE e
<1>1. ASSUME NEW e, EvidenceFine(e), NEW k PROVE EvidenceFine(Step(e, k))
  BY <1>1, RecordKeeps
<1>2. Recorded(ev, w, found) = Step(Step(Step(ev, "identity"), "tenant"), "enumeration")
  BY DEF Recorded
<1> HIDE DEF Step
<1> QED BY <1>1, <1>2

(* An access joins the baseline where there is room.                       *)
LEMMA RelatedKeeps ==
  ASSUME NEW rs, RelationsBounded(rs), NEW w \in WorkRec
  PROVE  RelationsBounded(Related(rs, w))
<1> DEFINE live == Alive(rs, w.at)
           r == <<w.who, w.loc, w.what>>
           room == /\ Cardinality(DOMAIN live) < MaxRelations
                   /\ Cardinality({q \in DOMAIN live : q[1] = w.who}) < MaxPerIdentity
                   /\ Cardinality({q \in DOMAIN live : q[2] = w.loc /\ q[3] = w.what}) < MaxPerObject
           new == Related(rs, w)
<1>0. MaxRelations \in Nat /\ MaxPerIdentity \in Nat /\ MaxPerObject \in Nat
  BY ObjectsAssumption
<1>1. r[1] = w.who /\ r[2] = w.loc /\ r[3] = w.what
  OBVIOUS
<1>2. RelationsBounded(live)
  BY StoreFacts, FewerBounded
<1>3. PICK v : new = IF r \in DOMAIN live \/ room THEN Put(live, r, v) ELSE live
  BY DEF Related
<1> HIDE DEF live, r, new
<1>4. DOMAIN Put(live, r, v) = DOMAIN live \cup {r}
  BY StoreFacts
<1>5. CASE DOMAIN new = DOMAIN live
  BY <1>2, <1>5, FewerBounded DEF new
<1>6. CASE DOMAIN new = DOMAIN live \cup {r} /\ room
  <2>1. IsFiniteSet(DOMAIN live)
    BY <1>2 DEF RelationsBounded
  <2>2. IsFiniteSet(DOMAIN new) /\ Cardinality(DOMAIN new) <= MaxRelations
    BY <1>0, <1>6, <2>1, RoomForOne
  <2>3. ASSUME NEW i \in Identities PROVE Cardinality({q \in DOMAIN new : q[1] = i}) <= MaxPerIdentity
    <3> DEFINE A == {q \in DOMAIN live : q[1] = i}
               B == {q \in DOMAIN new : q[1] = i}
    <3>1. IsFiniteSet(A) /\ Cardinality(A) <= MaxPerIdentity
      BY <1>2, <2>1, FS_Subset DEF RelationsBounded
    <3>2. i = w.who => Cardinality(A) < MaxPerIdentity
      BY <1>6
    <3>3. IF i = w.who THEN B \subseteq A \cup {r} ELSE B \subseteq A
      BY <1>1, <1>6
    <3> HIDE DEF A, B, room
    <3>4. Cardinality(B) <= MaxPerIdentity
      BY <1>0, <3>1, <3>2, <3>3, RoomForOne
    <3> QED BY <3>4 DEF B
  <2>4. ASSUME NEW x \in Segments, NEW o \in Objects
        PROVE  Cardinality({q \in DOMAIN new : q[2] = x /\ q[3] = o}) <= MaxPerObject
    <3> DEFINE A == {q \in DOMAIN live : q[2] = x /\ q[3] = o}
               B == {q \in DOMAIN new : q[2] = x /\ q[3] = o}
    <3>1. IsFiniteSet(A) /\ Cardinality(A) <= MaxPerObject
      BY <1>2, <2>1, FS_Subset DEF RelationsBounded
    <3>2. x = w.loc /\ o = w.what => Cardinality(A) < MaxPerObject
      BY <1>6
    <3>3. IF x = w.loc /\ o = w.what THEN B \subseteq A \cup {r} ELSE B \subseteq A
      BY <1>1, <1>6
    <3> HIDE DEF A, B, room
    <3>4. Cardinality(B) <= MaxPerObject
      BY <1>0, <3>1, <3>2, <3>3, RoomForOne
    <3> QED BY <3>4 DEF B
  <2> QED BY <2>2, <2>3, <2>4 DEF RelationsBounded, new
<1>7. DOMAIN new = DOMAIN live \/ (DOMAIN new = DOMAIN live \cup {r} /\ room)
  <2> HIDE DEF room
  <2> QED BY <1>3, <1>4
<1> QED BY <1>5, <1>6, <1>7

-----------------------------------------------------------------------------
(* What the operator's own locators become.                                *)
LEMMA OwnedFacts ==
  ASSUME NEW ls, DOMAIN ls \subseteq Segments, NEW x \in Segments, NEW t, NEW source
  PROVE  /\ DOMAIN LiveLocators(ls, t) \subseteq Segments /\ Owned(LiveLocators(ls, t)) = Owned(ls)
         /\ DOMAIN Merged(ls, x, source, t) \subseteq Segments
         /\ Owned(Merged(ls, x, source, t)) = Owned(ls) \cup {y \in {x} : source = "OPERATOR"}
         /\ DOMAIN Undeclared(ls, x) \subseteq Segments /\ Owned(Undeclared(ls, x)) = Owned(ls) \ {x}
<1>1. DOMAIN LiveLocators(ls, t) \subseteq Segments /\ Owned(LiveLocators(ls, t)) = Owned(ls)
  BY DEF LiveLocators, Owned, Restrict, Declared
<1>2. /\ DOMAIN Merged(ls, x, source, t) \subseteq Segments
      /\ Owned(Merged(ls, x, source, t)) = Owned(ls) \cup {y \in {x} : source = "OPERATOR"}
  <2> DEFINE old == IF x \in DOMAIN ls THEN ls[x].sources ELSE {}
             v == [sources |-> old \cup {source}, expires |-> t + LocatorTTL]
             new == Put(ls, x, v)
  <2>1. Merged(ls, x, source, t) = new
    BY DEF Merged
  <2>2. /\ DOMAIN new = DOMAIN ls \cup {x} /\ new[x].sources = old \cup {source}
        /\ \A y \in DOMAIN ls : y # x => new[y] = ls[y]
    BY DEF Put
  <2> HIDE DEF new
  <2>3. Owned(new) = Owned(ls) \cup {y \in {x} : source = "OPERATOR"}
    BY <2>2 DEF Owned
  <2> QED BY <2>1, <2>2, <2>3
<1>3. DOMAIN Undeclared(ls, x) \subseteq Segments /\ Owned(Undeclared(ls, x)) = Owned(ls) \ {x}
  <2> DEFINE rest == ls[x].sources \ {"OPERATOR"}
  <2>1. CASE x \notin DOMAIN ls
    BY <2>1 DEF Undeclared, Owned
  <2>2. CASE x \in DOMAIN ls /\ rest = {}
    <3>1. Undeclared(ls, x) = Minus(ls, {x})
      BY <2>2 DEF Undeclared
    <3> QED BY <3>1 DEF Minus, Restrict, Owned
  <2>3. CASE x \in DOMAIN ls /\ rest # {}
    <3>1. Undeclared(ls, x) = [ls EXCEPT ![x] = [sources |-> rest, expires |-> ls[x].expires]]
      BY <2>3 DEF Undeclared
    <3> QED BY <3>1, <2>3 DEF Owned
  <2> QED BY <2>1, <2>2, <2>3
<1> QED BY <1>1, <1>2, <1>3

(* Observations, contracts and overrides only touch locators.              *)
LEMMA LocatorSteps ==
  ASSUME StoresInv,
         \/ NoteObservation \/ RefreshContracts
         \/ \E x \in Segments : DeleteOverride(x) \/ \E a \in {"INCLUDE", "SUPPRESS"} : UpsertOverride(x, a)
  PROVE  StoresInv'
<1>1. /\ UNCHANGED <<now, work, relations, evidence, reviews, reader>>
      /\ ObjectsTypeOK /\ ReviewsInv /\ StoresBounded /\ LocatorsInv
  BY DEF StoresInv, NoteObservation, RefreshContracts, DeleteOverride, UpsertOverride
<1>2. ReviewsInv' /\ StoresBounded'
  BY <1>1 DEF ReviewsInv, StoresBounded
<1>3. PICK ls, os, t : ls = locators /\ os = overrides /\ t = now
  OBVIOUS
<1>4. DOMAIN ls \subseteq Segments /\ DOMAIN os \subseteq Segments /\ Owned(ls) = {y \in DOMAIN os : os[y] = "INCLUDE"}
  BY <1>1, <1>3 DEF ObjectsTypeOK, LocatorsInv
<1>5. /\ DOMAIN locators' \subseteq Segments /\ DOMAIN overrides' \subseteq Segments /\ LocatorsInv'
  <2>1. CASE NoteObservation
    <3>1. locators' = Merged(LiveLocators(ls, t), "positional", "OBSERVED", t) /\ overrides' = os
      BY <2>1, <1>3 DEF NoteObservation
    <3>2. DOMAIN LiveLocators(ls, t) \subseteq Segments /\ Owned(LiveLocators(ls, t)) = Owned(ls)
      BY <1>4, OwnedFacts DEF Segments
    <3>3. DOMAIN locators' \subseteq Segments /\ Owned(locators') = Owned(ls)
      BY <3>1, <3>2, OwnedFacts DEF Segments
    <3> QED BY <1>4, <3>1, <3>3 DEF LocatorsInv, Owned
  <2>2. CASE RefreshContracts
    <3>1. locators' = Merged(ls, "named", "CONTRACT", t) /\ overrides' = os
      BY <2>2, <1>3 DEF RefreshContracts
    <3>2. DOMAIN locators' \subseteq Segments /\ Owned(locators') = Owned(ls)
      BY <1>4, <3>1, OwnedFacts DEF Segments
    <3> QED BY <1>4, <3>1, <3>2 DEF LocatorsInv, Owned
  <2>3. ASSUME NEW x \in Segments, DeleteOverride(x)
        PROVE  /\ DOMAIN locators' \subseteq Segments /\ DOMAIN overrides' \subseteq Segments /\ LocatorsInv'
    <3>1. /\ overrides' = Minus(os, {x}) /\ x \in DOMAIN os
          /\ locators' = IF os[x] = "INCLUDE" THEN Undeclared(ls, x) ELSE ls
      BY <2>3, <1>3 DEF DeleteOverride
    <3>2. DOMAIN locators' \subseteq Segments /\ Owned(locators') = Owned(ls) \ {x}
      <4>1. CASE os[x] = "INCLUDE"
        BY <1>4, <3>1, <4>1, OwnedFacts
      <4>2. CASE os[x] # "INCLUDE"
        BY <1>4, <3>1, <4>2
      <4> QED BY <4>1, <4>2
    <3>3. DOMAIN overrides' = DOMAIN os \ {x} /\ \A y \in DOMAIN os \ {x} : overrides'[y] = os[y]
      BY <3>1 DEF Minus, Restrict
    <3> QED BY <1>4, <3>2, <3>3 DEF LocatorsInv, Owned
  <2>4. ASSUME NEW x \in Segments, NEW a \in {"INCLUDE", "SUPPRESS"}, UpsertOverride(x, a)
        PROVE  /\ DOMAIN locators' \subseteq Segments /\ DOMAIN overrides' \subseteq Segments /\ LocatorsInv'
    <3>1. /\ overrides' = Put(os, x, a)
          /\ locators' = IF a = "INCLUDE" THEN Merged(ls, x, "OPERATOR", t)
                         ELSE IF x \in DOMAIN os /\ os[x] = "INCLUDE" THEN Undeclared(ls, x) ELSE ls
      BY <2>4, <1>3 DEF UpsertOverride
    <3>2. /\ DOMAIN locators' \subseteq Segments
          /\ Owned(locators') = IF a = "INCLUDE" THEN Owned(ls) \cup {x} ELSE Owned(ls) \ {x}
      <4>1. CASE a = "INCLUDE"
        BY <1>4, <3>1, <4>1, OwnedFacts
      <4>2. CASE a # "INCLUDE" /\ x \in DOMAIN os /\ os[x] = "INCLUDE"
        BY <1>4, <3>1, <4>2, OwnedFacts
      <4>3. CASE a # "INCLUDE" /\ ~(x \in DOMAIN os /\ os[x] = "INCLUDE")
        BY <1>4, <3>1, <4>3
      <4> QED BY <4>1, <4>2, <4>3
    <3>3. /\ DOMAIN overrides' = DOMAIN os \cup {x} /\ overrides'[x] = a
          /\ \A y \in DOMAIN os \ {x} : overrides'[y] = os[y]
      BY <3>1 DEF Put
    <3> QED BY <1>4, <3>2, <3>3 DEF LocatorsInv, Owned
  <2> QED BY <2>1, <2>2, <2>3, <2>4
<1>6. ObjectsTypeOK'
  BY <1>1, <1>5 DEF ObjectsTypeOK
<1> QED BY <1>2, <1>5, <1>6 DEF StoresInv

(* The stores a step only prunes.                                          *)
LEMMA PrunedKeeps ==
  ASSUME StoresInv,
         evidence' = evidence \/ (\E t : evidence' = Alive(evidence, t)),
         relations' = relations \/ (\E t : relations' = Alive(relations, t)),
         reviews' = reviews \/ (\E t : reviews' = Alive(reviews, t))
  PROVE  /\ StoresBounded' /\ ReviewsInv'
         /\ \A c \in DOMAIN evidence' : evidence'[c].last \in Int
<1>1. ObjectsTypeOK /\ ReviewsInv /\ StoresBounded
  BY DEF StoresInv
<1>2. /\ DOMAIN evidence' \subseteq DOMAIN evidence /\ \A c \in DOMAIN evidence' : evidence'[c] = evidence[c]
      /\ DOMAIN relations' \subseteq DOMAIN relations
      /\ DOMAIN reviews' \subseteq DOMAIN reviews /\ \A c \in DOMAIN reviews' : reviews'[c] = reviews[c]
  BY StoreFacts
<1>3. MaxReviews \in Nat
  BY ObjectsAssumption
<1>4. EvidenceBounded(evidence') /\ RelationsBounded(relations')
  BY <1>1, <1>2, FewerBounded DEF StoresBounded
<1>5. IsFiniteSet(DOMAIN reviews') /\ Cardinality(DOMAIN reviews') <= MaxReviews
  BY <1>1, <1>2, <1>3, RoomForOne DEF StoresBounded
<1>6. StoresBounded'
  BY <1>4, <1>5 DEF StoresBounded, EvidenceBounded, RelationsBounded
<1> QED BY <1>1, <1>2, <1>6 DEF ReviewsInv, ObjectsTypeOK

-----------------------------------------------------------------------------
(* An access finds its locator.                                            *)
LEMMA ResolveKeeps ==
  ASSUME StoresInv, NEW i \in Identities, NEW o \in Objects, NEW at \in {now - 1, now}, Resolve(i, o, at)
  PROVE  StoresInv'
<1>1. /\ UNCHANGED <<now, overrides, relations, evidence, reviews, reader>>
      /\ ObjectsTypeOK /\ ReviewsInv /\ StoresBounded /\ LocatorsInv
  BY DEF StoresInv, Resolve
<1>2. ReviewsInv' /\ StoresBounded'
  BY <1>1 DEF ReviewsInv, StoresBounded
<1>3. PICK ls, t : ls = locators /\ t = now
  OBVIOUS
<1>4. DOMAIN LiveLocators(ls, t) \subseteq Segments /\ Owned(LiveLocators(ls, t)) = Owned(ls)
  BY <1>1, <1>3, OwnedFacts DEF ObjectsTypeOK, Segments
<1>5. locators' = LiveLocators(ls, t)
  BY <1>3 DEF Resolve
<1>6. LocatorsInv'
  BY <1>1, <1>3, <1>4, <1>5 DEF LocatorsInv, Owned
<1>7. work' = NoWork \/ work' \in WorkRec
  <2>1. \/ work' = NoWork
        \/ \E x \in Resolved(LiveLocators(ls, t)) : work' = [who |-> i, what |-> o, at |-> at, loc |-> x]
    BY <1>3 DEF Resolve
  <2>2. Resolved(LiveLocators(ls, t)) \subseteq Segments
    BY <1>4 DEF Resolved, ActiveIn, Segments
  <2>3. at \in Int
    BY <1>1 DEF ObjectsTypeOK
  <2> QED BY <2>1, <2>2, <2>3 DEF WorkRec
<1>8. ObjectsTypeOK'
  BY <1>1, <1>4, <1>5, <1>7 DEF ObjectsTypeOK
<1> QED BY <1>2, <1>6, <1>8 DEF StoresInv

(* The worker judges and learns.                                           *)
LEMMA JudgeKeeps ==
  ASSUME StoresInv, Judge
  PROVE  StoresInv'
<1>1. /\ UNCHANGED <<now, locators, overrides, reviews, reader>> /\ work' = NoWork /\ work # NoWork
      /\ ObjectsTypeOK /\ ReviewsInv /\ StoresBounded /\ LocatorsInv
  BY DEF StoresInv, Judge
<1>2. work \in WorkRec
  BY <1>1 DEF ObjectsTypeOK
<1>3. EvidenceFine(evidence) /\ RelationsBounded(relations)
  BY <1>1 DEF ObjectsTypeOK, StoresBounded, EvidenceFine
<1>4. EvidenceFine(evidence')
  <2>1. PICK ev, w, found : ev = evidence /\ w = work /\ found = Divergence(work)
    OBVIOUS
  <2>2. evidence' = Recorded(ev, w, found)
    BY <2>1 DEF Judge
  <2> QED BY <1>2, <1>3, <2>1, <2>2, RecordedKeeps
<1>5. RelationsBounded(relations')
  <2>1. PICK rs, w : rs = relations /\ w = work
    OBVIOUS
  <2>2. relations' = Related(rs, w)
    BY <2>1 DEF Judge
  <2> QED BY <1>2, <1>3, <2>1, <2>2, RelatedKeeps
<1>6. StoresBounded'
  BY <1>1, <1>4, <1>5 DEF StoresBounded, EvidenceFine, EvidenceBounded, RelationsBounded
<1>7. LocatorsInv' /\ ReviewsInv'
  BY <1>1 DEF LocatorsInv, ReviewsInv, Owned
<1>8. ObjectsTypeOK'
  BY <1>1, <1>4 DEF ObjectsTypeOK, EvidenceFine
<1> QED BY <1>6, <1>7, <1>8 DEF StoresInv

(* A candidate is read for a decision.                                     *)
LEMMA ReadKeeps ==
  ASSUME StoresInv, NEW c \in DOMAIN evidence, ReadCandidate(c)
  PROVE  StoresInv'
<1>1. /\ UNCHANGED <<now, locators, overrides, work, relations, reviews>> /\ evidence' = Alive(evidence, now)
      /\ c \in DOMAIN evidence' /\ reader' = [who |-> c, last |-> evidence'[c].last]
      /\ ObjectsTypeOK /\ LocatorsInv
  BY DEF StoresInv, ReadCandidate
<1>2. StoresBounded' /\ ReviewsInv' /\ \A x \in DOMAIN evidence' : evidence'[x].last \in Int
  BY <1>1, PrunedKeeps
<1>3. reader' = [who |-> reader'.who, last |-> reader'.last] /\ reader'.last \in Int
  BY <1>1, <1>2
<1>4. ObjectsTypeOK'
  BY <1>1, <1>2, <1>3 DEF ObjectsTypeOK
<1>5. LocatorsInv'
  BY <1>1 DEF LocatorsInv, Owned
<1> QED BY <1>2, <1>4, <1>5 DEF StoresInv

(* A decision is stored with the time its reader saw.                      *)
LEMMA ReviewKeeps ==
  ASSUME StoresInv, NEW state, ReviewCandidate(state)
  PROVE  StoresInv'
<1>1. /\ UNCHANGED <<now, locators, overrides, work, relations, evidence>> /\ reader # NoWork /\ reader' = NoWork
      /\ ObjectsTypeOK /\ ReviewsInv /\ StoresBounded /\ LocatorsInv /\ MaxReviews \in Nat
  BY ObjectsAssumption DEF StoresInv, ReviewCandidate
<1>2. PICK live, c, v :
        /\ live = Alive(reviews, now) /\ c = reader.who
        /\ v = [state |-> state, last |-> reader.last, read |-> reader.last, expires |-> now + ReviewTTL]
  OBVIOUS
<1>3. reviews' = IF c \in DOMAIN live \/ Cardinality(DOMAIN live) < MaxReviews THEN Put(live, c, v) ELSE live
  BY <1>2 DEF ReviewCandidate, Stamp
<1>4. DOMAIN live \subseteq DOMAIN reviews /\ \A y \in DOMAIN live : live[y] = reviews[y]
  BY <1>2, StoreFacts
<1>5. IsFiniteSet(DOMAIN live) /\ Cardinality(DOMAIN live) <= MaxReviews
  BY <1>1, <1>4, RoomForOne DEF StoresBounded
<1>6. v.last \in Int /\ v.read = v.last
  BY <1>1, <1>2 DEF ObjectsTypeOK
<1>7. /\ DOMAIN Put(live, c, v) = DOMAIN live \cup {c} /\ Put(live, c, v)[c] = v
      /\ \A y \in DOMAIN live : y # c => Put(live, c, v)[y] = live[y]
  BY DEF Put
<1>8. ReviewsInv' /\ IsFiniteSet(DOMAIN reviews') /\ Cardinality(DOMAIN reviews') <= MaxReviews
  <2>1. CASE reviews' = live
    BY <1>1, <1>4, <1>5, <2>1 DEF ReviewsInv
  <2>2. CASE reviews' = Put(live, c, v) /\ (c \in DOMAIN live \/ Cardinality(DOMAIN live) < MaxReviews)
    <3>1. DOMAIN reviews' = DOMAIN live \cup {c}
      BY <1>7, <2>2
    <3>2. IsFiniteSet(DOMAIN reviews') /\ Cardinality(DOMAIN reviews') <= MaxReviews
      <4>1. CASE c \in DOMAIN live
        <5>1. DOMAIN reviews' = DOMAIN live
          BY <3>1, <4>1
        <5> QED BY <1>5, <5>1
      <4>2. CASE Cardinality(DOMAIN live) < MaxReviews
        BY <1>1, <1>5, <3>1, <4>2, RoomForOne
      <4> QED BY <2>2, <4>1, <4>2
    <3>3. ASSUME NEW y \in DOMAIN reviews' PROVE reviews'[y].last \in Int /\ reviews'[y].read = reviews'[y].last
      <4>1. CASE y = c
        BY <1>6, <1>7, <2>2, <4>1
      <4>2. CASE y # c
        <5>1. y \in DOMAIN reviews /\ reviews'[y] = reviews[y]
          BY <1>4, <1>7, <2>2, <3>1, <4>2
        <5> QED BY <1>1, <5>1 DEF ReviewsInv
      <4> QED BY <4>1, <4>2
    <3> QED BY <3>2, <3>3 DEF ReviewsInv
  <2> QED BY <1>3, <2>1, <2>2
<1>9. StoresBounded'
  BY <1>1, <1>8 DEF StoresBounded
<1>10. ObjectsTypeOK' /\ LocatorsInv'
  BY <1>1 DEF ObjectsTypeOK, LocatorsInv, Owned
<1> QED BY <1>8, <1>9, <1>10 DEF StoresInv

(* The operator's own locators survive a restart.                          *)
LEMMA RestartKeeps ==
  ASSUME StoresInv, Restart
  PROVE  StoresInv'
<1>1. /\ UNCHANGED <<now, overrides, work>> /\ reader' = NoWork
      /\ evidence' = Alive(evidence, now) /\ relations' = Alive(relations, now) /\ reviews' = Alive(reviews, now)
      /\ ObjectsTypeOK /\ LocatorsInv
  BY DEF StoresInv, Restart
<1>2. StoresBounded' /\ ReviewsInv' /\ \A x \in DOMAIN evidence' : evidence'[x].last \in Int
  BY <1>1, PrunedKeeps
<1>3. PICK ls, os, t, bound, included :
        /\ ls = Alive(locators, now) /\ os = overrides /\ t = now
        /\ bound = {x \in DOMAIN locators : "CONTRACT" \in locators[x].sources}
        /\ included = {x \in DOMAIN overrides : overrides[x] = "INCLUDE"}
  OBVIOUS
<1>4. DOMAIN ls \subseteq Segments /\ Owned(ls) \subseteq included /\ included \subseteq Segments
  <2>1. DOMAIN ls \subseteq DOMAIN locators /\ \A y \in DOMAIN ls : ls[y] = locators[y]
    BY <1>3, StoreFacts
  <2> QED BY <1>1, <1>3, <2>1 DEF ObjectsTypeOK, LocatorsInv, Owned
<1>5. PICK one, two :
        /\ one = IF "positional" \in included THEN Merged(ls, "positional", "OPERATOR", t) ELSE ls
        /\ two = IF "named" \in included THEN Merged(one, "named", "OPERATOR", t) ELSE one
  OBVIOUS
<1>6. locators' = IF "named" \in bound THEN Merged(two, "named", "CONTRACT", t) ELSE two
  BY <1>3, <1>5 DEF Restart
<1>7. DOMAIN one \subseteq Segments /\ Owned(one) = Owned(ls) \cup {y \in {"positional"} : y \in included}
  <2>1. CASE "positional" \in included
    BY <1>4, <1>5, <2>1, OwnedFacts DEF Segments
  <2>2. CASE "positional" \notin included
    BY <1>4, <1>5, <2>2
  <2> QED BY <2>1, <2>2
<1>8. DOMAIN two \subseteq Segments /\ Owned(two) = Owned(one) \cup {y \in {"named"} : y \in included}
  <2>1. CASE "named" \in included
    <3>1. two = Merged(one, "named", "OPERATOR", t) /\ "named" \in Segments
      BY <1>5, <2>1 DEF Segments
    <3>2. DOMAIN two \subseteq Segments /\ Owned(two) = Owned(one) \cup {y \in {"named"} : "OPERATOR" = "OPERATOR"}
      BY <1>7, <3>1, OwnedFacts
    <3> QED BY <3>2, <2>1
  <2>2. CASE "named" \notin included
    BY <1>5, <1>7, <2>2
  <2> QED BY <2>1, <2>2
<1>9. DOMAIN locators' \subseteq Segments /\ Owned(locators') = Owned(two)
  <2>1. CASE "named" \in bound
    BY <1>6, <1>8, <2>1, OwnedFacts DEF Segments
  <2>2. CASE "named" \notin bound
    BY <1>6, <1>8, <2>2
  <2> QED BY <2>1, <2>2
<1>10. Owned(locators') = included
  BY <1>4, <1>7, <1>8, <1>9 DEF Segments
<1>11. LocatorsInv'
  BY <1>1, <1>3, <1>10 DEF LocatorsInv, Owned
<1>12. ObjectsTypeOK'
  BY <1>1, <1>2, <1>9 DEF ObjectsTypeOK
<1> QED BY <1>2, <1>11, <1>12 DEF StoresInv

(* Views, policies and time.                                               *)
LEMMA OthersKeep ==
  ASSUME StoresInv,
         \/ View \/ TimeGoesOn \/ UNCHANGED objectVars
         \/ \E s \in Scopes :
              DeletePolicy(s) \/ \E a \in {"REVIEW", "SUPPRESS"}, e \in BOOLEAN : UpsertPolicy(s, a, e)
  PROVE  StoresInv'
<1>1. /\ UNCHANGED <<locators, overrides, work, reader>> /\ ObjectsTypeOK /\ LocatorsInv
      /\ evidence' = evidence \/ evidence' = Alive(evidence, now)
      /\ relations' = relations \/ relations' = Alive(relations, now)
      /\ reviews' = reviews \/ reviews' = Alive(reviews, now)
      /\ now' = now \/ now' = now + 1
  BY DEF StoresInv, View, TimeGoesOn, objectVars, DeletePolicy, UpsertPolicy
<1>2. StoresBounded' /\ ReviewsInv' /\ \A x \in DOMAIN evidence' : evidence'[x].last \in Int
  BY <1>1, PrunedKeeps
<1>3. ObjectsTypeOK'
  BY <1>1, <1>2 DEF ObjectsTypeOK
<1>4. LocatorsInv'
  BY <1>1 DEF LocatorsInv, Owned
<1> QED BY <1>2, <1>3, <1>4 DEF StoresInv

(* A policy is written at the time of its writing and stays so dated.      *)
LEMMA PoliciesKeep ==
  ASSUME ObjectsIInv, [ObjectsNext]_objectVars
  PROVE  PoliciesInv'
<1>1. now \in Int /\ PoliciesInv
  BY DEF ObjectsIInv, StoresInv, ObjectsTypeOK
<1>2. \/ policies' = policies \/ \E t : policies' = Alive(policies, t)
      \/ \E s : policies' = Minus(policies, {s})
      \/ \E s, v : policies' = Put(Alive(policies, now), s, v) /\ v.updated = now
  <2>1. CASE \/ NoteObservation \/ RefreshContracts \/ Judge \/ TimeGoesOn \/ UNCHANGED objectVars
    BY <2>1 DEF NoteObservation, RefreshContracts, Judge, TimeGoesOn, objectVars
  <2>2. CASE View \/ Restart
    BY <2>2 DEF View, Restart
  <2>3. CASE \E i \in Identities, o \in Objects, at \in {now - 1, now} : Resolve(i, o, at)
    BY <2>3 DEF Resolve
  <2>4. CASE \E x \in Segments :
               DeleteOverride(x) \/ \E a \in {"INCLUDE", "SUPPRESS"} : UpsertOverride(x, a)
    BY <2>4 DEF DeleteOverride, UpsertOverride
  <2>5. ASSUME NEW s \in Scopes, DeletePolicy(s) PROVE policies' = Minus(policies, {s})
    BY <2>5 DEF DeletePolicy
  <2>6. ASSUME NEW s \in Scopes, NEW a \in {"REVIEW", "SUPPRESS"}, NEW e \in BOOLEAN, UpsertPolicy(s, a, e)
        PROVE  \E v : policies' = Put(Alive(policies, now), s, v) /\ v.updated = now
    <3>1. policies' = Put(Alive(policies, now), s, [action |-> a, enabled |-> e, updated |-> now,
                                                    expires |-> now + PolicyTTL])
      BY <2>6 DEF UpsertPolicy
    <3> QED BY <3>1
  <2>7. CASE \E c \in DOMAIN evidence : ReadCandidate(c)
    BY <2>7 DEF ReadCandidate
  <2>8. CASE \E state \in Closed \cup {"OPEN", "ACKNOWLEDGED"} : ReviewCandidate(state)
    BY <2>8 DEF ReviewCandidate
  <2> QED BY <2>1, <2>2, <2>3, <2>4, <2>5, <2>6, <2>7, <2>8 DEF ObjectsNext
<1>3. CASE policies' = policies
  BY <1>1, <1>3 DEF PoliciesInv
<1>4. CASE \E t : policies' = Alive(policies, t)
  BY <1>1, <1>4, StoreFacts DEF PoliciesInv
<1>5. CASE \E s : policies' = Minus(policies, {s})
  BY <1>1, <1>5 DEF PoliciesInv, Minus, Restrict
<1>6. ASSUME NEW s, NEW v, policies' = Put(Alive(policies, now), s, v), v.updated = now
      PROVE  PoliciesInv'
  <2>1. PICK live : live = Alive(policies, now)
    OBVIOUS
  <2>2. \A x \in DOMAIN live : live[x].updated \in Int
    BY <1>1, <2>1, StoreFacts DEF PoliciesInv
  <2>3. DOMAIN policies' = DOMAIN live \cup {s} /\ \A x \in DOMAIN policies' : policies'[x] = IF x = s THEN v ELSE live[x]
    BY <1>6, <2>1 DEF Put
  <2> QED BY <1>1, <1>6, <2>2, <2>3 DEF PoliciesInv
<1> QED BY <1>2, <1>3, <1>4, <1>5, <1>6

(* The inductive invariant: reviews carry the time that was read, every    *)
(* store keeps its limits, and the operator's locators are those of the    *)
(* overrides in force.                                                     *)
THEOREM ObjectsInvariant == ObjectsSpec => []ObjectsIInv
<1>1. ObjectsInit => ObjectsIInv
  <2> SUFFICES ASSUME ObjectsInit PROVE ObjectsIInv
    OBVIOUS
  <2>1. /\ DOMAIN locators = {} /\ DOMAIN overrides = {} /\ DOMAIN evidence = {} /\ DOMAIN relations = {}
        /\ DOMAIN reviews = {} /\ now = 1 /\ work = NoWork /\ reader = NoWork
    BY DEF ObjectsInit, NoneYet
  <2>2. IsFiniteSet({}) /\ Cardinality({}) = 0
    BY FS_EmptySet
  <2>3. MaxEvidence \in Nat /\ MaxRelations \in Nat /\ MaxPerIdentity \in Nat /\ MaxPerObject \in Nat /\ MaxReviews \in Nat
    BY ObjectsAssumption
  <2>4. EvidenceBounded(evidence)
    <3>1. \A i : {c \in DOMAIN evidence : c[2] = i} = {}
      BY <2>1
    <3>2. \A x, o : {c \in DOMAIN evidence : c[3] = x /\ c[4] = o} = {}
      BY <2>1
    <3> QED BY <2>1, <2>2, <2>3, <3>1, <3>2 DEF EvidenceBounded
  <2>5. RelationsBounded(relations)
    <3>1. \A i : {c \in DOMAIN relations : c[1] = i} = {}
      BY <2>1
    <3>2. \A x, o : {c \in DOMAIN relations : c[2] = x /\ c[3] = o} = {}
      BY <2>1
    <3> QED BY <2>1, <2>2, <2>3, <3>1, <3>2 DEF RelationsBounded
  <2>6. StoresBounded
    BY <2>1, <2>2, <2>3, <2>4, <2>5 DEF StoresBounded
  <2>7. ObjectsTypeOK /\ ReviewsInv /\ LocatorsInv
    BY <2>1 DEF ObjectsTypeOK, ReviewsInv, LocatorsInv, Owned
  <2>8. PoliciesInv
    BY DEF ObjectsInit, PoliciesInv, NoneYet
  <2> QED BY <2>6, <2>7, <2>8 DEF ObjectsIInv, StoresInv
<1>2. ObjectsIInv /\ [ObjectsNext]_objectVars => ObjectsIInv'
  <2> SUFFICES ASSUME ObjectsIInv, [ObjectsNext]_objectVars PROVE ObjectsIInv'
    OBVIOUS
  <2>1. StoresInv /\ PoliciesInv'
    BY PoliciesKeep DEF ObjectsIInv
  <2>2. ASSUME NEW i \in Identities, NEW o \in Objects, NEW at \in {now - 1, now}, Resolve(i, o, at) PROVE StoresInv'
    BY <2>1, <2>2, ResolveKeeps
  <2>3. ASSUME NEW c \in DOMAIN evidence, ReadCandidate(c) PROVE StoresInv'
    BY <2>1, <2>3, ReadKeeps
  <2>4. ASSUME NEW state, ReviewCandidate(state) PROVE StoresInv'
    BY <2>1, <2>4, ReviewKeeps
  <2>5. StoresInv'
    BY <2>1, <2>2, <2>3, <2>4, LocatorSteps, JudgeKeeps, RestartKeeps, OthersKeep DEF ObjectsNext
  <2> QED BY <2>1, <2>5 DEF ObjectsIInv
<1> QED BY <1>1, <1>2, PTL DEF ObjectsSpec

(* What one policy's being above another says of what they were written    *)
(* for: every scope names a locator or none, a kind or none.               *)
LEMMA AboveFacts ==
  ASSUME NEW s, NEW t
  PROVE  /\ Narrower(t, s) => Above(t, s)
         /\ ~Narrower(t, s) /\ ~Narrower(s, t) /\ policies[t].updated > policies[s].updated => Above(t, s)
  BY DEF Narrower, Above, Specificity

(* A candidate that policy suppresses is covered by a suppression in force *)
(* which no review policy in force outdoes.                                *)
LEMMA SuppressedFact ==
  ASSUME ObjectsIInv, NEW c, SuppressedByPolicy(c)
  PROVE  \E s \in DOMAIN policies :
           /\ policies[s].action = "SUPPRESS" /\ InForce(s, c)
           /\ \A t \in DOMAIN policies :
                policies[t].action = "REVIEW" /\ InForce(t, c) =>
                  /\ ~Narrower(t, s)
                  /\ ~Narrower(s, t) => policies[t].updated <= policies[s].updated
<1>1. PICK s \in Governing(c) : policies[s].action = "SUPPRESS"
  BY DEF SuppressedByPolicy
<1>2. s \in DOMAIN policies /\ InForce(s, c)
  BY <1>1 DEF Governing, InForce
<1>3. ASSUME NEW t \in DOMAIN policies, InForce(t, c)
      PROVE  ~Narrower(t, s) /\ (~Narrower(s, t) => policies[t].updated <= policies[s].updated)
  <2>1. ~Above(t, s)
    BY <1>1, <1>3 DEF Governing, InForce
  <2>2. policies[s].updated \in Int /\ policies[t].updated \in Int
    BY <1>2 DEF ObjectsIInv, PoliciesInv
  <2> QED BY <2>1, <2>2, AboveFacts
<1> QED BY <1>1, <1>2, <1>3

(* No candidate is suppressed but by a policy in force that covers it and  *)
(* that no narrower or newer review policy in force outdoes, and none is   *)
(* closed but by a review of someone who had seen evidence as late as its  *)
(* last.                                                                   *)
THEOREM EvidenceAlwaysSurfaces == ObjectsSpec => []EvidenceSurfaces
<1>1. ObjectsIInv => EvidenceSurfaces
  <2> SUFFICES ASSUME ObjectsIInv, NEW c \in DOMAIN evidence
               PROVE  /\ SuppressedByPolicy(c) =>
                           \E s \in DOMAIN policies :
                             /\ policies[s].action = "SUPPRESS" /\ InForce(s, c)
                             /\ \A t \in DOMAIN policies :
                                  policies[t].action = "REVIEW" /\ InForce(t, c) =>
                                    /\ ~Narrower(t, s)
                                    /\ ~Narrower(s, t) => policies[t].updated <= policies[s].updated
                      /\ Hidden(c) => evidence[c].last <= reviews[c].read
    BY DEF EvidenceSurfaces
  <2>1. ASSUME Hidden(c) PROVE evidence[c].last <= reviews[c].read
    <3>1. c \in DOMAIN reviews /\ ~(evidence[c].last > reviews[c].last)
      BY <2>1 DEF Hidden, Reopened
    <3>2. evidence[c].last \in Int /\ reviews[c].last \in Int /\ reviews[c].read = reviews[c].last
      BY <3>1 DEF ObjectsIInv, StoresInv, ObjectsTypeOK, ReviewsInv
    <3> QED BY <3>1, <3>2
  <2> QED BY <2>1, SuppressedFact
<1> QED BY <1>1, ObjectsInvariant, PTL
=============================================================================
