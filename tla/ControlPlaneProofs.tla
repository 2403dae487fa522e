------------------------- MODULE ControlPlaneProofs -------------------------
(***************************************************************************)
(* Theorems about ControlPlane, for every set of clients, configurations,  *)
(* request kinds and faults.                                               *)
(***************************************************************************)
EXTENDS ControlPlane, TLAPS

USE DEF fileVars, netVars, txnVars

(* A configuration built from the live one is a configuration.             *)
LEMMA DerivedConfig ==
  ASSUME NEW c \in Config
  PROVE  /\ \A r \in Revs : [c EXCEPT !.shared = r] \in Config
         /\ c.local < MaxLocal => [c EXCEPT !.local = @ + 1] \in Config
BY BoundsAssumption DEF Config

(* The initial state has the types.                                        *)
LEMMA TypeInit == Init => TypeOK
<1> SUFFICES ASSUME Init PROVE TypeOK
  OBVIOUS
<1> USE ClientsAssumption, BoundsAssumption
<1>1. PICK c \in Config :
         /\ live = c /\ want = c /\ back = c
         /\ front = c /\ listen = c /\ addrs = c
         /\ snap = [i \in Clients |-> c]
         /\ disk = [cfg |-> c, at |-> 0]
         /\ residue = {[cfg |-> c, at |-> 0]}
  BY DEF Init
<1>2. disk \in File /\ residue \subseteq File
  BY <1>1 DEF File
<1>3. snap \in [Clients -> Config]
  BY <1>1
<1>4. pc \in [Clients -> {"idle", "reload", "cleanup"}]
  BY DEF Init
<1>5. /\ up = TRUE /\ lock = None /\ kind = "none" /\ phase = "none" /\ published = FALSE
      /\ clock = 0 /\ draft = 0 /\ torn = FALSE /\ adrift = FALSE /\ acked = 0 /\ owed = 0
  BY DEF Init
<1>6. lock \in Clients \cup {None} /\ phase \in Phases
  BY <1>5 DEF Phases
<1>7. /\ clock \in 0..MaxWrites /\ draft \in 0..MaxWrites /\ owed \in 0..MaxWrites
      /\ acked \in Nat
  BY <1>5
<1> QED
  BY <1>1, <1>2, <1>3, <1>4, <1>5, <1>6, <1>7 DEF TypeOK

(* Taking the lock for a configuration keeps the types of what it sets.    *)
LEMMA LockTypes ==
  ASSUME TypeOK, NEW c \in Clients, NEW cfg \in Config,
         NEW k \in {"put", "mutate", "peer", "reload"}, Lock(c, k, cfg),
         pc' \in [Clients -> {"idle", "reload", "cleanup"}], clock' \in 0..MaxWrites
  PROVE  TypeOK'
BY DEF TypeOK, Lock, Phases

(* The clock stays within its bound.                                       *)
LEMMA StageTypes == TypeOK /\ Stage => clock' \in 0..MaxWrites
BY BoundsAssumption DEF TypeOK, Stage

(* Every step keeps the types.                                             *)
LEMMA TypeStep == TypeOK /\ [Next]_vars => TypeOK'
<1> SUFFICES ASSUME TypeOK, [Next]_vars PROVE TypeOK'
  OBVIOUS
<1> USE ClientsAssumption, BoundsAssumption
<1>0. CASE UNCHANGED vars
  BY <1>0 DEF vars, TypeOK
<1>1. ASSUME NEW c \in Clients, PutConfig(c) PROVE TypeOK'
  <2>1. PICK r \in Revs : Lock(c, "put", Merge(live, r))
    BY <1>1 DEF PutConfig
  <2>2. Merge(live, r) \in Config
    BY DerivedConfig DEF TypeOK, Merge
  <2>3. clock' \in 0..MaxWrites
    BY <1>1, StageTypes DEF PutConfig
  <2>4. pc' \in [Clients -> {"idle", "reload", "cleanup"}]
    BY <1>1 DEF PutConfig, TypeOK
  <2> QED
    BY <2>1, <2>2, <2>3, <2>4, LockTypes
<1>2. ASSUME NEW c \in Clients, Mutate(c) PROVE TypeOK'
  <2>1. [live EXCEPT !.local = @ + 1] \in Config
    BY <1>2, DerivedConfig DEF TypeOK, Mutate
  <2>2. clock' \in 0..MaxWrites
    BY <1>2, StageTypes DEF Mutate
  <2>3. pc' \in [Clients -> {"idle", "reload", "cleanup"}]
    BY <1>2 DEF Mutate, TypeOK
  <2> QED
    BY <1>2, <2>1, <2>2, <2>3, LockTypes DEF Mutate
<1>3. ASSUME NEW c \in Clients, PeerConfig(c) PROVE TypeOK'
  <2>1. PICK r \in Revs : Lock(c, "peer", Merge(live, r))
    BY <1>3 DEF PeerConfig
  <2>2. Merge(live, r) \in Config
    BY DerivedConfig DEF TypeOK, Merge
  <2>3. clock' \in 0..MaxWrites
    BY <1>3, StageTypes DEF PeerConfig
  <2>4. pc' \in [Clients -> {"idle", "reload", "cleanup"}]
    BY <1>3 DEF PeerConfig, TypeOK
  <2> QED
    BY <2>1, <2>2, <2>3, <2>4, LockTypes
<1>4. ASSUME NEW c \in Clients, ReloadRead(c) PROVE TypeOK'
  BY <1>4 DEF ReloadRead, TypeOK, Phases
<1>5. ASSUME NEW c \in Clients, Reload(c) PROVE TypeOK'
  BY <1>5 DEF Reload, Lock, TypeOK, Phases
<1>6. ASSUME NEW c \in Clients, SaveDraft(c) PROVE TypeOK'
  BY <1>6 DEF SaveDraft, Stage, TypeOK, Phases
<1>7. ASSUME NEW c \in Clients, DiscardDraft(c) PROVE TypeOK'
  BY <1>7 DEF DiscardDraft, TypeOK, Phases
<1>8. ASSUME NEW c \in Clients, Build(c) PROVE TypeOK'
  BY <1>8 DEF Build, FirstStep, At, GoTo, GiveUp, Return, Locals, Carry, TypeOK, Phases
<1>9. ASSUME NEW c \in Clients, HandBack(c) PROVE TypeOK'
  BY <1>9 DEF HandBack, At, GoTo, GiveUp, Return, Locals, Undo, TypeOK, Phases
<1>10. ASSUME NEW c \in Clients, ReconcileListeners(c) PROVE TypeOK'
  BY <1>10 DEF ReconcileListeners, At, GoTo, GiveUp, Return, Locals, Carry, Undo, TypeOK, Phases
<1>11. ASSUME NEW c \in Clients, ReconcileAddrs(c) PROVE TypeOK'
  BY <1>11 DEF ReconcileAddrs, At, GoTo, TypeOK, Phases
<1>12. ASSUME NEW c \in Clients, PublishFront(c) PROVE TypeOK'
  <2>1. published' \in BOOLEAN
    <3>1. FE(want) \in BOOLEAN
      BY DEF FE
    <3>2. (published \/ FE(want)) \in BOOLEAN
      BY Zenon
    <3>3. CASE published' = (published \/ FE(want))
      BY <3>2, <3>3, Zenon
    <3>4. CASE published' = FE(want)
      BY <3>1, <3>4, Zenon
    <3> QED
      BY <1>12, <3>3, <3>4, Zenon DEF PublishFront
  <2>2. front' \in Config
    BY <1>12 DEF PublishFront, TypeOK
  <2> QED
    BY <1>12, <2>1, <2>2 DEF PublishFront, At, GoTo, TypeOK, Phases
<1>13. ASSUME NEW c \in Clients, Swap(c) PROVE TypeOK'
  <2>1. adrift' \in BOOLEAN
    BY <1>13 DEF Swap, TypeOK
  <2>2. CASE kind \in {"reload", "rollback"}
    BY <1>13, <2>1, <2>2 DEF Swap, At, Return, Locals, TypeOK, Phases
  <2>3. CASE kind \notin {"reload", "rollback"}
    BY <1>13, <2>1, <2>3 DEF Swap, At, GoTo, Carry, TypeOK, Phases
  <2> QED
    BY <2>2, <2>3
<1>14. ASSUME NEW c \in Clients, UndoFront(c) PROVE TypeOK'
  BY <1>14 DEF UndoFront, At, GoTo, Undo, TypeOK, Phases
<1>15. ASSUME NEW c \in Clients, UndoAddrs(c) PROVE TypeOK'
  BY <1>15 DEF UndoAddrs, At, GoTo, Undo, TypeOK, Phases
<1>16. ASSUME NEW c \in Clients, UndoListen(c) PROVE TypeOK'
  BY <1>16 DEF UndoListen, At, GoTo, Undo, TypeOK, Phases
<1>17. ASSUME NEW c \in Clients, RestoreFront(c) PROVE TypeOK'
  BY <1>17 DEF RestoreFront, At, GiveUp, Return, Locals, Undo, TypeOK, Phases
<1>18. ASSUME NEW c \in Clients, Commit(c) PROVE TypeOK'
  <2>1. disk' \in File /\ residue' \subseteq File
    BY <1>18 DEF Commit, TypeOK, File
  <2>2. acked' \in Nat
    BY <1>18 DEF Commit, TypeOK
  <2>3. pc' \in [Clients -> {"idle", "reload", "cleanup"}]
    BY <1>18 DEF Commit, TypeOK
  <2> QED
    <3>1. /\ lock' = None /\ phase' = "none" /\ kind' = "none"
          /\ want' = live /\ back' = live /\ published' = FALSE
          /\ adrift' = FALSE /\ owed' = 0
          /\ UNCHANGED <<up, snap, live, clock, draft, front, listen, addrs, torn>>
      BY <1>18 DEF Commit, Return, Locals
    <3>2. phase' \in Phases /\ kind' \in {"none"}
      BY <3>1 DEF Phases
    <3>3. /\ clock' \in 0..MaxWrites /\ draft' \in 0..MaxWrites /\ owed' \in 0..MaxWrites
      BY <3>1 DEF TypeOK
    <3>4. /\ want' \in Config /\ back' \in Config /\ live' \in Config
          /\ front' \in Config /\ listen' \in Config /\ addrs' \in Config
      BY <3>1 DEF TypeOK
    <3> QED
      BY <2>1, <2>2, <2>3, <3>1, <3>2, <3>3, <3>4 DEF TypeOK
<1>19. ASSUME NEW c \in Clients, RenameFails(c) PROVE TypeOK'
  BY <1>19 DEF RenameFails, At, TypeOK, Phases
<1>20. ASSUME NEW c \in Clients, CleanUpDraft(c) PROVE TypeOK'
  BY <1>20 DEF CleanUpDraft, TypeOK, Phases
<1>21. CASE Crash
  BY <1>21 DEF Crash, Down, Locals, TypeOK, Phases, File, LoadDraft
<1>22. CASE PowerLoss
  <2>1. disk' \in File /\ residue' \subseteq File
    BY <1>22 DEF PowerLoss, TypeOK
  <2>2. acked' \in Nat /\ owed' \in 0..MaxWrites
    BY <1>22 DEF PowerLoss, Down, TypeOK, LoadDraft
  <2>3. disk'.cfg \in Config
    BY <2>1 DEF File
  <2> QED
    BY <1>22, <2>1, <2>2, <2>3 DEF PowerLoss, Down, Locals, TypeOK, Phases
<1>23. CASE Boot
  BY <1>23 DEF Boot, Down, Locals, TypeOK, Phases, File, LoadDraft
<1> QED
  BY <1>0, <1>1, <1>2, <1>3, <1>4, <1>5, <1>6, <1>7, <1>8, <1>9, <1>10, <1>11, <1>12, <1>13, <1>14, <1>15, <1>16, <1>17, <1>18, <1>19, <1>20, <1>21, <1>22, <1>23 DEF Next, Request, Step
(* Every step keeps the shape of the transaction.                          *)
LEMMA PhaseStep == TypeOK /\ PhaseInv /\ [Next]_vars => PhaseInv'
<1> SUFFICES ASSUME TypeOK, PhaseInv, [Next]_vars PROVE PhaseInv'
  OBVIOUS
<1> USE ClientsAssumption DEF PhaseInv, FE
<1>0. CASE UNCHANGED vars
  BY <1>0 DEF vars
<1>1. ASSUME NEW c \in Clients, PutConfig(c) PROVE PhaseInv'
  BY <1>1 DEF PutConfig, Lock
<1>2. ASSUME NEW c \in Clients, Mutate(c) PROVE PhaseInv'
  BY <1>2 DEF Mutate, Lock
<1>3. ASSUME NEW c \in Clients, PeerConfig(c) PROVE PhaseInv'
  BY <1>3 DEF PeerConfig, Lock
<1>4. ASSUME NEW c \in Clients, ReloadRead(c) PROVE PhaseInv'
  BY <1>4 DEF ReloadRead
<1>5. ASSUME NEW c \in Clients, Reload(c) PROVE PhaseInv'
  BY <1>5 DEF Reload, Lock
<1>6. ASSUME NEW c \in Clients, SaveDraft(c) PROVE PhaseInv'
  BY <1>6 DEF SaveDraft
<1>7. ASSUME NEW c \in Clients, DiscardDraft(c) PROVE PhaseInv'
  BY <1>7 DEF DiscardDraft
<1>8. ASSUME NEW c \in Clients, Build(c) PROVE PhaseInv'
  BY <1>8 DEF Build, FirstStep, At, GoTo, GiveUp, Return, Locals, Carry
<1>9. ASSUME NEW c \in Clients, HandBack(c) PROVE PhaseInv'
  BY <1>9 DEF HandBack, At, GoTo, GiveUp, Return, Locals, Undo
<1>10. ASSUME NEW c \in Clients, ReconcileListeners(c) PROVE PhaseInv'
  BY <1>10 DEF ReconcileListeners, At, GoTo, GiveUp, Return, Locals, Carry
<1>11. ASSUME NEW c \in Clients, ReconcileAddrs(c) PROVE PhaseInv'
  BY <1>11 DEF ReconcileAddrs, At, GoTo
<1>12. ASSUME NEW c \in Clients, PublishFront(c) PROVE PhaseInv'
  BY <1>12 DEF PublishFront, At, GoTo
<1>13. ASSUME NEW c \in Clients, Swap(c) PROVE PhaseInv'
  BY <1>13 DEF Swap, At, GoTo, Return, Locals, Carry, TypeOK
<1>14. ASSUME NEW c \in Clients, UndoFront(c) PROVE PhaseInv'
  BY <1>14 DEF UndoFront, At, GoTo, Undo
<1>15. ASSUME NEW c \in Clients, UndoAddrs(c) PROVE PhaseInv'
  BY <1>15 DEF UndoAddrs, At, GoTo, Undo
<1>16. ASSUME NEW c \in Clients, UndoListen(c) PROVE PhaseInv'
  BY <1>16 DEF UndoListen, At, GoTo, Undo
<1>17. ASSUME NEW c \in Clients, RestoreFront(c) PROVE PhaseInv'
  BY <1>17 DEF RestoreFront, At, GiveUp, Return, Locals, Undo
<1>18. ASSUME NEW c \in Clients, Commit(c) PROVE PhaseInv'
  BY <1>18 DEF Commit, Return, Locals
<1>19. ASSUME NEW c \in Clients, RenameFails(c) PROVE PhaseInv'
  BY <1>19 DEF RenameFails, At
<1>20. ASSUME NEW c \in Clients, CleanUpDraft(c) PROVE PhaseInv'
  BY <1>20 DEF CleanUpDraft
<1>21. CASE Crash
  BY <1>21 DEF Crash, Down, Locals
<1>22. CASE PowerLoss
  BY <1>22 DEF PowerLoss, Down, Locals
<1>23. CASE Boot
  BY <1>23 DEF Boot
<1> QED
  BY <1>0, <1>1, <1>2, <1>3, <1>4, <1>5, <1>6, <1>7, <1>8, <1>9, <1>10, <1>11, <1>12, <1>13, <1>14, <1>15, <1>16, <1>17, <1>18, <1>19, <1>20, <1>21, <1>22, <1>23 DEF Next, Request, Step

(* Every step keeps the network where the phase says it is.                *)
LEMMA NetworkStep == TypeOK /\ PhaseInv /\ NetworkInv /\ [Next]_vars => NetworkInv'
<1> SUFFICES ASSUME TypeOK, PhaseInv, NetworkInv, [Next]_vars PROVE NetworkInv'
  OBVIOUS
<1> USE ClientsAssumption DEF NetworkInv
<1>0. CASE UNCHANGED vars
  BY <1>0 DEF vars
<1>1. ASSUME NEW c \in Clients, PutConfig(c) PROVE NetworkInv'
  BY <1>1 DEF PutConfig, Lock, PhaseInv, FE
<1>2. ASSUME NEW c \in Clients, Mutate(c) PROVE NetworkInv'
  BY <1>2 DEF Mutate, Lock, PhaseInv, FE
<1>3. ASSUME NEW c \in Clients, PeerConfig(c) PROVE NetworkInv'
  BY <1>3 DEF PeerConfig, Lock, PhaseInv, FE
<1>4. ASSUME NEW c \in Clients, ReloadRead(c) PROVE NetworkInv'
  BY <1>4 DEF ReloadRead, PhaseInv, FE
<1>5. ASSUME NEW c \in Clients, Reload(c) PROVE NetworkInv'
  BY <1>5 DEF Reload, Lock, PhaseInv, FE
<1>6. ASSUME NEW c \in Clients, SaveDraft(c) PROVE NetworkInv'
  BY <1>6 DEF SaveDraft, PhaseInv, FE
<1>7. ASSUME NEW c \in Clients, DiscardDraft(c) PROVE NetworkInv'
  BY <1>7 DEF DiscardDraft, PhaseInv, FE
<1>8. ASSUME NEW c \in Clients, Build(c) PROVE NetworkInv'
  BY <1>8 DEF Build, FirstStep, At, GoTo, GiveUp, Return, Locals, Carry, PhaseInv, FE
<1>9. ASSUME NEW c \in Clients, HandBack(c) PROVE NetworkInv'
  BY <1>9 DEF HandBack, At, GoTo, GiveUp, Return, Locals, Undo, PhaseInv, FE
<1>10. ASSUME NEW c \in Clients, ReconcileListeners(c) PROVE NetworkInv'
  BY <1>10 DEF ReconcileListeners, At, GoTo, GiveUp, Return, Locals, Carry, Undo, PhaseInv, FE
<1>11. ASSUME NEW c \in Clients, ReconcileAddrs(c) PROVE NetworkInv'
  BY <1>11 DEF ReconcileAddrs, At, GoTo, PhaseInv, FE
<1>12. ASSUME NEW c \in Clients, PublishFront(c) PROVE NetworkInv'
  BY <1>12 DEF PublishFront, At, GoTo, PhaseInv, FE
<1>13. ASSUME NEW c \in Clients, Swap(c) PROVE NetworkInv'
  BY <1>13 DEF Swap, At, GoTo, Return, Locals, Carry, PhaseInv, FE
<1>14. ASSUME NEW c \in Clients, UndoFront(c) PROVE NetworkInv'
  BY <1>14 DEF UndoFront, At, GoTo, Undo, PhaseInv, FE
<1>15. ASSUME NEW c \in Clients, UndoAddrs(c) PROVE NetworkInv'
  BY <1>15 DEF UndoAddrs, At, GoTo, Undo, PhaseInv, FE
<1>16. ASSUME NEW c \in Clients, UndoListen(c) PROVE NetworkInv'
  BY <1>16 DEF UndoListen, At, GoTo, Undo, PhaseInv, FE
<1>17. ASSUME NEW c \in Clients, RestoreFront(c) PROVE NetworkInv'
  BY <1>17 DEF RestoreFront, At, GiveUp, Return, Locals, Undo, PhaseInv, FE
<1>18. ASSUME NEW c \in Clients, Commit(c) PROVE NetworkInv'
  BY <1>18 DEF Commit, Return, Locals, PhaseInv, FE
<1>19. ASSUME NEW c \in Clients, RenameFails(c) PROVE NetworkInv'
  BY <1>19 DEF RenameFails, At, PhaseInv, FE
<1>20. ASSUME NEW c \in Clients, CleanUpDraft(c) PROVE NetworkInv'
  BY <1>20 DEF CleanUpDraft, PhaseInv, FE
<1>21. CASE Crash
  BY <1>21 DEF Crash, Down, Locals, PhaseInv, FE
<1>22. CASE PowerLoss
  BY <1>22 DEF PowerLoss, Down, Locals, PhaseInv, FE
<1>23. CASE Boot
  BY <1>23 DEF Boot, PhaseInv, FE
<1> QED
  BY <1>0, <1>1, <1>2, <1>3, <1>4, <1>5, <1>6, <1>7, <1>8, <1>9, <1>10, <1>11, <1>12, <1>13, <1>14, <1>15, <1>16, <1>17, <1>18, <1>19, <1>20, <1>21, <1>22, <1>23 DEF Next, Request, Step

(* Every step keeps live and disk together unless it says otherwise.       *)
LEMMA FileStep == TypeOK /\ PhaseInv /\ FileInv /\ [Next]_vars => FileInv'
<1> SUFFICES ASSUME TypeOK, PhaseInv, FileInv, [Next]_vars PROVE FileInv'
  OBVIOUS
<1> USE ClientsAssumption DEF FileInv
<1>0. CASE UNCHANGED vars
  BY <1>0 DEF vars
<1>1. ASSUME NEW c \in Clients, PutConfig(c) PROVE FileInv'
  BY <1>1 DEF PutConfig, Lock, PhaseInv
<1>2. ASSUME NEW c \in Clients, Mutate(c) PROVE FileInv'
  BY <1>2 DEF Mutate, Lock, PhaseInv
<1>3. ASSUME NEW c \in Clients, PeerConfig(c) PROVE FileInv'
  BY <1>3 DEF PeerConfig, Lock, PhaseInv
<1>4. ASSUME NEW c \in Clients, ReloadRead(c) PROVE FileInv'
  BY <1>4 DEF ReloadRead, PhaseInv
<1>5. ASSUME NEW c \in Clients, Reload(c) PROVE FileInv'
  BY <1>5 DEF Reload, Lock, PhaseInv
<1>6. ASSUME NEW c \in Clients, SaveDraft(c) PROVE FileInv'
  BY <1>6 DEF SaveDraft, PhaseInv
<1>7. ASSUME NEW c \in Clients, DiscardDraft(c) PROVE FileInv'
  BY <1>7 DEF DiscardDraft, PhaseInv
<1>8. ASSUME NEW c \in Clients, Build(c) PROVE FileInv'
  <2>1. CASE GiveUp
    BY <1>8, <2>1 DEF Build, FirstStep, At, GiveUp, Return, Locals, PhaseInv
  <2>2. CASE ~GiveUp
    BY <1>8, <2>2 DEF Build, FirstStep, At, GoTo, Carry, PhaseInv
  <2> QED
    BY <2>1, <2>2
<1>9. ASSUME NEW c \in Clients, HandBack(c) PROVE FileInv'
  <2>1. CASE GiveUp
    BY <1>9, <2>1 DEF HandBack, At, GiveUp, Return, Locals, PhaseInv
  <2>2. CASE ~GiveUp
    BY <1>9, <2>2 DEF HandBack, At, GoTo, PhaseInv
  <2> QED
    BY <2>1, <2>2
<1>10. ASSUME NEW c \in Clients, ReconcileListeners(c) PROVE FileInv'
  BY <1>10 DEF ReconcileListeners, At, GoTo, GiveUp, Return, Locals, Carry, PhaseInv
<1>11. ASSUME NEW c \in Clients, ReconcileAddrs(c) PROVE FileInv'
  BY <1>11 DEF ReconcileAddrs, At, GoTo, PhaseInv
<1>12. ASSUME NEW c \in Clients, PublishFront(c) PROVE FileInv'
  BY <1>12 DEF PublishFront, At, GoTo, PhaseInv
<1>13. ASSUME NEW c \in Clients, Swap(c) PROVE FileInv'
  BY <1>13 DEF Swap, At, GoTo, Return, Locals, Carry, PhaseInv
<1>14. ASSUME NEW c \in Clients, UndoFront(c) PROVE FileInv'
  BY <1>14 DEF UndoFront, At, GoTo, Undo, PhaseInv
<1>15. ASSUME NEW c \in Clients, UndoAddrs(c) PROVE FileInv'
  BY <1>15 DEF UndoAddrs, At, GoTo, Undo, PhaseInv
<1>16. ASSUME NEW c \in Clients, UndoListen(c) PROVE FileInv'
  BY <1>16 DEF UndoListen, At, GoTo, Undo, PhaseInv
<1>17. ASSUME NEW c \in Clients, RestoreFront(c) PROVE FileInv'
  BY <1>17 DEF RestoreFront, At, GiveUp, Return, Locals, Undo, PhaseInv
<1>18. ASSUME NEW c \in Clients, Commit(c) PROVE FileInv'
  BY <1>18 DEF Commit, Return, Locals, PhaseInv
<1>19. ASSUME NEW c \in Clients, RenameFails(c) PROVE FileInv'
  BY <1>19 DEF RenameFails, At, PhaseInv
<1>20. ASSUME NEW c \in Clients, CleanUpDraft(c) PROVE FileInv'
  BY <1>20 DEF CleanUpDraft, PhaseInv
<1>21. CASE Crash
  BY <1>21 DEF Crash, Down, Locals, PhaseInv
<1>22. CASE PowerLoss
  BY <1>22 DEF PowerLoss, Down, Locals, PhaseInv
<1>23. CASE Boot
  BY <1>23 DEF Boot, PhaseInv
<1> QED
  BY <1>0, <1>1, <1>2, <1>3, <1>4, <1>5, <1>6, <1>7, <1>8, <1>9, <1>10, <1>11, <1>12, <1>13, <1>14, <1>15, <1>16, <1>17, <1>18, <1>19, <1>20, <1>21, <1>22, <1>23 DEF Next, Request, Step

(* TypeOK and TxnInv together are inductive.                               *)
THEOREM TransactionInvariant == Spec => []IInv
<1>1. Init => TxnInv
  BY ClientsAssumption DEF Init, TxnInv, PhaseInv, NetworkInv, FileInv
<1>2. IInv /\ [Next]_vars => IInv'
  BY TypeStep, PhaseStep, NetworkStep, FileStep DEF IInv, TxnInv
<1> QED
  BY <1>1, <1>2, TypeInit, PTL DEF Spec, IInv

(* The variables of the transaction always have their types.               *)
THEOREM TypeCorrect == Spec => []TypeOK
BY TransactionInvariant, PTL DEF IInv

(* Between transactions the sockets, the addresses and the frontend serve  *)
(* the live configuration, whichever step of applyEx failed before.        *)
THEOREM NetworkFollows == Spec => []NetworkFollowsLive
<1>1. IInv => NetworkFollowsLive
  BY DEF IInv, TxnInv, PhaseInv, NetworkInv, NetworkFollowsLive
<1> QED
  BY <1>1, TransactionInvariant, PTL

(* applyEx and its rollbacks never have the frontend and Go on the public  *)
(* port together.                                                          *)
THEOREM SinglePortOwner == Spec => []PublicPortSingleOwner
<1>1. IInv => PublicPortSingleOwner
  BY DEF IInv, TxnInv, TypeOK, Phases, PhaseInv, NetworkInv, PublicPortSingleOwner, FE
<1> QED
  BY <1>1, TransactionInvariant, PTL

(* Between transactions the runtime serves what config.json says, unless a *)
(* stale reload or a failed rollback parted them.                          *)
THEOREM Durability == Spec => []LiveIsDurable
<1>1. IInv => LiveIsDurable
  BY DEF IInv, TxnInv, PhaseInv, FileInv, LiveIsDurable
<1> QED
  BY <1>1, TransactionInvariant, PTL

(* config.json is only ever replaced by the configuration that is live.    *)
THEOREM RenameComesLast == Spec => RenameAfterSwap
<1>1. IInv /\ [Next]_vars => (up' /\ disk' # disk => disk'.cfg = live)
  <2> SUFFICES ASSUME IInv, Next, up', disk' # disk PROVE disk'.cfg = live
    BY DEF vars
  <2>1. ASSUME NEW c \in Clients, Request(c) PROVE disk' = disk
    BY <2>1 DEF Request, PutConfig, Mutate, PeerConfig, ReloadRead, Reload,
                SaveDraft, DiscardDraft, Lock
  <2>2. ASSUME NEW c \in Clients, Step(c), ~Commit(c) PROVE disk' = disk
    BY <2>2 DEF Step, Build, HandBack, ReconcileListeners, ReconcileAddrs, PublishFront,
                Swap, UndoFront, UndoAddrs, UndoListen, RestoreFront, RenameFails, CleanUpDraft
  <2>3. ASSUME NEW c \in Clients, Commit(c) PROVE disk'.cfg = live
    BY <2>3 DEF Commit, IInv, TxnInv, PhaseInv
  <2>4. ~Crash /\ ~PowerLoss /\ (Boot => disk' = disk)
    BY DEF Crash, PowerLoss, Down, Boot
  <2> QED
    BY <2>1, <2>2, <2>3, <2>4 DEF Next
<1> QED
  BY <1>1, TransactionInvariant, PTL DEF Spec, RenameAfterSwap

(* How far a transaction is from its end: the steps ahead of it if every   *)
(* one still to come is taken, and another round if it may be rolled back. *)
StepsAhead(p) ==
  CASE p = "build" -> 11 [] p = "handback" -> 10 [] p = "listen" -> 9 [] p = "addrs" -> 8
    [] p = "front" -> 7 [] p = "swap" -> 6 [] p = "undoFront" -> 5 [] p = "undoAddrs" -> 4
    [] p = "undoListen" -> 3 [] p = "restoreFront" -> 2 [] p = "commit" -> 1 [] OTHER -> 0
ToGo(k, p) == StepsAhead(p) + IF k = "rollback" THEN 0 ELSE 11

(* Nothing in applyEx or its rollbacks goes round in circles: while a      *)
(* client holds applyMu, each step leaves its transaction alone or brings  *)
(* it nearer to its end, whichever steps fail, so at most 22 are taken.    *)
TransactionAdvances ==
  [][\A c \in Clients : lock = c /\ lock' = c =>
       ToGo(kind, phase)' < ToGo(kind, phase) \/ UNCHANGED <<kind, phase>>]_vars

(* It is what keeps TransactionsEnd from failing by an endless retry.      *)
THEOREM TransactionShrinks == Spec => TransactionAdvances
<1> DEFINE Advances == \A c \in Clients : lock = c /\ lock' = c =>
                         ToGo(kind, phase)' < ToGo(kind, phase) \/ UNCHANGED <<kind, phase>>
<1>1. ASSUME NEW c \in Clients, lock = c, lock' = c, IInv, [Next]_vars
      PROVE  ToGo(kind, phase)' < ToGo(kind, phase) \/ UNCHANGED <<kind, phase>>
  <2>0. c # None
    BY ClientsAssumption
  <2>1. ASSUME NEW d \in Clients, Request(d) PROVE UNCHANGED <<kind, phase>>
    BY <1>1, <2>0, <2>1 DEF Request, PutConfig, Mutate, PeerConfig, ReloadRead, Reload,
                            SaveDraft, DiscardDraft, Lock, txnVars
  <2>2. ASSUME NEW d \in Clients, Step(d)
        PROVE  ToGo(kind, phase)' < ToGo(kind, phase) \/ UNCHANGED <<kind, phase>>
    <3>1. CASE Build(d)
      BY <1>1, <2>0, <3>1 DEF Build, At, GoTo, GiveUp, Return, FirstStep, ToGo, StepsAhead
    <3>2. CASE HandBack(d)
      BY <1>1, <2>0, <3>2 DEF HandBack, At, GoTo, GiveUp, Return, ToGo, StepsAhead
    <3>3. CASE ReconcileListeners(d)
      BY <1>1, <2>0, <3>3 DEF ReconcileListeners, At, GoTo, GiveUp, Return, ToGo, StepsAhead
    <3>4. CASE ReconcileAddrs(d)
      BY <1>1, <2>0, <3>4 DEF ReconcileAddrs, At, GoTo, ToGo, StepsAhead
    <3>5. CASE PublishFront(d)
      BY <1>1, <2>0, <3>5 DEF PublishFront, At, GoTo, ToGo, StepsAhead
    <3>6. CASE Swap(d)
      BY <1>1, <2>0, <3>6 DEF Swap, At, GoTo, Return, ToGo, StepsAhead
    <3>7. CASE UndoFront(d) \/ UndoAddrs(d) \/ UndoListen(d)
      BY <1>1, <2>0, <3>7 DEF UndoFront, UndoAddrs, UndoListen, At, GoTo, ToGo, StepsAhead
    <3>8. CASE RestoreFront(d) \/ Commit(d)
      BY <1>1, <2>0, <3>8 DEF RestoreFront, Commit, GiveUp, Return
    <3>9. CASE RenameFails(d)
      <4>1. phase = "commit" /\ kind # "rollback"
        BY <1>1, <3>9 DEF RenameFails, At, IInv, TxnInv, PhaseInv
      <4> QED BY <3>9, <4>1 DEF RenameFails, ToGo, StepsAhead
    <3>10. CASE CleanUpDraft(d)
      BY <3>10 DEF CleanUpDraft, txnVars
    <3> QED BY <2>2, <3>1, <3>2, <3>3, <3>4, <3>5, <3>6, <3>7, <3>8, <3>9, <3>10 DEF Step
  <2>3. ~Crash /\ ~PowerLoss
    BY <1>1, <2>0 DEF Crash, PowerLoss, Down
  <2>4. Boot \/ UNCHANGED vars => UNCHANGED <<kind, phase>>
    BY DEF Boot, vars, txnVars
  <2> QED BY <1>1, <2>1, <2>2, <2>3, <2>4 DEF Next
<1>2. IInv /\ [Next]_vars => Advances
  BY <1>1
<1>3. IInv /\ [Next]_vars => [Advances]_vars
  BY <1>2
<1> QED BY <1>3, TransactionInvariant, PTL DEF Spec, TransactionAdvances

-----------------------------------------------------------------------------
(* The configuration file as a register.                                   *)

(* What holds when nothing can part live from disk: each transaction works *)
(* on the configuration it found, and none is left half undone.            *)
SerialInv ==
  /\ ~adrift /\ kind # "reload"
  /\ \A c \in Clients : pc[c] # "reload"
  /\ kind \in {"put", "peer"} => want = [back EXCEPT !.shared = want.shared]
  /\ kind = "mutate" => want = [back EXCEPT !.local = @ + 1] /\ back.local < MaxLocal
  /\ kind = "rollback" => "rename" \in Faults
  /\ "rename" \in Faults
       => phase \notin {"undoFront", "undoAddrs", "undoListen", "restoreFront"}

(* A configuration whose shared part alone was replaced says so itself.    *)
LEMMA ReplaceShape ==
  ASSUME NEW b \in Config, NEW r \in Revs, NEW w, w = [b EXCEPT !.shared = r]
  PROVE  w = [b EXCEPT !.shared = w.shared]
BY DEF Config

(* Every step keeps it.                                                    *)
LEMMA SerialStep ==
  ASSUME NoDrift
  PROVE  IInv /\ SerialInv /\ [Next]_vars => SerialInv'
<1> SUFFICES ASSUME IInv, SerialInv, [Next]_vars PROVE SerialInv'
  OBVIOUS
<1>f. "rename" \in Faults => \A f \in {"build", "front", "listen", "addrs"} : f \notin Faults
  BY NoDrift DEF NoDrift
<1> USE NoDrift, <1>f DEF NoDrift, SerialInv, IInv
<1>0. CASE UNCHANGED vars
  BY <1>0 DEF vars
<1>1. ASSUME NEW c \in Clients, PutConfig(c) PROVE SerialInv'
  <2>1. PICK r \in Revs : Lock(c, "put", Merge(live, r))
    BY <1>1 DEF PutConfig
  <2>2. want' = [back' EXCEPT !.shared = want'.shared]
    BY <2>1, ReplaceShape DEF Lock, Merge, TypeOK
  <2> QED
    BY <1>1, <2>1, <2>2 DEF PutConfig, Lock
<1>2. ASSUME NEW c \in Clients, Mutate(c) PROVE SerialInv'
  BY <1>2 DEF Mutate, Lock
<1>3. ASSUME NEW c \in Clients, PeerConfig(c) PROVE SerialInv'
  <2>1. PICK r \in Revs : Lock(c, "peer", Merge(live, r))
    BY <1>3 DEF PeerConfig
  <2>2. want' = [back' EXCEPT !.shared = want'.shared]
    BY <2>1, ReplaceShape DEF Lock, Merge, TypeOK
  <2> QED
    BY <1>3, <2>1, <2>2 DEF PeerConfig, Lock
<1>4. ASSUME NEW c \in Clients, ReloadRead(c) PROVE SerialInv'
  BY <1>4 DEF ReloadRead
<1>5. ASSUME NEW c \in Clients, Reload(c) PROVE SerialInv'
  BY <1>5 DEF Reload, Lock
<1>6. ASSUME NEW c \in Clients, SaveDraft(c) PROVE SerialInv'
  BY <1>6 DEF SaveDraft
<1>7. ASSUME NEW c \in Clients, DiscardDraft(c) PROVE SerialInv'
  BY <1>7 DEF DiscardDraft
<1>8. ASSUME NEW c \in Clients, Build(c) PROVE SerialInv'
  <2>1. CASE GiveUp /\ "build" \in Faults
    BY <1>8, <2>1 DEF Build, FirstStep, At, GiveUp, Return, Locals
  <2>2. CASE ~(GiveUp /\ "build" \in Faults)
    BY <1>8, <2>2 DEF Build, FirstStep, At, GoTo, Carry
  <2> QED
    BY <2>1, <2>2
<1>9. ASSUME NEW c \in Clients, HandBack(c) PROVE SerialInv'
  <2>1. CASE GiveUp /\ "front" \in Faults
    BY <1>9, <2>1 DEF HandBack, At, GiveUp, Return, Locals
  <2>2. CASE ~(GiveUp /\ "front" \in Faults)
    BY <1>9, <2>2 DEF HandBack, At, GoTo
  <2> QED
    BY <2>1, <2>2
<1>10. ASSUME NEW c \in Clients, ReconcileListeners(c) PROVE SerialInv'
  <2>1. CASE "listen" \in Faults /\ GiveUp
    BY <1>10, <2>1 DEF ReconcileListeners, At, GiveUp, Return, Locals
  <2>2. CASE "listen" \in Faults /\ ~GiveUp
    BY <1>10, <2>2 DEF ReconcileListeners, At, GoTo, Carry
  <2>3. CASE "listen" \notin Faults
    BY <1>10, <2>3 DEF ReconcileListeners, At, GoTo, Carry
  <2> QED
    BY <2>1, <2>2, <2>3
<1>11. ASSUME NEW c \in Clients, ReconcileAddrs(c) PROVE SerialInv'
  BY <1>11 DEF ReconcileAddrs, At, GoTo
<1>12. ASSUME NEW c \in Clients, PublishFront(c) PROVE SerialInv'
  BY <1>12 DEF PublishFront, At, GoTo
<1>13. ASSUME NEW c \in Clients, Swap(c) PROVE SerialInv'
  BY <1>13 DEF Swap, At, GoTo, Return, Locals, Carry
<1>14. ASSUME NEW c \in Clients, UndoFront(c) PROVE SerialInv'
  BY <1>14 DEF UndoFront, At, GoTo, Undo
<1>15. ASSUME NEW c \in Clients, UndoAddrs(c) PROVE SerialInv'
  BY <1>15 DEF UndoAddrs, At, GoTo, Undo
<1>16. ASSUME NEW c \in Clients, UndoListen(c) PROVE SerialInv'
  BY <1>16 DEF UndoListen, At, GoTo, Undo
<1>17. ASSUME NEW c \in Clients, RestoreFront(c) PROVE SerialInv'
  BY <1>17 DEF RestoreFront, At, GiveUp, Return, Locals, Undo
<1>18. ASSUME NEW c \in Clients, Commit(c) PROVE SerialInv'
  BY <1>18 DEF Commit, Return, Locals
<1>19. ASSUME NEW c \in Clients, RenameFails(c) PROVE SerialInv'
  BY <1>19 DEF RenameFails, At
<1>20. ASSUME NEW c \in Clients, CleanUpDraft(c) PROVE SerialInv'
  BY <1>20 DEF CleanUpDraft
<1>21. CASE Crash
  BY <1>21 DEF Crash, Down, Locals
<1>22. CASE PowerLoss
  BY <1>22 DEF PowerLoss, Down, Locals
<1>23. CASE Boot
  BY <1>23 DEF Boot
<1> QED
  BY <1>0, <1>1, <1>2, <1>3, <1>4, <1>5, <1>6, <1>7, <1>8, <1>9, <1>10, <1>11, <1>12, <1>13, <1>14, <1>15, <1>16, <1>17, <1>18, <1>19, <1>20, <1>21, <1>22, <1>23 DEF Next, Request, Step

(* The rename of a transaction is one operation of the register.           *)
LEMMA CommitIsSerial ==
  ASSUME IInv, SerialInv, NEW c \in Clients, Commit(c)
  PROVE  Register!Replace \/ Register!Modify
<1>1. disk'.cfg = want /\ back = disk.cfg /\ want \in Config /\ back \in Config
  BY DEF Commit, IInv, TxnInv, TypeOK, PhaseInv, FileInv, SerialInv
<1>2. Register!Settle
  <2>1. residue' = {disk'} \/ residue' = residue \cup {disk'}
    BY DEF Commit
  <2>2. CASE residue' = {disk'}
    BY <2>2 DEF Register!Settle
  <2>3. CASE residue' = residue \cup {disk'}
    BY <2>3 DEF Register!Settle
  <2> QED
    BY <2>1, <2>2, <2>3
<1>3. kind \in {"put", "mutate", "peer"}
  BY DEF Commit, IInv, TxnInv, PhaseInv
<1>4. CASE kind \in {"put", "peer"}
  <2>1. want = [disk.cfg EXCEPT !.shared = want.shared] /\ want.shared \in Revs
    BY <1>1, <1>4 DEF SerialInv, Config
  <2> QED
    BY <1>1, <1>2, <2>1 DEF Register!Replace
<1>5. CASE kind = "mutate"
  BY <1>1, <1>2, <1>5 DEF Register!Modify, SerialInv
<1> QED
  BY <1>3, <1>4, <1>5

(* Every step of the control plane is a step of the register or none.      *)
LEMMA RegisterStep ==
  IInv /\ SerialInv /\ [Next]_vars => [Register!RegNext]_(Register!regVars)
<1> SUFFICES ASSUME IInv, SerialInv, [Next]_vars
             PROVE  Register!RegNext \/ (disk' = disk /\ residue' = residue)
  BY DEF Register!regVars
<1>1. ASSUME NEW c \in Clients, Request(c) PROVE disk' = disk /\ residue' = residue
  BY <1>1 DEF Request, PutConfig, Mutate, PeerConfig, ReloadRead, Reload,
              SaveDraft, DiscardDraft, Lock
<1>2. ASSUME NEW c \in Clients, Step(c), ~Commit(c) PROVE disk' = disk /\ residue' = residue
  BY <1>2 DEF Step, Build, HandBack, ReconcileListeners, ReconcileAddrs, PublishFront,
              Swap, UndoFront, UndoAddrs, UndoListen, RestoreFront, RenameFails, CleanUpDraft
<1>3. ASSUME NEW c \in Clients, Commit(c) PROVE Register!RegNext
  BY <1>3, CommitIsSerial DEF Register!RegNext
<1>4. ASSUME PowerLoss PROVE Register!RegNext
  BY <1>4 DEF PowerLoss, Register!RegNext, Register!FallBack
<1>5. Crash \/ Boot \/ UNCHANGED vars => disk' = disk /\ residue' = residue
  BY DEF Crash, Boot, vars
<1> QED
  BY <1>1, <1>2, <1>3, <1>4, <1>5 DEF Next

(* The configuration file implements the register of ConfigRegister: PUTs, *)
(* peer syncs and partial mutations take effect one after another, each on *)
(* the result of the one before, through every crash and failing step.     *)
THEOREM ConfigIsSerial == ASSUME NoDrift PROVE Spec => SerialConfig
<1>1. Init => SerialInv
  BY DEF Init, SerialInv
<1>2. Init => Register!RegInit
  BY DEF Init, Register!RegInit, Config, Register!Config
<1>3. IInv /\ SerialInv /\ [Next]_vars => SerialInv'
  BY NoDrift, SerialStep
<1> QED
  BY <1>1, <1>2, <1>3, RegisterStep, TransactionInvariant, PTL
     DEF Spec, SerialConfig, Register!RegSpec

(* A mutation that was answered is never lost, whichever steps fail and    *)
(* whenever the process dies: only a configuration read without the lock,  *)
(* or a rollback that itself fails, can take one back.                     *)
THEOREM AckedKept == ASSUME NoDrift PROVE Spec => []AckedMutationsKept
<1>1. Init => SerialInv /\ AckedMutationsKept
  BY DEF Init, SerialInv, AckedMutationsKept, Config
<1>2. IInv /\ SerialInv /\ [Next]_vars => SerialInv'
  BY NoDrift, SerialStep
<1>3. IInv /\ SerialInv /\ AckedMutationsKept /\ [Next]_vars => AckedMutationsKept'
  <2> SUFFICES ASSUME IInv, SerialInv, AckedMutationsKept, [Next]_vars PROVE AckedMutationsKept'
    OBVIOUS
  <2>0. disk \in File /\ disk.cfg \in Config /\ acked \in Nat /\ residue \subseteq File
    BY DEF IInv, TypeOK, File
  <2>1. ASSUME NEW c \in Clients, Request(c) PROVE UNCHANGED <<disk, acked>>
    BY <2>1 DEF Request, PutConfig, Mutate, PeerConfig, ReloadRead, Reload,
                SaveDraft, DiscardDraft, Lock
  <2>2. ASSUME NEW c \in Clients, Step(c), ~Commit(c) PROVE UNCHANGED <<disk, acked>>
    BY <2>2 DEF Step, Build, HandBack, ReconcileListeners, ReconcileAddrs, PublishFront,
                Swap, UndoFront, UndoAddrs, UndoListen, RestoreFront, RenameFails, CleanUpDraft
  <2>3. ASSUME NEW c \in Clients, Commit(c) PROVE AckedMutationsKept'
    <3>1. /\ disk'.cfg = want /\ back = disk.cfg /\ kind \in {"put", "mutate", "peer"}
          /\ acked' = IF kind = "mutate" THEN acked + 1 ELSE acked
      BY <2>3 DEF Commit, IInv, TxnInv, PhaseInv, FileInv, SerialInv
    <3>2. disk.cfg.local \in Nat
      BY <2>0, BoundsAssumption DEF Config
    <3>3. CASE kind = "mutate"
      <4>1. want = [disk.cfg EXCEPT !.local = @ + 1]
        BY <3>1, <3>3 DEF SerialInv
      <4>2. want.local = disk.cfg.local + 1
        BY <4>1, <2>0 DEF Config
      <4> QED BY <3>1, <3>2, <3>3, <4>2, <2>0 DEF AckedMutationsKept
    <3>4. CASE kind \in {"put", "peer"}
      <4>1. want = [disk.cfg EXCEPT !.shared = want.shared]
        BY <3>1, <3>4 DEF SerialInv
      <4>2. want.local = disk.cfg.local
        BY <4>1, <2>0 DEF Config
      <4> QED BY <3>1, <3>4, <4>2 DEF AckedMutationsKept
    <3> QED BY <3>1, <3>3, <3>4
  <2>4. ASSUME PowerLoss PROVE AckedMutationsKept'
    <3>1. disk' \in File /\ acked' = (IF disk' = disk THEN acked ELSE 0)
      BY <2>4, <2>0 DEF PowerLoss
    <3>2. disk'.cfg.local \in Nat
      BY <3>1, BoundsAssumption DEF File, Config
    <3> QED BY <3>1, <3>2 DEF AckedMutationsKept
  <2>5. Crash \/ Boot \/ UNCHANGED vars => UNCHANGED <<disk, acked>>
    BY DEF Crash, Boot, vars
  <2>6. UNCHANGED <<disk, acked>> => AckedMutationsKept'
    BY DEF AckedMutationsKept
  <2> QED BY <2>1, <2>2, <2>3, <2>4, <2>5, <2>6 DEF Next
<1> QED
  BY <1>1, <1>2, <1>3, TransactionInvariant, PTL DEF Spec

-----------------------------------------------------------------------------
(* Drafts.                                                                 *)

(* A draft is of some write, and a younger config.json hides it.           *)
LEMMA DraftStep == IInv /\ DraftInv /\ [Next]_vars => DraftInv'
<1> SUFFICES ASSUME IInv, DraftInv, [Next]_vars PROVE DraftInv'
  OBVIOUS
<1>1. /\ clock \in Nat /\ draft \in Nat /\ owed \in Nat /\ disk.at \in Nat /\ residue \subseteq File
      /\ \A f \in residue : f.at \in Nat
  BY BoundsAssumption DEF IInv, TypeOK, File
<1>2. draft <= clock /\ disk.at <= clock /\ (\A f \in residue : f.at <= clock) /\ (draft > disk.at => draft = owed)
  BY <1>1 DEF DraftInv, NoResurrectedDraft, LoadDraft
<1>3. ASSUME NEW c \in Clients, Request(c) \/ Step(c),
             ~SaveDraft(c), ~DiscardDraft(c), ~Commit(c), ~CleanUpDraft(c)
      PROVE  UNCHANGED <<disk, residue, draft, owed>> /\ (clock' = clock \/ clock' = clock + 1)
  BY <1>3 DEF Request, PutConfig, Mutate, PeerConfig, ReloadRead, Reload, Lock, Stage,
              Step, At, Build, HandBack, ReconcileListeners, ReconcileAddrs, PublishFront,
              Swap, UndoFront, UndoAddrs, UndoListen, RestoreFront, RenameFails
<1>4. ASSUME NEW c \in Clients, SaveDraft(c)
      PROVE  UNCHANGED <<disk, residue>> /\ clock' = clock + 1 /\ draft' = clock' /\ owed' = clock'
  BY <1>4 DEF SaveDraft, Stage
<1>5. ASSUME NEW c \in Clients, DiscardDraft(c) PROVE UNCHANGED <<disk, residue, clock>> /\ draft' = 0
  BY <1>5 DEF DiscardDraft
<1>6. ASSUME NEW c \in Clients, Commit(c) PROVE  disk'.at = clock' /\ residue' \subseteq residue \cup {disk'} /\ UNCHANGED <<clock, draft>>
  BY <1>6 DEF Commit
<1>7. ASSUME NEW c \in Clients, CleanUpDraft(c)
      PROVE  UNCHANGED <<disk, residue, clock, owed>> /\ (draft' = 0 \/ draft' = draft)
  BY <1>7 DEF CleanUpDraft
<1>8. Crash \/ Boot \/ UNCHANGED vars => UNCHANGED <<disk, residue, clock, draft, owed>>
  BY DEF Crash, Down, Boot, vars
<1>9. ASSUME PowerLoss
      PROVE  /\ disk' \in residue /\ residue' = {disk'} /\ UNCHANGED <<clock, draft>>
             /\ owed' = IF disk' = disk THEN owed ELSE LoadDraft'
  BY <1>9 DEF PowerLoss, Down
<1>10. ASSUME UNCHANGED <<disk, residue, draft, owed>>, clock' = clock \/ clock' = clock + 1 PROVE DraftInv'
  BY <1>1, <1>2, <1>10 DEF DraftInv, NoResurrectedDraft, LoadDraft
<1>11. ASSUME draft' = 0, UNCHANGED <<disk, residue, clock>> PROVE DraftInv'
  BY <1>1, <1>2, <1>11 DEF DraftInv, NoResurrectedDraft, LoadDraft
<1>12. ASSUME NEW c \in Clients, SaveDraft(c) PROVE DraftInv'
  BY <1>1, <1>2, <1>4, <1>12 DEF DraftInv, NoResurrectedDraft, LoadDraft
<1>13. ASSUME NEW c \in Clients, Commit(c) PROVE DraftInv'
  BY <1>1, <1>2, <1>6, <1>13 DEF DraftInv, NoResurrectedDraft, LoadDraft
<1>14. ASSUME PowerLoss PROVE DraftInv'
  BY <1>1, <1>2, <1>9, <1>14 DEF DraftInv, NoResurrectedDraft, LoadDraft
<1> QED
  BY <1>3, <1>5, <1>7, <1>8, <1>10, <1>11, <1>12, <1>13, <1>14 DEF Next, Request, Step

(* A draft that was discarded, applied or superseded is not offered again, *)
(* even when its removal failed or the process died before it.             *)
THEOREM DraftsStayGone == Spec => []NoResurrectedDraft
<1>1. Init => DraftInv
  BY BoundsAssumption DEF Init, DraftInv, NoResurrectedDraft, LoadDraft
<1>2. DraftInv => NoResurrectedDraft
  BY DEF DraftInv
<1> QED
  BY <1>1, <1>2, DraftStep, TransactionInvariant, PTL DEF Spec
(* With one client a removal that is still to come is of no new draft, and *)
(* the draft that is owed is the youngest file.                            *)
SoleInv ==
  /\ \A c \in Clients : pc[c] = "cleanup" => owed = 0
  /\ owed # 0 => draft = owed /\ draft > disk.at

(* Every step of a single client keeps it so.                              *)
LEMMA SoleStep ==
  ASSUME \A c, d \in Clients : c = d, IInv, DraftInv, SoleInv, [Next]_vars
  PROVE  SoleInv'
<1>1. /\ clock \in Nat /\ draft \in Nat /\ owed \in Nat /\ disk.at \in Nat /\ disk.at <= clock
      /\ pc \in [Clients -> {"idle", "reload", "cleanup"}]
  BY BoundsAssumption DEF IInv, TypeOK, File, DraftInv
<1>2. ASSUME NEW c \in Clients, Request(c) \/ Step(c),
             ~SaveDraft(c), ~DiscardDraft(c), ~Commit(c), ~CleanUpDraft(c)
      PROVE  SoleInv'
  <2>1. UNCHANGED <<disk, draft, owed>> /\ (pc' = pc \/ \E x \in {"idle", "reload"} : pc' = [pc EXCEPT ![c] = x])
    BY <1>2 DEF Request, PutConfig, Mutate, PeerConfig, ReloadRead, Reload, Lock, Stage,
                Step, At, Build, HandBack, ReconcileListeners, ReconcileAddrs, PublishFront,
                Swap, UndoFront, UndoAddrs, UndoListen, RestoreFront, RenameFails
  <2>2. \A d \in Clients : pc'[d] = "cleanup" => pc[d] = "cleanup"
    BY <1>1, <2>1
  <2> QED BY <2>1, <2>2 DEF SoleInv
<1>3. ASSUME NEW c \in Clients, SaveDraft(c) PROVE SoleInv'
  <2>1. /\ UNCHANGED <<disk, pc>> /\ clock' = clock + 1 /\ draft' = clock' /\ owed' = clock'
        /\ pc[c] = "idle"
    BY <1>3 DEF SaveDraft, Stage
  <2>2. \A d \in Clients : pc'[d] # "cleanup"
    BY <2>1
  <2> QED BY <1>1, <2>1, <2>2 DEF SoleInv
<1>4. ASSUME NEW c \in Clients, DiscardDraft(c) PROVE SoleInv'
  BY <1>4 DEF DiscardDraft, SoleInv
<1>5. ASSUME NEW c \in Clients, Commit(c) PROVE SoleInv'
  BY <1>5 DEF Commit, SoleInv
<1>6. ASSUME NEW c \in Clients, CleanUpDraft(c) PROVE SoleInv'
  <2>1. owed = 0 /\ owed' = owed
    BY <1>6 DEF CleanUpDraft, SoleInv
  <2> QED BY <2>1 DEF SoleInv
<1>7. CASE Crash
  <2>1. UNCHANGED <<disk, draft, owed>> /\ \A d \in Clients : pc'[d] = "idle"
    BY <1>7 DEF Crash, Down
  <2> QED BY <2>1 DEF SoleInv
<1>8. CASE PowerLoss
  <2>1. /\ draft' = draft /\ \A d \in Clients : pc'[d] = "idle"
        /\ owed' = IF disk' = disk THEN owed ELSE LoadDraft'
    BY <1>8 DEF PowerLoss, Down
  <2>2. CASE disk' = disk
    BY <2>1, <2>2 DEF SoleInv
  <2>3. CASE disk' # disk
    BY <2>1, <2>3 DEF SoleInv, LoadDraft
  <2> QED BY <2>2, <2>3
<1>9. CASE Boot \/ UNCHANGED vars
  BY <1>9 DEF Boot, vars, SoleInv, fileVars
<1> QED BY <1>2, <1>3, <1>4, <1>5, <1>6, <1>7, <1>8, <1>9 DEF Next, Request, Step

(* An operator who works alone never loses a saved draft, whichever steps  *)
(* fail and whenever the process dies: only the late removal that follows  *)
(* another client's PUT can take one away (handlePutConfig).               *)
THEOREM SoleDraftKept ==
  ASSUME \A c, d \in Clients : c = d
  PROVE  Spec => []SavedDraftKept
<1>1. Init => DraftInv /\ SoleInv
  BY BoundsAssumption DEF Init, DraftInv, NoResurrectedDraft, LoadDraft, SoleInv
<1>2. IInv /\ DraftInv /\ SoleInv /\ [Next]_vars => SoleInv'
  BY SoleStep
<1>3. SoleInv => SavedDraftKept
  BY DEF SoleInv, SavedDraftKept, LoadDraft
<1> QED
  BY <1>1, <1>2, <1>3, DraftStep, TransactionInvariant, PTL DEF Spec
=============================================================================
