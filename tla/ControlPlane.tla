---------------------------- MODULE ControlPlane ----------------------------
(***************************************************************************)
(* The configuration transaction of one waf-proxy process (main.go,        *)
(* admin.go): the handlers that change the configuration, the lock applyMu *)
(* that serialises them, the staged write of config.json, the step-by-step *)
(* takeover of the network (TLS frontend, listeners, managed addresses)    *)
(* with its rollback, the swap of the runtime pointer and the auxiliary    *)
(* draft file.  Each step of the transaction is an action, because the     *)
(* handlers that read the runtime without the lock, a crash and a failing  *)
(* step can all fall between two of them.                                  *)
(*                                                                         *)
(* A configuration is its shared part (sites, pools, policies: what a PUT  *)
(* and a peer sync replace) and its node-local part (users and secrets),   *)
(* abstracted to a counter that every node-local mutation advances, so     *)
(* that a lost mutation is visible.  A request that fails validation or    *)
(* staging returns before any effect and is a stuttering step.             *)
(***************************************************************************)
EXTENDS Integers, FiniteSets

CONSTANTS Clients,       \* goroutines that each serve one request at a time
          None,          \* no lock holder
          Revs,          \* contents of the shared part
          FrontendRevs,  \* those with tls_acceleration.mode = frontend
          MaxLocal,      \* bound: node-local mutations
          MaxWrites,     \* bound: staged writes of config.json and its draft
          Handlers,      \* the request kinds clients send
          Faults         \* what may fail

ASSUME ClientsAssumption == None \notin Clients
ASSUME RevsAssumption == Revs # {} /\ FrontendRevs \subseteq Revs
ASSUME BoundsAssumption == MaxLocal \in Nat /\ MaxWrites \in Nat

Config == [shared : Revs, local : 0..MaxLocal]
File == [cfg : Config, at : 0..MaxWrites]   \* contents and modification time

VARIABLES
  up,         \* the process is running
  lock,       \* holder of applyMu
  pc,         \* what each client does outside the lock
  snap,       \* the configuration a client read without the lock
  kind,       \* request served by the holder
  phase,      \* next step of applyEx / applyPersistedLocked
  want,       \* configuration being applied
  back,       \* configuration that was live when applyEx began
  published,  \* applyEx's frontendPublished
  live,       \* s.rt.Load().cfg
  disk,       \* config.json as the running system sees it
  residue,    \* contents config.json may have after a power loss
  clock,      \* writes so far: the source of modification times
  draft,      \* modification time of config.json.draft, 0 if absent
  front,      \* configuration the TLS frontend was last told to serve
  listen,     \* configuration whose listener set is bound
  addrs,      \* configuration whose managed addresses are assigned
  torn,       \* history: an undo step of the network failed
  adrift,     \* history: an apply left live and disk apart
  acked,      \* history: how many node-local mutations were answered with success
  owed        \* history: the saved draft neither discarded nor superseded

fileVars == <<disk, residue, clock>>
netVars == <<front, listen, addrs, torn>>
txnVars == <<kind, phase, want, back, published>>
vars == <<up, lock, pc, snap, kind, phase, want, back, published, live, disk,
          residue, clock, draft, front, listen, addrs, torn, adrift, acked, owed>>

Phases == {"none", "build", "handback", "listen", "addrs", "front", "swap",
           "commit", "undoFront", "undoAddrs", "undoListen", "restoreFront"}

FE(c) == c.shared \in FrontendRevs

(* Mutated form: the modification times are not compared.                  *)
LoadAnyDraft == draft

(* loadDraftConfig: a draft counts only when it is newer than config.json. *)
LoadDraft == IF draft > disk.at THEN draft ELSE 0

Init ==
  /\ up = TRUE
  /\ lock = None
  /\ pc = [c \in Clients |-> "idle"]
  /\ \E c \in Config :
       /\ c.local = 0
       /\ live = c /\ want = c /\ back = c
       /\ front = c /\ listen = c /\ addrs = c
       /\ snap = [i \in Clients |-> c]
       /\ disk = [cfg |-> c, at |-> 0]
       /\ residue = {[cfg |-> c, at |-> 0]}
  /\ kind = "none" /\ phase = "none" /\ published = FALSE
  /\ clock = 0 /\ draft = 0
  /\ torn = FALSE /\ adrift = FALSE /\ acked = 0 /\ owed = 0

-----------------------------------------------------------------------------
(* Requests that start a transaction.                                      *)

(* applyMu.Lock, the handler's derivation of the new configuration from    *)
(* the runtime it finds, validate and stageConfig.                         *)
Lock(c, k, cfg) ==
  /\ up /\ lock = None /\ k \in Handlers
  /\ lock' = c
  /\ kind' = k /\ phase' = "build" /\ want' = cfg /\ back' = live
  /\ published' = FALSE
  /\ UNCHANGED <<up, snap, live, draft, disk, residue, netVars, adrift, acked, owed>>

Stage == /\ clock < MaxWrites
         /\ clock' = clock + 1

(* Mutated form: the submitted configuration replaces everything.          *)
Replace(cur, r) == [shared |-> r, local |-> 0]

(* preserveAISecrets, preserveNotifySecrets, preserveHSMSecretRefs and the *)
(* users: what a submitted or synced configuration never replaces.         *)
Merge(cur, r) == [cur EXCEPT !.shared = r]

(* handlePutConfig, no draft: the shared part comes from the request, the  *)
(* users and secrets from the newest runtime.                              *)
PutConfig(c) ==
  /\ pc[c] = "idle"
  /\ \E r \in Revs : Lock(c, "put", Merge(live, r))
  /\ Stage
  /\ UNCHANGED pc

(* mutatePersisted with a node-local change: the user endpoints, secrets.  *)
(* (Page policies and AI reviews go the same way to the shared part.)      *)
Mutate(c) ==
  /\ pc[c] = "idle" /\ live.local < MaxLocal
  /\ Lock(c, "mutate", [live EXCEPT !.local = @ + 1])
  /\ Stage
  /\ UNCHANGED pc

(* handleHAPeerConfig and mergePeerConfig: the peer's shared part, the     *)
(* node's own HA settings, users and secrets.                              *)
PeerConfig(c) ==
  /\ pc[c] = "idle"
  /\ \E r \in Revs : Lock(c, "peer", Merge(live, r))
  /\ Stage
  /\ UNCHANGED pc

(* handleReload reads the runtime before it takes the lock.                *)
ReloadRead(c) ==
  /\ up /\ pc[c] = "idle" /\ "reload" \in Handlers
  /\ snap' = [snap EXCEPT ![c] = live]
  /\ pc' = [pc EXCEPT ![c] = "reload"]
  /\ UNCHANGED <<up, lock, txnVars, live, fileVars, draft, netVars, adrift, acked, owed>>

Reload(c) ==
  /\ pc[c] = "reload"
  /\ Lock(c, "reload", snap[c])
  /\ pc' = [pc EXCEPT ![c] = "idle"]
  /\ UNCHANGED clock
-----------------------------------------------------------------------------
(* applyEx, one action per step, taken by the holder of the lock.          *)

At(c, p) == /\ up /\ lock = c /\ phase = p
            /\ UNCHANGED <<up, snap, clock, draft, pc, owed>>

GoTo(p) == phase' = p /\ UNCHANGED <<lock, kind>>   \* the next step of applyEx

(* applyEx returns: with an error the request ends, and if it was itself   *)
(* the rollback of a failed rename, live stays ahead of disk.              *)
Locals(c) == want' = c /\ back' = c /\ published' = FALSE
(* Mutated form: an error path that keeps the lock.                        *)
ReturnLocked(c) == UNCHANGED lock /\ phase' = "none" /\ kind' = "none" /\ Locals(c)

Return(c) == lock' = None /\ phase' = "none" /\ kind' = "none" /\ Locals(c)
Carry == UNCHANGED <<want, back, published>>
GiveUp == /\ Return(live)
          /\ adrift' = (adrift \/ kind = "rollback")

(* Mutated form: a step of the rollback is forgotten.                      *)
UndoNothing(part, new, old) == UNCHANGED <<part, torn>>

(* An undo step restores its part, or fails half-way, which is only logged.*)
Undo(part, new, old) == \/ part' = old /\ UNCHANGED torn
                        \/ "undo" \in Faults /\ torn' = TRUE /\ part' \in {new, old}

(* Mutated form: the frontend is never asked to give up the port.          *)
ListenFirst == "listen"

(* The frontend must give up the public port before Go binds it.           *)
FirstStep == IF FE(back) /\ ~FE(want) THEN "handback" ELSE "listen"

(* validate, buildRuntime and the frontend preflight: nothing is touched.  *)
Build(c) ==
  /\ At(c, "build")
  /\ \/ /\ GoTo(FirstStep)
        /\ UNCHANGED adrift
        /\ Carry
     \/ "build" \in Faults /\ GiveUp
  /\ UNCHANGED <<live, disk, residue, netVars, acked>>

(* frontend -> Go: the frontend must give up the public port first.        *)
HandBack(c) ==
  /\ At(c, "handback")
  /\ \/ /\ front' = want /\ published' = TRUE
        /\ GoTo("listen") /\ UNCHANGED <<want, back, torn, adrift>>
     \/ /\ "front" \in Faults
        /\ Undo(front, want, back) /\ GiveUp
  /\ UNCHANGED <<live, disk, residue, listen, addrs, acked>>

(* listenMgr.reconcile.  An address that cannot be bound leaves the old     *)
(* sockets as they were; a protocol flip that fails has closed one, and    *)
(* restoreOldLocked binds the old set again or loses part of it.           *)
ReconcileListeners(c) ==
  /\ At(c, "listen")
  /\ \/ /\ listen' = want
        /\ GoTo("addrs") /\ Carry /\ UNCHANGED <<torn, adrift>>
     \/ /\ "listen" \in Faults
        /\ UNCHANGED <<listen, torn>> \/ Undo(listen, want, back)
        /\ IF published THEN GoTo("restoreFront") /\ Carry /\ UNCHANGED adrift
                        ELSE GiveUp
  /\ UNCHANGED <<live, disk, residue, front, addrs, acked>>

(* ipmgr.reconcile; an error may leave part of the new addresses assigned. *)
ReconcileAddrs(c) ==
  /\ At(c, "addrs")
  /\ addrs' = want
  /\ GoTo("front") \/ ("addrs" \in Faults /\ GoTo("undoFront"))
  /\ UNCHANGED <<want, back, published, live, disk, residue, front, listen, torn, adrift, acked>>

(* publishAndWait for a frontend configuration, publish for a Go one.      *)
PublishFront(c) ==
  /\ At(c, "front")
  /\ \/ /\ front' = IF published THEN front ELSE want
        /\ published' = (published \/ FE(want))
        /\ GoTo("swap")
     \/ /\ "front" \in Faults /\ ~published
        /\ front' = IF FE(want) THEN want ELSE front
        /\ published' = FE(want)
        /\ GoTo("undoFront")
  /\ UNCHANGED <<want, back, live, disk, residue, listen, addrs, torn, adrift, acked>>

(* s.rt.Swap and the configure calls.  A reload and a rollback end here; a *)
(* reload that applied something other than what was live leaves the file  *)
(* behind.                                                                 *)
Swap(c) ==
  /\ At(c, "swap")
  /\ live' = want /\ torn' = FALSE
  /\ IF kind \in {"reload", "rollback"}
       THEN Return(want) /\ adrift' = (adrift \/ (kind = "reload" /\ want # back))
       ELSE GoTo("commit") /\ Carry /\ UNCHANGED adrift
  /\ UNCHANGED <<disk, residue, front, listen, addrs, acked>>

(* rollbackNetwork, in its order: stop a frontend that was just started,   *)
(* give the addresses back, rebind the old listeners, restart a frontend   *)
(* that was running before.                                                *)
UndoFront(c) ==
  /\ At(c, "undoFront")
  /\ IF published /\ ~FE(back) /\ FE(want) THEN Undo(front, want, back)
                                        ELSE UNCHANGED <<front, torn>>
  /\ GoTo("undoAddrs")
  /\ UNCHANGED <<want, back, published, live, disk, residue, listen, addrs, adrift, acked>>

UndoAddrs(c) ==
  /\ At(c, "undoAddrs")
  /\ Undo(addrs, want, back)
  /\ GoTo("undoListen")
  /\ UNCHANGED <<want, back, published, live, disk, residue, front, listen, adrift, acked>>

UndoListen(c) ==
  /\ At(c, "undoListen")
  /\ Undo(listen, want, back)
  /\ GoTo("restoreFront")
  /\ UNCHANGED <<want, back, published, live, disk, residue, front, addrs, adrift, acked>>

RestoreFront(c) ==
  /\ At(c, "restoreFront")
  /\ IF published /\ FE(back) THEN Undo(front, want, back)
                              ELSE UNCHANGED <<front, torn>>
  /\ GiveUp
  /\ UNCHANGED <<live, disk, residue, listen, addrs, acked>>

-----------------------------------------------------------------------------
(* staged.commit and what follows it in applyPersistedLocked.              *)

(* The rename succeeded.  Without the directory fsync, which is only a     *)
(* warning, a power loss may still bring back what was there before.       *)
Commit(c) ==
  /\ up /\ lock = c /\ phase = "commit"
  /\ disk' = [cfg |-> want, at |-> clock]
  /\ \/ residue' = {disk'}
     \/ "fsync" \in Faults /\ residue' = residue \cup {disk'}
  /\ Return(live)
  /\ adrift' = FALSE /\ owed' = 0
  /\ acked' = IF kind = "mutate" THEN acked + 1 ELSE acked
  /\ pc' = IF kind = "put" THEN [pc EXCEPT ![c] = "cleanup"] ELSE pc
  /\ UNCHANGED <<up, snap, live, clock, draft, netVars>>

(* Mutated form: the error is returned, the new configuration stays live.  *)
RenameForgets(c) ==
  /\ At(c, "commit") /\ "rename" \in Faults
  /\ Return(live)
  /\ UNCHANGED <<live, disk, residue, netVars, adrift, acked>>

(* The rename failed: apply the previous configuration again.              *)
RenameFails(c) ==
  /\ At(c, "commit") /\ "rename" \in Faults
  /\ kind' = "rollback" /\ phase' = "build"
  /\ want' = back /\ back' = live /\ published' = FALSE
  /\ UNCHANGED <<lock, live, disk, residue, netVars, adrift, acked>>

(* After unlocking, a successful PUT removes the draft; the removal may    *)
(* fail, which is only a warning.                                          *)
CleanUpDraft(c) ==
  /\ up /\ pc[c] = "cleanup"
  /\ pc' = [pc EXCEPT ![c] = "idle"]
  /\ draft' = 0 \/ ("cleanup" \in Faults /\ UNCHANGED draft)
  /\ UNCHANGED <<up, lock, snap, txnVars, live, fileVars, netVars, adrift, acked, owed>>

(* handlePutConfig with draft=1, and handleDiscardConfigDraft.             *)
SaveDraft(c) ==
  /\ up /\ lock = None /\ pc[c] = "idle" /\ "draft" \in Handlers
  /\ Stage
  /\ draft' = clock' /\ owed' = clock'
  /\ UNCHANGED <<up, lock, pc, snap, txnVars, live, disk, residue, netVars, adrift, acked>>

DiscardDraft(c) ==
  /\ up /\ lock = None /\ pc[c] = "idle" /\ "draft" \in Handlers
  /\ draft' = 0 /\ owed' = 0
  /\ UNCHANGED <<up, lock, pc, snap, txnVars, live, fileVars, netVars, adrift, acked>>

-----------------------------------------------------------------------------
(* The process dies between any two steps; its runtime and listeners die   *)
(* with it (what live and listen say is meaningless until Boot), the       *)
(* managed addresses and the frontend stay.                                *)
Down == /\ up /\ up' = FALSE
        /\ lock' = None /\ phase' = "none" /\ kind' = "none"
        /\ pc' = [c \in Clients |-> "idle"]
        /\ torn' = FALSE /\ adrift' = FALSE
        /\ live' = disk'.cfg /\ listen' = disk'.cfg /\ Locals(disk'.cfg)
        /\ snap' = [c \in Clients |-> disk'.cfg]
        /\ UNCHANGED <<clock, draft, front, addrs>>

Crash == /\ "crash" \in Faults
         /\ UNCHANGED <<disk, residue, acked, owed>>
         /\ Down

(* Losing power may also lose a rename whose directory was never synced;   *)
(* what was acknowledged on the strength of it is lost knowingly.          *)
PowerLoss == /\ "power" \in Faults
             /\ disk' \in residue /\ residue' = {disk'}
             /\ Down
             /\ acked' = IF disk' = disk THEN acked ELSE 0
             /\ owed' = IF disk' = disk THEN owed ELSE LoadDraft'

(* main: loadConfig, apply, startAll.                                      *)
Boot == /\ ~up /\ up' = TRUE
        /\ live' = disk.cfg /\ listen' = disk.cfg
        /\ front' = disk.cfg /\ addrs' = disk.cfg
        /\ UNCHANGED <<lock, pc, snap, txnVars, fileVars, draft, torn, adrift, acked, owed>>

-----------------------------------------------------------------------------
Request(c) == \/ PutConfig(c) \/ Mutate(c) \/ PeerConfig(c)
              \/ ReloadRead(c) \/ Reload(c)
              \/ SaveDraft(c) \/ DiscardDraft(c)

Step(c) == \/ Build(c) \/ HandBack(c) \/ ReconcileListeners(c)
           \/ ReconcileAddrs(c) \/ PublishFront(c) \/ Swap(c)
           \/ UndoFront(c) \/ UndoAddrs(c) \/ UndoListen(c) \/ RestoreFront(c)
           \/ Commit(c) \/ RenameFails(c) \/ CleanUpDraft(c)

Next == \/ \E c \in Clients : Request(c) \/ Step(c)
        \/ Crash \/ PowerLoss \/ Boot

Spec == Init /\ [][Next]_vars

(* Go's mutex and scheduler let a running transaction proceed.             *)
FairSpec == Spec /\ \A c \in Clients : WF_vars(Step(c))
-----------------------------------------------------------------------------
(* Properties.                                                             *)

TypeOK ==
  /\ up \in BOOLEAN /\ published \in BOOLEAN /\ torn \in BOOLEAN /\ adrift \in BOOLEAN
  /\ lock \in Clients \cup {None}
  /\ pc \in [Clients -> {"idle", "reload", "cleanup"}]
  /\ snap \in [Clients -> Config]
  /\ kind \in {"none", "put", "mutate", "peer", "reload", "rollback"}
  /\ phase \in Phases
  /\ want \in Config /\ back \in Config /\ live \in Config
  /\ front \in Config /\ listen \in Config /\ addrs \in Config
  /\ disk \in File /\ residue \subseteq File
  /\ clock \in 0..MaxWrites /\ draft \in 0..MaxWrites /\ owed \in 0..MaxWrites
  /\ acked \in Nat

(* Whenever no transaction runs, the sockets, the managed addresses and    *)
(* the frontend all serve the live configuration: whichever step of        *)
(* applyEx failed, rollbackNetwork took every earlier step back.  The one  *)
(* exception is an undo step that itself failed and was only logged.       *)
NetworkFollowsLive ==
  up /\ lock = None /\ ~torn => listen = live /\ addrs = live /\ front = live

(* The public TLS port never has two owners: handing it from the frontend  *)
(* to Go stops the frontend before the listeners bind, the other direction *)
(* releases the listeners first, and so do both rollbacks.                 *)
PublicPortSingleOwner ==
  up /\ ~torn => ~(FE(front) /\ ~FE(listen))

(* Between transactions the runtime serves what config.json says, so a     *)
(* restart changes nothing.  Only a reload of a configuration that was     *)
(* replaced meanwhile, or a rollback that failed, can part them.           *)
LiveIsDurable == up /\ lock = None /\ ~adrift => live = disk.cfg

(* A node-local mutation (a user created, a password changed, a secret     *)
(* saved) that was answered with success is in config.json, and stays in   *)
(* it across PUTs, peer syncs, failed applies, crashes and restarts.       *)
AckedMutationsKept == acked <= disk.cfg.local

(* A draft the operator discarded, or applied, or that a later committed   *)
(* configuration superseded is never offered again, even when its removal  *)
(* failed or the process died before it.                                   *)
NoResurrectedDraft == LoadDraft \in {0, owed}

(* A saved draft is offered until it is discarded or superseded.           *)
SavedDraftKept == owed # 0 => LoadDraft = owed

(* config.json is replaced only by the configuration that is live at that  *)
(* moment: the rename comes after the whole live transaction, never before.*)
RenameAfterSwap == [][up' /\ disk' # disk => disk'.cfg = live]_vars

(* No path through applyEx, its rollbacks included, keeps applyMu.         *)
TransactionsEnd == \A c \in Clients : lock = c ~> lock # c

(* Why these hold: the state of a running transaction, step by step.  The  *)
(* lock is held exactly between two phases; live is the old configuration  *)
(* up to the swap; each part of the network serves the new configuration   *)
(* between its own step and its undo, and the old one otherwise.           *)
PhaseInv ==
  /\ (lock = None) = (phase = "none")
  /\ (kind = "none") = (phase = "none")
  /\ ~up => lock = None /\ live = disk.cfg
  /\ phase = "commit" => live = want /\ kind \in {"put", "mutate", "peer"}
  /\ phase \notin {"none", "commit"} => live = back
  /\ phase \in {"none", "build", "handback"} => ~published
  /\ phase = "handback" => FE(back) /\ ~FE(want)
  /\ phase \notin {"none", "build", "handback"} /\ FE(back) /\ ~FE(want) => published
  /\ phase \in {"listen", "addrs", "front"} /\ published => FE(back) /\ ~FE(want)
  /\ phase \in {"undoFront", "undoAddrs", "undoListen", "restoreFront"} /\ published
       => FE(back) \/ FE(want)

NetworkInv ==
  /\ phase \in {"addrs", "front", "swap"} => listen = want
  /\ phase \in {"front", "swap"} => addrs = want
  /\ phase = "swap" \/ (published /\ phase \in {"listen", "addrs", "front"}) => front = want
  /\ up /\ ~torn =>
       /\ listen = IF phase \in {"addrs", "front", "swap", "undoFront", "undoAddrs", "undoListen"}
                     THEN want ELSE live
       /\ addrs = IF phase \in {"front", "swap", "undoFront", "undoAddrs"} THEN want ELSE live
       /\ front = IF phase = "swap" \/ (/\ published
                                        /\ phase \in {"undoAddrs", "undoListen", "restoreFront"}
                                              => FE(back))
                    THEN want ELSE live

FileInv ==
  ~adrift => CASE kind = "rollback"  -> want = disk.cfg
               [] phase = "commit"   -> back = disk.cfg
               [] OTHER              -> live = disk.cfg

TxnInv == PhaseInv /\ NetworkInv /\ FileInv

(* The inductive invariant.                                                *)
IInv == TypeOK /\ TxnInv

(* No file is younger than the clock, and an offered draft is the one owed.*)
DraftInv == /\ draft <= clock /\ disk.at <= clock /\ (\A f \in residue : f.at <= clock)
            /\ NoResurrectedDraft

(* The configuration file is the register of ConfigRegister: every change  *)
(* of it is one whole read-modify-write of the value before it.            *)
Register == INSTANCE ConfigRegister
              WITH committed <- disk.cfg, residue <- {f.cfg : f \in residue}
SerialConfig == Register!RegSpec
(* It is, as long as nothing parts live from disk: no unlocked reload, and *)
(* no rename that fails together with its rollback.                        *)
NoDrift == /\ "reload" \notin Handlers
           /\ "rename" \in Faults => Faults \cap {"build", "front", "listen", "addrs"} = {}
=============================================================================
