----------------------------- MODULE TLSTickets -----------------------------
(***************************************************************************)
(* The session-ticket keys of the Go listeners (tls_session.go).  Keys are *)
(* derived from a secret and an epoch of the clock; a configuration's ring *)
(* holds those of one epoch and of Retained - 1 epochs before it, so it is *)
(* known by its newest epoch.  A listener attaches its TLS configuration   *)
(* when it binds and detaches it when it ends (listeners.go).              *)
(***************************************************************************)
EXTENDS Integers

CONSTANTS TLSConfigs,   \* *tls.Config values
          MaxEpoch      \* bound

ASSUME TicketsAssumption == MaxEpoch \in Nat

VARIABLES
  clock,     \* epoch of the wall clock
  epoch,     \* m.epoch
  attached,  \* m.configs
  ring,      \* configuration -> newest epoch of its keys, -1 before any
  checked,   \* history: the ticker has fired in this epoch of the clock
  masked     \* history: m.epoch was last advanced by attach

ticketVars == <<clock, epoch, attached, ring, checked, masked>>

TicketsInit ==
  /\ clock = 1 /\ epoch = 0
  /\ attached = {} /\ ring = [c \in TLSConfigs |-> -1]
  /\ checked = FALSE /\ masked = FALSE

(* attach: the new configuration gets the keys of now, and so, it seems,   *)
(* have all others.                                                        *)
Attach(c) ==
  /\ c \notin attached /\ ring[c] = -1
  /\ attached' = attached \cup {c}
  /\ ring' = [ring EXCEPT ![c] = clock]
  /\ masked' = IF epoch = clock THEN masked ELSE TRUE
  /\ epoch' = clock
  /\ UNCHANGED <<clock, checked>>

Detach(c) ==
  /\ c \in attached /\ attached' = attached \ {c}
  /\ UNCHANGED <<clock, epoch, ring, checked, masked>>

(* Mutated form: only configurations of the epoch before get new keys.     *)
RefreshedNext == [c \in TLSConfigs |->
   IF c \in attached /\ ring[c] = epoch THEN clock ELSE ring[c]]

Refreshed == [c \in TLSConfigs |-> IF c \in attached THEN clock ELSE ring[c]]

(* The ticker: refreshAt returns early when m.epoch is up to date.         *)
Refresh ==
  /\ checked' = TRUE
  /\ IF epoch = clock THEN UNCHANGED <<ring, epoch, masked>>
     ELSE ring' = Refreshed /\ epoch' = clock /\ masked' = FALSE
  /\ UNCHANGED <<clock, attached>>

(* Time goes on; the ticker fires several times in each epoch.             *)
EpochPasses ==
  /\ clock < MaxEpoch /\ clock' = clock + 1
  /\ checked /\ checked' = FALSE
  /\ UNCHANGED <<epoch, attached, ring, masked>>

TicketsNext == \/ Refresh \/ EpochPasses
               \/ \E c \in TLSConfigs : Attach(c) \/ Detach(c)

TicketsSpec == TicketsInit /\ [][TicketsNext]_ticketVars
-----------------------------------------------------------------------------
(* Properties.                                                             *)

(* All attached configurations can decrypt each other's tickets: they hold *)
(* the keys of m.epoch, however far they lagged before, whenever that was  *)
(* last advanced by the ticker; and none ever gets keys of the future.     *)
RingsFollowEpoch ==
  \A c \in attached : ring[c] <= epoch /\ (ring[c] = epoch \/ masked)

(* The manager's epoch never runs ahead of the clock.                      *)
TicketsTypeOK ==
  /\ clock \in Nat /\ epoch \in 0..clock
  /\ attached \subseteq TLSConfigs /\ ring \in [TLSConfigs -> Int]
  /\ {checked, masked} \subseteq BOOLEAN

TicketsIInv == TicketsTypeOK /\ RingsFollowEpoch

(* "Check much more often than the epoch size so rotation happens promptly"*)
(* (start): once the ticker has fired in an epoch, every attached          *)
(* configuration has its keys.                                             *)
RotationIsPrompt == checked => \A c \in attached : ring[c] = clock
=============================================================================
