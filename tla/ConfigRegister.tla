--------------------------- MODULE ConfigRegister ---------------------------
(***************************************************************************)
(* What the configuration transaction promises its callers: one register   *)
(* that changes by whole read-modify-write operations, one at a time.  A   *)
(* full PUT and a peer sync replace the shared part and keep the node-local*)
(* part (users, secrets); a partial mutation changes the local part of the *)
(* value it finds.  After a power loss the register holds one of the values*)
(* it would still be allowed to fall back to: only the current one, unless *)
(* a directory fsync failed.                                               *)
(***************************************************************************)
EXTENDS Integers

CONSTANTS Revs,      \* contents the shared part of a configuration can have
          MaxLocal   \* bound on the number of node-local mutations

Config == [shared : Revs, local : 0..MaxLocal]

VARIABLES committed,  \* the configuration every caller agrees on
          residue     \* the configurations a power loss may leave behind

regVars == <<committed, residue>>

RegInit == /\ committed \in Config
           /\ residue = {committed}

(* After a change the old value is forgotten once the directory is synced. *)
Settle == residue' \in {{committed'}, residue \cup {committed'}}

Replace == /\ \E r \in Revs : committed' = [committed EXCEPT !.shared = r]
           /\ Settle

Modify == /\ committed.local < MaxLocal
          /\ committed' = [committed EXCEPT !.local = @ + 1]
          /\ Settle

FallBack == /\ committed' \in residue
            /\ residue' = {committed'}

RegNext == Replace \/ Modify \/ FallBack

RegSpec == RegInit /\ [][RegNext]_regVars
=============================================================================
