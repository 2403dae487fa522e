------------------------------ MODULE MCHASync ------------------------------
(* One pair of nodes, of which operators administer a.                     *)
EXTENDS HASync, TLC

CONSTANTS a, b

MCNodes == {a, b}
MCPeer == a :> b @@ b :> a
MCEditors == {a}
AllFaults == {"rename", "rollback", "reject", "lost", "late", "crash", "ping", "manual"}
ManualOnly == {"manual"}
=============================================================================
