--------------------------- MODULE MCControlPlane ---------------------------
(* Instances of ControlPlane for TLC.                                      *)
EXTENDS ControlPlane, TLC

CONSTANTS c1, c2, go1, fe1

MCRevs == {go1, fe1}
MCClients == {c1, c2}
MCFrontendRevs == {fe1}
ClientSymmetry == Permutations(MCClients)

(* The live transaction: every step of applyEx and of its rollback fails.  *)
LiveHandlers == {"put", "mutate", "peer", "draft", "reload"}
LiveFaults == {"build", "front", "listen", "addrs", "undo", "rename", "crash", "power"}

(* The files: config.json, its draft, and what befalls them.               *)
FileHandlers == {"put", "mutate", "peer", "draft"}
FileFaults == {"rename", "fsync", "cleanup", "crash", "power"}

ReloadHandlers == {"mutate", "reload"}
DraftHandlers == {"put", "draft"}
NoFaults == {}
=============================================================================
