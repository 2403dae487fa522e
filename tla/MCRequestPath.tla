--------------------------- MODULE MCRequestPath ---------------------------
(* What every request goes through: the limiter, the choice of a backend   *)
(* member, the ticket keys.  The parts share no state, so a behaviour runs *)
(* one of them, and the others stay as they start.                         *)
EXTENDS PoolBalancer, L7Abuse, TLSTickets, TLC

CONSTANTS r1, r2, k1, k2, k3, t1, t2, Parts

VARIABLE part   \* the part of the request path this behaviour is about

MCWeight == <<2, 1>>
AllMethods == {"round_robin", "least_conn", "ip_hash", "random"}
MCRequests == {r1, r2}
MCHashes == 0..1
MCClients == {k1, k2, k3}
MCConfigs == {t1, t2}
AllParts == {"pool", "abuse", "tickets"}
TicketsOnly == {"tickets"}
Interchangeable == Permutations(MCRequests)

PathInit == Init /\ AbuseInit /\ TicketsInit /\ part \in Parts

PathNext ==
  /\ UNCHANGED part
  /\ \/ part = "pool" /\ Next /\ UNCHANGED <<abuseVars, ticketVars>>
     \/ part = "abuse" /\ AbuseNext /\ UNCHANGED <<vars, ticketVars>>
     \/ part = "tickets" /\ TicketsNext /\ UNCHANGED <<vars, abuseVars>>

PathSpec == PathInit /\ [][PathNext]_<<vars, abuseVars, ticketVars, part>>
=============================================================================
