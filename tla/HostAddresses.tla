--------------------------- MODULE HostAddresses ---------------------------
(***************************************************************************)
(* Addresses of sites with manage_ip on the interfaces of the host         *)
(* (ipmanage.go): one reconciliation, address by address, each checked and *)
(* then changed with the ip command, while the operator changes addresses  *)
(* too.  The manager remembers in memory what it may remove.               *)
(*                                                                         *)
(* A reconciliation that fails is followed by that of the configuration    *)
(* rolled back to, which is any reconciliation here (ControlPlane orders   *)
(* them).  The operator adds what is nowhere on the host, and removes      *)
(* nothing while a reconciliation runs.                                    *)
(***************************************************************************)
EXTENDS Naturals, FiniteSets

CONSTANTS Ips, Ifaces, PrefixLens,
          Automatic,        \* no interface selected, no prefix given
          SubnetOf,         \* ip -> the interface whose subnet has it, or Automatic
          Management,       \* the interface with the address of the console
          DefaultPrefix,    \* that of the first address of an interface
          MaxReconciles, MaxOperator   \* bounds

ASSUME HostAssumption == DefaultPrefix \in PrefixLens /\ SubnetOf \in [Ips -> Ifaces \cup {Automatic}]

VARIABLES
  addresses,     \* on the host: [ip, iface, prefix]
  foreign,       \* those the operator has put there
  added,         \* ip -> [ip, iface, prefix] the manager may remove
  recon,           \* the reconciliation that runs, or what ended it
  taken,         \* foreign ones found on a selected interface, or put while being
                 \* added, or put back where the manager had added the same
  orphans,       \* own ones still there when the manager forgot them
  reconciles, operatorSteps

hostVars == <<addresses, foreign, added, recon, taken, orphans, reconciles, operatorSteps>>
hostBounds == <<reconciles, operatorSteps>>

HostAddress == [ip : Ips, iface : Ifaces, prefix : PrefixLens]
SiteWants == [iface : Ifaces \cup {Automatic}, prefix : PrefixLens \cup {Automatic}]
Ended == [at |-> "ended"]
NothingAdded == [ip \in {} |-> Ended]

HostInit ==
  /\ addresses = {} /\ foreign = {} /\ added = NothingAdded /\ recon = Ended
  /\ taken = {} /\ orphans = {} /\ reconciles = 0 /\ operatorSteps = 0

OnHost(ip) == {a \in addresses : a.ip = ip}
PrefixFor(site) == IF site.prefix = Automatic THEN DefaultPrefix ELSE site.prefix

Reconcile(want) ==
  /\ recon = Ended /\ reconciles < MaxReconciles /\ reconciles' = reconciles + 1
  /\ recon' = [at |-> "check", want |-> want, todo |-> DOMAIN want]
  /\ UNCHANGED <<addresses, foreign, added, taken, orphans, operatorSteps>>

NextAddress(ip) == recon' = [at |-> "check", want |-> recon.want, todo |-> recon.todo \ {ip}]
Fails == recon' = Ended /\ UNCHANGED <<added, taken>>

(* Mutated form: what is added is not remembered.                          *)
Unremembered(a) == added
Remembers(a) == [ip \in DOMAIN added \cup {a.ip} |-> IF ip = a.ip THEN a ELSE added[ip]]

(* One that is there already is taken over on a selected interface only.   *)
Adopts(ip, site) == site.iface # Automatic

CheckAddress(ip) ==
  /\ recon.at = "check" /\ ip \in recon.todo
  /\ LET site == recon.want[ip]
         iface == IF site.iface = Automatic THEN SubnetOf[ip] ELSE site.iface
     IN  IF site.iface = Management THEN Fails
         ELSE IF OnHost(ip) = {} THEN
           IF iface = Automatic THEN Fails
           ELSE /\ recon' = [at |-> "add", want |-> recon.want, todo |-> recon.todo,
                           a |-> [ip |-> ip, iface |-> iface, prefix |-> PrefixFor(site)]]
                /\ UNCHANGED <<added, taken>>
         ELSE IF ~Adopts(ip, site) THEN NextAddress(ip) /\ UNCHANGED <<added, taken>>
         ELSE \E found \in OnHost(ip) :
           IF site.iface \notin {found.iface, Automatic} THEN Fails
           ELSE /\ added' = Remembers([ip |-> ip, iface |-> found.iface, prefix |-> PrefixFor(site)])
                /\ taken' = IF site.iface = Automatic THEN taken ELSE taken \cup (foreign \cap OnHost(ip))
                /\ NextAddress(ip)
  /\ UNCHANGED <<addresses, foreign, orphans, hostBounds>>

(* ip addr add; that the address exists by now is no error.                *)
AddAddress ==
  /\ recon.at = "add"
  /\ \/ Fails /\ UNCHANGED addresses
     \/ /\ addresses' = addresses \cup {recon.a} /\ added' = Remembers(recon.a)
        /\ taken' = taken \cup (foreign \cap {recon.a}) /\ NextAddress(recon.a.ip)
  /\ UNCHANGED <<foreign, orphans, hostBounds>>

(* ip addr del; an error is logged and the address forgotten.              *)
Delete(ip) ==
  LET a == added[ip]
  IN  /\ \/ a \in addresses /\ addresses' = addresses \ {a} /\ orphans' = orphans \cup (OnHost(ip) \ {a})
         \/ UNCHANGED addresses /\ orphans' = orphans \cup OnHost(ip)
      /\ added' = [i \in DOMAIN added \ {ip} |-> added[i]]

RemoveAddress(ip) ==
  /\ recon.at = "check" /\ recon.todo = {} /\ ip \in DOMAIN added \ DOMAIN recon.want
  /\ Delete(ip) /\ UNCHANGED <<foreign, recon, taken, hostBounds>>

EndReconcile ==
  /\ recon.at = "check" /\ recon.todo = {} /\ DOMAIN added \subseteq DOMAIN recon.want
  /\ recon' = [at |-> "done", want |-> recon.want]
  /\ UNCHANGED <<addresses, foreign, added, taken, orphans, hostBounds>>

Settle == recon.at = "done" /\ recon' = Ended /\ UNCHANGED <<addresses, foreign, added, taken, orphans, hostBounds>>

(* releaseAll, address by address; then the process is gone.               *)
ReleaseAll == recon = Ended /\ recon' = [at |-> "release"] /\ UNCHANGED <<addresses, foreign, added, taken, orphans, hostBounds>>

ReleaseAddress(ip) ==
  /\ recon.at = "release" /\ ip \in DOMAIN added /\ Delete(ip)
  /\ UNCHANGED <<foreign, recon, taken, hostBounds>>

ProcessEnds ==
  /\ recon' = Ended /\ added' = NothingAdded /\ orphans' = orphans \cup (addresses \ foreign)
  /\ UNCHANGED <<addresses, foreign, taken, hostBounds>>

OperatorAdds(a) ==
  /\ operatorSteps < MaxOperator /\ operatorSteps' = operatorSteps + 1 /\ OnHost(a.ip) = {}
  /\ addresses' = addresses \cup {a} /\ foreign' = foreign \cup {a}
  /\ taken' = IF a.ip \in DOMAIN added /\ added[a.ip] = a THEN taken \cup {a} ELSE taken
  /\ UNCHANGED <<added, recon, orphans, reconciles>>

OperatorRemoves(a) ==
  /\ operatorSteps < MaxOperator /\ operatorSteps' = operatorSteps + 1 /\ recon = Ended /\ a \in addresses
  /\ addresses' = addresses \ {a} /\ foreign' = foreign \ {a} /\ taken' = taken \ {a}
  /\ UNCHANGED <<added, recon, orphans, reconciles>>

HostNext ==
  \/ \E ips \in SUBSET Ips : \E want \in [ips -> SiteWants] : Reconcile(want)
  \/ (\E ip \in Ips : CheckAddress(ip) \/ RemoveAddress(ip) \/ ReleaseAddress(ip))
  \/ AddAddress \/ EndReconcile \/ Settle \/ ReleaseAll \/ ProcessEnds
  \/ \E a \in HostAddress : OperatorAdds(a) \/ OperatorRemoves(a)

HostSpec == HostInit /\ [][HostNext]_hostVars

-----------------------------------------------------------------------------
(* Properties.                                                             *)

(* What the operator has put on an interface stays there: the manager      *)
(* removes it only if a site had selected that interface for it, or if it  *)
(* appeared between the check and the command, or took the place of one    *)
(* the manager had added and somebody else removed.                        *)
ForeignKept == foreign \subseteq addresses \cup taken

(* When a reconciliation has succeeded, every managed address is on the    *)
(* host, and of those the manager once added no other, except where a      *)
(* removal had failed, was of another prefix, or was cut off by a crash.   *)
HostMatches ==
  recon.at = "done" => /\ \A ip \in DOMAIN recon.want : OnHost(ip) # {}
                     /\ \A a \in addresses \ (foreign \cup orphans) : a.ip \in DOMAIN recon.want

(* The host has what is managed and what is foreign, and nothing the       *)
(* manager should have removed.                                            *)
AddressesRight == ForeignKept /\ HostMatches

(* The inductive invariant: what the manager remembers is of its key, and  *)
(* foreign only if taken; what is its own is remembered or was given up;   *)
(* what a reconciliation has dealt with is on the host.                    *)
Wants == UNION {[ips -> SiteWants] : ips \in SUBSET Ips}
HostTypeOK ==
  /\ addresses \subseteq HostAddress /\ foreign \subseteq HostAddress
  /\ taken \subseteq HostAddress /\ orphans \subseteq HostAddress
  /\ DOMAIN added \subseteq Ips /\ added = [ip \in DOMAIN added |-> added[ip]]
  /\ \A ip \in DOMAIN added : added[ip] \in HostAddress /\ added[ip].ip = ip
  /\ recon \in [at : {"ended", "release"}] \cup [at : {"check"}, want : Wants, todo : SUBSET Ips]
               \cup [at : {"add"}, want : Wants, todo : SUBSET Ips, a : HostAddress]
               \cup [at : {"done"}, want : Wants]

OwnershipInv ==
  /\ \A ip \in DOMAIN added : added[ip] \in foreign => added[ip] \in taken
  /\ \A a \in addresses \ (foreign \cup orphans) : a.ip \in DOMAIN added

ProgressInv ==
  /\ recon.at \in {"check", "add"} => recon.todo \subseteq DOMAIN recon.want
                                    /\ \A ip \in DOMAIN recon.want \ recon.todo : OnHost(ip) # {}
  /\ recon.at = "done" => DOMAIN added \subseteq DOMAIN recon.want
                          /\ \A ip \in DOMAIN recon.want : OnHost(ip) # {}

HostIInv == HostTypeOK /\ ForeignKept /\ OwnershipInv /\ ProgressInv
=============================================================================
