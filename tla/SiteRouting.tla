---------------------------- MODULE SiteRouting ----------------------------
(***************************************************************************)
(* How a request finds its site and a handshake its certificate, while     *)
(* configurations replace one another (main.go: buildRuntime's listener    *)
(* tables, lookup, getCertificate; listeners.go: buildServer) and while    *)
(* TLS moves between Go and the nginx frontend, which selects certificates *)
(* by rules of its own (internal/tlsfront: RenderNginx).                   *)
(*                                                                         *)
(* A socket outlives and precedes the runtime it was opened for: reconcile *)
(* opens sockets before the runtime is swapped, and removed ones finish    *)
(* their requests afterwards.                                              *)
(***************************************************************************)
EXTENDS ConfigValidation

CONSTANTS SiteConfigs,  \* configurations that are applied
          HostNames,    \* hosts that clients ask for
          NameRank,     \* the alphabetical order of the site names
          NoConfig      \* no configuration, no listener

ASSUME RoutingAssumption ==
  /\ SiteConfigs \subseteq Configs /\ NoConfig \notin SiteConfigs
  /\ NoConfig \notin {"tcp", "unix"} \X STRING
  /\ \A host \in HostNames : host \in Seq(STRING) /\ host # <<>> /\ host[1] # "*"

VARIABLES runtime,  \* the configuration of s.rt.Load()
          next,     \* reconciled but not swapped in, or NoConfig
          sockets   \* those that are bound or still finish requests

routingVars == <<candidate, runtime, next, sockets>>

Go(a) == <<"tcp", a>>
Internal(a) == <<"unix", a>>
Addresses(c) == {c.sites[i].listen : i \in DOMAIN c.sites}
On(c, a) == {i \in DOMAIN c.sites : c.sites[i].listen = a}

publicTLS(c, a) == \E i \in On(c, a) : siteTLSEnabled(c.sites[i])
Fronted(c, a) == c.frontend /\ publicTLS(c, a)
ListenerKey(c, a) == IF Fronted(c, a) THEN Internal(a) ELSE Go(a)
LogicalAddr(c, key) == IF key[1] = "unix" /\ c.frontend /\ publicTLS(c, key[2]) THEN Go(key[2]) ELSE key

(* buildServer for one address of c.                                       *)
Socket(c, a) == [key |-> ListenerKey(c, a), tls |-> publicTLS(c, a) /\ ~c.frontend,
                 logical |-> LogicalAddr(c, ListenerKey(c, a)), closing |-> FALSE]

-----------------------------------------------------------------------------
(* The tables of one listener: each hostname normalized, each wildcard     *)
(* without its star, later sites over earlier ones.                        *)
Claiming(c, a, labels) == {i \in On(c, a) : \E k \in DOMAIN c.sites[i].hosts : Normalized(c.sites[i].hosts[k]) = labels}
LastWith(c, a, labels) ==
  LET is == Claiming(c, a, labels)
  IN  IF is = {} THEN 0 ELSE CHOOSE i \in is : \A j \in is : j <= i

(* A host with a star for its first k labels.                              *)
Wild(host, k) == CatchAll \o SubSeq(host, k + 1, Len(host))
Least(S) == CHOOSE k \in S : \A j \in S : k <= j

(* lookup: the name itself, then wildcards label by label, then the star;  *)
(* 0 is no site.                                                           *)
Lookup(c, a, host) ==
  LET cuts == {k \in 1..Len(host) - 1 : LastWith(c, a, Wild(host, k)) # 0}
  IN  IF LastWith(c, a, host) # 0 THEN LastWith(c, a, host)
      ELSE IF cuts = {} THEN LastWith(c, a, CatchAll) ELSE LastWith(c, a, Wild(host, Least(cuts)))

(* Mutated form: a socket only knows its own key.                          *)
OwnKey(socket) == IF socket.key \in {ListenerKey(runtime, a) : a \in Addresses(runtime)} THEN socket.key ELSE NoConfig

(* The listener a request on the socket is looked up in: the one of its    *)
(* key, else the one its address has under the other owner of TLS.         *)
ListenerOf(socket) ==
  LET keys == {ListenerKey(runtime, a) : a \in Addresses(runtime)}
      other == IF socket.key[1] = "unix" THEN socket.logical ELSE Internal(socket.key[2])
  IN  IF socket.key \in keys THEN socket.key ELSE IF other \in keys THEN other ELSE NoConfig

Answer(socket, host) ==
  LET key == ListenerOf(socket)
  IN  IF key = NoConfig THEN 0 ELSE Lookup(runtime, key[2], host)

(* The first certificate of the listener, in the order of the file.        *)
DefaultSite(c, a) ==
  LET with == {i \in On(c, a) : siteTLSEnabled(c.sites[i])}
  IN  IF with = {} THEN 0 ELSE CHOOSE i \in with : \A j \in with : i <= j

(* getCertificate: the site whose certificate is presented, or 0.          *)
Certificate(socket, host) ==
  LET key == ListenerOf(socket)
      site == IF key = NoConfig THEN 0 ELSE Lookup(runtime, key[2], host)
  IN  IF key = NoConfig THEN 0
      ELSE IF site # 0 /\ siteTLSEnabled(runtime.sites[site]) THEN site
      ELSE DefaultSite(runtime, key[2])

-----------------------------------------------------------------------------
(* RenderNginx: one server per site, in the order of their names.          *)
ServedBefore(c, i, j) == LET r == NameRank[c.sites[i].name]
                             q == NameRank[c.sites[j].name]
                         IN  r < q \/ (r = q /\ i < j)
FirstServer(c, is) == CHOOSE i \in is : \A j \in is \ {i} : ServedBefore(c, i, j)
LastServer(c, is) == CHOOSE i \in is : \A j \in is \ {i} : ServedBefore(c, j, i)

(* The servers that write a server_name.                                   *)
ServersNamed(c, a, labels) == {i \in On(c, a) : \E k \in DOMAIN c.sites[i].hosts :
                                           c.sites[i].hosts[k] = [labels |-> labels, form |-> "plain"]}

DefaultServer(c, a) == LET stars == ServersNamed(c, a, CatchAll)
                       IN  IF stars = {} THEN FirstServer(c, On(c, a)) ELSE LastServer(c, stars)

(* A server without a certificate gets that of the first one that has it.  *)
ServerCertificate(c, a, i) ==
  IF siteTLSEnabled(c.sites[i]) THEN i ELSE FirstServer(c, {j \in On(c, a) : siteTLSEnabled(c.sites[j])})

(* nginx: a server_name as written, else the longest wildcard, else the    *)
(* default server.                                                         *)
NginxServer(c, a, host) ==
  LET cuts == {k \in 1..Len(host) - 1 : ServersNamed(c, a, Wild(host, k)) # {}}
  IN  IF ServersNamed(c, a, host) # {} THEN FirstServer(c, ServersNamed(c, a, host))
      ELSE IF cuts = {} THEN DefaultServer(c, a) ELSE FirstServer(c, ServersNamed(c, a, Wild(host, Least(cuts))))

-----------------------------------------------------------------------------
(* applyEx, as far as sockets and the runtime go.                          *)
SocketsOf(c) == {Socket(c, a) : a \in Addresses(c)}

RoutingInit == /\ runtime \in SiteConfigs /\ Valid(runtime)
               /\ next = NoConfig /\ sockets = SocketsOf(runtime)

(* reconcile: what c asks for is opened, the rest closes behind its        *)
(* requests; a public address that goes to the frontend closes at once.    *)
Reconciled(c) ==
  LET open == {s \in sockets : ~s.closing}
      kept == {s \in open : \E t \in SocketsOf(c) : t.key = s.key /\ t.tls = s.tls}
      gone == {s \in open : \A t \in SocketsOf(c) : t.key # s.key}
      handed == {s \in gone : s.key[1] = "tcp" /\ Internal(s.key[2]) \in {t.key : t \in SocketsOf(c)}}
  IN  kept \cup {t \in SocketsOf(c) : \A s \in kept : s.key # t.key}
           \cup {[s EXCEPT !.closing = TRUE] : s \in gone \ handed}
           \cup {s \in sockets : s.closing /\ \A t \in SocketsOf(c) : t.key # s.key}

Reconfigure(c) ==
  /\ next = NoConfig /\ c # runtime /\ Valid(c)
  /\ next' = c /\ sockets' = Reconciled(c)
  /\ UNCHANGED <<candidate, runtime>>

SwapRuntime ==
  /\ next # NoConfig
  /\ runtime' = next /\ next' = NoConfig
  /\ UNCHANGED <<candidate, sockets>>

RollBackSockets ==
  /\ next # NoConfig
  /\ next' = NoConfig /\ sockets' = Reconciled(runtime)
  /\ UNCHANGED <<candidate, runtime>>

LastRequestEnds(s) ==
  /\ s \in sockets /\ s.closing
  /\ sockets' = sockets \ {s}
  /\ UNCHANGED <<candidate, runtime, next>>

RoutingNext == \/ \E c \in SiteConfigs : Reconfigure(c)
               \/ SwapRuntime \/ RollBackSockets
               \/ \E s \in sockets : LastRequestEnds(s)

RoutingSpec == RoutingInit /\ [][RoutingNext]_routingVars

-----------------------------------------------------------------------------
(* The sites that claim a host of an address by the most specific pattern. *)
Matches(pattern, host) ==
  \/ pattern \in {host, CatchAll}
  \/ /\ pattern[1] = "*" /\ Len(host) >= Len(pattern)
     /\ \A k \in 1..Len(pattern) - 1 : pattern[Len(pattern) + 1 - k] = host[Len(host) + 1 - k]

MoreSpecific(p, q) == q[1] = "*" /\ (p[1] # "*" \/ Len(p) > Len(q))

Owners(c, a, host) ==
  LET Text(p) == Normalized(c.sites[p[1]].hosts[p[2]])
      patterns == {p \in Claims(c, a) : Matches(Text(p), host)}
      best == {p \in patterns : \A q \in patterns : ~MoreSpecific(Text(q), Text(p))}
  IN  {p[1] : p \in best}

PlainNames(c, a) == \A i \in On(c, a) : \A k \in DOMAIN c.sites[i].hosts : c.sites[i].hosts[k].form = "plain"

(* At every moment of an apply, of its rollback and of a hand-over between *)
(* Go and the frontend, a request that arrives at an address for a host    *)
(* goes to the one site of the running configuration that claims the host  *)
(* most specifically, and is refused only if none does; a handshake gets   *)
(* the certificate of that site if it has one, and some certificate of the *)
(* address if the running configuration serves TLS there.  The frontend    *)
(* presents the same certificate as Go, where the site has one and writes  *)
(* its hostnames without port and final dot.                               *)
RoutedRightly(s, host) ==
  LET a == s.key[2]
      owners == Owners(runtime, a, host)
  IN  /\ IF owners = {} THEN Answer(s, host) = 0 ELSE owners = {Answer(s, host)}
      /\ s.tls /\ publicTLS(runtime, a) =>
           /\ Certificate(s, host) # 0
           /\ \A i \in owners : siteTLSEnabled(runtime.sites[i]) => Certificate(s, host) = i
      /\ Fronted(runtime, a) /\ PlainNames(runtime, a) =>
           \A i \in owners : siteTLSEnabled(runtime.sites[i]) => ServerCertificate(runtime, a, NginxServer(runtime, a, host)) = i

RoutedToOwner == \A s \in sockets, host \in HostNames : RoutedRightly(s, host)

(* The inductive invariant: what runs and what comes next was validated,   *)
(* and an internal socket knows the address it stands for.                 *)
SocketRec == [key : {"tcp", "unix"} \X STRING, tls : BOOLEAN, logical : {"tcp", "unix"} \X STRING, closing : BOOLEAN]
Validated(c) == c \in Configs /\ Valid(c)

RoutingIInv ==
  /\ Validated(runtime) /\ (next # NoConfig => Validated(next))
  /\ sockets \subseteq SocketRec /\ \A s \in sockets : s.key[1] = "unix" => s.logical = Go(s.key[2])
=============================================================================
