--------------------------- MODULE EventForwarding ---------------------------
(***************************************************************************)
(* Notifications (notify.go) and the syslog forwarder (syslog.go) they and *)
(* the other streams end in.  Any goroutine pushes; two workers post       *)
(* webhooks; one writer owns the syslog connection but shares it with      *)
(* configure, and lets go of the lock while it dials and writes.           *)
(***************************************************************************)
EXTENDS Integers, Sequences, FiniteSets, Functions

CONSTANTS Collectors,   \* syslog endpoints
          Webhooks,     \* webhook addresses
          EventKeys,    \* dedupe keys
          Pushers,      \* goroutines that push
          HookWorkers,
          Unset,        \* no endpoint, no webhook, nothing in hand
          LineQueue, HookQueue, ItemCap, DedupeMax,
          MaxRaised, MaxReconfigured  \* bounds: notifications, configurations

ASSUME EventAssumption ==
  /\ Unset \notin Collectors \cup Webhooks \cup EventKeys
  /\ ItemCap \in Nat \ {0} /\ DedupeMax \in Nat \ {0}

VARIABLES
  endpoint,   \* the syslog configuration: a collector, or Unset when disabled
  conn,       \* the collector s.conn is connected to
  lines,      \* s.queue, as its length
  writer,     \* the delivery in progress
  started,    \* s.running
  overtaken,  \* history: configure ran between the snapshot and the dial of conn
  notify,     \* the notifier's configuration
  items, nextID,
  recentKeys, \* of each key in n.dedupe: "fresh" or "expired"
  pushing,    \* pushes that passed enabledFor
  hookQ, posting,
  open,       \* history: keys raised and remembered, whose minute has not passed
  again,      \* history: such a key was raised once more
  reconfigured

syslogVars == <<endpoint, conn, lines, writer, started, overtaken>>
notifyVars == <<notify, items, nextID, recentKeys, pushing, hookQ, posting, open, again>>
eventVars == <<syslogVars, notifyVars, reconfigured>>

Idle == [step |-> "idle", cfg |-> Unset, to |-> Unset]

EventInit ==
  /\ endpoint = Unset /\ conn = Unset /\ lines = 0 /\ writer = Idle /\ started = FALSE /\ overtaken = FALSE
  /\ notify = [on |-> TRUE, hook |-> Unset] /\ items = <<>> /\ nextID = 0 /\ recentKeys = [k \in {} |-> "fresh"]
  /\ pushing = [p \in Pushers |-> Unset] /\ hookQ = <<>> /\ posting = [w \in HookWorkers |-> Unset]
  /\ open = {} /\ again = FALSE /\ reconfigured = 0

Reconfigures == reconfigured < MaxReconfigured /\ reconfigured' = reconfigured + 1

-----------------------------------------------------------------------------
(* syslogEngine.                                                           *)

DropConn == Unset

ConfigureSyslog(e) ==
  /\ Reconfigures
  /\ endpoint' = e /\ conn' = DropConn /\ overtaken' = FALSE
  /\ started' = (started \/ e # Unset)
  /\ UNCHANGED <<lines, writer, notifyVars>>

(* emit: nothing while disabled, dropped when the queue is full.           *)
Emitted(n) == IF endpoint = Unset \/ n >= LineQueue THEN n ELSE n + 1

EmitLine ==
  /\ lines' = Emitted(lines) /\ lines' # lines
  /\ UNCHANGED <<endpoint, conn, writer, started, overtaken, notifyVars, reconfigured>>

(* deliver takes the configuration, then looks at the connection.          *)
TakeLine ==
  /\ started /\ writer = Idle /\ lines > 0
  /\ lines' = lines - 1
  /\ writer' = IF endpoint = Unset THEN Idle ELSE [step |-> "took", cfg |-> endpoint, to |-> Unset]
  /\ UNCHANGED <<endpoint, conn, started, overtaken, notifyVars, reconfigured>>

LookAtConn ==
  /\ writer.step = "took"
  /\ writer' = IF conn = Unset THEN [step |-> "dial", cfg |-> writer.cfg, to |-> Unset]
               ELSE [step |-> "write", cfg |-> writer.cfg, to |-> conn]
  /\ UNCHANGED <<endpoint, conn, lines, started, overtaken, notifyVars, reconfigured>>

(* The new connection is stored, whatever the configuration is by now.     *)
Dialled ==
  /\ writer.step = "dial"
  /\ \/ conn' = writer.cfg /\ overtaken' = (endpoint # writer.cfg)
        /\ writer' = [step |-> "write", cfg |-> writer.cfg, to |-> writer.cfg]
     \/ writer' = Idle /\ UNCHANGED <<conn, overtaken>>
  /\ UNCHANGED <<endpoint, lines, started, notifyVars, reconfigured>>

Written ==
  /\ writer.step = "write" /\ writer' = Idle
  /\ \/ UNCHANGED <<conn, overtaken>>
     \/ conn' = Unset /\ overtaken' = FALSE
  /\ UNCHANGED <<endpoint, lines, started, notifyVars, reconfigured>>

-----------------------------------------------------------------------------
(* notifier.                                                               *)
ConfigureNotify(on, hook) ==
  /\ Reconfigures
  /\ notify' = [on |-> on, hook |-> hook]
  /\ UNCHANGED <<syslogVars, items, nextID, recentKeys, pushing, hookQ, posting, open, again>>

Push(p, k) ==
  /\ pushing[p] = Unset /\ notify.on /\ nextID < MaxRaised
  /\ pushing' = [pushing EXCEPT ![p] = k]
  /\ UNCHANGED <<syslogVars, notify, items, nextID, recentKeys, hookQ, posting, open, again, reconfigured>>

(* Expired keys are removed when a key is to be remembered.                *)
Fresh(d) == Restrict(d, {k \in DOMAIN d : d[k] = "fresh"})

With(d, k) == [x \in DOMAIN d \cup {k} |-> IF x = k THEN "fresh" ELSE d[x]]

(* Mutated form: a full table forgets some key.                            *)
Rotated(d, k) == IF Cardinality(DOMAIN d) < DedupeMax THEN With(d, k)
                 ELSE With(Restrict(d, DOMAIN d \ {CHOOSE x \in DOMAIN d : TRUE}), k)

(* A full table remembers no more of them.                                 *)
Remembered(d, k) == IF Cardinality(DOMAIN d) < DedupeMax THEN With(d, k) ELSE d

(* The newest notifications.                                               *)
Capped(all) == IF Len(all) > ItemCap THEN SubSeq(all, Len(all) - ItemCap + 1, Len(all)) ELSE all

(* The rest of push, under the lock, then the sink and the webhook queue.  *)
Raise(p) ==
  LET k == pushing[p]
      item == [id |-> nextID + 1, key |-> k, read |-> FALSE]
      suppressed == k \in DOMAIN recentKeys /\ recentKeys[k] = "fresh"
  IN  /\ k # Unset
      /\ pushing' = [pushing EXCEPT ![p] = Unset]
      /\ IF suppressed
           THEN UNCHANGED <<lines, items, nextID, recentKeys, hookQ, open, again>>
           ELSE /\ recentKeys' = Remembered(Fresh(recentKeys), k)
                /\ nextID' = nextID + 1
                /\ items' = Capped(Append(items, item))
                /\ lines' = Emitted(lines)
                /\ hookQ' = IF notify.hook = Unset \/ Len(hookQ) >= HookQueue THEN hookQ
                            ELSE Append(hookQ, [url |-> notify.hook, item |-> item.id, attempt |-> 1])
                /\ open' = IF Cardinality(DOMAIN Fresh(recentKeys)) < DedupeMax THEN open \cup {k} ELSE open
                /\ again' = (again \/ k \in open)
      /\ UNCHANGED <<endpoint, conn, writer, started, overtaken, notify, posting, reconfigured>>

(* Sixty seconds after it was remembered.                                  *)
MinutePasses(k) ==
  /\ k \in DOMAIN recentKeys /\ recentKeys[k] = "fresh"
  /\ recentKeys' = [recentKeys EXCEPT ![k] = "expired"] /\ open' = open \ {k}
  /\ UNCHANGED <<syslogVars, notify, items, nextID, pushing, hookQ, posting, again, reconfigured>>

TakeHook(w) ==
  /\ posting[w] = Unset /\ hookQ # <<>>
  /\ posting' = [posting EXCEPT ![w] = Head(hookQ)] /\ hookQ' = Tail(hookQ)
  /\ UNCHANGED <<syslogVars, notify, items, nextID, recentKeys, pushing, open, again, reconfigured>>

NextAttempt(hook) == [url |-> hook.url, item |-> hook.item, attempt |-> hook.attempt + 1]

(* webhookWorker: answered, refused for good, or tried again up to thrice. *)
PostHook(w) ==
  /\ posting[w] # Unset
  /\ \/ posting' = [posting EXCEPT ![w] = Unset]
     \/ posting[w].attempt < 3 /\ posting' = [posting EXCEPT ![w] = NextAttempt(@)]
  /\ UNCHANGED <<syslogVars, notify, items, nextID, recentKeys, pushing, hookQ, open, again, reconfigured>>

MarkRead(n) ==
  /\ n \in DOMAIN items /\ items' = [items EXCEPT ![n].read = TRUE]
  /\ UNCHANGED <<syslogVars, notify, nextID, recentKeys, pushing, hookQ, posting, open, again, reconfigured>>

Dismiss(n) ==
  /\ n \in DOMAIN items /\ items' = SubSeq(items, 1, n - 1) \o SubSeq(items, n + 1, Len(items))
  /\ UNCHANGED <<syslogVars, notify, nextID, recentKeys, pushing, hookQ, posting, open, again, reconfigured>>

EventNext ==
  \/ \E e \in Collectors \cup {Unset} : ConfigureSyslog(e)
  \/ EmitLine \/ TakeLine \/ LookAtConn \/ Dialled \/ Written
  \/ \E on \in BOOLEAN, hook \in Webhooks \cup {Unset} : ConfigureNotify(on, hook)
  \/ \E p \in Pushers : Raise(p) \/ \E k \in EventKeys : Push(p, k)
  \/ \E k \in EventKeys : MinutePasses(k)
  \/ \E w \in HookWorkers : TakeHook(w) \/ PostHook(w)
  \/ \E n \in 1..ItemCap : MarkRead(n) \/ Dismiss(n)

EventSpec == EventInit /\ [][EventNext]_eventVars

-----------------------------------------------------------------------------
(* The forwarder is connected to the collector it is configured for, or to *)
(* none, unless configure ran between a delivery's look at the             *)
(* configuration and the moment it stored the connection it dialled; and   *)
(* what a delivery writes goes to the collector it was configured for when *)
(* it took the line, or to such a connection.                              *)
SentWhereConfigured ==
  /\ conn # Unset /\ ~overtaken => conn = endpoint
  /\ writer.step = "write" /\ writer.to # writer.cfg => overtaken \/ conn # writer.to

(* A key that was remembered is not raised again within its minute; the    *)
(* console shows the newest notifications, each once and in their order;   *)
(* no webhook is tried a fourth time.                                      *)
NotifiedOnce ==
  /\ ~again
  /\ Len(items) <= ItemCap /\ \A i, j \in DOMAIN items : i < j => items[i].id < items[j].id
  /\ \A w \in HookWorkers : posting[w] # Unset => posting[w].attempt <= 3

(* Lines reach the configured collector, notifications their reader once.  *)
ForwardingSound == SentWhereConfigured /\ NotifiedOnce

(* The inductive invariant: a delivery's connection is the one it was      *)
(* configured for unless conn was overtaken; what is remembered is what is *)
(* open; ids never go back.                                                *)
ItemRec == [id : Nat, key : EventKeys, read : BOOLEAN]
HookRec == [url : Webhooks, item : Nat, attempt : 1..3]
EventTypeOK ==
  /\ endpoint \in Collectors \cup {Unset} /\ conn \in Collectors \cup {Unset} /\ overtaken \in BOOLEAN
  /\ writer \in [step : {"idle", "took", "dial", "write"}, cfg : Collectors \cup {Unset},
                 to : Collectors \cup {Unset}]
  /\ notify \in [on : BOOLEAN, hook : Webhooks \cup {Unset}]
  /\ items \in Seq(ItemRec) /\ nextID \in Nat
  /\ recentKeys \in [DOMAIN recentKeys -> {"fresh", "expired"}] /\ DOMAIN recentKeys \subseteq EventKeys
  /\ pushing \in [Pushers -> EventKeys \cup {Unset}]
  /\ hookQ \in Seq(HookRec) /\ posting \in [HookWorkers -> {Unset} \cup HookRec]
  /\ open \subseteq EventKeys /\ again \in BOOLEAN

WriterInv ==
  /\ writer.step \in {"took", "dial", "write"} => writer.cfg # Unset
  /\ writer.step = "took" => conn = Unset \/ overtaken \/ conn = writer.cfg
  /\ writer.step = "write" => writer.to # Unset

NotifierInv ==
  /\ open = {k \in DOMAIN recentKeys : recentKeys[k] = "fresh"} /\ ~again
  /\ \A i \in DOMAIN items : items[i].id <= nextID

EventIInv == EventTypeOK /\ WriterInv /\ NotifierInv /\ ForwardingSound
=============================================================================
