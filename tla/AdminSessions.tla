--------------------------- MODULE AdminSessions ---------------------------
(***************************************************************************)
(* Administrators of the console (users.go, admin_login_hardening.go, the  *)
(* user handlers of admin.go): accounts in the configuration, logins,      *)
(* sessions in memory, and the limiter of failed logins.                   *)
(*                                                                         *)
(* A login reads the accounts once, checks the password, which takes long, *)
(* and then creates the session.  A change of accounts is live before it   *)
(* is committed and is rolled back when the commit fails, if it can be     *)
(* (ControlPlane); afterwards the sessions of the account are revoked.  A  *)
(* reload brings back the accounts it read before it waited for its turn,  *)
(* and revokes nothing.  The limiter counts per account and per host; time *)
(* is that a window or a block may end.                                    *)
(***************************************************************************)
EXTENDS Naturals, Sequences, FiniteSets, Functions

CONSTANTS Accounts, Hosts, Roles, Logins, Admins, Nil,
          LoginLimit, MaxKeys,          \* failures that block; entries before keys share one
          MaxSessions, MaxUserEdits     \* bounds

AccountRec == [role : Roles, enabled : BOOLEAN, pw : {1, 2}]
ChangeRec == [user : Accounts, before : AccountRec \cup {Nil}, at : {"live", "revoke"}]
LoginRec == [at : {"begun", "bad"}, user : Accounts, host : Hosts, pw : {1, 2}]
            \cup [at : {"good"}, user : Accounts, host : Hosts, role : Roles]
AccountLists == [Accounts -> AccountRec \cup {Nil}]

(* Keys of hosts and of accounts have different prefixes.                  *)
ASSUME SessionsAssumption ==
  /\ Accounts \cap Hosts = {} /\ IsFiniteSet(Logins) /\ LoginLimit \in Nat \ {0}
  /\ Nil \notin AccountRec \cup ChangeRec \cup LoginRec \cup AccountLists

VARIABLES
  accounts,      \* account -> [role, enabled, pw], or Nil
  underway,       \* admin -> the change it is making, [user, before, at], or Nil
  reloads,        \* admin -> the accounts its reload has read, or Nil
  logins,
  sessions,       \* [user, role, left]: left, when no handler will end it for its role
  entries, overflow,     \* key -> [count, over, blocked]
  userEdits

accountVars == <<accounts, underway, reloads>>
sessionVars == <<accountVars, logins, sessions, entries, overflow, userEdits>>
limiterVars == <<entries, overflow>>

NoFailures == [count |-> 0, over |-> FALSE, blocked |-> FALSE]

SessionsInit ==
  /\ accounts \in [Accounts -> {Nil} \cup [role : Roles, enabled : {TRUE}, pw : {1}]]
  /\ underway = [a \in Admins |-> Nil] /\ reloads = underway /\ logins = [l \in Logins |-> Nil] /\ sessions = {}
  /\ entries = [k \in {} |-> NoFailures] /\ overflow = NoFailures /\ userEdits = 0

-----------------------------------------------------------------------------
(* Logins.                                                                 *)

LoginKeys(u, h) == <<h, u>>
HasEntry(t, k) == k \in DOMAIN t.entries \/ Cardinality(DOMAIN t.entries) < MaxKeys
State(t, k) == IF k \in DOMAIN t.entries THEN t.entries[k] ELSE IF HasEntry(t, k) THEN NoFailures ELSE t.overflow
Limiter == [entries |-> entries, overflow |-> overflow]

Allow(ks) == \A i \in DOMAIN ks : ~State(Limiter, ks[i]).blocked

(* The count stops at a bound that has no meaning for the code.            *)
MaxCount == LoginLimit + Cardinality(Logins)
Count(v) == LET n == IF v.over THEN 1 ELSE IF v.count < MaxCount THEN v.count + 1 ELSE MaxCount
            IN  [count |-> n, over |-> FALSE, blocked |-> n >= LoginLimit \/ (v.blocked /\ ~v.over)]
Record(t, k) == IF HasEntry(t, k)
                THEN [t EXCEPT !.entries = [j \in DOMAIN @ \cup {k} |-> IF j = k THEN Count(State(t, k)) ELSE @[j]]]
                ELSE [t EXCEPT !.overflow = Count(@)]
Failure(ks) == LET t == Record(Record(Limiter, ks[1]), ks[2]) IN entries' = t.entries /\ overflow' = t.overflow
Success(ks) == /\ entries' = [k \in DOMAIN entries \ Range(ks) |-> entries[k]]
               /\ UNCHANGED overflow

StartLogin(l, u, h, pw) ==
  /\ logins[l] = Nil /\ Allow(LoginKeys(u, h))
  /\ logins' = [logins EXCEPT ![l] = [at |-> "begun", user |-> u, host |-> h, pw |-> pw]]
  /\ UNCHANGED <<accountVars, sessions, limiterVars, userEdits>>

(* The accounts of this moment decide; the answer comes later.             *)
CheckLogin(l) ==
  /\ logins[l] # Nil /\ logins[l].at = "begun"
  /\ LET u == logins[l].user  acc == accounts[u]
         good == acc # Nil /\ acc.enabled /\ acc.pw = logins[l].pw
     IN  logins' = [logins EXCEPT ![l] =
           IF ~good THEN [@ EXCEPT !.at = "bad"]
           ELSE [at |-> "good", user |-> u, host |-> @.host, role |-> acc.role]]
  /\ UNCHANGED <<accountVars, sessions, limiterVars, userEdits>>

RejectLogin(l) ==
  /\ logins[l] # Nil /\ logins[l].at = "bad"
  /\ Failure(LoginKeys(logins[l].user, logins[l].host)) /\ logins' = [logins EXCEPT ![l] = Nil]
  /\ UNCHANGED <<accountVars, sessions, userEdits>>

IsOf(acc, role) == acc # Nil /\ acc.enabled /\ acc.role = role

(* What the check found is not looked at again: a session may begin that   *)
(* is no longer of its account.                                            *)
CreateSession(l) ==
  /\ logins[l] # Nil /\ logins[l].at = "good" /\ Cardinality(sessions) < MaxSessions
  /\ sessions' = sessions \cup {[user |-> logins[l].user, role |-> logins[l].role,
                                 left |-> ~IsOf(accounts[logins[l].user], logins[l].role)]}
  /\ Success(LoginKeys(logins[l].user, logins[l].host)) /\ logins' = [logins EXCEPT ![l] = Nil]
  /\ UNCHANGED <<accountVars, userEdits>>

(* Logout, or twelve hours.                                                *)
EndSession(s) ==
  /\ s \in sessions /\ sessions' = sessions \ {s}
  /\ UNCHANGED <<accountVars, logins, limiterVars, userEdits>>

(* A window ends; a block, which starts later and lasts as long, after it. *)
Passed(v) == IF v.over THEN [v EXCEPT !.blocked = FALSE] ELSE [v EXCEPT !.over = TRUE]
Lapsed(v) == v.over /\ ~v.blocked
TimePasses(k) ==
  /\ k \in DOMAIN entries
  /\ entries' = IF Lapsed(Passed(entries[k])) THEN [j \in DOMAIN entries \ {k} |-> entries[j]]
                ELSE [entries EXCEPT ![k] = Passed(@)]
  /\ UNCHANGED <<accountVars, logins, sessions, overflow, userEdits>>
OverflowPasses ==
  /\ overflow # NoFailures /\ overflow' = IF Lapsed(Passed(overflow)) THEN NoFailures ELSE Passed(overflow)
  /\ UNCHANGED <<accountVars, logins, sessions, entries, userEdits>>

-----------------------------------------------------------------------------
(* Accounts.  One transaction at a time is between live and committed.     *)

(* What a handler makes of an account: create, update, password, delete.   *)
Changed(acc) ==
  IF acc = Nil THEN {[role |-> r, enabled |-> TRUE, pw |-> 1] : r \in Roles}
  ELSE {[role |-> r, enabled |-> e, pw |-> acc.pw] : r \in Roles, e \in BOOLEAN} \cup {[acc EXCEPT !.pw = 3 - @]} \cup {Nil}

(* Create and password end no session.                                     *)
Revokes(before, after) == before # Nil /\ (after = Nil \/ after.pw = before.pw)

Live(a) == underway[a] # Nil /\ underway[a].at = "live"
InTurn == \A a \in Admins : ~Live(a)
AtRest(a) == underway[a] = Nil /\ reloads[a] = Nil

(* The sessions, when users get other accounts and no handler revokes.     *)
Left(users, after) ==
  {[s EXCEPT !.left = @ \/ (s.user \in users /\ ~IsOf(after[s.user], s.role))] : s \in sessions}

ChangeUser(a, u, new) ==
  /\ AtRest(a) /\ InTurn
  /\ userEdits < MaxUserEdits /\ userEdits' = userEdits + 1
  /\ accounts' = [accounts EXCEPT ![u] = new]
  /\ underway' = [underway EXCEPT ![a] = [user |-> u, before |-> accounts[u], at |-> "live"]]
  /\ UNCHANGED <<reloads, logins, sessions, limiterVars>>

(* Mutated form: the sessions are revoked before the change, not after.    *)
RevokeFirst(a) ==
  /\ Live(a) /\ underway' = [underway EXCEPT ![a] = Nil]
  /\ UNCHANGED <<accounts, reloads, logins, sessions, limiterVars, userEdits>>
CommitUsers(a) ==
  /\ Live(a)
  /\ underway' = [underway EXCEPT ![a] = IF Revokes(@.before, accounts[@.user]) THEN [@ EXCEPT !.at = "revoke"] ELSE Nil]
  /\ UNCHANGED <<accounts, reloads, logins, sessions, limiterVars, userEdits>>

(* The commit fails, and the accounts of before are live again, unless     *)
(* that fails too.  The handler returns its error and revokes nothing.     *)
RollBackUsers(a) ==
  /\ Live(a)
  /\ LET u == underway[a].user
     IN  \E acc \in {underway[a].before, accounts[u]} :
           /\ accounts' = [accounts EXCEPT ![u] = acc]
           /\ sessions' = Left({u}, accounts')
  /\ underway' = [underway EXCEPT ![a] = Nil]
  /\ UNCHANGED <<reloads, logins, limiterVars, userEdits>>

Revoke(a) ==
  /\ underway[a] # Nil /\ underway[a].at = "revoke"
  /\ sessions' = {s \in sessions : s.user # underway[a].user} /\ underway' = [underway EXCEPT ![a] = Nil]
  /\ UNCHANGED <<accounts, reloads, logins, limiterVars, userEdits>>

(* A reload reads the live configuration, the accounts with it, at any     *)
(* moment, also when a change is live that will be rolled back.            *)
ReadReload(a) ==
  /\ AtRest(a) /\ reloads' = [reloads EXCEPT ![a] = accounts]
  /\ UNCHANGED <<accounts, underway, logins, sessions, limiterVars, userEdits>>

(* In its turn it applies what it read, or fails before anything is live.  *)
Reload(a) ==
  /\ reloads[a] # Nil /\ InTurn /\ reloads' = [reloads EXCEPT ![a] = Nil]
  /\ \/ UNCHANGED <<accounts, sessions>>
     \/ /\ accounts' = reloads[a]
        /\ sessions' = Left({u \in Accounts : accounts'[u] # accounts[u]}, accounts')
  /\ UNCHANGED <<underway, logins, limiterVars, userEdits>>

SessionsNext ==
  \/ \E l \in Logins : \/ \E u \in Accounts, h \in Hosts, pw \in {1, 2} : StartLogin(l, u, h, pw)
                       \/ CheckLogin(l) \/ RejectLogin(l) \/ CreateSession(l)
  \/ (\E s \in sessions : EndSession(s)) \/ OverflowPasses
  \/ \E k \in Accounts \cup Hosts : TimePasses(k)
  \/ \E a \in Admins : \/ \E u \in Accounts : \E new \in Changed(accounts[u]) : ChangeUser(a, u, new)
                       \/ CommitUsers(a) \/ RollBackUsers(a) \/ Revoke(a) \/ ReadReload(a) \/ Reload(a)

SessionsSpec == SessionsInit /\ [][SessionsNext]_sessionVars
-----------------------------------------------------------------------------
(* Properties.                                                             *)

(* A session is that of an enabled account in its present role, as soon as *)
(* the handler that changed the account has revoked.  The code ends no     *)
(* session, and this asks nothing, in three cases: the session began when  *)
(* the change its login did not see had passed; the account was changed    *)
(* back, or could not be, by a handler that returned an error; a reload    *)
(* brought back other accounts.  What is `left` so, the next change of the *)
(* account that revokes ends with the others.                              *)
SessionsAreCurrent ==
  \A s \in sessions :
    \/ IsOf(accounts[s.user], s.role)
    \/ s.left \/ \E a \in Admins : underway[a] # Nil /\ underway[a].user = s.user

(* However logins overlap, a key with an entry of its own fails at most as *)
(* often as its limit allows before it is blocked, and once more for each  *)
(* of the others that had begun.  The entry the keys share at capacity     *)
(* promises no such thing: it is left as soon as there is room again.      *)
GuessesBounded ==
  \A k \in DOMAIN entries : entries[k].count < MaxCount

(* Who may act as administrator: sessions follow the accounts, and         *)
(* passwords cannot be tried without limit.                                *)
AccessGuarded == SessionsAreCurrent /\ GuessesBounded

SessionsTypeOK ==
  /\ accounts \in AccountLists /\ reloads \in [Admins -> AccountLists \cup {Nil}]
  /\ underway \in [Admins -> ChangeRec \cup {Nil}]
  /\ logins \in [Logins -> LoginRec \cup {Nil}]
  /\ sessions \subseteq [user : Accounts, role : Roles, left : BOOLEAN]
  /\ DOMAIN entries \subseteq Accounts \cup Hosts
  /\ entries \in [DOMAIN entries -> [count : Nat, over : BOOLEAN, blocked : BOOLEAN]]

Touches(a, u) == underway[a] # Nil /\ underway[a].user = u

(* While a change is live, a session of its account fits what the account  *)
(* was or what it is now, or another handler is about to end it.           *)
ChangeFits(a, u) ==
  /\ accounts[u] \in Changed(underway[a].before)
  /\ \A s \in sessions : s.user = u =>
       \/ s.left \/ IsOf(underway[a].before, s.role) \/ IsOf(accounts[u], s.role)
       \/ \E b \in Admins \ {a} : Touches(b, u)
AccountsInv ==
  /\ \A a, b \in Admins : Live(a) /\ Live(b) => a = b
  /\ \A a \in Admins, u \in Accounts : Live(a) /\ Touches(a, u) => ChangeFits(a, u)

(* The failures of a key and the logins with it that may still fail are    *)
(* together below the bound: none begins once it is blocked.               *)
Guessing(k) == {l \in Logins : /\ logins[l] # Nil /\ logins[l].at \in {"begun", "bad"}
                               /\ k \in {logins[l].user, logins[l].host}}
GuessesInv ==
  \A k \in DOMAIN entries : /\ entries[k].blocked \/ entries[k].count < LoginLimit
                            /\ entries[k].count + Cardinality(Guessing(k)) < MaxCount

SessionsIInv == SessionsTypeOK /\ AccountsInv /\ SessionsAreCurrent /\ GuessesInv
=============================================================================
