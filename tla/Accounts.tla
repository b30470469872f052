------------------------------- MODULE Accounts -------------------------------
(* The management plane's identities: accounts, passwords, setup links,       *)
(* console sessions and API tokens.  Every mutation is one transaction under  *)
(* one advisory lock (management/mod.rs), so a commit is one action; what a   *)
(* request reads before it, to verify or hash a password without the lock, is *)
(* an action of its own, and the commit rechecks what it rechecks in the code.*)
(* A request that fails a check, is refused by an admission budget or gives   *)
(* up is Refuse.  Sessions are console sessions: no route exchanges a token   *)
(* for one.                                                                   *)
EXTENDS Naturals, FiniteSets

CONSTANTS
  Accounts, Roles,
  MaxSessions,     \* bound: console sessions ever created
  SessionLimit,    \* 64 in the code
  Tokens,          \* bound: API tokens ever issued
  TokenLimit,      \* 32 in the code
  MaxPasswords,    \* bound: passwords an account ever has
  MaxLinks,        \* bound: setup links ever issued
  Public,          \* logins and setup forms running at one time
  Console,         \* requests of a signed-in user running at one time
  Nobody

ASSUME AccountsAssumption ==
  /\ "admin" \in Roles
  /\ Nobody \notin Accounts /\ "revoked" \notin Accounts /\ Nobody # "revoked"
  /\ MaxSessions \in Nat /\ MaxPasswords \in Nat /\ MaxLinks \in Nat
  /\ SessionLimit \in Nat \ {0} /\ TokenLimit \in Nat \ {0}
  /\ IsFiniteSet(Tokens)

VARIABLES
  status,      \* accounts.is_active and deleted_at, or "absent"
  role,        \* accounts.role
  generation,  \* password_credentials.generation, 0 while the hash is NULL
  link,        \* password_setup_tokens: number of the link that works, or 0
  links,       \* setup links issued so far
  holder,      \* sessions.account_id, Nobody before the insert
  proof,       \* sessions.password_generation
  live,        \* sessions neither revoked nor expired
  token,       \* api_tokens: its account while it works, Nobody before, "revoked" after
  req

Requests == Public \cup Console

people   == <<status, role>>
secrets  == <<generation, link, links>>
sessions == <<holder, proof, live>>
vars     == <<people, secrets, sessions, token, req>>

Sessions == 1..MaxSessions

Idle == [op |-> "idle", pc |-> "idle", session |-> 0, account |-> Nobody,
         target |-> Nobody, verified |-> 0]

Ops == {"idle", "login", "setup", "change", "link", "user", "own", "for"}

TypeOK ==
  /\ status \in [Accounts -> {"absent", "active", "disabled", "deleted"}]
  /\ role \in [Accounts -> Roles]
  /\ generation \in [Accounts -> 0..MaxPasswords]
  /\ links \in 0..MaxLinks /\ link \in [Accounts -> 0..links]
  /\ holder \in [Sessions -> Accounts \cup {Nobody}]
  /\ proof \in [Sessions -> 0..MaxPasswords]
  /\ live \in SUBSET {s \in Sessions : holder[s] # Nobody}
  /\ token \in [Tokens -> Accounts \cup {Nobody, "revoked"}]
  /\ req \in [Requests -> [op : Ops, pc : {"idle", "admitted", "identified", "verified"},
                           session : 0..MaxSessions, account : Accounts \cup {Nobody},
                           target : Accounts \cup {Nobody},
                           verified : 0..(MaxPasswords + MaxLinks)]]

Init ==
  /\ status = [a \in Accounts |-> "absent"]
  /\ role = [a \in Accounts |-> "admin"]
  /\ generation = [a \in Accounts |-> 0]
  /\ link = [a \in Accounts |-> 0] /\ links = 0
  /\ holder = [s \in Sessions |-> Nobody]
  /\ proof = [s \in Sessions |-> 0]
  /\ live = {}
  /\ token = [t \in Tokens |-> Nobody]
  /\ req = [q \in Requests |-> Idle]

-------------------------------------------------------------------------------
(* What a transaction or a plain read finds.                                  *)

Active(a) == status[a] = "active"
Ready(a)  == Active(a) /\ generation[a] # 0
Admin(a)  == Active(a) /\ role[a] = "admin"

\* password_only_session, and session for a password session
Resolves(s) ==
  /\ s \in live
  /\ Active(holder[s])
  /\ generation[holder[s]] # 0 /\ generation[holder[s]] = proof[s]

\* authorize: identities are managed from the console, by an admin
AsAdmin(s) == Resolves(s) /\ Admin(holder[s])

SessionsOf(a) == {s \in live : holder[s] = a}
TokensOf(a)   == {t \in Tokens : token[t] = a}
RevokeTokensOf(a) == [t \in Tokens |-> IF token[t] = a THEN "revoked" ELSE token[t]]

(* Mutant: the sessions kept leave no room for the new one. *)
EvictedLate(a) ==
  {s \in SessionsOf(a) :
     Cardinality({t \in SessionsOf(a) : t > s}) >= SessionLimit}

\* The sessions a new one pushes out: all but the newest SessionLimit - 1.
Evicted(a) ==
  {s \in SessionsOf(a) :
     Cardinality({t \in SessionsOf(a) : t > s}) >= SessionLimit - 1}

CanIssue(a) == Active(a) /\ Cardinality(TokensOf(a)) < TokenLimit

(* Mutant: any other admin counts, with or without a password. *)
AdminIsCounted(a) == \E b \in Accounts \ {a} : Admin(b)

\* change_in's guard when an active admin loses the role or the activity
AdminIsLeft(a) ==
  IF Ready(a)
  THEN \E b \in Accounts \ {a} : Admin(b) /\ Ready(b)
  ELSE \E b \in Accounts \ {a} : Admin(b)

NewSession(s) ==
  /\ holder[s] = Nobody
  /\ \A t \in Sessions : holder[t] = Nobody => s <= t

-------------------------------------------------------------------------------
(* The operator's commands (grove account initialize, recover).               *)

Initialize(a) ==
  /\ \A b \in Accounts : status[b] = "absent"
  /\ MaxPasswords > 0
  /\ status' = [status EXCEPT ![a] = "active"]
  /\ role' = [role EXCEPT ![a] = "admin"]
  /\ generation' = [generation EXCEPT ![a] = 1]
  /\ UNCHANGED <<link, links, sessions, token, req>>

Recover(a) ==
  /\ Active(a)
  /\ generation[a] < MaxPasswords
  /\ generation' = [generation EXCEPT ![a] = @ + 1]
  /\ link' = [link EXCEPT ![a] = 0]
  /\ live' = live \ SessionsOf(a)
  /\ token' = RevokeTokensOf(a)
  /\ UNCHANGED <<people, links, holder, proof, req>>

-------------------------------------------------------------------------------
(* Commands of one transaction: resolve the session, authorise, write.        *)

CreateAccount(s, a, r) ==
  /\ AsAdmin(s) /\ status[a] = "absent"
  /\ status' = [status EXCEPT ![a] = "active"]
  /\ role' = [role EXCEPT ![a] = r]
  /\ UNCHANGED <<secrets, sessions, token, req>>

ChangeRole(s, a, r) ==
  /\ AsAdmin(s) /\ status[a] \in {"active", "disabled"}
  /\ role[a] # r
  /\ Admin(a) => AdminIsLeft(a)
  /\ role' = [role EXCEPT ![a] = r]
  \* the UPDATE of sessions runs for every change that leaves the account inactive
  /\ live' = IF Active(a) THEN live ELSE live \ SessionsOf(a)
  /\ UNCHANGED <<status, secrets, holder, proof, token, req>>

(* Mutant: resolve refuses inactive accounts anyway, so nothing is revoked. *)
DisableOnly(s, a) ==
  /\ AsAdmin(s) /\ Active(a)
  /\ Admin(a) => AdminIsLeft(a)
  /\ status' = [status EXCEPT ![a] = "disabled"]
  /\ UNCHANGED <<role, secrets, sessions, token, req>>

Disable(s, a) ==
  /\ AsAdmin(s) /\ Active(a)
  /\ Admin(a) => AdminIsLeft(a)
  /\ status' = [status EXCEPT ![a] = "disabled"]
  /\ live' = live \ SessionsOf(a)
  /\ UNCHANGED <<role, secrets, holder, proof, token, req>>

Reactivate(s, a) ==
  /\ AsAdmin(s) /\ status[a] = "disabled"
  /\ status' = [status EXCEPT ![a] = "active"]
  /\ UNCHANGED <<role, secrets, sessions, token, req>>

DeleteAccount(s, a) ==
  /\ AsAdmin(s) /\ status[a] \in {"active", "disabled"}
  /\ Admin(a) => AdminIsLeft(a)
  /\ status' = [status EXCEPT ![a] = "deleted"]
  /\ live' = live \ SessionsOf(a)
  /\ token' = RevokeTokensOf(a)
  /\ UNCHANGED <<role, secrets, holder, proof, req>>

\* an admin's command, or personal_tokens::revoke of a token of one's own
RevokeToken(s, t) ==
  /\ Resolves(s) /\ token[t] \in Accounts
  /\ Admin(holder[s]) \/ token[t] = holder[s]
  /\ token' = [token EXCEPT ![t] = "revoked"]
  /\ UNCHANGED <<people, secrets, sessions, req>>

\* RevokeOwnSession, and Logout when both are the same session
RevokeSession(s, other) ==
  /\ Resolves(s)
  /\ other \in SessionsOf(holder[s])
  /\ live' = live \ {other}
  /\ UNCHANGED <<people, secrets, holder, proof, token, req>>

-------------------------------------------------------------------------------
(* Requests that verify or hash a password between two transactions.          *)

Start(q, op, pc, s, a, target, verified) ==
  /\ req[q].op = "idle"
  /\ req' = [req EXCEPT ![q] = [op |-> op, pc |-> pc, session |-> s, account |-> a,
                                target |-> target, verified |-> verified]]
  /\ UNCHANGED <<people, secrets, sessions, token>>

Done(q) == req' = [req EXCEPT ![q] = Idle]

At(q, op) == req[q].op = op /\ req[q].pc = "verified"

\* password_exchange: find, then verify against what it found
BeginLogin(q, a) ==
  /\ q \in Public
  /\ Ready(a)
  /\ Start(q, "login", "verified", 0, a, Nobody, generation[a])

CommitLogin(q, s) ==
  LET a == req[q].account IN
  /\ At(q, "login")
  /\ Active(a) /\ generation[a] = req[q].verified
  /\ NewSession(s)
  /\ live' = (live \ Evicted(a)) \cup {s}
  /\ holder' = [holder EXCEPT ![s] = a]
  /\ proof' = [proof EXCEPT ![s] = req[q].verified]
  /\ Done(q)
  /\ UNCHANGED <<people, secrets, token>>

\* password_setups::complete: inspect, hash, then complete rechecks it all
BeginSetup(q, a) ==
  /\ q \in Public
  /\ link[a] # 0 /\ generation[a] = 0 /\ Active(a)
  /\ Start(q, "setup", "verified", 0, a, Nobody, link[a])

CommitSetup(q) ==
  LET a == req[q].account IN
  /\ At(q, "setup")
  /\ link[a] = req[q].verified
  /\ generation[a] = 0 /\ Active(a)
  /\ MaxPasswords > 0
  /\ generation' = [generation EXCEPT ![a] = 1]
  /\ link' = [link EXCEPT ![a] = 0]
  /\ Done(q)
  /\ UNCHANGED <<people, links, sessions, token>>

\* run: the first of IssueCredential's two transactions
BeginIssueFor(q, s, target) ==
  /\ q \in Console
  /\ AsAdmin(s)
  /\ Start(q, "for", "admitted", s, Nobody, target, 0)

\* reauthenticate reads the session outside any transaction...
BeginOwn(q, s, op) ==
  /\ q \in Console
  /\ Resolves(s)
  /\ Start(q, op, "identified", s, holder[s], Nobody, 0)

BeginAdmin(q, s, op, target) ==
  /\ q \in Console
  /\ AsAdmin(s)
  /\ Start(q, op, "identified", s, holder[s], target, 0)

IdentifyAgain(q) ==
  /\ req[q].pc = "admitted" /\ Resolves(req[q].session)
  /\ req' = [req EXCEPT ![q].pc = "identified", ![q].account = holder[req[q].session]]
  /\ UNCHANGED <<people, secrets, sessions, token>>

\* ...and the credential in a later read; its hash is what is verified.
Verify(q) ==
  /\ req[q].pc = "identified" /\ Ready(req[q].account)
  /\ req' = [req EXCEPT ![q].pc = "verified", ![q].verified = generation[req[q].account]]
  /\ UNCHANGED <<people, secrets, sessions, token>>

(* Mutant: the session was read by session_actor and is not read again. *)
CommitChangeUnchecked(q) ==
  LET s == req[q].session  a == holder[s] IN
  /\ At(q, "change")
  /\ Active(a) /\ generation[a] = req[q].verified
  /\ generation[a] < MaxPasswords
  /\ generation' = [generation EXCEPT ![a] = @ + 1]
  /\ live' = live \ SessionsOf(a)
  /\ Done(q)
  /\ UNCHANGED <<people, link, links, holder, proof, token>>

CommitChange(q) ==
  LET s == req[q].session  a == holder[s] IN
  /\ At(q, "change")
  /\ s \in live /\ Active(a)
  /\ proof[s] = req[q].verified /\ generation[a] = req[q].verified
  /\ generation[a] < MaxPasswords
  /\ generation' = [generation EXCEPT ![a] = @ + 1]
  /\ live' = live \ SessionsOf(a)
  /\ Done(q)
  /\ UNCHANGED <<people, link, links, holder, proof, token>>

(* Mutant: the number of the new link is not taken. *)
NewLinkReused(a) ==
  /\ links < MaxLinks
  /\ link' = [link EXCEPT ![a] = links + 1]
  /\ links' = links

NewLink(a) ==
  /\ links < MaxLinks
  /\ links' = links + 1
  /\ link' = [link EXCEPT ![a] = links + 1]

CommitLink(q) ==
  LET a == req[q].target IN
  /\ At(q, "link") /\ AsAdmin(req[q].session)
  /\ Active(a) /\ generation[a] = 0
  /\ NewLink(a)
  /\ Done(q)
  /\ UNCHANGED <<people, generation, sessions, token>>

CommitUser(q, r) ==
  LET a == req[q].target IN
  /\ At(q, "user") /\ AsAdmin(req[q].session)
  /\ status[a] = "absent"
  /\ status' = [status EXCEPT ![a] = "active"]
  /\ role' = [role EXCEPT ![a] = r]
  /\ NewLink(a)
  /\ Done(q)
  /\ UNCHANGED <<generation, sessions, token>>

Issue(q, t, a) ==
  /\ CanIssue(a)
  /\ token[t] = Nobody
  /\ token' = [token EXCEPT ![t] = a]
  /\ Done(q)
  /\ UNCHANGED <<people, secrets, sessions>>

CommitOwn(q, t) ==
  /\ At(q, "own") /\ Resolves(req[q].session)
  /\ Issue(q, t, holder[req[q].session])

(* Mutant: the second transaction relies on the first one's authorize. *)
CommitForUnresolved(q, t) ==
  /\ At(q, "for")
  /\ Issue(q, t, req[q].target)

CommitFor(q, t) ==
  /\ At(q, "for") /\ AsAdmin(req[q].session)
  /\ Issue(q, t, req[q].target)

Refuse(q) ==
  /\ req[q].op # "idle"
  /\ Done(q)
  /\ UNCHANGED <<people, secrets, sessions, token>>

-------------------------------------------------------------------------------
SessionExpires(s) ==
  /\ s \in live
  /\ live' = live \ {s}
  /\ UNCHANGED <<people, secrets, holder, proof, token, req>>

LinkExpires(a) ==
  /\ link[a] # 0
  /\ link' = [link EXCEPT ![a] = 0]
  /\ UNCHANGED <<people, generation, links, sessions, token, req>>

TokenExpires(t) ==
  /\ token[t] \in Accounts
  /\ token' = [token EXCEPT ![t] = "revoked"]
  /\ UNCHANGED <<people, secrets, sessions, req>>

Command ==
  \E s \in Sessions :
    \/ \E a \in Accounts :
         \/ \E r \in Roles : CreateAccount(s, a, r) \/ ChangeRole(s, a, r)
         \/ Disable(s, a) \/ Reactivate(s, a) \/ DeleteAccount(s, a)
    \/ \E t \in Tokens : RevokeToken(s, t)
    \/ \E other \in Sessions : RevokeSession(s, other)

Begin(q) ==
  \/ \E a \in Accounts : BeginLogin(q, a) \/ BeginSetup(q, a)
  \/ \E s \in Sessions :
       \/ \E op \in {"change", "own"} : BeginOwn(q, s, op)
       \/ \E a \in Accounts, op \in {"link", "user"} : BeginAdmin(q, s, op, a)

Commit(q) ==
  \/ \E s \in Sessions : CommitLogin(q, s)
  \/ CommitSetup(q) \/ CommitChange(q) \/ CommitLink(q)
  \/ \E r \in Roles : CommitUser(q, r)
  \/ \E t \in Tokens : CommitOwn(q, t) \/ CommitFor(q, t)

\* What takes the identity lock, and the plain reads that do not.
Locked ==
  \/ \E a \in Accounts : Initialize(a) \/ Recover(a) \/ LinkExpires(a)
  \/ Command
  \/ \E q \in Requests, s \in Sessions, a \in Accounts : BeginIssueFor(q, s, a)
  \/ \E q \in Requests : Commit(q)
  \/ \E s \in Sessions : SessionExpires(s)
  \/ \E t \in Tokens : TokenExpires(t)

Unlocked ==
  \E q \in Requests : Begin(q) \/ IdentifyAgain(q) \/ Verify(q) \/ Refuse(q)

Next == Locked \/ Unlocked

Spec == Init /\ [][Next]_vars

-------------------------------------------------------------------------------
(* Properties.                                                                *)

\* change_in, change and recover end an account's sessions ("Old sessions stay
\* revoked after reactivation") and create_password_session rechecks what was
\* verified before the lock: no session is unrevoked that could work again when
\* its account is reactivated, and none was opened with a replaced password.
SessionsAreCurrent ==
  \A s \in live : Active(holder[s]) /\ generation[holder[s]] = proof[s]

\* The same over time: a session that exists and stops resolving never
\* resolves again, whatever is reactivated, recovered or changed afterwards.
SessionsStayEnded ==
  [][\A s \in Sessions : holder[s] # Nobody /\ ~Resolves(s) => ~Resolves(s)']_vars

\* change_in refuses with LastAdmin: once the server is initialised, some active
\* admin has a password, so someone can still sign in and manage it.
AdminRemains ==
  (\E a \in Accounts : status[a] # "absent") => \E a \in Accounts : Admin(a) /\ Ready(a)

\* A password is set or replaced by whoever proved the right to: the holder of
\* the last link issued, while none is set; a request that verified the very
\* password it replaces, from a session that still works; or the operator, who
\* leaves no token and no link behind.  No session survives the replacement.
PasswordsAreProven ==
  [][\A a \in Accounts : generation'[a] # generation[a] =>
       /\ {s \in live' : holder'[s] = a} = {}
       /\ \/ status[a] = "absent"
          \/ link'[a] = 0 /\ \A t \in Tokens : token'[t] # a
          \/ \E q \in Requests : /\ req[q].op = "setup" /\ req[q].account = a
                                 /\ generation[a] = 0 /\ req[q].verified = link[a]
          \/ \E q \in Requests : /\ req[q].op = "change" /\ req[q].verified = generation[a]
                                 /\ req[q].account = a /\ Resolves(req[q].session)]_vars

\* A token or a link is issued only for a request whose password check is still
\* good when it is written: the password it verified, before the lock, is the
\* account's current one, its session works, and it is an admin's unless the
\* token is its own.
IssuanceIsAuthorised ==
  [][\A a \in Accounts :
       (link'[a] > link[a] \/ \E t \in Tokens : token[t] # a /\ token'[t] = a) =>
         \E q \in Requests :
           LET me == req[q].account IN
           /\ req[q].op \in {"link", "user", "own", "for"} /\ me \in Accounts
           /\ Active(me) /\ req[q].verified = generation[me]
           /\ Resolves(req[q].session) /\ holder[req[q].session] = me
           /\ a = me \/ role[me] = "admin"]_vars

\* create_password_session evicts before it inserts, insert counts before it
\* inserts: an account never has more sessions or tokens than the limits.
WithinLimits ==
  \A a \in Accounts : /\ Cardinality(SessionsOf(a)) <= SessionLimit
                      /\ Cardinality(TokensOf(a)) <= TokenLimit
===============================================================================
