---------------------------- MODULE AccountsProofs ----------------------------
(* Proofs about Accounts, for every set of accounts, roles and tokens, any     *)
(* number of overlapping requests and every limit.                             *)
EXTENDS Accounts, FiniteSetTheorems, TLAPS

-----------------------------------------------------------------------------
(* The inductive invariant.  What a request carries over from its reads to its *)
(* commit, and what keeps a session unrevoked.                                 *)

RequestStates ==
  [op : Ops, pc : {"idle", "admitted", "identified", "verified"},
   session : 0..MaxSessions, account : Accounts \cup {Nobody},
   target : Accounts \cup {Nobody}, verified : 0..(MaxPasswords + MaxLinks)]

ConsoleOps == {"change", "link", "user", "own", "for"}

\* What a request knows by itself.
WellFormed(r) ==
  /\ r.op = "idle" => r.pc = "idle"
  /\ r.op \in {"login", "setup"} => r.pc = "verified"
  /\ r.op = "login" => r.verified # 0
  /\ r.pc = "admitted" => r.op = "for"
  /\ r.pc \in {"identified", "verified"} => r.account \in Accounts
  /\ r.op \in {"link", "user", "for"} => r.target \in Accounts
  /\ r.op \in ConsoleOps => r.session \in Sessions

\* What it knows of its session: whose it is, and, while it is unrevoked, that
\* the verified password is the one it was opened with.
SessionKnown(r) ==
  r.op \in ConsoleOps =>
    /\ holder[r.session] # Nobody
    /\ r.pc \in {"identified", "verified"} => holder[r.session] = r.account
    /\ r.pc = "verified" /\ r.session \in live => r.verified = proof[r.session]

RequestsOK == \A q \in Requests : WellFormed(req[q]) /\ SessionKnown(req[q])

SessionsOK == \A s \in live : proof[s] # 0

IInv == TypeOK /\ SessionsAreCurrent /\ SessionsOK /\ RequestsOK

-----------------------------------------------------------------------------
(* Initially nothing exists and no request runs. *)
LEMMA InitInvariant == Init => IInv
  <1> SUFFICES ASSUME Init PROVE IInv
    OBVIOUS
  <1>1. TypeOK
    BY AccountsAssumption DEF Init, TypeOK, Idle, Ops, Sessions
  <1>2. SessionsAreCurrent /\ SessionsOK
    BY DEF Init, SessionsAreCurrent, SessionsOK
  <1>3. RequestsOK
    BY DEF Init, RequestsOK, WellFormed, SessionKnown, Idle, ConsoleOps
  <1> QED BY <1>1, <1>2, <1>3 DEF IInv

-----------------------------------------------------------------------------
(* A live session belongs to an account that exists and may act. *)
LEMMA LiveSessions ==
  ASSUME IInv, NEW s \in live
  PROVE  /\ s \in Sessions /\ holder[s] \in Accounts /\ holder[s] # Nobody
         /\ Active(holder[s]) /\ generation[holder[s]] = proof[s] /\ proof[s] # 0
         /\ Resolves(s)
  BY DEF IInv, TypeOK, SessionsAreCurrent, SessionsOK, Resolves

(* A console request that has verified its user's password, and whose session  *)
(* still works, has verified the current password of the session's account.    *)
LEMMA VerifiedIsCurrent ==
  ASSUME IInv, NEW q \in Requests, req[q].op \in ConsoleOps, req[q].pc = "verified",
         req[q].session \in live
  PROVE  /\ req[q].account \in Accounts
         /\ holder[req[q].session] = req[q].account
         /\ req[q].verified = generation[req[q].account]
         /\ Resolves(req[q].session)
  <1>1. WellFormed(req[q]) /\ SessionKnown(req[q])
    BY DEF IInv, RequestsOK
  <1> QED BY <1>1, LiveSessions DEF WellFormed, SessionKnown

(* A request that ends leaves the requests well-formed. *)
LEMMA DoneKeeps ==
  ASSUME IInv, NEW q \in Requests, Done(q)
  PROVE  /\ req' \in [Requests -> RequestStates]
         /\ \A p \in Requests : req'[p] = req[p] \/ req'[p] = Idle
  BY AccountsAssumption DEF IInv, TypeOK, Done, Idle, Ops, RequestStates

(* A request that starts is well-formed when its first state is. *)
LEMMA StartKeeps ==
  ASSUME IInv, NEW q \in Requests, NEW op, NEW pc, NEW s, NEW a, NEW t, NEW v,
         Start(q, op, pc, s, a, t, v),
         [op |-> op, pc |-> pc, session |-> s, account |-> a, target |-> t, verified |-> v]
           \in RequestStates
  PROVE  req' \in [Requests -> RequestStates]
  BY DEF IInv, TypeOK, Start, RequestStates

-----------------------------------------------------------------------------
(* Steps that leave the requests and the owners of sessions alone: the         *)
(* operator's commands, those of one transaction, and what time does.          *)
Simple ==
  \/ \E a \in Accounts : Initialize(a) \/ Recover(a) \/ LinkExpires(a)
  \/ Command
  \/ \E s \in Sessions : SessionExpires(s)
  \/ \E t \in Tokens : TokenExpires(t)

\* What such a step may do to the rest.
SimpleEffects ==
  /\ TypeOK'
  /\ UNCHANGED <<holder, proof, links, req>>
  /\ live' \subseteq live
  /\ \A s \in live' : Active(holder[s])' /\ generation'[holder[s]] = generation[holder[s]]
  /\ \A a \in Accounts : link'[a] \in {link[a], 0}
  /\ \A t \in Tokens : token'[t] \in {token[t], "revoked"}
  /\ \A a \in Accounts : generation'[a] # generation[a] =>
       \/ status[a] = "absent"
       \/ link'[a] = 0 /\ \A t \in Tokens : token'[t] # a

LEMMA SimpleSteps ==
  ASSUME IInv, Simple
  PROVE  SimpleEffects
  <1> USE AccountsAssumption, LiveSessions
          DEF IInv, TypeOK, people, secrets, sessions, Active, SimpleEffects
  <1>1. ASSUME NEW a \in Accounts, Initialize(a) PROVE SimpleEffects
    BY <1>1 DEF Initialize
  <1>2. ASSUME NEW a \in Accounts, Recover(a) PROVE SimpleEffects
    BY <1>2 DEF Recover, SessionsOf, RevokeTokensOf
  <1>3. ASSUME NEW s \in Sessions, NEW a \in Accounts, NEW r \in Roles, CreateAccount(s, a, r)
        PROVE  SimpleEffects
    BY <1>3 DEF CreateAccount
  <1>4. ASSUME NEW s \in Sessions, NEW a \in Accounts, NEW r \in Roles, ChangeRole(s, a, r)
        PROVE  SimpleEffects
    BY <1>4 DEF ChangeRole, SessionsOf
  <1>5. ASSUME NEW s \in Sessions, NEW a \in Accounts, Disable(s, a) PROVE SimpleEffects
    BY <1>5 DEF Disable, SessionsOf
  <1>6. ASSUME NEW s \in Sessions, NEW a \in Accounts, Reactivate(s, a) PROVE SimpleEffects
    BY <1>6 DEF Reactivate
  <1>7. ASSUME NEW s \in Sessions, NEW a \in Accounts, DeleteAccount(s, a) PROVE SimpleEffects
    BY <1>7 DEF DeleteAccount, SessionsOf, RevokeTokensOf
  <1>8. ASSUME NEW s \in Sessions, NEW t \in Tokens, RevokeToken(s, t) PROVE SimpleEffects
    BY <1>8 DEF RevokeToken
  <1>9. ASSUME NEW s \in Sessions, NEW other \in Sessions, RevokeSession(s, other)
        PROVE  SimpleEffects
    BY <1>9 DEF RevokeSession
  <1>10. ASSUME NEW s \in Sessions, SessionExpires(s) PROVE SimpleEffects
    BY <1>10 DEF SessionExpires
  <1>11. ASSUME NEW a \in Accounts, LinkExpires(a) PROVE SimpleEffects
    BY <1>11 DEF LinkExpires
  <1>12. ASSUME NEW t \in Tokens, TokenExpires(t) PROVE SimpleEffects
    BY <1>12 DEF TokenExpires
  <1> QED
    <2> HIDE DEF SimpleEffects
    <2> QED BY <1>1, <1>2, <1>3, <1>4, <1>5, <1>6, <1>7, <1>8, <1>9, <1>10, <1>11, <1>12
            DEF Simple, Command

-----------------------------------------------------------------------------
(* A new link takes the next number. *)
LEMMA NewLinkTyped ==
  ASSUME TypeOK, NEW a \in Accounts, NewLink(a)
  PROVE  links' \in 0..MaxLinks /\ link' \in [Accounts -> 0..links']
  BY AccountsAssumption DEF TypeOK, NewLink

(* The commit of a request ends it and writes values of the columns' types. *)
LEMMA CommitTyped ==
  ASSUME IInv, NEW q \in Requests, Commit(q)
  PROVE  TypeOK' /\ Done(q)
  <1> USE AccountsAssumption
  <1>0. WellFormed(req[q]) /\ req[q] \in RequestStates
    BY DEF IInv, TypeOK, RequestsOK, RequestStates
  <1>a. Done(q) => req' \in [Requests -> RequestStates]
    BY DoneKeeps
  <1>1. CASE \E s \in Sessions : CommitLogin(q, s)
    <2>1. PICK s \in Sessions : CommitLogin(q, s)
      BY <1>1
    <2>2. req[q].account \in Accounts
      BY <1>0, <2>1 DEF WellFormed, CommitLogin, At
    <2>3. req[q].verified \in 0..MaxPasswords
      BY <2>1, <2>2 DEF CommitLogin, IInv, TypeOK
    <2>4. holder' \in [Sessions -> Accounts \cup {Nobody}] /\ proof' \in [Sessions -> 0..MaxPasswords]
      BY <2>1, <2>2, <2>3 DEF CommitLogin, IInv, TypeOK
    <2>5. live' \in SUBSET {t \in Sessions : holder'[t] # Nobody}
      BY <2>1, <2>2 DEF CommitLogin, IInv, TypeOK
    <2> QED BY <1>a, <2>1, <2>4, <2>5 DEF CommitLogin, IInv, TypeOK, people, secrets, RequestStates
  <1>2. CASE CommitSetup(q)
    <2>1. req[q].account \in Accounts
      BY <1>0, <1>2 DEF WellFormed, CommitSetup, At
    <2> QED BY <1>a, <1>2, <2>1 DEF CommitSetup, IInv, TypeOK, people, sessions, RequestStates
  <1>3. CASE CommitChange(q)
    <2>1. holder[req[q].session] \in Accounts
      BY <1>3, LiveSessions DEF CommitChange
    <2>2. generation' \in [Accounts -> 0..MaxPasswords]
      BY <1>3, <2>1 DEF CommitChange, IInv, TypeOK
    <2>3. live' \in SUBSET {t \in Sessions : holder'[t] # Nobody}
      BY <1>3 DEF CommitChange, IInv, TypeOK
    <2> QED BY <1>a, <1>3, <2>2, <2>3 DEF CommitChange, IInv, TypeOK, people, RequestStates
  <1>4. CASE CommitLink(q)
    <2>1. req[q].target \in Accounts
      BY <1>0, <1>4 DEF WellFormed, CommitLink, At
    <2> QED BY <1>a, <1>4, <2>1, NewLinkTyped
            DEF CommitLink, IInv, TypeOK, people, sessions, RequestStates
  <1>5. CASE \E r \in Roles : CommitUser(q, r)
    <2>1. PICK r \in Roles : CommitUser(q, r)
      BY <1>5
    <2>2. req[q].target \in Accounts
      BY <1>0, <2>1 DEF WellFormed, CommitUser, At
    <2> QED BY <1>a, <2>1, <2>2, NewLinkTyped
            DEF CommitUser, IInv, TypeOK, sessions, RequestStates
  <1>6. CASE \E t \in Tokens : CommitOwn(q, t)
    <2>1. PICK t \in Tokens : CommitOwn(q, t)
      BY <1>6
    <2>2. holder[req[q].session] \in Accounts
      BY <2>1, LiveSessions DEF CommitOwn, Resolves
    <2> QED BY <1>a, <2>1, <2>2
            DEF CommitOwn, Issue, IInv, TypeOK, people, secrets, sessions, RequestStates
  <1>7. CASE \E t \in Tokens : CommitFor(q, t)
    <2>1. PICK t \in Tokens : CommitFor(q, t)
      BY <1>7
    <2>2. req[q].target \in Accounts
      BY <1>0, <2>1 DEF WellFormed, CommitFor, At
    <2> QED BY <1>a, <2>1, <2>2
            DEF CommitFor, Issue, IInv, TypeOK, people, secrets, sessions, RequestStates
  <1> QED BY <1>1, <1>2, <1>3, <1>4, <1>5, <1>6, <1>7 DEF Commit

-----------------------------------------------------------------------------
(* Sessions that exist keep their account and the password they were opened    *)
(* with, and none that is revoked comes back.                                  *)
SessionsKept ==
  \A s \in Sessions : holder[s] # Nobody =>
    /\ holder'[s] = holder[s] /\ proof'[s] = proof[s]
    /\ s \in live' => s \in live

LEMMA CommitKeepsSessions ==
  ASSUME IInv, NEW q \in Requests, Commit(q)
  PROVE  SessionsKept /\ SessionsAreCurrent' /\ SessionsOK'
  <1>0. WellFormed(req[q])
    BY DEF IInv, RequestsOK
  <1>t. TypeOK
    BY DEF IInv
  <1>1. CASE \E s \in Sessions : CommitLogin(q, s)
    <2>1. PICK s \in Sessions : CommitLogin(q, s)
      BY <1>1
    <2>2. req[q].account \in Accounts /\ req[q].verified # 0
      BY <1>0, <2>1 DEF WellFormed, CommitLogin, At
    <2>3. holder[s] = Nobody
      BY <2>1 DEF CommitLogin, NewSession
    <2>4. SessionsKept
      BY <1>t, <2>1, <2>3 DEF CommitLogin, SessionsKept, TypeOK
    <2>5. \A t \in live' : t # s => t \in live
      BY <2>1 DEF CommitLogin
    <2>6. /\ Active(holder[s])' /\ generation'[holder'[s]] = proof'[s]
          /\ proof'[s] # 0
      BY <1>t, <2>1, <2>2 DEF CommitLogin, TypeOK, Active, people, secrets
    <2>7. ASSUME NEW t \in live, t # s
          PROVE  Active(holder[t])' /\ generation'[holder'[t]] = proof'[t] /\ proof'[t] # 0
      BY <1>t, <2>1, <2>7, LiveSessions DEF CommitLogin, TypeOK, Active, people, secrets
    <2> QED BY <2>4, <2>5, <2>6, <2>7 DEF SessionsAreCurrent, SessionsOK
  <1>2. CASE CommitSetup(q)
    <2>1. \A s \in live : holder[s] # req[q].account
      BY <1>2, LiveSessions, AccountsAssumption DEF CommitSetup
    <2> QED BY <1>t, <1>2, <2>1, LiveSessions
            DEF CommitSetup, SessionsKept, SessionsAreCurrent, SessionsOK, Active, people, sessions,
                TypeOK
  <1>3. CASE CommitChange(q)
    BY <1>t, <1>3, LiveSessions
    DEF CommitChange, SessionsKept, SessionsAreCurrent, SessionsOK, SessionsOf, Active, people, TypeOK
  <1>4. CASE CommitLink(q)
    BY <1>4, LiveSessions
    DEF CommitLink, SessionsKept, SessionsAreCurrent, SessionsOK, Active, people, sessions
  <1>5. CASE \E r \in Roles : CommitUser(q, r)
    BY <1>t, <1>5, LiveSessions
    DEF CommitUser, SessionsKept, SessionsAreCurrent, SessionsOK, Active, sessions, TypeOK
  <1>6. CASE \E t \in Tokens : CommitOwn(q, t) \/ CommitFor(q, t)
    BY <1>6, LiveSessions
    DEF CommitOwn, CommitFor, Issue, SessionsKept, SessionsAreCurrent, SessionsOK, Active,
        people, secrets, sessions
  <1> QED BY <1>1, <1>2, <1>3, <1>4, <1>5, <1>6 DEF Commit

(* A request that is not touched, or that ends, still knows what it knew. *)
LEMMA RequestsKept ==
  ASSUME IInv, SessionsKept, NEW p \in Requests, req'[p] = req[p] \/ req'[p] = Idle
  PROVE  WellFormed(req'[p]) /\ SessionKnown(req[p])'
  <1>1. WellFormed(req[p]) /\ SessionKnown(req[p])
    BY DEF IInv, RequestsOK
  <1>2. WellFormed(Idle) /\ Idle.op \notin ConsoleOps
    BY DEF WellFormed, Idle, ConsoleOps
  <1> QED BY <1>1, <1>2 DEF SessionsKept, WellFormed, SessionKnown

-----------------------------------------------------------------------------
(* Steps that only read: a request starts, reads its session or its password.  *)
Reads(q) ==
  \/ Begin(q) \/ IdentifyAgain(q) \/ Verify(q)
  \/ \E s \in Sessions, a \in Accounts : BeginIssueFor(q, s, a)

\* What such a step does: it changes one request, to a state it may be in.
ReadEffects(q) ==
  /\ UNCHANGED <<people, secrets, sessions, token>>
  /\ req' \in [Requests -> RequestStates]
  /\ \A p \in Requests : p # q => req'[p] = req[p]
  /\ WellFormed(req'[q]) /\ SessionKnown(req[q])'

LEMMA ReadSteps ==
  ASSUME IInv, NEW q \in Requests, Reads(q)
  PROVE  ReadEffects(q)
  <1>0. /\ WellFormed(req[q]) /\ SessionKnown(req[q]) /\ req[q] \in RequestStates
        /\ req \in [Requests -> RequestStates]
    BY DEF IInv, TypeOK, RequestsOK, RequestStates
  <1>1. ASSUME NEW r \in RequestStates, req' = [req EXCEPT ![q] = r],
               UNCHANGED <<people, secrets, sessions, token>>, WellFormed(r),
               r.op \in ConsoleOps =>
                 /\ holder[r.session] # Nobody
                 /\ r.pc \in {"identified", "verified"} => holder[r.session] = r.account
                 /\ r.pc = "verified" /\ r.session \in live => r.verified = proof[r.session]
        PROVE  ReadEffects(q)
    BY <1>0, <1>1 DEF ReadEffects, SessionKnown, sessions
  <1>2. ASSUME NEW a \in Accounts, BeginLogin(q, a) PROVE ReadEffects(q)
    <2> DEFINE r == [op |-> "login", pc |-> "verified", session |-> 0, account |-> a,
                     target |-> Nobody, verified |-> generation[a]]
    <2>1. r \in RequestStates /\ WellFormed(r) /\ r.op \notin ConsoleOps
      BY <1>2, AccountsAssumption
      DEF BeginLogin, Ready, RequestStates, WellFormed, ConsoleOps, Ops, IInv, TypeOK
    <2> QED BY <1>1, <1>2, <2>1 DEF BeginLogin, Start
  <1>3. ASSUME NEW a \in Accounts, BeginSetup(q, a) PROVE ReadEffects(q)
    <2> DEFINE r == [op |-> "setup", pc |-> "verified", session |-> 0, account |-> a,
                     target |-> Nobody, verified |-> link[a]]
    <2>1. r \in RequestStates /\ WellFormed(r) /\ r.op \notin ConsoleOps
      BY <1>3, AccountsAssumption
      DEF BeginSetup, RequestStates, WellFormed, ConsoleOps, Ops, IInv, TypeOK
    <2> QED BY <1>1, <1>3, <2>1 DEF BeginSetup, Start
  <1>4. ASSUME NEW s \in Sessions, NEW op \in {"change", "own"}, BeginOwn(q, s, op) PROVE ReadEffects(q)
    <2> DEFINE r == [op |-> op, pc |-> "identified", session |-> s, account |-> holder[s],
                     target |-> Nobody, verified |-> 0]
    <2>1. /\ r \in RequestStates /\ WellFormed(r)
          /\ holder[s] # Nobody
      BY <1>4, AccountsAssumption, LiveSessions
      DEF BeginOwn, Resolves, RequestStates, WellFormed, ConsoleOps, Ops, Sessions
    <2> QED BY <1>1, <1>4, <2>1 DEF BeginOwn, Start
  <1>5. ASSUME NEW s \in Sessions, NEW a \in Accounts, NEW op \in {"link", "user"},
               BeginAdmin(q, s, op, a)
        PROVE  ReadEffects(q)
    <2> DEFINE r == [op |-> op, pc |-> "identified", session |-> s, account |-> holder[s],
                     target |-> a, verified |-> 0]
    <2>1. /\ r \in RequestStates /\ WellFormed(r)
          /\ holder[s] # Nobody
      BY <1>5, AccountsAssumption, LiveSessions
      DEF BeginAdmin, AsAdmin, Resolves, RequestStates, WellFormed, ConsoleOps, Ops, Sessions
    <2> QED BY <1>1, <1>5, <2>1 DEF BeginAdmin, Start
  <1>6. ASSUME NEW s \in Sessions, NEW a \in Accounts, BeginIssueFor(q, s, a) PROVE ReadEffects(q)
    <2> DEFINE r == [op |-> "for", pc |-> "admitted", session |-> s, account |-> Nobody,
                     target |-> a, verified |-> 0]
    <2>1. /\ r \in RequestStates /\ WellFormed(r)
          /\ holder[s] # Nobody
      BY <1>6, AccountsAssumption, LiveSessions
      DEF BeginIssueFor, AsAdmin, Resolves, RequestStates, WellFormed, ConsoleOps, Ops, Sessions
    <2> QED BY <1>1, <1>6, <2>1 DEF BeginIssueFor, Start
  <1>7. CASE IdentifyAgain(q)
    <2> DEFINE r == [req[q] EXCEPT !.pc = "identified", !.account = holder[req[q].session]]
    <2>1. holder[req[q].session] \in Accounts /\ holder[req[q].session] # Nobody
      BY <1>7, LiveSessions DEF IdentifyAgain, Resolves
    <2>2. req' = [req EXCEPT ![q] = r] /\ req[q].op = "for"
      BY <1>0, <1>7 DEF IdentifyAgain, WellFormed
    <2>3. /\ r.session = req[q].session /\ r.account = holder[req[q].session]
          /\ r.pc = "identified" /\ r.op = "for" /\ r.target = req[q].target
      BY <1>0, <2>2 DEF RequestStates
    <2>4. r \in RequestStates
      BY <1>0, <2>1 DEF RequestStates
    <2>5. WellFormed(r)
      BY <1>0, <2>1, <2>2, <2>3 DEF WellFormed, ConsoleOps
    <2>6. UNCHANGED <<people, secrets, sessions, token>>
      BY <1>7 DEF IdentifyAgain
    <2> HIDE DEF r
    <2> QED BY <1>1, <2>1, <2>2, <2>3, <2>4, <2>5, <2>6
  <1>8. CASE Verify(q)
    <2> DEFINE r == [req[q] EXCEPT !.pc = "verified", !.verified = generation[req[q].account]]
    <2>1. req[q].account \in Accounts /\ req[q].op \notin {"login", "setup", "idle"}
      BY <1>0, <1>8 DEF Verify, WellFormed
    <2>2. req' = [req EXCEPT ![q] = r]
      BY <1>0, <1>8 DEF Verify
    <2>v. generation[req[q].account] \in 0..(MaxPasswords + MaxLinks)
      BY <2>1, AccountsAssumption DEF IInv, TypeOK
    <2>3. r \in RequestStates
      BY <1>0, <2>v DEF RequestStates
    <2>4. /\ r.session = req[q].session /\ r.account = req[q].account /\ r.op = req[q].op
          /\ r.target = req[q].target /\ r.pc = "verified"
          /\ r.verified = generation[req[q].account]
      BY <1>0 DEF RequestStates
    <2>w. WellFormed(r)
      BY <1>0, <2>1, <2>4 DEF WellFormed
    <2>u. UNCHANGED <<people, secrets, sessions, token>>
      BY <1>8 DEF Verify
    <2>5. req[q].op \in ConsoleOps =>
            /\ holder[r.session] # Nobody
            /\ holder[r.session] = r.account
            /\ r.session \in live => r.verified = proof[r.session]
      BY <1>0, <1>8, <2>4, LiveSessions DEF SessionKnown, Verify
    <2> HIDE DEF r
    <2> QED BY <1>1, <2>2, <2>3, <2>4, <2>5, <2>w, <2>u
  <1> QED BY <1>2, <1>3, <1>4, <1>5, <1>6, <1>7, <1>8 DEF Reads, Begin

-----------------------------------------------------------------------------
(* Every step is a simple one, a read, or the end of a request. *)
LEMMA NextCases ==
  ASSUME Next
  PROVE  \/ Simple
         \/ \E q \in Requests : Reads(q)
         \/ \E q \in Requests : Commit(q)
         \/ \E q \in Requests : Refuse(q)
  BY DEF Next, Locked, Unlocked, Simple, Reads

(* The invariant is inductive, and every step keeps the sessions. *)
LEMMA NextInvariant ==
  ASSUME IInv, [Next]_vars
  PROVE  IInv' /\ SessionsKept
  <1>1. CASE Simple
    <2>1. SimpleEffects
      BY <1>1, SimpleSteps
    <2>2. SessionsKept
      BY <2>1 DEF SimpleEffects, SessionsKept
    <2>3. SessionsAreCurrent' /\ SessionsOK'
      BY <2>1, LiveSessions DEF SimpleEffects, SessionsAreCurrent, SessionsOK
    <2>4. RequestsOK'
      BY <2>1, <2>2, RequestsKept DEF SimpleEffects, RequestsOK
    <2> QED BY <2>1, <2>2, <2>3, <2>4 DEF IInv, SimpleEffects
  <1>2. ASSUME NEW q \in Requests, Reads(q) PROVE IInv' /\ SessionsKept
    <2>1. ReadEffects(q)
      BY <1>2, ReadSteps
    <2>2. TypeOK'
      BY <2>1 DEF ReadEffects, IInv, TypeOK, RequestStates, people, secrets, sessions
    <2>3. SessionsKept
      BY <2>1 DEF ReadEffects, SessionsKept, sessions
    <2>4. SessionsAreCurrent' /\ SessionsOK'
      BY <2>1, LiveSessions
      DEF ReadEffects, SessionsAreCurrent, SessionsOK, Active, people, secrets, sessions
    <2>5. ASSUME NEW p \in Requests PROVE WellFormed(req[p])' /\ SessionKnown(req[p])'
      BY <2>1, <2>3, RequestsKept DEF ReadEffects, WellFormed
    <2> QED BY <2>2, <2>3, <2>4, <2>5 DEF IInv, RequestsOK
  <1>3. ASSUME NEW q \in Requests, Commit(q) PROVE IInv' /\ SessionsKept
    <2>1. TypeOK' /\ Done(q)
      BY <1>3, CommitTyped
    <2>2. SessionsKept /\ SessionsAreCurrent' /\ SessionsOK'
      BY <1>3, CommitKeepsSessions
    <2>3. RequestsOK'
      BY <2>1, <2>2, DoneKeeps, RequestsKept DEF RequestsOK, WellFormed
    <2> QED BY <2>1, <2>2, <2>3 DEF IInv
  <1>4. ASSUME NEW q \in Requests, Refuse(q) PROVE IInv' /\ SessionsKept
    <2>1. Done(q) /\ UNCHANGED <<people, secrets, sessions, token>>
      BY <1>4 DEF Refuse
    <2>2. TypeOK'
      BY <2>1, DoneKeeps DEF IInv, TypeOK, RequestStates, people, secrets, sessions
    <2>3. SessionsKept
      BY <2>1 DEF SessionsKept, sessions
    <2>4. SessionsAreCurrent' /\ SessionsOK'
      BY <2>1, LiveSessions DEF SessionsAreCurrent, SessionsOK, Active, people, secrets, sessions
    <2>5. RequestsOK'
      BY <2>1, <2>3, DoneKeeps, RequestsKept DEF RequestsOK, WellFormed
    <2> QED BY <2>2, <2>3, <2>4, <2>5 DEF IInv
  <1>5. CASE UNCHANGED vars
    BY <1>5 DEF vars, people, secrets, sessions, IInv, TypeOK, SessionsAreCurrent, SessionsOK,
                RequestsOK, WellFormed, SessionKnown, Active, SessionsKept
  <1> QED BY <1>1, <1>2, <1>3, <1>4, <1>5, NextCases

LEMMA Inductive == Spec => []IInv
  <1>1. IInv /\ [Next]_vars => IInv'
    BY NextInvariant
  <1> QED BY InitInvariant, <1>1, PTL DEF Spec

-----------------------------------------------------------------------------
(* The columns keep their types and foreign keys, whatever overlaps. *)
THEOREM TypeCorrect == Spec => []TypeOK
  <1>1. IInv => TypeOK
    BY DEF IInv
  <1> QED BY <1>1, Inductive, PTL

(* A session that has stopped working never works again: every change that     *)
(* ends it also revokes it, and nothing revives a revoked session.             *)
THEOREM SessionsEnd == Spec => SessionsStayEnded
  <1>1. ASSUME IInv, [Next]_vars
        PROVE  [\A s \in Sessions : holder[s] # Nobody /\ ~Resolves(s) => ~Resolves(s)']_vars
    <2>1. SessionsKept
      BY <1>1, NextInvariant
    <2>2. ASSUME NEW s \in Sessions, holder[s] # Nobody, ~Resolves(s) PROVE ~Resolves(s)'
      <3>1. s \notin live
        BY <1>1, <2>2, LiveSessions
      <3>2. s \notin live'
        BY <2>1, <2>2, <3>1 DEF SessionsKept
      <3> QED BY <3>2 DEF Resolves
    <2> QED BY <2>2
  <1> QED BY <1>1, Inductive, PTL DEF Spec, SessionsStayEnded

-----------------------------------------------------------------------------
(* When an admin acts on an account and the guard of change_in holds, an admin *)
(* with a password remains beside that account.                                *)
LEMMA AnotherAdmin ==
  ASSUME IInv, NEW s \in Sessions, NEW a \in Accounts, AsAdmin(s), Admin(a) => AdminIsLeft(a)
  PROVE  \E b \in Accounts \ {a} : Admin(b) /\ Ready(b)
  <1>1. holder[s] \in Accounts /\ Admin(holder[s]) /\ Ready(holder[s])
    BY LiveSessions DEF AsAdmin, Resolves, Ready
  <1>2. CASE Admin(a) /\ Ready(a)
    BY <1>2 DEF AdminIsLeft
  <1>3. CASE ~(Admin(a) /\ Ready(a))
    BY <1>1, <1>3
  <1> QED BY <1>2, <1>3

(* An admin with a password that a step does not touch remains one. *)
LEMMA AdminKept ==
  ASSUME NEW b \in Accounts, Admin(b) /\ Ready(b),
         status'[b] = status[b], role'[b] = role[b],
         generation'[b] = generation[b] \/ generation'[b] # 0
  PROVE  AdminRemains'
  BY DEF AdminRemains, Admin, Ready, Active

(* What an admin's account is while it acts. *)
LEMMA ActingAdmin ==
  ASSUME IInv, NEW s, AsAdmin(s)
  PROVE  holder[s] \in Accounts /\ Admin(holder[s]) /\ Ready(holder[s])
  BY LiveSessions DEF AsAdmin, Resolves, Ready

(* Every step leaves an admin with a password. *)
LEMMA AdminStep ==
  ASSUME IInv, AdminRemains, [Next]_vars
  PROVE  AdminRemains'
  <1> USE DEF people, secrets, sessions
  <1>t. TypeOK
    BY DEF IInv
  <1>0. ASSUME UNCHANGED <<people, generation>> PROVE AdminRemains'
    BY <1>0 DEF AdminRemains, Admin, Ready, Active
  <1>1. ASSUME NEW a \in Accounts, Initialize(a) PROVE AdminRemains'
    BY <1>t, <1>1 DEF Initialize, AdminRemains, Admin, Ready, Active, TypeOK
  <1>2. ASSUME NEW a \in Accounts, Recover(a) PROVE AdminRemains'
    <2>1. PICK b \in Accounts : Admin(b) /\ Ready(b)
      BY <1>2 DEF Recover, AdminRemains, Active
    <2>2. generation'[b] = generation[b] \/ generation'[b] # 0
      BY <1>t, <1>2, <2>1, AccountsAssumption DEF Recover, TypeOK
    <2> QED BY <1>2, <2>1, <2>2, AdminKept DEF Recover
  <1>3. ASSUME NEW s \in Sessions, NEW a \in Accounts, NEW r \in Roles, CreateAccount(s, a, r)
        PROVE  AdminRemains'
    <2>1. holder[s] # a
      BY <1>3, ActingAdmin DEF CreateAccount, Ready, Active
    <2> QED BY <1>t, <1>3, <2>1, ActingAdmin, AdminKept DEF CreateAccount, TypeOK
  <1>4. ASSUME NEW s \in Sessions, NEW a \in Accounts, NEW r \in Roles, ChangeRole(s, a, r)
        PROVE  AdminRemains'
    <2>1. PICK b \in Accounts \ {a} : Admin(b) /\ Ready(b)
      BY <1>4, AnotherAdmin DEF ChangeRole
    <2> QED BY <1>t, <1>4, <2>1, AdminKept DEF ChangeRole, TypeOK
  <1>5. ASSUME NEW s \in Sessions, NEW a \in Accounts, Disable(s, a) \/ DeleteAccount(s, a)
        PROVE  AdminRemains'
    <2>1. PICK b \in Accounts \ {a} : Admin(b) /\ Ready(b)
      BY <1>5, AnotherAdmin DEF Disable, DeleteAccount
    <2> QED BY <1>t, <1>5, <2>1, AdminKept DEF Disable, DeleteAccount, TypeOK
  <1>6. ASSUME NEW s \in Sessions, NEW a \in Accounts, Reactivate(s, a) PROVE AdminRemains'
    <2>1. holder[s] # a
      BY <1>6, ActingAdmin DEF Reactivate, Ready, Active
    <2> QED BY <1>t, <1>6, <2>1, ActingAdmin, AdminKept DEF Reactivate, TypeOK
  <1>7. ASSUME Simple PROVE AdminRemains'
    BY <1>0, <1>1, <1>2, <1>3, <1>4, <1>5, <1>6, <1>7
    DEF Simple, Command, RevokeToken, RevokeSession, SessionExpires, LinkExpires, TokenExpires
  <1>8. ASSUME NEW q \in Requests, Commit(q) PROVE AdminRemains'
    <2>0. WellFormed(req[q])
      BY DEF IInv, RequestsOK
    <2>1. CASE CommitSetup(q)
      <3>1. req[q].account \in Accounts
        BY <2>0, <2>1 DEF WellFormed, CommitSetup, At
      <3>2. PICK b \in Accounts : Admin(b) /\ Ready(b)
        BY <2>1, <3>1 DEF CommitSetup, AdminRemains, Active
      <3> QED BY <1>t, <2>1, <3>1, <3>2, AdminKept DEF CommitSetup, TypeOK
    <2>2. CASE CommitChange(q)
      <3>1. holder[req[q].session] \in Accounts
        BY <2>2, LiveSessions DEF CommitChange
      <3>2. PICK b \in Accounts : Admin(b) /\ Ready(b)
        BY <2>2, <3>1 DEF CommitChange, AdminRemains, Active
      <3>3. generation'[b] = generation[b] \/ generation'[b] # 0
        BY <1>t, <2>2, <3>1, <3>2, AccountsAssumption DEF CommitChange, TypeOK
      <3> QED BY <2>2, <3>2, <3>3, AdminKept DEF CommitChange
    <2>3. ASSUME NEW r \in Roles, CommitUser(q, r) PROVE AdminRemains'
      <3>1. holder[req[q].session] # req[q].target
        BY <2>3, ActingAdmin DEF CommitUser, Ready, Active
      <3> QED BY <1>t, <2>3, <3>1, ActingAdmin, AdminKept DEF CommitUser, TypeOK
    <2> QED BY <1>0, <1>8, <2>1, <2>2, <2>3
            DEF Commit, CommitLogin, CommitLink, CommitOwn, CommitFor, Issue
  <1>9. ASSUME NEW q \in Requests, Reads(q) \/ Refuse(q) PROVE AdminRemains'
    BY <1>0, <1>9, ReadSteps DEF ReadEffects, Refuse
  <1>10. CASE UNCHANGED vars
    BY <1>0, <1>10 DEF vars
  <1> QED BY <1>7, <1>8, <1>9, <1>10, NextCases

(* Whatever administrators do to one another, once the server is initialised   *)
(* an active admin has a password.                                             *)
THEOREM AdminStays == Spec => []AdminRemains
  <1>1. Init => AdminRemains
    BY DEF Init, AdminRemains
  <1>2. IInv /\ AdminRemains /\ [Next]_vars => AdminRemains'
    BY AdminStep
  <1> QED BY <1>1, <1>2, Inductive, PTL DEF Spec

-----------------------------------------------------------------------------
(* A password changes only by the operator, by the last setup link of an       *)
(* account without one, or by a request that verified the one it replaces.     *)
LEMMA PasswordStep ==
  ASSUME IInv, [Next]_vars, NEW a \in Accounts, generation'[a] # generation[a]
  PROVE  /\ {s \in live' : holder'[s] = a} = {}
         /\ \/ status[a] = "absent"
            \/ link'[a] = 0 /\ \A t \in Tokens : token'[t] # a
            \/ \E q \in Requests : /\ req[q].op = "setup" /\ req[q].account = a
                                   /\ generation[a] = 0 /\ req[q].verified = link[a]
            \/ \E q \in Requests : /\ req[q].op = "change" /\ req[q].verified = generation[a]
                                   /\ req[q].account = a /\ Resolves(req[q].session)
  <1>1. CASE Simple
    BY <1>1, SimpleSteps DEF SimpleEffects
  <1>2. ASSUME NEW q \in Requests, CommitSetup(q)
        PROVE  /\ {s \in live' : holder'[s] = a} = {}
               /\ req[q].op = "setup" /\ req[q].account = a
               /\ generation[a] = 0 /\ req[q].verified = link[a]
    <2>1. req[q].account = a
      BY <1>2 DEF CommitSetup, IInv, TypeOK
    <2> QED BY <1>2, <2>1, LiveSessions DEF CommitSetup, At, sessions
  <1>3. ASSUME NEW q \in Requests, CommitChange(q)
        PROVE  /\ {s \in live' : holder'[s] = a} = {}
               /\ req[q].op = "change" /\ req[q].verified = generation[a]
               /\ req[q].account = a /\ Resolves(req[q].session)
    <2>1. holder[req[q].session] = a
      BY <1>3 DEF CommitChange, IInv, TypeOK
    <2>2. live' = live \ SessionsOf(a) /\ holder' = holder
      BY <1>3, <2>1 DEF CommitChange
    <2> QED BY <1>3, <2>1, <2>2, VerifiedIsCurrent DEF CommitChange, At, SessionsOf, ConsoleOps
  <1>4. ASSUME NEW q \in Requests, Commit(q)
        PROVE  CommitSetup(q) \/ CommitChange(q)
    BY <1>4 DEF Commit, CommitLogin, CommitLink, CommitUser, CommitOwn, CommitFor, Issue, secrets
  <1>5. ASSUME NEW q \in Requests, Reads(q) \/ Refuse(q) PROVE FALSE
    BY <1>5, ReadSteps DEF ReadEffects, Refuse, secrets
  <1>6. ~UNCHANGED vars
    BY DEF vars, secrets
  <1> QED BY <1>1, <1>2, <1>3, <1>4, <1>5, <1>6, NextCases

(* Nobody's password is set or replaced without proof, and no session of the   *)
(* account survives it, although the proof was made before the lock.           *)
THEOREM PasswordsProven == Spec => PasswordsAreProven
  <1>1. IInv /\ [Next]_vars =>
          [\A a \in Accounts : generation'[a] # generation[a] =>
             /\ {s \in live' : holder'[s] = a} = {}
             /\ \/ status[a] = "absent"
                \/ link'[a] = 0 /\ \A t \in Tokens : token'[t] # a
                \/ \E q \in Requests : /\ req[q].op = "setup" /\ req[q].account = a
                                       /\ generation[a] = 0 /\ req[q].verified = link[a]
                \/ \E q \in Requests : /\ req[q].op = "change" /\ req[q].verified = generation[a]
                                       /\ req[q].account = a /\ Resolves(req[q].session)]_vars
    BY PasswordStep
  <1> QED BY <1>1, Inductive, PTL DEF Spec, PasswordsAreProven

-----------------------------------------------------------------------------
(* A commit that issues something finds its session working and the password   *)
(* it verified current.                                                        *)
LEMMA IssuerProven ==
  ASSUME IInv, NEW q \in Requests, req[q].op \in ConsoleOps, req[q].pc = "verified",
         Resolves(req[q].session), NEW a \in Accounts,
         a = holder[req[q].session] \/ AsAdmin(req[q].session)
  PROVE  LET me == req[q].account IN
         /\ me \in Accounts
         /\ Active(me) /\ req[q].verified = generation[me]
         /\ Resolves(req[q].session) /\ holder[req[q].session] = me
         /\ a = me \/ role[me] = "admin"
  <1>1. req[q].session \in live
    BY DEF Resolves
  <1> QED BY <1>1, VerifiedIsCurrent DEF Resolves, AsAdmin, Admin

LEMMA IssuanceStep ==
  ASSUME IInv, [Next]_vars, NEW a \in Accounts,
         link'[a] > link[a] \/ \E t \in Tokens : token[t] # a /\ token'[t] = a
  PROVE  \E q \in Requests :
           LET me == req[q].account IN
           /\ req[q].op \in {"link", "user", "own", "for"} /\ me \in Accounts
           /\ Active(me) /\ req[q].verified = generation[me]
           /\ Resolves(req[q].session) /\ holder[req[q].session] = me
           /\ a = me \/ role[me] = "admin"
  <1>0. link[a] \in Nat /\ \A t \in Tokens : token[t] = a \/ token[t] # a
    BY DEF IInv, TypeOK
  <1>1. ~Simple
    BY <1>0, SimpleSteps, AccountsAssumption DEF SimpleEffects
  <1>2. ASSUME NEW q \in Requests, Reads(q) \/ Refuse(q) PROVE FALSE
    BY <1>0, <1>2, ReadSteps DEF ReadEffects, Refuse, secrets
  <1>3. ~UNCHANGED vars
    BY <1>0 DEF vars, secrets
  <1>4. PICK q \in Requests : Commit(q)
    BY <1>1, <1>2, <1>3, NextCases
  <1>5. CASE \E s \in Sessions : CommitLogin(q, s)
    BY <1>0, <1>5 DEF CommitLogin, secrets
  <1>6. CASE CommitSetup(q)
    BY <1>0, <1>6 DEF CommitSetup, IInv, TypeOK
  <1>7. CASE CommitChange(q)
    BY <1>0, <1>7 DEF CommitChange
  <1>8. CASE CommitLink(q)
    BY <1>8, IssuerProven DEF CommitLink, At, AsAdmin, ConsoleOps
  <1>9. CASE \E r \in Roles : CommitUser(q, r)
    BY <1>9, IssuerProven DEF CommitUser, At, AsAdmin, ConsoleOps
  <1>10. CASE \E t \in Tokens : CommitOwn(q, t)
    <2>1. PICK t \in Tokens : CommitOwn(q, t)
      BY <1>10
    <2>2. a = holder[req[q].session]
      BY <1>0, <2>1 DEF CommitOwn, Issue, secrets, IInv, TypeOK
    <2> QED BY <2>1, <2>2, IssuerProven DEF CommitOwn, At, ConsoleOps
  <1>11. CASE \E t \in Tokens : CommitFor(q, t)
    BY <1>11, IssuerProven DEF CommitFor, At, AsAdmin, ConsoleOps
  <1> QED BY <1>4, <1>5, <1>6, <1>7, <1>8, <1>9, <1>10, <1>11 DEF Commit

(* A token or a setup link is issued only for a request whose proof of the     *)
(* password, made before the lock, is still good when it is written.           *)
THEOREM IssuanceProven == Spec => IssuanceIsAuthorised
  <1>1. IInv /\ [Next]_vars =>
          [\A a \in Accounts :
             (link'[a] > link[a] \/ \E t \in Tokens : token[t] # a /\ token'[t] = a) =>
               \E q \in Requests :
                 LET me == req[q].account IN
                 /\ req[q].op \in {"link", "user", "own", "for"} /\ me \in Accounts
                 /\ Active(me) /\ req[q].verified = generation[me]
                 /\ Resolves(req[q].session) /\ holder[req[q].session] = me
                 /\ a = me \/ role[me] = "admin"]_vars
    BY IssuanceStep
  <1> QED BY <1>1, Inductive, PTL DEF Spec, IssuanceIsAuthorised
-----------------------------------------------------------------------------
(* The limits.                                                                 *)

(* Of a finite set of numbers, at most n elements have fewer than n greater    *)
(* ones in the set: counting the greater ones numbers them without repetition. *)
LEMMA NewestOf ==
  ASSUME NEW S \in SUBSET Nat, IsFiniteSet(S), NEW n \in Nat \ {0}
  PROVE  Cardinality({s \in S : ~(Cardinality({t \in S : t > s}) >= n)}) <= n
  <1> DEFINE Above(s) == {t \in S : t > s}
             K == {s \in S : ~(Cardinality(Above(s)) >= n)}
             rank == [s \in K |-> Cardinality(Above(s))]
  <1>1. \A s \in S : IsFiniteSet(Above(s)) /\ Cardinality(Above(s)) \in Nat
    <2> TAKE s \in S
    <2>1. Above(s) \in SUBSET S
      OBVIOUS
    <2>2. IsFiniteSet(Above(s))
      BY <2>1, FS_Subset
    <2> QED BY <2>2, FS_CardinalityType
  <1>2. rank \in [K -> 0..(n - 1)]
    <2>1. ASSUME NEW s \in K PROVE Cardinality(Above(s)) \in 0..(n - 1)
      <3>1. s \in S /\ ~(Cardinality(Above(s)) >= n)
        OBVIOUS
      <3> HIDE DEF Above, K
      <3> QED BY <1>1, <3>1
    <2> HIDE DEF Above, K
    <2> QED BY <2>1
  <1>3. ASSUME NEW x \in K, NEW y \in K, x < y PROVE rank[x] # rank[y]
    <2>0. x \in S /\ y \in S /\ x \in Nat /\ y \in Nat
      OBVIOUS
    <2>1. Above(y) \in SUBSET Above(x) /\ y \in Above(x) /\ y \notin Above(y)
      <3> HIDE DEF K
      <3>1. \A t \in S : t > y => t > x
        BY <1>3, <2>0
      <3>2. Above(y) \in SUBSET Above(x)
        BY <3>1
      <3>3. y \in Above(x) /\ y \notin Above(y)
        BY <1>3, <2>0
      <3> QED BY <3>2, <3>3
    <2>2. Above(x) # Above(y)
      BY <2>1
    <2> HIDE DEF Above
    <2>3. Cardinality(Above(x)) # Cardinality(Above(y))
      BY <1>1, <2>0, <2>1, <2>2, FS_Subset
    <2> QED BY <2>3
  <1>4. rank \in Injection(K, 0..(n - 1))
    <2>1. \A x, y \in K : rank[x] = rank[y] => x = y
      <3> SUFFICES ASSUME NEW x \in K, NEW y \in K, x # y PROVE rank[x] # rank[y]
        OBVIOUS
      <3>1. x \in Nat /\ y \in Nat
        OBVIOUS
      <3>2. x < y \/ y < x
        BY <3>1
      <3> HIDE DEF rank, K
      <3> QED BY <1>3, <3>2
    <2> HIDE DEF rank, K
    <2> QED BY <1>2, <2>1 DEF Injection, IsInjective
  <1>5. IsFiniteSet(0..(n - 1)) /\ Cardinality(0..(n - 1)) = n
    BY FS_Interval
  <1>6. Cardinality(K) <= n
    <2> HIDE DEF rank, K
    <2> QED BY <1>4, <1>5, FS_Injection
  <1> QED BY <1>6

(* Sessions and tokens are finitely many. *)
LEMMA Finite ==
  ASSUME TypeOK, NEW a
  PROVE  /\ IsFiniteSet(SessionsOf(a)) /\ Cardinality(SessionsOf(a)) \in Nat
         /\ IsFiniteSet(TokensOf(a)) /\ Cardinality(TokensOf(a)) \in Nat
  <1>1. IsFiniteSet(Sessions)
    BY FS_Interval, AccountsAssumption DEF Sessions
  <1>2. SessionsOf(a) \in SUBSET Sessions /\ TokensOf(a) \in SUBSET Tokens
    BY DEF SessionsOf, TokensOf, TypeOK
  <1>3. IsFiniteSet(SessionsOf(a)) /\ IsFiniteSet(TokensOf(a))
    BY <1>1, <1>2, FS_Subset, AccountsAssumption
  <1> QED BY <1>3, FS_CardinalityType

(* What create_password_session keeps leaves room for one more. *)
LEMMA EvictionLeavesRoom ==
  ASSUME TypeOK, NEW a
  PROVE  /\ IsFiniteSet(SessionsOf(a) \ Evicted(a))
         /\ Cardinality(SessionsOf(a) \ Evicted(a)) <= SessionLimit - 1
  <1> DEFINE S == SessionsOf(a)
             kept == {s \in S : ~(Cardinality({t \in S : t > s}) >= SessionLimit - 1)}
  <1>1. S \in SUBSET Nat /\ IsFiniteSet(S)
    <2>1. IsFiniteSet(S)
      BY Finite
    <2>2. Sessions \in SUBSET Nat /\ live \in SUBSET Sessions
      BY DEF TypeOK, Sessions
    <2> QED BY <2>1, <2>2 DEF SessionsOf
  <1>2. S \ Evicted(a) = kept
    BY DEF Evicted
  <1>3. CASE SessionLimit = 1
    <2>1. \A s \in S : Cardinality({t \in S : t > s}) \in Nat
      <3> TAKE s \in S
      <3>1. {t \in S : t > s} \in SUBSET S
        OBVIOUS
      <3>2. IsFiniteSet({t \in S : t > s})
        BY <1>1, <3>1, FS_Subset
      <3> QED BY <3>2, FS_CardinalityType
    <2>2. kept = {}
      BY <1>3, <2>1
    <2>3. SessionsOf(a) \ Evicted(a) = {}
      BY <1>2, <2>2
    <2>4. Cardinality({}) = 0 /\ IsFiniteSet({})
      BY FS_EmptySet
    <2> HIDE DEF S, kept
    <2> QED BY <1>3, <2>3, <2>4
  <1>4. CASE SessionLimit - 1 \in Nat \ {0}
    <2>1. Cardinality(kept) <= SessionLimit - 1
      BY <1>1, <1>4, NewestOf
    <2>2. IsFiniteSet(S \ Evicted(a))
      BY <1>1, FS_Difference
    <2> QED BY <1>2, <2>1, <2>2
  <1> QED BY <1>3, <1>4, AccountsAssumption

(* An account that gains neither a session nor a token stays within them. *)
LEMMA NoMore ==
  ASSUME TypeOK, TypeOK', NEW a \in Accounts,
         Cardinality(SessionsOf(a)) <= SessionLimit, Cardinality(TokensOf(a)) <= TokenLimit
  PROVE  /\ SessionsOf(a)' \subseteq SessionsOf(a) =>
              Cardinality(SessionsOf(a)') <= SessionLimit
         /\ TokensOf(a)' \subseteq TokensOf(a) => Cardinality(TokensOf(a)') <= TokenLimit
  <1>1. \A S, T : IsFiniteSet(S) /\ T \in SUBSET S => Cardinality(T) <= Cardinality(S) /\ IsFiniteSet(T)
    BY FS_Subset
  <1>2. /\ Cardinality(SessionsOf(a)) \in Nat /\ Cardinality(TokensOf(a)) \in Nat
        /\ IsFiniteSet(SessionsOf(a)) /\ IsFiniteSet(TokensOf(a))
    BY Finite
  <1>3. ASSUME SessionsOf(a)' \subseteq SessionsOf(a) PROVE Cardinality(SessionsOf(a)') <= SessionLimit
    <2>1. IsFiniteSet(SessionsOf(a)') /\ Cardinality(SessionsOf(a)') <= Cardinality(SessionsOf(a))
      BY <1>1, <1>2, <1>3
    <2>2. Cardinality(SessionsOf(a)') \in Nat
      BY <2>1, FS_CardinalityType
    <2> QED BY <1>2, <2>1, <2>2, AccountsAssumption
  <1>4. ASSUME TokensOf(a)' \subseteq TokensOf(a) PROVE Cardinality(TokensOf(a)') <= TokenLimit
    <2>1. IsFiniteSet(TokensOf(a)') /\ Cardinality(TokensOf(a)') <= Cardinality(TokensOf(a))
      BY <1>1, <1>2, <1>4
    <2>2. Cardinality(TokensOf(a)') \in Nat
      BY <2>1, FS_CardinalityType
    <2> QED BY <1>2, <2>1, <2>2, AccountsAssumption
  <1> QED BY <1>3, <1>4

(* A login evicts before it inserts. *)
LEMMA LoginWithinLimits ==
  ASSUME TypeOK, TypeOK', NEW q \in Requests, NEW s \in Sessions, CommitLogin(q, s),
         NEW a \in Accounts, Cardinality(SessionsOf(a)) <= SessionLimit
  PROVE  Cardinality(SessionsOf(a)') <= SessionLimit
  <1>1. holder[s] = Nobody /\ s \notin live
    BY DEF CommitLogin, NewSession, TypeOK
  <1>2. CASE a = req[q].account
    <2> DEFINE K == SessionsOf(a) \ Evicted(a)
    <2>1. SessionsOf(a)' = K \cup {s}
      BY <1>1, <1>2 DEF CommitLogin, SessionsOf, TypeOK
    <2>2. IsFiniteSet(K) /\ Cardinality(K) <= SessionLimit - 1
      BY EvictionLeavesRoom
    <2> HIDE DEF K
    <2>3. Cardinality(K) \in Nat
      BY <2>2, FS_CardinalityType
    <2>4. Cardinality(K \cup {s}) = IF s \in K THEN Cardinality(K) ELSE Cardinality(K) + 1
      BY <2>2, FS_AddElement
    <2> QED BY <2>1, <2>2, <2>3, <2>4, AccountsAssumption
  <1>3. CASE a # req[q].account
    <2>1. SessionsOf(a)' \subseteq SessionsOf(a)
      BY <1>3 DEF CommitLogin, SessionsOf, TypeOK
    <2>2. TokensOf(a) \in SUBSET Tokens
      BY DEF TokensOf
    <2>3. IsFiniteSet(SessionsOf(a)) /\ Cardinality(SessionsOf(a)) \in Nat
      BY Finite
    <2>4. IsFiniteSet(SessionsOf(a)') /\ Cardinality(SessionsOf(a)') <= Cardinality(SessionsOf(a))
      BY <2>1, <2>3, FS_Subset
    <2>5. Cardinality(SessionsOf(a)') \in Nat
      BY <2>4, FS_CardinalityType
    <2> QED BY <2>3, <2>4, <2>5, AccountsAssumption
  <1> QED BY <1>2, <1>3

(* An issuance counts before it inserts. *)
LEMMA IssueWithinLimits ==
  ASSUME TypeOK, TypeOK', NEW q \in Requests, NEW t \in Tokens, NEW b, Issue(q, t, b),
         NEW a \in Accounts, Cardinality(TokensOf(a)) <= TokenLimit
  PROVE  Cardinality(TokensOf(a)') <= TokenLimit
  <1>1. IsFiniteSet(TokensOf(a)) /\ Cardinality(TokensOf(a)) \in Nat
    BY Finite
  <1>2. CASE a = b
    <2>1. TokensOf(a)' = TokensOf(a) \cup {t}
      BY <1>2 DEF Issue, TokensOf, TypeOK
    <2>2. Cardinality(TokensOf(a)) < TokenLimit
      BY <1>2 DEF Issue, CanIssue
    <2>3. Cardinality(TokensOf(a) \cup {t}) =
            IF t \in TokensOf(a) THEN Cardinality(TokensOf(a)) ELSE Cardinality(TokensOf(a)) + 1
      BY <1>1, FS_AddElement
    <2> QED BY <1>1, <2>1, <2>2, <2>3, AccountsAssumption
  <1>3. CASE a # b
    <2>1. TokensOf(a)' = TokensOf(a)
      BY <1>3, AccountsAssumption DEF Issue, TokensOf, TypeOK
    <2> QED BY <2>1
  <1> QED BY <1>2, <1>3

(* Every step stays within the limits. *)
LEMMA LimitsStep ==
  ASSUME IInv, WithinLimits, [Next]_vars
  PROVE  WithinLimits'
  <1>0. TypeOK /\ TypeOK' /\ "revoked" \notin Accounts
    BY NextInvariant, AccountsAssumption DEF IInv
  <1> SUFFICES ASSUME NEW a \in Accounts
               PROVE  /\ Cardinality(SessionsOf(a)') <= SessionLimit
                      /\ Cardinality(TokensOf(a)') <= TokenLimit
    BY DEF WithinLimits
  <1>1. Cardinality(SessionsOf(a)) <= SessionLimit /\ Cardinality(TokensOf(a)) <= TokenLimit
    BY DEF WithinLimits
  <1>2. ASSUME live' \subseteq live, UNCHANGED holder
        PROVE  Cardinality(SessionsOf(a)') <= SessionLimit
    <2>1. SessionsOf(a)' \subseteq SessionsOf(a)
      BY <1>2 DEF SessionsOf
    <2> QED BY <1>0, <1>1, <2>1, NoMore
  <1>3. ASSUME \A t \in Tokens : token'[t] \in {token[t], "revoked"}
        PROVE  Cardinality(TokensOf(a)') <= TokenLimit
    <2>1. TokensOf(a)' \subseteq TokensOf(a)
      BY <1>0, <1>3 DEF TokensOf
    <2> QED BY <1>0, <1>1, <2>1, NoMore
  <1>4. CASE Simple
    BY <1>2, <1>3, <1>4, SimpleSteps DEF SimpleEffects
  <1>5. CASE UNCHANGED <<holder, live, token>>
    BY <1>2, <1>3, <1>5
  <1>6. ASSUME NEW q \in Requests, Reads(q) \/ Refuse(q) PROVE UNCHANGED <<holder, live, token>>
    BY <1>6, ReadSteps DEF ReadEffects, Refuse, sessions
  <1>7. ASSUME NEW q \in Requests, Commit(q)
        PROVE  /\ Cardinality(SessionsOf(a)') <= SessionLimit
               /\ Cardinality(TokensOf(a)') <= TokenLimit
    <2>1. ASSUME NEW s \in Sessions, CommitLogin(q, s)
          PROVE  /\ Cardinality(SessionsOf(a)') <= SessionLimit
                 /\ Cardinality(TokensOf(a)') <= TokenLimit
      <3>1. UNCHANGED token
        BY <2>1 DEF CommitLogin
      <3> QED BY <1>0, <1>1, <1>3, <2>1, <3>1, LoginWithinLimits
    <2>2. CASE CommitSetup(q) \/ CommitLink(q) \/ \E r \in Roles : CommitUser(q, r)
      BY <1>5, <2>2, <1>2, <1>3 DEF CommitSetup, CommitLink, CommitUser, sessions
    <2>3. CASE CommitChange(q)
      BY <1>2, <1>3, <2>3 DEF CommitChange
    <2>4. ASSUME NEW t \in Tokens, CommitOwn(q, t) \/ CommitFor(q, t)
          PROVE  /\ Cardinality(SessionsOf(a)') <= SessionLimit
                 /\ Cardinality(TokensOf(a)') <= TokenLimit
      <3>1. PICK b : Issue(q, t, b)
        BY <2>4 DEF CommitOwn, CommitFor
      <3>2. live' \subseteq live /\ UNCHANGED holder
        BY <3>1 DEF Issue, sessions
      <3> QED BY <1>0, <1>1, <1>2, <3>1, <3>2, IssueWithinLimits
    <2> QED BY <1>7, <2>1, <2>2, <2>3, <2>4 DEF Commit
  <1>8. CASE UNCHANGED vars
    BY <1>5, <1>8 DEF vars, sessions
  <1> QED BY <1>4, <1>5, <1>6, <1>7, <1>8, NextCases

(* An account never has more sessions or tokens than its limits, however many  *)
(* logins and issuances overlap.                                               *)
THEOREM LimitsKept == Spec => []WithinLimits
  <1>1. Init => WithinLimits
    <2> SUFFICES ASSUME Init, NEW a \in Accounts
                 PROVE  /\ Cardinality(SessionsOf(a)) <= SessionLimit
                        /\ Cardinality(TokensOf(a)) <= TokenLimit
      BY DEF WithinLimits
    <2>1. SessionsOf(a) = {} /\ TokensOf(a) = {}
      BY AccountsAssumption DEF Init, SessionsOf, TokensOf
    <2> QED BY <2>1, FS_EmptySet, AccountsAssumption
  <1>2. IInv /\ WithinLimits /\ [Next]_vars => WithinLimits'
    BY LimitsStep
  <1> QED BY <1>1, <1>2, Inductive, PTL DEF Spec
===============================================================================
