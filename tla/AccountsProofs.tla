---------------------------- MODULE AccountsProofs ----------------------------
(***************************************************************************)
(* Proofs about Accounts, for any requests, emails and organization names: *)
(* overlapping registrations never make two accounts of one email and      *)
(* refuse none that is free, what is committed is whole and audited, an    *)
(* organization that is there is joined, and a logout that is answered     *)
(* keeps every later request with its session out.                         *)
(***************************************************************************)
EXTENDS Accounts, TLAPS

\* The functions that are indexed by requests.
Shape ==
  /\ DOMAIN rows = Requests /\ DOMAIN revoking = Requests /\ DOMAIN args = Requests
  /\ DOMAIN found = Requests /\ DOMAIN phase = Requests
  /\ DOMAIN outcome = Requests /\ DOMAIN ended = Requests

LEMMA InitShape == Init => Shape
BY DEF Init, Shape

LEMMA StepKeepsShape == Shape /\ [Next]_vars => Shape'
BY DEF Shape, Next, Arrive, Step, CheckEmail, FindOrg, FlushAccount, FindUser, Audit,
   AuditFailure, RefuseLogin, Authenticate, Revoke, Commit, Fail, Raise, Undo, Answer,
   Goto, Expire, Disable, vars, tables, flushed

-----------------------------------------------------------------------------
(* Emails *)

LEMMA InitEmails == Init => EmailsApart
BY DEF Init, EmailsApart, OneAccountPerEmail, Of, Users

\* The user row of an account.
LEMMA UsersOfAccount ==
  ASSUME NEW t
  PROVE  \A e \in Of("users", Account(t)) : e = User(t, OrgOf(t))
<1>1. \A e \in Account(t) :
        e \in {User(t, OrgOf(t)), Matter(t, OrgOf(t)), Member(t), Organization(t)}
  BY DEF Account
<1>2. /\ Matter(t, OrgOf(t)).table # "users"
      /\ Member(t).table # "users"
      /\ Organization(t).table # "users"
  BY DEF Matter, Member, Organization
<1> QED
  BY <1>1, <1>2 DEF Of

\* Events and sessions are no user rows.
LEMMA NoUsersElsewhere ==
  ASSUME NEW t, NEW u
  PROVE  /\ Of("users", Event(t)) = {}
         /\ Of("users", {AuditEvent(t, "auth.login_failed", v) : v \in found[t]}) = {}
         /\ Of("users", Opened(t)) = {}
BY DEF Of, Event, AuditEvent, Opened, Session

\* Emails stay apart while the rows of users are the same or rolled back.
LEMMA SameUsersApart ==
  ASSUME EmailsApart, Users' = Users,
         \A t \in Requests : Of("users", rows'[t]) \subseteq Of("users", rows[t]),
         \A t \in Requests : phase'[t] \in {"email", "org", "flush"} => t \in Registrations
  PROVE  EmailsApart'
BY DEF EmailsApart, EmailTaken, OneAccountPerEmail

LEMMA StepKeepsEmails == Shape /\ EmailsApart /\ [Next]_vars => EmailsApart'
<1> SUFFICES ASSUME Shape, EmailsApart, [Next]_vars PROVE EmailsApart'
  OBVIOUS
<1> USE DEF Shape
<1> USE DEF tables, flushed
<1>1. ASSUME NEW t \in Requests, phase[t] = "flush", EmailIndex(t) = "free",
             rows' = [rows EXCEPT ![t] = Account(t)], Goto(t, "audit")
      PROVE  EmailsApart'
  <2>1. t \in Registrations /\ ~EmailTaken(args[t].email) /\ HoldEmail(args[t].email) = {}
    BY <1>1 DEF EmailIndex, EmailsApart
  <2>2. \A e \in Of("users", Account(t)) : e = User(t, OrgOf(t))
    BY UsersOfAccount
  <2>3. \A e \in Of("users", rows'[t]) : e = User(t, OrgOf(t)) /\ e.email = args[t].email
    BY <1>1, <2>2 DEF User
  <2>4. \A u \in Requests \ {t} : rows'[u] = rows[u]
    BY <1>1
  <2>5. Users' = Users
    BY <1>1 DEF Goto, Users
  <2>6. \A u \in Requests : \A f \in Of("users", rows[u]) : f.email # args[t].email
    BY <2>1 DEF HoldEmail, EmailsApart
  <2>7. \A u \in Requests : phase'[u] \in {"email", "org", "flush"} => u \in Registrations
    BY <1>1 DEF Goto, EmailsApart
  <2> QED
    BY <2>1, <2>3, <2>4, <2>5, <2>6, <2>7 DEF EmailsApart, EmailTaken, OneAccountPerEmail
<1>2. ASSUME NEW t \in Requests, Commit(t) PROVE EmailsApart'
  <2>1. Users' = Users \union Of("users", rows[t])
    BY <1>2, NoUsersElsewhere DEF Commit, Users, Of
  <2>2. rows'[t] = {} /\ \A u \in Requests \ {t} : rows'[u] = rows[u]
    BY <1>2 DEF Commit, Undo
  <2>3. \A u \in Requests : phase'[u] \in {"email", "org", "flush"} => u \in Registrations
    BY <1>2 DEF Commit, Answer, EmailsApart
  <2>4. Of("users", rows'[t]) = {}
    BY <2>2 DEF Of
  <2>5. \A u \in Requests \ {t} : \A e \in Of("users", rows[u]) :
          \A f \in Of("users", rows[t]) : e.email # f.email
    BY DEF EmailsApart
  <2>6. \A u \in Requests \ {t} : \A e \in Of("users", rows[u]) : ~EmailTaken(e.email)'
    BY <2>1, <2>5 DEF EmailsApart, EmailTaken
  <2>7. OneAccountPerEmail'
    BY <2>1 DEF EmailsApart, EmailTaken, OneAccountPerEmail
  <2>8. \A v \in Requests : v = t \/ rows'[v] = rows[v]
    BY <2>2
  <2>9. ASSUME NEW v \in Requests, NEW e \in Of("users", rows'[v])
        PROVE  /\ v \in Registrations
               /\ ~EmailTaken(e.email)'
               /\ \A u \in Requests : \A f \in Of("users", rows'[u]) :
                    e.email = f.email => v = u /\ e = f
    BY <2>4, <2>6, <2>8, <2>9 DEF EmailsApart
  <2> QED
    BY <2>3, <2>7, <2>9 DEF EmailsApart
<1>3. ASSUME NEW t \in Requests, NEW how, Raise(t, how) PROVE EmailsApart'
  BY <1>3, SameUsersApart DEF Raise, Undo, Answer, Users, Of, EmailsApart
<1>4. ASSUME NEW t \in Requests, NEW new, Of("users", new) = {},
             rows' = [rows EXCEPT ![t] = @ \union new], NEW p, Goto(t, p),
             p \notin {"email", "org", "flush"}
      PROVE  EmailsApart'
  BY <1>4, SameUsersApart DEF Goto, Users, Of, EmailsApart
<1>5. ASSUME NEW t \in Requests, NEW p, Goto(t, p), UNCHANGED rows,
             p \in {"org", "flush"} => t \in Registrations, p # "email"
      PROVE  EmailsApart'
  BY <1>5, SameUsersApart DEF Goto, Users, EmailsApart
<1>6. ASSUME NEW t \in Requests, Arrive(t) PROVE EmailsApart'
  BY <1>6, SameUsersApart DEF Arrive, First, Users, EmailsApart
<1>7. ASSUME Expire \/ Disable \/ UNCHANGED vars PROVE EmailsApart'
  BY <1>7, SameUsersApart DEF Expire, Disable, vars, Users, EmailsApart
<1>8. ASSUME NEW t \in Requests, CheckEmail(t) \/ FindOrg(t) PROVE EmailsApart'
  BY <1>3, <1>5, <1>8 DEF CheckEmail, FindOrg, EmailsApart
<1>9. ASSUME NEW t \in Requests, FlushAccount(t) PROVE EmailsApart'
  BY <1>1, <1>3, <1>9 DEF FlushAccount
<1>10. ASSUME NEW t \in Requests, FindUser(t) PROVE EmailsApart'
  BY <1>3, <1>5, <1>10 DEF FindUser
<1>11. ASSUME NEW t \in Requests, Audit(t) \/ AuditFailure(t) PROVE EmailsApart'
  <2>1. CASE Audit(t)
    <3> DEFINE new == Event(t)
    <3>1. Of("users", new) = {} /\ rows' = [rows EXCEPT ![t] = @ \union new] /\ Goto(t, "commit")
      BY <2>1, NoUsersElsewhere DEF Audit
    <3> HIDE DEF new
    <3> QED
      BY <1>4, <3>1
  <2>2. CASE AuditFailure(t)
    <3> DEFINE new == {AuditEvent(t, "auth.login_failed", v) : v \in found[t]}
    <3>1. Of("users", new) = {} /\ rows' = [rows EXCEPT ![t] = @ \union new] /\ Goto(t, "refuse")
      BY <2>2, NoUsersElsewhere DEF AuditFailure
    <3> HIDE DEF new
    <3> QED
      BY <1>4, <3>1
  <2> QED
    BY <1>11, <2>1, <2>2
<1>12. ASSUME NEW t \in Requests, RefuseLogin(t) \/ Fail(t) PROVE EmailsApart'
  BY <1>3, <1>12 DEF RefuseLogin, Fail
<1>13. ASSUME NEW t \in Requests, Authenticate(t) \/ Revoke(t) PROVE EmailsApart'
  BY <1>3, <1>5, <1>13 DEF Authenticate, Revoke
<1> QED
  BY <1>2, <1>6, <1>7, <1>8, <1>9, <1>10, <1>11, <1>12, <1>13 DEF Next, Step

\* Overlapping registrations never make two accounts of one email.
THEOREM EmailsUnique == Spec => []OneAccountPerEmail
<1>1. Shape /\ EmailsApart /\ [Next]_vars => (Shape /\ EmailsApart)'
  BY StepKeepsShape, StepKeepsEmails
<1>2. EmailsApart => OneAccountPerEmail
  BY DEF EmailsApart
<1> QED
  BY <1>1, <1>2, InitShape, InitEmails, PTL DEF Spec

-----------------------------------------------------------------------------
(* Logouts *)

LEMMA InitLogout == Init => LogoutInv
BY DEF Init, LogoutInv, Requests

LEMMA StepKeepsLogout == Shape /\ LogoutInv /\ [Next]_vars => LogoutInv'
<1> SUFFICES ASSUME Shape, LogoutInv, [Next]_vars PROVE LogoutInv'
  OBVIOUS
<1> USE KindsAssumption DEF Shape, LogoutInv, tables, flushed, Requests
<1>1. ASSUME NEW t \in Requests, Arrive(t) PROVE LogoutInv'
  BY <1>1 DEF Arrive, First
<1>2. ASSUME NEW t \in Requests, NEW how, how # "ok", how # "none", phase[t] # "idle",
             Raise(t, how)
      PROVE  LogoutInv'
  BY <1>2 DEF Raise, Undo, Answer
<1>3. ASSUME NEW t \in Requests \ (Visits \union Logouts), NEW p, Goto(t, p),
             UNCHANGED revoking, p \notin {"idle", "ended"}, phase[t] \notin {"idle", "ended"}
      PROVE  LogoutInv'
  BY <1>3 DEF Goto
<1>4. ASSUME NEW t \in Requests, Authenticate(t) PROVE LogoutInv'
  <2>1. CASE Raise(t, "401")
    BY <1>2, <1>4, <2>1 DEF Authenticate
  <2>2. CASE SessionOpen(args[t].session) /\ UNCHANGED flushed
             /\ Goto(t, IF t \in Logouts THEN "revoke" ELSE "commit")
    BY <1>4, <2>2 DEF Authenticate, Goto, SessionOpen
  <2> QED
    BY <1>4, <2>1, <2>2 DEF Authenticate
<1>5. ASSUME NEW t \in Requests, Revoke(t) PROVE LogoutInv'
  BY <1>5 DEF Revoke, Goto
<1>6. ASSUME NEW t \in Requests, Commit(t) PROVE LogoutInv'
  BY <1>6 DEF Commit, Undo, Answer
<1>7. ASSUME Expire \/ Disable \/ UNCHANGED vars PROVE LogoutInv'
  BY <1>7 DEF Expire, Disable, vars
<1>8. ASSUME NEW t \in Requests,
             \/ CheckEmail(t) \/ FindOrg(t) \/ FlushAccount(t) \/ FindUser(t)
             \/ Audit(t) \/ AuditFailure(t) \/ RefuseLogin(t)
      PROVE  LogoutInv'
  BY <1>2, <1>3, <1>8 DEF CheckEmail, FindOrg, FlushAccount, FindUser, Audit,
     AuditFailure, RefuseLogin
<1>9. ASSUME NEW t \in Requests, Fail(t) PROVE LogoutInv'
  BY <1>2, <1>9 DEF Fail
<1> QED
  BY <1>1, <1>4, <1>5, <1>6, <1>7, <1>8, <1>9 DEF Next, Step

\* Once a logout is answered, its session lets no later request in.
THEOREM LogoutHolds == Spec => []LogoutTakesEffect
<1>1. Shape /\ LogoutInv /\ [Next]_vars => (Shape /\ LogoutInv)'
  BY StepKeepsShape, StepKeepsLogout
<1>2. LogoutInv => LogoutTakesEffect
  BY DEF LogoutInv, LogoutTakesEffect
<1> QED
  BY <1>1, <1>2, InitShape, InitLogout, PTL DEF Spec

-----------------------------------------------------------------------------
(* Statements *)

\* A step leaves everything about request t as it is.
Same(t) ==
  /\ phase'[t] = phase[t] /\ args'[t] = args[t] /\ found'[t] = found[t]
  /\ rows'[t] = rows[t] /\ revoking'[t] = revoking[t]
  /\ outcome'[t] = outcome[t] /\ ended'[t] = ended[t]

\* A step is one request's, and nothing is ever deleted.
LEMMA OneActs ==
  ASSUME Shape, [Next]_vars
  PROVE  \/ \E q \in Requests : /\ Arrive(q) \/ Step(q) \/ Fail(q)
                                /\ \A t \in Requests \ {q} : Same(t)
         \/ db' = db /\ \A t \in Requests : Same(t)
<1> USE DEF Shape, Same, tables, flushed
<1>1. ASSUME NEW q \in Requests, NEW t \in Requests \ {q}, Arrive(q) \/ Step(q) \/ Fail(q)
      PROVE  Same(t)
  BY <1>1 DEF Arrive, Step, CheckEmail, FindOrg, FlushAccount, FindUser, Audit,
     AuditFailure, RefuseLogin, Authenticate, Revoke, Commit, Fail, Raise, Undo, Answer,
     Goto
<1>2. CASE Expire \/ Disable \/ UNCHANGED vars
  BY <1>2 DEF Expire, Disable, vars
<1> QED
  BY <1>1, <1>2 DEF Next

LEMMA TablesGrow ==
  ASSUME [Next]_vars
  PROVE  /\ db \subseteq db'
         /\ Users \subseteq Users' /\ Orgs \subseteq Orgs' /\ Sessions \subseteq Sessions'
         /\ Matters \subseteq Matters'
<1>1. db \subseteq db'
  BY DEF Next, Arrive, Step, CheckEmail, FindOrg, FlushAccount, FindUser, Audit,
     AuditFailure, RefuseLogin, Authenticate, Revoke, Commit, Fail, Raise, Undo, Answer,
     Goto, Expire, Disable, vars, tables
<1> QED
  BY <1>1 DEF Users, Orgs, Sessions, Matters, Of

\* The rows of t depend on what it was sent and what it found.
LEMMA SameRows ==
  ASSUME NEW t, args'[t] = args[t], found'[t] = found[t]
  PROVE  /\ Account(t)' = Account(t) /\ Event(t)' = Event(t) /\ Opened(t)' = Opened(t)
         /\ User(t, OrgOf(t))' = User(t, OrgOf(t))
         /\ Organization(t)' = Organization(t)
<1>1. OrgOf(t)' = OrgOf(t)
  BY DEF OrgOf
<1> QED
  BY <1>1 DEF Account, Event, Opened, User, Matter, Member, Organization, AuditEvent,
     Session

\* What holds of a request holds after the steps of others.
LEMMA SameKeeps ==
  ASSUME NEW t, Same(t), [Next]_vars
  PROVE  /\ RegistrationInv(t) => RegistrationInv(t)'
         /\ LoginInv(t) => LoginInv(t)'
         /\ SessionInv(t) => SessionInv(t)'
<1>1. Account(t)' = Account(t) /\ Event(t)' = Event(t)
  BY SameRows DEF Same
<1>2. AuditEvent(t, "auth.login_failed", 0) = AuditEvent(t, "auth.login_failed", 0)'
  BY DEF AuditEvent
<1>3. RegistrationInv(t) => RegistrationInv(t)'
  BY <1>1, TablesGrow DEF RegistrationInv, Same
<1>4. LoginInv(t) => LoginInv(t)'
  BY <1>1, TablesGrow DEF LoginInv, Same, AuditEvent
<1>5. SessionInv(t) => SessionInv(t)'
  BY TablesGrow DEF SessionInv, Same
<1> QED
  BY <1>3, <1>4, <1>5

\* The end of a transaction leaves no row of it behind.
LEMMA Ends ==
  ASSUME Shape, NEW t \in Requests, Commit(t) \/ \E how : Raise(t, how)
  PROVE  /\ phase'[t] = "ended" /\ rows'[t] = {} /\ revoking'[t] = {}
         /\ args' = args /\ found' = found /\ ended' = ended
BY DEF Shape, Commit, Raise, Undo, Answer

\* A step of a registration.
LEMMA RegistrationStep ==
  ASSUME Shape, [Next]_vars, NEW t \in Registrations, RegistrationInv(t),
         Arrive(t) \/ Step(t) \/ Fail(t)
  PROVE  RegistrationInv(t)'
<1> USE KindsAssumption DEF Requests, Shape
<1>1. CASE phase[t] # "idle" /\ (Commit(t) \/ \E how : Raise(t, how))
  BY <1>1, Ends, TablesGrow DEF RegistrationInv, Commit, Raise
<1>2. CASE Arrive(t)
  BY <1>2, TablesGrow DEF RegistrationInv, Arrive, Arguments, First, flushed
<1>3. CASE CheckEmail(t)
  BY <1>1, <1>3, TablesGrow DEF RegistrationInv, CheckEmail, Goto, flushed
<1>4. CASE FindOrg(t)
  <2>1. /\ args'[t] = args[t] /\ rows'[t] = rows[t] /\ phase[t] = "org"
        /\ phase'[t] = "flush"
    BY <1>4 DEF FindOrg, Goto, flushed
  <2>2. found'[t] # {} => \E o \in Named(args[t].org) : found'[t] = {o}
    BY <1>4 DEF FindOrg
  <2>3. found'[t] # {} => \E o \in Orgs : found'[t] = {o.id} /\ o.name = args[t].org
    BY <2>2 DEF Named
  <2> QED
    BY <2>1, <2>3, TablesGrow DEF RegistrationInv
<1>5. CASE FlushAccount(t) /\ rows' = [rows EXCEPT ![t] = Account(t)] /\ Goto(t, "audit")
  <2>1. found' = found /\ args' = args /\ phase'[t] = "audit" /\ rows'[t] = Account(t)
    BY <1>5 DEF FlushAccount, Goto, Raise, Answer
  <2> QED
    BY <2>1, <1>5, SameRows, TablesGrow DEF RegistrationInv, FlushAccount
<1>6. CASE Audit(t)
  <2>1. /\ found' = found /\ args' = args /\ phase[t] = "audit" /\ phase'[t] = "commit"
        /\ rows'[t] = rows[t] \union Event(t)
    BY <1>6 DEF Audit, Goto
  <2> QED
    BY <2>1, SameRows, TablesGrow DEF RegistrationInv
<1>7. ~(\/ FindUser(t) \/ AuditFailure(t) \/ RefuseLogin(t) \/ Authenticate(t) \/ Revoke(t))
  BY DEF RegistrationInv, FindUser, AuditFailure, RefuseLogin, Authenticate, Revoke
<1> QED
  BY <1>1, <1>2, <1>3, <1>4, <1>5, <1>6, <1>7 DEF Step, FlushAccount, Fail, Commit

\* A step of a login.
LEMMA LoginStep ==
  ASSUME Shape, [Next]_vars, NEW t \in Logins, LoginInv(t),
         Arrive(t) \/ Step(t) \/ Fail(t)
  PROVE  LoginInv(t)'
<1> USE KindsAssumption DEF Requests, Shape
<1>1. CASE phase[t] # "idle" /\ (Commit(t) \/ \E how : Raise(t, how))
  BY <1>1, Ends, TablesGrow DEF LoginInv, Commit, Raise
<1>2. CASE Arrive(t)
  BY <1>2, TablesGrow DEF LoginInv, Arrive, Arguments, First, flushed
<1>3. CASE FindUser(t)
  <2>1. CASE Raise(t, "401")
    BY <1>1, <1>3, <2>1 DEF FindUser
  <2>2. CASE \E e \in Users : /\ found' = [found EXCEPT ![t] = {e.id}]
                              /\ \E p \in {"audit", "failed"} : Goto(t, p)
                              /\ UNCHANGED flushed
    <3>1. /\ rows'[t] = rows[t] /\ args'[t] = args[t]
          /\ phase'[t] \in {"audit", "failed"} /\ phase[t] = "user"
          /\ \E e \in Users : found'[t] = {e.id}
      BY <1>3, <2>2 DEF FindUser, Goto, flushed
    <3> QED
      BY <3>1, TablesGrow DEF LoginInv
  <2> QED
    BY <1>3, <2>1, <2>2 DEF FindUser
<1>4. CASE Audit(t)
  <2>1. /\ found' = found /\ args' = args /\ phase[t] = "audit" /\ phase'[t] = "commit"
        /\ rows'[t] = rows[t] \union Event(t)
    BY <1>4 DEF Audit, Goto
  <2> QED
    BY <2>1, SameRows, TablesGrow DEF LoginInv
<1>5. CASE AuditFailure(t)
  <2>1. /\ found' = found /\ args' = args /\ phase[t] = "failed" /\ phase'[t] = "refuse"
        /\ rows'[t] = rows[t] \union {AuditEvent(t, "auth.login_failed", u) : u \in found[t]}
    BY <1>5 DEF AuditFailure, Goto
  <2> QED
    BY <2>1, TablesGrow DEF LoginInv, AuditEvent
<1>6. CASE RefuseLogin(t)
  BY <1>1, <1>6 DEF RefuseLogin
<1>7. ~(\/ CheckEmail(t) \/ FindOrg(t) \/ FlushAccount(t) \/ Authenticate(t) \/ Revoke(t))
  BY DEF LoginInv, CheckEmail, FindOrg, FlushAccount, Authenticate, Revoke
<1> QED
  BY <1>1, <1>2, <1>3, <1>4, <1>5, <1>6, <1>7 DEF Step, Fail, Commit

\* A step of a request with a session credential.
LEMMA SessionStep ==
  ASSUME Shape, [Next]_vars, NEW t \in Logouts \union Visits, SessionInv(t),
         Arrive(t) \/ Step(t) \/ Fail(t)
  PROVE  SessionInv(t)'
<1> USE KindsAssumption DEF Requests, Shape
<1>1. CASE phase[t] # "idle" /\ (Commit(t) \/ \E how : Raise(t, how))
  BY <1>1, Ends, TablesGrow DEF SessionInv, Commit, Raise
<1>2. CASE Arrive(t)
  BY <1>2, TablesGrow DEF SessionInv, Arrive, Arguments, First, flushed
<1>3. CASE Authenticate(t)
  BY <1>1, <1>3, TablesGrow DEF SessionInv, Authenticate, Goto, flushed
<1>4. CASE Revoke(t)
  BY <1>4, TablesGrow DEF SessionInv, Revoke, Goto, flushed
<1>5. ~(\/ CheckEmail(t) \/ FindOrg(t) \/ FlushAccount(t) \/ FindUser(t) \/ Audit(t)
        \/ AuditFailure(t) \/ RefuseLogin(t))
  BY DEF SessionInv, CheckEmail, FindOrg, FlushAccount, FindUser, Audit, AuditFailure,
     RefuseLogin
<1> QED
  BY <1>1, <1>2, <1>3, <1>4, <1>5 DEF Step, Fail, Commit

\* The rows of the account of t, table by table.
LEMMA AccountRows ==
  ASSUME NEW t
  PROVE  /\ Of("users", Account(t) \union Event(t)) = {User(t, OrgOf(t))}
         /\ Of("organizations", Account(t) \union Event(t)) =
              IF found[t] = {} THEN {Organization(t)} ELSE {}
         /\ Of("sessions", Account(t) \union Event(t)) = {}
<1> DEFINE org == OrgOf(t)
<1>1. /\ User(t, org).table = "users" /\ Matter(t, org).table = "matters"
      /\ Member(t).table = "matter_members" /\ Organization(t).table = "organizations"
  BY DEF User, Matter, Member, Organization
<1>2. \A e \in Event(t) : e.table = "audit_events"
  BY DEF Event, AuditEvent
<1> QED
  BY <1>1, <1>2 DEF Of, Account

\* What the commit of t adds.
LEMMA CommitAdds ==
  ASSUME Shape, NEW t \in Requests, Commit(t), AccountInv
  PROVE  /\ t \in Registrations =>
              /\ db' = db \union (Account(t) \union Event(t) \union {Session(t, t)})
              /\ Users' = Users \union {User(t, OrgOf(t))}
              /\ Orgs' = Orgs \union (IF found[t] = {} THEN {Organization(t)} ELSE {})
              /\ Sessions' = Sessions \union {Session(t, t)}
         /\ t \in Logins => \E u \in Users :
              /\ found[t] = {u.id}
              /\ db' = db \union {AuditEvent(t, "auth.login_success", u.id),
                                  Session(t, u.id)}
              /\ Users' = Users /\ Orgs' = Orgs
              /\ Sessions' = Sessions \union {Session(t, u.id)}
         /\ t \notin Registrations \union Logins => db' = db
<1>1. db' = db \union rows[t] \union Opened(t) /\ phase[t] = "commit"
  BY DEF Commit
<1>2. ASSUME t \in Registrations
      PROVE  /\ db' = db \union (Account(t) \union Event(t) \union {Session(t, t)})
             /\ Users' = Users \union {User(t, OrgOf(t))}
             /\ Orgs' = Orgs \union (IF found[t] = {} THEN {Organization(t)} ELSE {})
             /\ Sessions' = Sessions \union {Session(t, t)}
  <2>1. rows[t] = Account(t) \union Event(t) /\ Opened(t) = {Session(t, t)}
    BY <1>1, <1>2 DEF AccountInv, RegistrationInv, Opened
  <2>2. db' = db \union (Account(t) \union Event(t) \union {Session(t, t)})
    BY <1>1, <2>1
  <2>3. \A table : Of(table, db') = Of(table, db) \union Of(table, Account(t) \union Event(t))
                                      \union Of(table, {Session(t, t)})
    BY <2>2 DEF Of
  <2>4. /\ Of("users", {Session(t, t)}) = {} /\ Of("organizations", {Session(t, t)}) = {}
        /\ Of("sessions", {Session(t, t)}) = {Session(t, t)}
    BY DEF Of, Session
  <2> QED
    BY <2>2, <2>3, <2>4, AccountRows DEF Users, Orgs, Sessions
<1>3. ASSUME t \in Logins
      PROVE  \E u \in Users :
               /\ found[t] = {u.id}
               /\ db' = db \union {AuditEvent(t, "auth.login_success", u.id),
                                   Session(t, u.id)}
               /\ Users' = Users /\ Orgs' = Orgs
               /\ Sessions' = Sessions \union {Session(t, u.id)}
  <2>1. t \notin Registrations
    BY <1>3, KindsAssumption
  <2>2. rows[t] = Event(t) /\ found[t] # {}
    BY <1>1, <1>3 DEF AccountInv, LoginInv
  <2>3. PICK u \in Users : found[t] = {u.id}
    BY <1>3, <2>2 DEF AccountInv, LoginInv
  <2>4. /\ Event(t) = {AuditEvent(t, "auth.login_success", u.id)}
        /\ Opened(t) = {Session(t, u.id)}
    BY <1>3, <2>1, <2>3 DEF Event, Opened
  <2>5. db' = db \union {AuditEvent(t, "auth.login_success", u.id), Session(t, u.id)}
    BY <1>1, <2>2, <2>4
  <2>6. /\ AuditEvent(t, "auth.login_success", u.id).table = "audit_events"
        /\ Session(t, u.id).table = "sessions"
    BY DEF AuditEvent, Session
  <2>7. Users' = Users /\ Orgs' = Orgs /\ Sessions' = Sessions \union {Session(t, u.id)}
    BY <2>5, <2>6 DEF Users, Orgs, Sessions, Of
  <2> QED
    BY <2>3, <2>5, <2>7
<1>4. ASSUME t \notin Registrations \union Logins PROVE db' = db
  <2>1. rows[t] = {} /\ Opened(t) = {}
    BY <1>4 DEF AccountInv, SessionInv, Opened, Requests
  <2> QED
    BY <1>1, <2>1
<1> QED
  BY <1>2, <1>3, <1>4

\* Rows are added by commits only.
LEMMA OnlyCommitsAdd ==
  [Next]_vars => db' = db \/ \E t \in Requests : Commit(t)
BY DEF Next, Arrive, Step, CheckEmail, FindOrg, FlushAccount, FindUser, Audit,
   AuditFailure, RefuseLogin, Authenticate, Revoke, Fail, Raise, Answer, Goto, Expire,
   Disable, vars, tables

-----------------------------------------------------------------------------
(* Whole accounts *)

\* The ids that rows of a well-formed database hold.
LEMMA RowIds ==
  ASSUME db \subseteq Rows
  PROVE  /\ \A o \in Orgs : o.id \in Registrations /\ o.name \in OrgNames
         /\ \A u \in Users : u.id \in Registrations
         /\ \A s \in Sessions : s.id \in Registrations \union Logins
BY DEF Orgs, Users, Sessions, Of, Rows

\* The rows of a registration are rows of their tables.
LEMMA AccountTyped ==
  ASSUME db \subseteq Rows, NEW t \in Registrations, RegistrationInv(t), phase[t] # "idle"
  PROVE  Account(t) \union Event(t) \union {Session(t, t)} \subseteq Rows
<1>1. OrgOf(t) \in Registrations
  BY RowIds DEF RegistrationInv, OrgOf
<1>2. args[t].email \in Emails /\ args[t].org \in OrgNames \union {NoName}
  BY DEF RegistrationInv
<1>3. User(t, OrgOf(t)) \in Rows
  BY <1>1, <1>2 DEF User, Rows
<1>4. Matter(t, OrgOf(t)) \in Rows
  <2>1. args[t].number \in UNION {Numbers[u] : u \in Registrations}
    BY DEF RegistrationInv
  <2> QED
    BY <1>1, <2>1 DEF Matter, Rows
<1>5. Member(t) \in Rows
  BY DEF Member, Rows
<1>6. Organization(t) \in Rows
  BY <1>2, NamesAssumption DEF Organization, Rows
<1>7. Event(t) \subseteq Rows
  BY DEF Event, AuditEvent, Rows
<1>8. Session(t, t) \in Rows
  BY DEF Session, Rows
<1> QED
  BY <1>3, <1>4, <1>5, <1>6, <1>7, <1>8 DEF Account

\* So are those of a login.
LEMMA LoginTyped ==
  ASSUME NEW t \in Logins, NEW u \in Registrations,
         NEW event \in {"auth.login_success", "auth.login_failed"}
  PROVE  AuditEvent(t, event, u) \in Rows /\ Session(t, u) \in Rows
BY DEF AuditEvent, Session, Rows

LEMMA RowsStep ==
  ASSUME Shape, AccountInv, [Next]_vars
  PROVE  (db \subseteq Rows)'
<1>1. Rows' = Rows
  BY DEF Rows
<1>2. ASSUME NEW t \in Requests, Commit(t) PROVE db' \subseteq Rows
  <2>1. CASE t \in Registrations
    BY <1>2, <2>1, CommitAdds, AccountTyped DEF AccountInv, Commit
  <2>2. CASE t \in Logins
    BY <1>2, <2>2, CommitAdds, LoginTyped, RowIds DEF AccountInv
  <2> QED
    BY <1>2, <2>1, <2>2, CommitAdds DEF AccountInv
<1> QED
  BY <1>1, <1>2, OnlyCommitsAdd DEF AccountInv

\* A commit leaves accounts whole.
LEMMA WholeStep ==
  ASSUME Shape, AccountInv, [Next]_vars
  PROVE  AccountsWhole'
<1> USE DEF AccountsWhole
<1>0. db \subseteq db' => \A u : HasMatter(u) => HasMatter(u)'
  BY DEF HasMatter, Matters, Of
<1>1. CASE db' = db
  BY <1>0, <1>1 DEF AccountInv, Users, Orgs, Of, Member, AuditEvent
<1>2. ASSUME NEW t \in Requests, Commit(t) PROVE AccountsWhole'
  <2>1. CASE t \in Registrations
    <3> DEFINE org == OrgOf(t)
    <3>1. /\ Users' = Users \union {User(t, org)}
          /\ Orgs' = Orgs \union (IF found[t] = {} THEN {Organization(t)} ELSE {})
          /\ Account(t) \union Event(t) \subseteq db'
          /\ db \subseteq db'
      BY <1>2, <2>1, CommitAdds
    <3>2. /\ User(t, org).id = t /\ User(t, org).org = org /\ Organization(t).id = t
          /\ AuditEvent(t, "auth.registered", t) \in db'
          /\ Matter(t, org) \in db' /\ Member(t) \in db'
          /\ Matter(t, org).table = "matters" /\ Matter(t, org).id = t
          /\ Matter(t, org).org = org
      BY <2>1, <3>1 DEF User, Organization, Account, Event, Matter
    <3>3. \E o \in Orgs' : o.id = org
      <4>1. CASE found[t] = {}
        BY <3>1, <3>2, <4>1 DEF OrgOf
      <4>2. CASE found[t] # {}
        <5>1. PICK o \in Orgs : found[t] = {o.id}
          BY <2>1, <4>2 DEF AccountInv, RegistrationInv
        <5>2. org = o.id
          BY <5>1 DEF OrgOf
        <5> HIDE DEF org
        <5> QED
          BY <3>1, <5>2
      <4> QED
        BY <4>1, <4>2
    <3>4. \A u \in Users :
            /\ \E o \in Orgs : o.id = u.org
            /\ HasMatter(u)
            /\ Member(u.id) \in db
            /\ AuditEvent(u.id, "auth.registered", u.id) \in db
      BY DEF AccountInv
    <3>5. \A u \in Users' :
            /\ \E o \in Orgs' : o.id = u.org
            /\ HasMatter(u)'
            /\ Member(u.id) \in db'
            /\ AuditEvent(u.id, "auth.registered", u.id) \in db'
      <4>1. Matter(t, org) \in Matters'
        BY <3>2 DEF Matters, Of
      <4>2. \A u : u.id = t /\ u.org = org => HasMatter(u)'
        <5> HIDE DEF org
        <5> QED
          BY <3>2, <4>1 DEF HasMatter
      <4> HIDE DEF org
      <4> QED
        BY <1>0, <3>1, <3>2, <3>3, <3>4, <4>2
    <3>6. \A o \in Orgs' : \E u \in Users' : u.org = o.id
      <4>1. found[t] = {} => org = t
        BY DEF OrgOf
      <4> HIDE DEF org
      <4> QED
        BY <3>1, <3>2, <4>1 DEF AccountInv
    <3> QED
      BY <3>5, <3>6 DEF Member, AuditEvent
  <2>2. CASE t \notin Registrations
    <3>1. Users' = Users /\ Orgs' = Orgs /\ db \subseteq db'
      BY <1>2, <2>2, CommitAdds, TablesGrow DEF Users, Orgs
    <3> QED
      BY <1>0, <3>1 DEF AccountInv, Member, AuditEvent
  <2> QED
    BY <2>1, <2>2
<1> QED
  BY <1>1, <1>2, OnlyCommitsAdd

\* A commit opens no session without its event.
LEMMA AuditedStep ==
  ASSUME Shape, AccountInv, [Next]_vars
  PROVE  SessionsAudited'
<1> USE DEF SessionsAudited
<1>1. CASE Sessions' = Sessions
  BY <1>1, TablesGrow DEF AccountInv, Of
<1>2. ASSUME NEW t \in Requests, NEW u, NEW event, event # "auth.login_failed",
             Sessions' = Sessions \union {Session(t, u)},
             AuditEvent(t, event, u) \in db'
      PROVE  SessionsAudited'
  <2>1. /\ AuditEvent(t, event, u) \in Of("audit_events", db')
        /\ AuditEvent(t, event, u).id = t /\ AuditEvent(t, event, u).user = u
        /\ AuditEvent(t, event, u).event = event
        /\ Session(t, u).id = t /\ Session(t, u).user = u
    BY <1>2 DEF AuditEvent, Session, Of
  <2>2. Of("audit_events", db) \subseteq Of("audit_events", db')
    BY TablesGrow DEF Of
  <2> QED
    BY <1>2, <2>1, <2>2 DEF AccountInv
<1>3. ASSUME NEW t \in Requests, Commit(t) PROVE SessionsAudited'
  <2>1. CASE t \in Registrations
    BY <1>2, <1>3, <2>1, CommitAdds DEF Event
  <2>2. CASE t \in Logins
    BY <1>2, <1>3, <2>2, CommitAdds
  <2>3. CASE t \notin Registrations \union Logins
    BY <1>1, <1>3, <2>3, CommitAdds DEF Sessions
  <2> QED
    BY <2>1, <2>2, <2>3
<1> QED
  BY <1>1, <1>3, OnlyCommitsAdd DEF Sessions

\* Flags are set of what is there.
LEMMA FlagsStep ==
  ASSUME Shape, AccountInv, [Next]_vars
  PROVE  FlagsInv'
<1> USE DEF Shape
<1>1. /\ {e.id : e \in Sessions} \subseteq {e.id : e \in Sessions'}
      /\ {e.id : e \in Users} \subseteq {e.id : e \in Users'}
  BY TablesGrow
<1>2. expired' \subseteq {e.id : e \in Sessions'} /\ disabled' \subseteq {e.id : e \in Users'}
  <2>1. CASE UNCHANGED <<expired, disabled>>
    BY <1>1, <2>1 DEF AccountInv, FlagsInv
  <2>2. CASE Expire \/ Disable
    BY <1>1, <2>2 DEF Expire, Disable, AccountInv, FlagsInv
  <2> QED
    BY <2>1, <2>2 DEF Next, Arrive, Step, CheckEmail, FindOrg, FlushAccount, FindUser,
       Audit, AuditFailure, RefuseLogin, Authenticate, Revoke, Commit, Fail, Raise,
       Answer, Goto, vars, tables
<1>3. ASSUME NEW t \in Requests, revoking[t] # {}
      PROVE  revoking[t] \subseteq {e.id : e \in Sessions}
  <2>1. SessionInv(t) /\ phase[t] # "idle" /\ revoking[t] = {args[t].session}
    BY <1>3 DEF AccountInv, FlagsInv
  <2> QED
    BY <2>1 DEF SessionInv
<1>4. revoked' \subseteq {e.id : e \in Sessions'}
  <2>1. CASE UNCHANGED revoked
    BY <1>1, <2>1 DEF AccountInv, FlagsInv
  <2>2. ASSUME NEW t \in Requests, Commit(t)
        PROVE  revoked' \subseteq {e.id : e \in Sessions'}
    BY <1>1, <1>3, <2>2 DEF Commit, AccountInv, FlagsInv
  <2> QED
    BY <2>1, <2>2 DEF Next, Arrive, Step, CheckEmail, FindOrg, FlushAccount, FindUser,
       Audit, AuditFailure, RefuseLogin, Authenticate, Revoke, Fail, Raise,
       Answer, Goto, Expire, Disable, vars, tables
<1>5. ASSUME NEW t \in Requests, revoking'[t] # {}
      PROVE  t \in Logouts /\ revoking'[t] = {args'[t].session} /\ phase'[t] # "idle"
  <2>1. CASE Same(t)
    BY <1>5, <2>1 DEF Same, AccountInv, FlagsInv
  <2>2. CASE Arrive(t)
    BY <1>5, <2>2 DEF Arrive, AccountInv, FlagsInv, flushed
  <2>3. CASE Commit(t) \/ \E how : Raise(t, how)
    BY <1>5, <2>3, Ends
  <2>4. CASE Revoke(t)
    <3>1. t \in Logouts
      BY <2>4, KindsAssumption
      DEF Revoke, AccountInv, RegistrationInv, LoginInv, SessionInv, Requests
    <3> QED
      BY <2>4, <3>1 DEF Revoke, Goto
  <2>5. CASE \E p : Goto(t, p) /\ UNCHANGED revoking /\ p # "idle"
    BY <1>5, <2>5 DEF Goto, AccountInv, FlagsInv
  <2>6. Step(t) \/ Fail(t) => Commit(t) \/ Revoke(t) \/ (\E how : Raise(t, how))
                                \/ \E p : Goto(t, p) /\ UNCHANGED revoking /\ p # "idle"
    BY DEF Step, CheckEmail, FindOrg, FlushAccount, FindUser, Audit, AuditFailure,
       RefuseLogin, Authenticate, Fail, flushed
  <2> QED
    BY <2>1, <2>2, <2>3, <2>4, <2>5, <2>6, OneActs
<1> QED
  BY <1>2, <1>4, <1>5 DEF FlagsInv

LEMMA InitAccounts == Init => AccountInv
<1> SUFFICES ASSUME Init PROVE AccountInv
  OBVIOUS
<1> USE DEF Init, Requests
<1>1. \A t \in Registrations : RegistrationInv(t)
  BY DEF RegistrationInv
<1>2. \A t \in Logins : LoginInv(t)
  BY DEF LoginInv
<1>3. \A t \in Logouts \union Visits : SessionInv(t)
  BY DEF SessionInv
<1>4. Users = {} /\ Orgs = {} /\ Sessions = {}
  BY DEF Users, Orgs, Sessions, Of
<1>5. FlagsInv /\ AccountsWhole /\ SessionsAudited
  BY <1>4 DEF FlagsInv, AccountsWhole, SessionsAudited
<1> QED
  BY <1>1, <1>2, <1>3, <1>5 DEF AccountInv

LEMMA StepKeepsAccounts == Shape /\ AccountInv /\ [Next]_vars => AccountInv'
<1> SUFFICES ASSUME Shape, AccountInv, [Next]_vars PROVE AccountInv'
  OBVIOUS
<1>1. \A t \in Requests : Same(t) \/ Arrive(t) \/ Step(t) \/ Fail(t)
  BY OneActs
<1>2. ASSUME NEW t \in Registrations PROVE RegistrationInv(t)'
  BY <1>1, SameKeeps, RegistrationStep DEF AccountInv, Requests
<1>3. ASSUME NEW t \in Logins PROVE LoginInv(t)'
  BY <1>1, SameKeeps, LoginStep DEF AccountInv, Requests
<1>4. ASSUME NEW t \in Logouts \union Visits PROVE SessionInv(t)'
  BY <1>1, SameKeeps, SessionStep DEF AccountInv, Requests
<1> QED
  BY <1>2, <1>3, <1>4, RowsStep, WholeStep, AuditedStep, FlagsStep DEF AccountInv

\* AccountInv holds in every reachable state.
THEOREM AccountInvariant == Spec => [](Shape /\ AccountInv)
<1>1. Shape /\ AccountInv /\ [Next]_vars => (Shape /\ AccountInv)'
  BY StepKeepsShape, StepKeepsAccounts
<1> QED
  BY <1>1, InitShape, InitAccounts, PTL DEF Spec

\* Whatever is refused, lost or raced, every user has an organization, a
\* starter matter with a membership, and the event of its registration.
THEOREM AccountsAreWhole == Spec => []AccountsWhole
<1>1. AccountInv => AccountsWhole
  BY DEF AccountInv
<1> QED
  BY <1>1, AccountInvariant, PTL

\* Every session is opened by a registration or login on the audit trail.
THEOREM SessionsAreAudited == Spec => []SessionsAudited
<1>1. AccountInv => SessionsAudited
  BY DEF AccountInv
<1> QED
  BY <1>1, AccountInvariant, PTL

-----------------------------------------------------------------------------
(* Answers *)

\* A request that is answered stays as it is.
LEMMA EndedStays ==
  ASSUME Shape, [Next]_vars, NEW t \in Requests, phase[t] = "ended"
  PROVE  Same(t)
<1>1. ~(Arrive(t) \/ Step(t) \/ Fail(t))
  BY DEF Arrive, Step, CheckEmail, FindOrg, FlushAccount, FindUser, Audit, AuditFailure,
     RefuseLogin, Authenticate, Revoke, Commit, Fail
<1> QED
  BY <1>1, OneActs

\* The email or the matter number of a registration is that of committed rows.
Taken(t) == EmailTaken(args[t].email) \/ NumberTaken(args[t].number)

\* How a request is answered.
LEMMA Outcomes ==
  ASSUME Shape, [Next]_vars, NEW t \in Requests
  PROVE  \/ outcome'[t] = outcome[t]
         \/ /\ args'[t] = args[t] /\ phase'[t] = "ended" /\ phase[t] # "idle"
            /\ \/ outcome'[t] \in {"401", "500"}
               \/ outcome'[t] = "409" /\ Taken(t)
               \/ outcome'[t] = "ok" /\ Commit(t)
<1> USE DEF Shape
<1>1. CASE Same(t)
  BY <1>1 DEF Same
<1>2. CASE Arrive(t)
  BY <1>2 DEF Arrive
<1>3. ASSUME NEW how, Raise(t, how),
             how \in {"401", "500"} \/ (how = "409" /\ Taken(t))
      PROVE  /\ args'[t] = args[t] /\ phase'[t] = "ended"
             /\ \/ outcome'[t] \in {"401", "500"}
                \/ outcome'[t] = "409" /\ Taken(t)
  BY <1>3 DEF Raise, Answer
<1>4. CASE CheckEmail(t)
  BY <1>3, <1>4 DEF CheckEmail, Goto, Taken
<1>5. CASE FlushAccount(t)
  <2>1. EmailIndex(t) = "taken" \/ NumberIndex(t) = "taken" => Taken(t)
    BY DEF EmailIndex, NumberIndex, Taken
  <2> QED
    BY <1>3, <1>5, <2>1 DEF FlushAccount, Goto
<1>6. CASE FindUser(t)
  BY <1>3, <1>6 DEF FindUser, Goto
<1>7. CASE Authenticate(t)
  BY <1>3, <1>7 DEF Authenticate, Goto
<1>8. CASE RefuseLogin(t) \/ Fail(t)
  BY <1>3, <1>8 DEF RefuseLogin, Fail
<1>9. CASE FindOrg(t) \/ Audit(t) \/ AuditFailure(t) \/ Revoke(t)
  BY <1>9 DEF FindOrg, Audit, AuditFailure, Revoke, Goto
<1>10. CASE Commit(t)
  BY <1>10 DEF Commit, Answer
<1> QED
  BY <1>1, <1>2, <1>4, <1>5, <1>6, <1>7, <1>8, <1>9, <1>10, OneActs DEF Step

\* A registration is refused as taken only for an email that has an account or
\* a matter number that is in use, by rows that are committed.
THEOREM OnlyTakenAreRefused == Spec => []OnlyTakenRefused
<1>1. Init => OnlyTakenRefused
  BY DEF Init, OnlyTakenRefused, Requests
<1>2. Shape /\ LogoutInv /\ OnlyTakenRefused /\ [Next]_vars => OnlyTakenRefused'
  <2> SUFFICES ASSUME Shape, LogoutInv, OnlyTakenRefused, [Next]_vars,
                      NEW t \in Registrations, outcome'[t] = "409"
               PROVE  Taken(t)'
    BY DEF OnlyTakenRefused, EmailTaken, NumberTaken, Taken
  <2>1. t \in Requests
    BY DEF Requests
  <2>2. CASE outcome[t] = "409"
    <3>1. args'[t] = args[t]
      BY <2>1, <2>2, EndedStays DEF LogoutInv, Same
    <3> QED
      BY <2>2, <3>1, TablesGrow
      DEF OnlyTakenRefused, EmailTaken, NumberTaken, Taken
  <2>3. CASE outcome[t] # "409"
    <3>1. args'[t] = args[t] /\ Taken(t)
      BY <2>1, <2>3, Outcomes
    <3> QED
      BY <3>1, TablesGrow DEF EmailTaken, NumberTaken, Taken
  <2> QED
    BY <2>2, <2>3
<1>3. Shape /\ LogoutInv /\ [Next]_vars => (Shape /\ LogoutInv)'
  BY StepKeepsShape, StepKeepsLogout
<1> QED
  BY <1>1, <1>2, <1>3, InitShape, InitLogout, PTL DEF Spec

-----------------------------------------------------------------------------
(* Organizations *)

\* A registration works with an organization, or goes on to, after FindOrg.
LEMMA AfterFindOrg ==
  ASSUME Shape, [Next]_vars, LogoutInv, NEW t \in Registrations, RegistrationInv(t),
         ~FindOrg(t), phase'[t] \in {"flush", "audit", "commit"} \/ outcome'[t] = "ok"
  PROVE  /\ phase[t] \in {"flush", "audit", "commit"} \/ outcome[t] = "ok"
         /\ args'[t] = args[t] /\ found'[t] = found[t] /\ ended'[t] = ended[t]
<1> USE DEF Shape
<1>0. t \in Requests
  BY DEF Requests
<1>1. CASE Same(t)
  BY <1>1 DEF Same
<1>2. ~Arrive(t)
  BY <1>0 DEF Arrive, First, LogoutInv
<1>3. CASE Commit(t)
  BY <1>0, <1>3 DEF Commit
<1>4. ~CheckEmail(t) /\ ~FindUser(t) /\ ~AuditFailure(t) /\ ~RefuseLogin(t)
      /\ ~Authenticate(t) /\ ~Revoke(t) /\ ~Fail(t)
  <2>1. ASSUME NEW how, Raise(t, how) PROVE how = "ok"
    BY <1>0, <2>1 DEF Raise, Answer
  <2>2. ~CheckEmail(t) /\ ~Fail(t)
    BY <1>0, <2>1 DEF CheckEmail, Goto, Fail, LogoutInv
  <2> QED
    BY <2>2 DEF RegistrationInv, FindUser, AuditFailure, RefuseLogin, Authenticate, Revoke
<1>5. CASE FlushAccount(t) \/ Audit(t)
  BY <1>0, <1>5 DEF FlushAccount, Audit, Goto, Raise, Answer
<1> QED
  BY <1>0, <1>1, <1>2, <1>3, <1>4, <1>5, OneActs DEF Step

LEMMA InitOrganizations == Init => OrganizationInv
BY DEF Init, OrganizationInv, Orgs, Of, Requests

LEMMA StepKeepsOrganizations ==
  Shape /\ AccountInv /\ LogoutInv /\ OrganizationInv /\ [Next]_vars => OrganizationInv'
<1> SUFFICES ASSUME Shape, AccountInv, LogoutInv, OrganizationInv, [Next]_vars
             PROVE  OrganizationInv'
  OBVIOUS
<1>0. Registrations \subseteq Requests
  BY DEF Requests
<1>1. ASSUME NEW t \in Requests, NEW u \in ended'[t] PROVE u \in Requests /\ phase'[u] = "ended"
  <2>1. u \in Requests /\ phase[u] = "ended"
    <3>1. ended'[t] = ended[t] \/ ended'[t] = {v \in Requests : phase[v] = "ended"}
      BY OneActs
      DEF Shape, Same, Arrive, Step, CheckEmail, FindOrg, FlushAccount, FindUser, Audit,
          AuditFailure, RefuseLogin, Authenticate, Revoke, Commit, Fail, Raise, Goto
    <3> QED
      BY <1>1, <3>1 DEF OrganizationInv
  <2> QED
    BY <2>1, EndedStays DEF Same
<1>2. ASSUME NEW o \in Orgs' PROVE phase'[o.id] = "ended" /\ found'[o.id] = {}
  <2>1. CASE o \in Orgs
    <3>1. o.id \in Requests /\ phase[o.id] = "ended" /\ found[o.id] = {}
      BY <1>0, <2>1, RowIds DEF AccountInv, OrganizationInv
    <3> QED
      BY <3>1, EndedStays DEF Same
  <2>2. CASE o \notin Orgs
    <3>1. PICK t \in Requests : Commit(t)
      BY <1>2, <2>2, OnlyCommitsAdd DEF Orgs
    <3>2. found[t] = {} /\ o = Organization(t)
      BY <1>2, <2>2, <3>1, CommitAdds DEF Orgs
    <3>3. o.id = t
      BY <3>2 DEF Organization
    <3> QED
      BY <3>1, <3>2, <3>3, Ends
  <2> QED
    BY <2>1, <2>2
<1>3. ASSUME NEW u \in Registrations, outcome'[u] = "ok", args'[u].org # NoName
      PROVE  \E o \in Orgs' : o.name = args'[u].org
  <2>1. CASE outcome[u] = "ok"
    <3>1. args'[u] = args[u]
      BY <1>0, <2>1, EndedStays DEF LogoutInv, Same
    <3> QED
      BY <1>3, <2>1, <3>1, TablesGrow DEF OrganizationInv
  <2>2. CASE outcome[u] # "ok"
    <3>1. Commit(u) /\ args'[u] = args[u]
      BY <1>0, <1>3, <2>2, Outcomes
    <3>2. CASE found[u] = {}
      <4>1. Organization(u) \in Orgs'
        BY <1>0, <3>1, <3>2, CommitAdds
      <4>2. Organization(u).name = args[u].org
        BY <1>3, <3>1 DEF Organization
      <4> QED
        BY <3>1, <4>1, <4>2
    <3>3. CASE found[u] # {}
      <4>1. \E o \in Orgs : o.name = args[u].org
        BY <3>3 DEF AccountInv, RegistrationInv
      <4> QED
        BY <3>1, <4>1, TablesGrow
    <3> QED
      BY <3>2, <3>3
  <2> QED
    BY <2>1, <2>2
<1>4. ASSUME NEW t \in Registrations, NEW u \in Registrations \intersect ended'[t],
             phase'[t] \in {"flush", "audit", "commit"} \/ outcome'[t] = "ok",
             outcome'[u] = "ok", args'[u].org = args'[t].org, args'[t].org # NoName
      PROVE  found'[t] # {}
  <2>1. CASE FindOrg(t)
    <3>1. args'[t] = args[t] /\ ended'[t] = ended[t]
      BY <2>1 DEF FindOrg, Goto
    <3>2. u \in ended[t] /\ Same(u)
      BY <1>0, <1>4, <3>1, EndedStays DEF OrganizationInv
    <3>3. \E o \in Orgs : o.name = args[t].org
      BY <1>4, <3>1, <3>2 DEF OrganizationInv, Same
    <3>4. Named(args[t].org) # {}
      BY <3>3 DEF Named
    <3> QED
      BY <1>0, <2>1, <3>4 DEF FindOrg, Shape
  <2>2. CASE ~FindOrg(t)
    <3>1. /\ phase[t] \in {"flush", "audit", "commit"} \/ outcome[t] = "ok"
          /\ args'[t] = args[t] /\ found'[t] = found[t] /\ ended'[t] = ended[t]
      BY <1>4, <2>2, AfterFindOrg DEF AccountInv
    <3>2. u \in ended[t] /\ Same(u)
      BY <1>0, <1>4, <3>1, EndedStays DEF OrganizationInv
    <3> QED
      BY <1>4, <3>1, <3>2 DEF OrganizationInv, Same
  <2> QED
    BY <2>1, <2>2
<1> QED
  BY <1>1, <1>2, <1>3, <1>4 DEF OrganizationInv

LEMMA OrganizationsHold ==
  Spec => [](Shape /\ AccountInv /\ LogoutInv /\ OrganizationInv)
<1>1. Shape /\ LogoutInv /\ [Next]_vars => (Shape /\ LogoutInv)'
  BY StepKeepsShape, StepKeepsLogout
<1> QED
  BY <1>1, InitShape, InitLogout, InitOrganizations, StepKeepsOrganizations,
     AccountInvariant, PTL DEF Spec

\* Only overlapping registrations can make two organizations of one name.
THEOREM OrganizationsAreReused == Spec => []OrganizationsReused
<1>1. OrganizationInv => OrganizationsReused
  BY DEF OrganizationInv, OrganizationsReused
<1> QED
  BY <1>1, OrganizationsHold, PTL

-----------------------------------------------------------------------------
(* Types *)

\* The answers a request can get.
Answers == \A t \in Requests : outcome[t] \in {"none", "ok", "401", "409", "500"}

LEMMA AnswersHold == Spec => []Answers
<1>1. Init => Answers
  BY DEF Init, Answers
<1>2. Shape /\ Answers /\ [Next]_vars => Answers'
  BY Outcomes DEF Answers
<1> QED
  BY <1>1, <1>2, AccountInvariant, PTL DEF Spec

\* The variables that TypeOK says are functions.
Functions ==
  /\ rows = [t \in Requests |-> rows[t]] /\ revoking = [t \in Requests |-> revoking[t]]
  /\ found = [t \in Requests |-> found[t]] /\ phase = [t \in Requests |-> phase[t]]
  /\ outcome = [t \in Requests |-> outcome[t]] /\ ended = [t \in Requests |-> ended[t]]

LEMMA FunctionsHold == Spec => []Functions
<1>1. Init => Functions
  BY DEF Init, Functions
<1>2. Functions /\ [Next]_vars => Functions'
  BY DEF Functions, Next, Arrive, Step, CheckEmail, FindOrg, FlushAccount, FindUser, Audit,
     AuditFailure, RefuseLogin, Authenticate, Revoke, Commit, Fail, Raise, Undo, Answer,
     Goto, Expire, Disable, vars, tables, flushed
<1> QED
  BY <1>1, <1>2, PTL DEF Spec

\* What a registration or login has found are ids of organizations or users.
LEMMA FoundIds ==
  ASSUME AccountInv, NEW t \in Registrations \union Logins, NEW x \in found[t]
  PROVE  x \in Registrations
<1>1. found[t] # {} /\ db \subseteq Rows
  BY DEF AccountInv
<1>2. CASE t \in Registrations
  <2>1. PICK o \in Orgs : found[t] = {o.id}
    BY <1>1, <1>2 DEF AccountInv, RegistrationInv
  <2> QED
    BY <1>1, <2>1, RowIds
<1>3. CASE t \in Logins
  <2>1. PICK u \in Users : found[t] = {u.id}
    BY <1>1, <1>3 DEF AccountInv, LoginInv
  <2> QED
    BY <1>1, <2>1, RowIds
<1> QED
  BY <1>2, <1>3

LEMMA WellTyped ==
  Functions /\ Shape /\ AccountInv /\ LogoutInv /\ OrganizationInv /\ Answers => TypeOK
<1> SUFFICES ASSUME Functions, Shape, AccountInv, LogoutInv, OrganizationInv, Answers
             PROVE  TypeOK
  OBVIOUS
<1> USE DEF Shape
<1>1. \A t \in Requests : t \in Registrations \/ t \in Logins \/ t \in Logouts \union Visits
  BY DEF Requests
<1>0. db \subseteq Rows
  BY DEF AccountInv
<1>2. ASSUME NEW t \in Requests PROVE rows[t] \subseteq Rows
  <2>1. CASE t \in Registrations
    <3>1. RegistrationInv(t)
      BY <2>1 DEF AccountInv
    <3>2. phase[t] # "idle" => Account(t) \union Event(t) \subseteq Rows
      BY <1>0, <2>1, <3>1, AccountTyped
    <3> QED
      BY <3>1, <3>2 DEF RegistrationInv
  <2>2. CASE t \in Logins
    <3>1. t \notin Registrations
      BY <2>2, KindsAssumption
    <3>2. \A u \in found[t] : u \in Registrations
      BY <2>2, FoundIds
    <3>3. \A u \in found[t] : /\ AuditEvent(t, "auth.login_success", u) \in Rows
                              /\ AuditEvent(t, "auth.login_failed", u) \in Rows
      BY <2>2, <3>2, LoginTyped
    <3>4. Event(t) \subseteq Rows
      BY <3>1, <3>3 DEF Event
    <3>5. {AuditEvent(t, "auth.login_failed", u) : u \in found[t]} \subseteq Rows
      BY <3>3
    <3> QED
      BY <2>2, <3>4, <3>5 DEF AccountInv, LoginInv
  <2>3. CASE t \in Logouts \union Visits
    BY <2>3 DEF AccountInv, SessionInv
  <2> QED
    BY <1>1, <2>1, <2>2, <2>3
<1>3. ASSUME NEW t \in Requests
      PROVE  /\ revoking[t] \subseteq Registrations \union Logins
             /\ found[t] \subseteq Registrations \union Logins
  <2>1. CASE t \in Registrations
    <3>1. revoking[t] = {}
      BY <2>1, KindsAssumption DEF AccountInv, FlagsInv
    <3> QED
      BY <2>1, <3>1, FoundIds
  <2>2. CASE t \in Logins
    <3>1. revoking[t] = {}
      BY <2>2, KindsAssumption DEF AccountInv, FlagsInv
    <3> QED
      BY <2>2, <3>1, FoundIds
  <2>3. CASE t \in Logouts \union Visits
    <3>1. SessionInv(t)
      BY <2>3 DEF AccountInv
    <3>2. phase[t] # "idle" => \E s \in Sessions : args[t].session = s.id
      BY <3>1 DEF SessionInv
    <3>3. phase[t] # "idle" => args[t].session \in Registrations \union Logins
      BY <1>0, <3>2, RowIds
    <3> QED
      BY <2>3, <3>1, <3>3 DEF AccountInv, SessionInv, FlagsInv
  <2> QED
    BY <1>1, <2>1, <2>2, <2>3
<1>4. \A t \in Requests :
        phase[t] \in {"idle", "email", "org", "flush", "user", "audit", "failed",
                      "refuse", "session", "revoke", "commit", "ended"}
  BY <1>1 DEF AccountInv, RegistrationInv, LoginInv, SessionInv
<1>5. \A t \in Requests : ended[t] \subseteq Requests
  BY DEF OrganizationInv
<1> QED
  BY <1>0, <1>2, <1>3, <1>4, <1>5 DEF TypeOK, Functions, AccountInv, FlagsInv, Answers

\* The tables and the requests' variables keep their types.
THEOREM AccountsTyped == Spec => []TypeOK
BY WellTyped, FunctionsHold, OrganizationsHold, AnswersHold, PTL

-----------------------------------------------------------------------------
(* The registry *)

\* A committed row is named after a request that has been answered.
IdsUsed == \A e \in db : e.id \in Requests /\ phase[e.id] = "ended"

LEMMA RowsNamed ==
  ASSUME db \subseteq Rows
  PROVE  \A e \in db : e.id \in Requests
BY DEF Rows, Requests

LEMMA IdsStep ==
  ASSUME Shape, AccountInv, IdsUsed, [Next]_vars
  PROVE  IdsUsed'
<1>1. (db \subseteq Rows)'
  BY RowsStep
<1>2. \A e \in db' : e.id \in Requests
  <2>1. Requests' = Requests
    BY DEF Requests
  <2> QED
    BY <1>1, RowsNamed DEF Rows, Requests
<1>3. \A e \in db : phase'[e.id] = "ended"
  BY EndedStays DEF IdsUsed, Same
<1>4. ASSUME NEW t \in Requests, Commit(t), NEW e \in db' \ db PROVE e.id = t
  <2>1. CASE t \in Registrations
    BY <1>4, <2>1, CommitAdds
    DEF Account, Event, User, Matter, Member, Organization, AuditEvent, Session
  <2>2. CASE t \in Logins
    BY <1>4, <2>2, CommitAdds DEF AuditEvent, Session
  <2> QED
    BY <1>4, <2>1, <2>2, CommitAdds
<1>5. ASSUME NEW t \in Requests, Commit(t) PROVE \A e \in db' : phase'[e.id] = "ended"
  BY <1>3, <1>4, <1>5, Ends
<1> QED
  BY <1>2, <1>3, <1>5, OnlyCommitsAdd DEF IdsUsed

\* While accounts are whole, every user is an account.
LEMMA UsersSeen ==
  ASSUME AccountsWhole
  PROVE  AccountsSeen = {[id |-> u.id, email |-> u.email, org |-> u.org] : u \in Users}
BY DEF AccountsWhole, AccountsSeen

LEMMA UsersSeenNext ==
  ASSUME AccountsWhole'
  PROVE  AccountsSeen' = {[id |-> u.id, email |-> u.email, org |-> u.org] : u \in Users'}
BY DEF AccountsWhole, AccountsSeen, HasMatter, Matters, Of, Users, Member

\* What is seen of a table with one more row.
LEMMA RowSeen ==
  ASSUME NEW table, NEW x
  PROVE  /\ {[id |-> s.id, user |-> s.user] : s \in table \union {x}} =
              {[id |-> s.id, user |-> s.user] : s \in table}
                \union {[id |-> x.id, user |-> x.user]}
         /\ {[id |-> e.id, event |-> e.event, user |-> e.user] : e \in table \union {x}} =
              {[id |-> e.id, event |-> e.event, user |-> e.user] : e \in table}
                \union {[id |-> x.id, event |-> x.event, user |-> x.user]}
OBVIOUS

LEMMA SessionSeen ==
  ASSUME NEW t, NEW u, Sessions' = Sessions \union {Session(t, u)}
  PROVE  SessionsSeen' = SessionsSeen \union {[id |-> t, user |-> u]}
<1>1. Session(t, u).id = t /\ Session(t, u).user = u
  BY DEF Session
<1> DEFINE x == Session(t, u)
<1> HIDE DEF x
<1>2. {[id |-> s.id, user |-> s.user] : s \in Sessions \union {x}} =
        SessionsSeen \union {[id |-> x.id, user |-> x.user]}
  BY RowSeen, Zenon DEF SessionsSeen
<1>3. SessionsSeen' = {[id |-> s.id, user |-> s.user] : s \in Sessions \union {x}}
  BY DEF SessionsSeen, x
<1> QED
  BY <1>1, <1>2, <1>3 DEF x

LEMMA EventSeen ==
  ASSUME NEW t, NEW event, NEW u,
         Of("audit_events", db') = Of("audit_events", db) \union {AuditEvent(t, event, u)}
  PROVE  TrailSeen' = TrailSeen \union {[id |-> t, event |-> event, user |-> u]}
<1>1. /\ AuditEvent(t, event, u).id = t /\ AuditEvent(t, event, u).event = event
      /\ AuditEvent(t, event, u).user = u
  BY DEF AuditEvent
<1>2. TrailSeen' = {[id |-> e.id, event |-> e.event, user |-> e.user] :
                      e \in Of("audit_events", db')}
  BY DEF TrailSeen, Of
<1> DEFINE x == AuditEvent(t, event, u)
<1>3. TrailSeen' = {[id |-> e.id, event |-> e.event, user |-> e.user] :
                      e \in Of("audit_events", db) \union {x}}
  BY <1>2
<1> HIDE DEF x
<1>4. {[id |-> e.id, event |-> e.event, user |-> e.user] :
         e \in Of("audit_events", db) \union {x}} =
        TrailSeen \union {[id |-> x.id, event |-> x.event, user |-> x.user]}
  BY RowSeen, Zenon DEF TrailSeen
<1> QED
  BY <1>1, <1>3, <1>4 DEF x

\* The id of whoever is not answered is new to the registry.
LEMMA Unseen ==
  ASSUME IdsUsed, NEW t \in Requests, phase[t] # "ended"
  PROVE  Registry!Fresh(t)
<1>1. \A e \in db : e.id # t
  BY DEF IdsUsed
<1>2. \A a \in AccountsSeen : a.id # t
  BY <1>1 DEF AccountsSeen, Users, Of
<1>3. \A o \in OrganizationsSeen : o.id # t
  BY <1>1 DEF OrganizationsSeen, Orgs, Of
<1>4. \A s \in SessionsSeen : s.id # t
  BY <1>1 DEF SessionsSeen, Sessions, Of
<1>5. \A e \in TrailSeen : e.id # t
  BY <1>1 DEF TrailSeen, Of
<1> QED
  BY <1>2, <1>3, <1>4, <1>5 DEF Registry!Fresh

\* The commit of a registration is the registration.
LEMMA RegistrationSeen ==
  ASSUME Shape, AccountInv, EmailsApart, IdsUsed, AccountsWhole',
         NEW t \in Registrations, Commit(t)
  PROVE  Registry!RegistryNext
<1> DEFINE org == OrgOf(t)
           event == AuditEvent(t, "auth.registered", t)
<1>0. t \in Requests /\ RegistrationInv(t) /\ phase[t] = "commit"
  BY DEF Requests, AccountInv, Commit
<1>1. /\ Users' = Users \union {User(t, org)}
      /\ Orgs' = Orgs \union (IF found[t] = {} THEN {Organization(t)} ELSE {})
      /\ Sessions' = Sessions \union {Session(t, t)}
      /\ db' = db \union (Account(t) \union Event(t) \union {Session(t, t)})
  BY <1>0, CommitAdds
<1>2. Of("audit_events", db') = Of("audit_events", db) \union {event}
  <2>1. /\ event.table = "audit_events" /\ Event(t) = {event}
        /\ Session(t, t).table = "sessions"
    BY DEF AuditEvent, Event, Session
  <2>2. \A e \in Account(t) : e.table # "audit_events"
    BY DEF Account, User, Matter, Member, Organization
  <2> QED
    BY <1>1, <2>1, <2>2 DEF Of
<1>3. /\ args[t].email \in Emails
      /\ args[t].org \in OrgNames \union {NoName}
  BY <1>0 DEF RegistrationInv
<1>4. AccountsSeen' = AccountsSeen \union {[id |-> t, email |-> args[t].email, org |-> org]}
  <2>1. AccountsSeen = {[id |-> u.id, email |-> u.email, org |-> u.org] : u \in Users}
    BY UsersSeen DEF AccountInv
  <2>2. AccountsSeen' = {[id |-> u.id, email |-> u.email, org |-> u.org] : u \in Users'}
    BY UsersSeenNext
  <2>3. /\ User(t, org).id = t /\ User(t, org).email = args[t].email
        /\ User(t, org).org = org
    BY DEF User
  <2> HIDE DEF org
  <2> QED
    BY <1>1, <2>1, <2>2, <2>3
<1>5. SessionsSeen' = SessionsSeen \union {[id |-> t, user |-> t]}
  BY <1>1, SessionSeen
<1>6. TrailSeen' = TrailSeen \union {[id |-> t, event |-> "auth.registered", user |-> t]}
  BY <1>2, EventSeen
<1>7. revoked' = revoked
  <2>1. revoking[t] = {}
    BY <1>0, KindsAssumption DEF AccountInv, FlagsInv
  <2> QED
    BY <2>1 DEF Commit
<1>8. \A a \in AccountsSeen : a.email # args[t].email
  <2>1. User(t, org) \in Of("users", rows[t]) /\ User(t, org).email = args[t].email
    <3>1. rows[t] = Account(t) \union Event(t)
      BY <1>0 DEF RegistrationInv
    <3>2. User(t, org) \in Of("users", rows[t])
      BY <3>1, AccountRows
    <3> QED
      BY <3>2 DEF User
  <2>2. ~EmailTaken(args[t].email)
    BY <1>0, <2>1 DEF EmailsApart
  <2> QED
    BY <2>2 DEF AccountsSeen, EmailTaken
<1>9. Registry!Fresh(t)
  BY <1>0, Unseen
<1>10. Registry!Opens(t, t, "auth.registered")
  BY <1>5, <1>6, <1>7 DEF Registry!Opens
<1>11. \E name \in OrgNames, o \in Requests :
         /\ o = org
         /\ \/ o = t /\ OrganizationsSeen' = OrganizationsSeen \union {[id |-> o, name |-> name]}
            \/ [id |-> o, name |-> name] \in OrganizationsSeen /\ UNCHANGED OrganizationsSeen
  <2>1. CASE found[t] = {}
    <3>1. org = t /\ Organization(t).id = t /\ Organization(t).name \in OrgNames
      BY <1>3, <2>1, NamesAssumption DEF OrgOf, Organization
    <3>2. Orgs' = Orgs \union {Organization(t)}
      BY <1>1, <2>1
    <3>3. OrganizationsSeen' = OrganizationsSeen \union {[id |-> t, name |-> Organization(t).name]}
      BY <3>1, <3>2 DEF OrganizationsSeen
    <3> QED
      BY <1>0, <3>1, <3>3
  <2>2. CASE found[t] # {}
    <3>1. PICK o \in Orgs : found[t] = {o.id}
      BY <1>0, <2>2 DEF RegistrationInv
    <3>2. org = o.id
      BY <3>1 DEF OrgOf
    <3>3. o.id \in Requests /\ o.name \in OrgNames
      BY <3>1, RowIds DEF AccountInv, Requests
    <3>4. [id |-> o.id, name |-> o.name] \in OrganizationsSeen /\ UNCHANGED OrganizationsSeen
      BY <1>1, <2>2 DEF OrganizationsSeen
    <3> HIDE DEF org
    <3> QED
      BY <3>2, <3>3, <3>4
  <2> QED
    BY <2>1, <2>2
<1>12. PICK name \in OrgNames, o \in Requests :
         /\ o = org
         /\ \/ o = t /\ OrganizationsSeen' = OrganizationsSeen \union {[id |-> o, name |-> name]}
            \/ [id |-> o, name |-> name] \in OrganizationsSeen /\ UNCHANGED OrganizationsSeen
  BY <1>11
<1> HIDE DEF org
<1>13. Registry!Register(t, args[t].email, o, name)
  BY <1>4, <1>8, <1>9, <1>10, <1>12 DEF Registry!Register
<1> QED
  BY <1>0, <1>3, <1>13 DEF Registry!RegistryNext

\* The commit of a login is the login.
LEMMA LoginSeen ==
  ASSUME Shape, AccountInv, IdsUsed, AccountsWhole', NEW t \in Logins, Commit(t)
  PROVE  Registry!RegistryNext
<1>0. t \in Requests /\ phase[t] = "commit"
  BY DEF Requests, Commit
<1>1. PICK u \in Users : /\ db' = db \union {AuditEvent(t, "auth.login_success", u.id),
                                             Session(t, u.id)}
                         /\ Users' = Users /\ Orgs' = Orgs
                         /\ Sessions' = Sessions \union {Session(t, u.id)}
  BY <1>0, CommitAdds
<1>2. Of("audit_events", db') =
        Of("audit_events", db) \union {AuditEvent(t, "auth.login_success", u.id)}
  BY <1>1 DEF Of, AuditEvent, Session
<1>3. AccountsSeen' = AccountsSeen /\ OrganizationsSeen' = OrganizationsSeen
  BY <1>1, UsersSeen, UsersSeenNext DEF AccountInv, OrganizationsSeen
<1>4. SessionsSeen' = SessionsSeen \union {[id |-> t, user |-> u.id]}
  BY <1>1, SessionSeen
<1>5. TrailSeen' = TrailSeen \union {[id |-> t, event |-> "auth.login_success", user |-> u.id]}
  BY <1>2, EventSeen
<1>6. revoked' = revoked
  <2>1. revoking[t] = {}
    BY <1>0, KindsAssumption DEF AccountInv, FlagsInv
  <2> QED
    BY <2>1 DEF Commit
<1> DEFINE a == [id |-> u.id, email |-> u.email, org |-> u.org]
<1>7. a \in AccountsSeen /\ a.id = u.id
  BY UsersSeen DEF AccountInv
<1> HIDE DEF a
<1>8. Registry!Login(t, a)
  BY <1>0, <1>3, <1>4, <1>5, <1>6, <1>7, Unseen DEF Registry!Login, Registry!Opens
<1> QED
  BY <1>0, <1>7, <1>8 DEF Registry!RegistryNext

\* The commit of a logout revokes a session, and that of a visit nothing.
LEMMA LogoutSeen ==
  ASSUME Shape, AccountInv, NEW t \in Logouts \union Visits, Commit(t)
  PROVE  Registry!RegistryNext \/ UNCHANGED Registry!registryVars
<1>0. t \in Requests /\ t \notin Registrations \union Logins
  BY KindsAssumption DEF Requests
<1>1. db' = db
  BY <1>0, CommitAdds
<1>2. UNCHANGED <<AccountsSeen, OrganizationsSeen, SessionsSeen, TrailSeen>>
  BY <1>1 DEF AccountsSeen, OrganizationsSeen, SessionsSeen, TrailSeen, Users, Orgs,
     Sessions, Matters, HasMatter, Member
<1>3. CASE revoking[t] = {}
  BY <1>2, <1>3 DEF Commit, Registry!registryVars
<1>4. CASE revoking[t] # {}
  <2>1. revoking[t] = {args[t].session} /\ phase[t] # "idle" /\ SessionInv(t)
    BY <1>0, <1>4 DEF AccountInv, FlagsInv
  <2>2. PICK s \in Sessions : args[t].session = s.id
    <3>1. PICK s \in Sessions : args[t] = [session |-> s.id]
      BY <2>1 DEF SessionInv
    <3> QED
      BY <3>1
  <2>3. revoked' = revoked \union {s.id}
    BY <2>1, <2>2 DEF Commit
  <2> DEFINE e == [id |-> s.id, user |-> s.user]
  <2>4. e \in SessionsSeen /\ e.id = s.id
    BY DEF SessionsSeen
  <2> HIDE DEF e
  <2>5. Registry!Logout(e)
    BY <1>2, <2>3, <2>4 DEF Registry!Logout
  <2> QED
    BY <2>4, <2>5 DEF Registry!RegistryNext
<1> QED
  BY <1>3, <1>4

\* Rows and flags are committed by commits only.
LEMMA OnlyCommitsSeen ==
  ASSUME [Next]_vars
  PROVE  (\E t \in Requests : Commit(t)) \/ (db' = db /\ revoked' = revoked)
BY DEF Next, Arrive, Step, CheckEmail, FindOrg, FlushAccount, FindUser, Audit,
   AuditFailure, RefuseLogin, Authenticate, Revoke, Fail, Raise, Answer, Goto, Expire,
   Disable, vars, tables

LEMMA StepSeen ==
  ASSUME Shape, AccountInv, EmailsApart, IdsUsed, [Next]_vars
  PROVE  Registry!RegistryNext \/ UNCHANGED Registry!registryVars
<1>1. AccountsWhole'
  BY WholeStep
<1>2. ASSUME NEW t \in Requests, Commit(t)
      PROVE  Registry!RegistryNext \/ UNCHANGED Registry!registryVars
  BY <1>1, <1>2, RegistrationSeen, LoginSeen, LogoutSeen DEF Requests
<1>3. CASE db' = db /\ revoked' = revoked
  BY <1>3 DEF Registry!registryVars, AccountsSeen, OrganizationsSeen, SessionsSeen,
     TrailSeen, Users, Orgs, Sessions, Matters, HasMatter, Member
<1> QED
  BY <1>2, <1>3, OnlyCommitsSeen

\* Registrations, logins and logouts, whatever overlaps, fails or is rolled
\* back, do what they promise in one step: their commit, on an email that is
\* still free and an organization or a user that is still there.
THEOREM RegistryImplemented == Spec => ImplementsRegistry
<1> DEFINE I == Shape /\ AccountInv /\ EmailsApart /\ IdsUsed
<1>1. Init => Registry!RegistryInit
  BY DEF Init, Registry!RegistryInit, AccountsSeen, OrganizationsSeen, SessionsSeen,
     TrailSeen, Users, Orgs, Sessions, Of
<1>2. Init => I
  BY InitShape, InitAccounts, InitEmails DEF Init, IdsUsed
<1>3. I /\ [Next]_vars => I'
  BY StepKeepsShape, StepKeepsAccounts, StepKeepsEmails, IdsStep
<1>4. I /\ [Next]_vars => [Registry!RegistryNext]_(Registry!registryVars)
  BY StepSeen
<1> HIDE DEF I
<1> QED
  BY <1>1, <1>2, <1>3, <1>4, PTL DEF Spec, ImplementsRegistry, Registry!RegistrySpec
=============================================================================
