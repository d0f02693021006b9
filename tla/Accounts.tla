------------------------------- MODULE Accounts -------------------------------
(***************************************************************************)
(* Registration, login, logout and session-cookie authentication (auth.py, *)
(* dependencies/auth.py): each request is one transaction of several       *)
(* statements over the tables users, organizations, matters,               *)
(* matter_members, sessions and audit_events.  A statement sees what is    *)
(* committed (READ COMMITTED); the unique indexes on users.email and       *)
(* matters.matter_number and the row locks make a statement wait for a     *)
(* transaction that has not ended.                                         *)
(*                                                                         *)
(* Rows that a request creates are named after it.  Passwords, tokens and  *)
(* response bodies are abstracted; access and refresh tokens are checked   *)
(* without any state, so requests that carry them are left out.            *)
(***************************************************************************)
EXTENDS Naturals, FiniteSets

CONSTANTS
  Registrations,  \* POST /auth/register
  Logins,         \* POST /auth/login
  Logouts,        \* POST /auth/logout with a session credential
  Visits,         \* any other request with a session credential
  Emails,         \* email addresses, stripped
  Numbers,        \* Numbers[t]: what the number of the matter of t may be
  OrgNames,       \* names of organizations
  Workspace,      \* the one an organization gets that is given none
  NoName,         \* a registration gives no name
  MaxExpired,     \* how many sessions may expire
  MaxDisabled,    \* how many users may be disabled
  NoArgs          \* the arguments of a request that has not arrived

ASSUME KindsAssumption ==
  /\ Registrations \intersect (Logins \union Logouts \union Visits) = {}
  /\ Logins \intersect (Logouts \union Visits) = {}
  /\ Logouts \intersect Visits = {}
ASSUME BoundsAssumption == MaxExpired \in Nat /\ MaxDisabled \in Nat
ASSUME NamesAssumption == NoName \notin OrgNames /\ Workspace \in OrgNames

Requests == Registrations \union Logins \union Logouts \union Visits

VARIABLES
  db,        \* the committed rows
  revoked,   \* sessions with a committed revoked flag
  expired,   \* sessions past their expires_at
  disabled,  \* users that are inactive or deleted
  rows,      \* rows[t]: the rows t has flushed
  revoking,  \* revoking[t]: the sessions t has set the flag of
  args,      \* args[t]: what t was sent with
  found,     \* found[t]: the row t works with: organization, user or session
  phase,     \* phase[t]: the statement t executes next
  outcome    \* outcome[t]: how t was answered

\* History variable: no code reads or writes it.
VARIABLE
  ended      \* ended[t]: the requests answered when t arrived

tables == <<db, revoked, expired, disabled>>
flushed == <<rows, revoking>>
vars == <<tables, flushed, args, found, phase, outcome, ended>>

-----------------------------------------------------------------------------
(* Rows *)

Organization(t) ==
  [table |-> "organizations", id |-> t,
   name |-> IF args[t].org = NoName THEN Workspace ELSE args[t].org]
User(t, org) == [table |-> "users", id |-> t, email |-> args[t].email, org |-> org]
\* Its number is the beginning of the user's id, which others may share.
Matter(t, org) == [table |-> "matters", id |-> t, org |-> org, number |-> args[t].number]
Member(t) == [table |-> "matter_members", id |-> t, user |-> t]
Session(t, user) == [table |-> "sessions", id |-> t, user |-> user]
AuditEvent(t, event, user) ==
  [table |-> "audit_events", id |-> t, event |-> event, user |-> user]

\* The rows of a table, among some.
Of(table, among) == {e \in among : e.table = table}
Users == Of("users", db)
Orgs == Of("organizations", db)
Matters == Of("matters", db)
Sessions == Of("sessions", db)

\* A user's starter matter is in its organization.
HasMatter(u) == \E m \in Matters : m.id = u.id /\ m.org = u.org

\* The organization of a new account: the one found, or its own.
OrgOf(t) == IF found[t] = {} THEN t ELSE CHOOSE o \in found[t] : TRUE

\* What register adds before its flush; the organization unless one was found.
Account(t) ==
  {User(t, OrgOf(t)), Matter(t, OrgOf(t)), Member(t)}
    \union (IF found[t] = {} THEN {Organization(t)} ELSE {})

\* Faults: the organization is not looked up; nor is the flag.
NamedNever(name) == {}
OpenUnlessExpired(s) == (\E e \in Sessions : e.id = s) /\ s \notin expired

\* The organizations a registration may be added to: those of its name.
Named(name) == {e.id : e \in {o \in Orgs : o.name = name}}

\* _verify_session_row.
SessionOpen(s) ==
  /\ \E e \in Sessions : e.id = s
  /\ s \notin revoked
  /\ s \notin expired

\* Transactions with a row for an email, with one for a matter number, and
\* those that lock a session row.
HoldEmail(email) == {t \in Registrations : \E e \in Of("users", rows[t]) : e.email = email}
HoldNumber(number) ==
  {t \in Registrations : \E m \in Of("matters", rows[t]) : m.number = number}
HoldSession(s) == {t \in Requests : s \in revoking[t]}

EmailTaken(email) == \E e \in Users : e.email = email
NumberTaken(number) == \E m \in Matters : m.number = number

\* Faults: users.email has no unique index; its check does not wait for the
\* transaction that holds the key.
IndexAbsent(t) == "free"
IndexHasty(t) ==
  IF EmailTaken(args[t].email) \/ HoldEmail(args[t].email) # {} THEN "taken" ELSE "free"

\* The unique index on users.email, for an INSERT of t.
EmailIndex(t) ==
  IF EmailTaken(args[t].email) THEN "taken"
  ELSE IF HoldEmail(args[t].email) # {} THEN "wait" ELSE "free"

\* The one on matters.matter_number.
NumberIndex(t) ==
  IF NumberTaken(args[t].number) THEN "taken"
  ELSE IF HoldNumber(args[t].number) # {} THEN "wait" ELSE "free"

-----------------------------------------------------------------------------
(* The end of a transaction *)

Answer(t, how) ==
  /\ phase' = [phase EXCEPT ![t] = "ended"]
  /\ outcome' = [outcome EXCEPT ![t] = how]

\* Fault: the session is not rolled back.
RollbackNothing(t) == UNCHANGED flushed

\* get_db: an exception undoes everything.
Undo(t) ==
  /\ rows' = [rows EXCEPT ![t] = {}]
  /\ revoking' = [revoking EXCEPT ![t] = {}]

Raise(t, how) ==
  /\ Undo(t)
  /\ Answer(t, how)
  /\ UNCHANGED <<tables, args, found, ended>>

\* What a commit flushes before it ends: the session row of a new login.
Opened(t) ==
  IF t \in Registrations THEN {Session(t, t)}
  ELSE IF t \in Logins THEN {Session(t, u) : u \in found[t]} ELSE {}

Commit(t) ==
  /\ phase[t] = "commit"
  /\ db' = db \union rows[t] \union Opened(t)
  /\ revoked' = revoked \union revoking[t]
  /\ Undo(t)
  /\ Answer(t, "ok")
  /\ UNCHANGED <<expired, disabled, args, found, ended>>

\* A lost connection, a circular wait that PostgreSQL breaks or a crash, before
\* the commit is done.
Fail(t) ==
  /\ phase[t] \notin {"idle", "ended"}
  /\ Raise(t, "500")

Goto(t, p) ==
  /\ phase' = [phase EXCEPT ![t] = p]
  /\ UNCHANGED <<outcome, args, ended, tables>>

-----------------------------------------------------------------------------
(* Requests *)

Init ==
  /\ db = {}
  /\ revoked = {} /\ expired = {} /\ disabled = {}
  /\ rows = [t \in Requests |-> {}]
  /\ revoking = [t \in Requests |-> {}]
  /\ args = [t \in Requests |-> NoArgs]
  /\ found = [t \in Requests |-> {}]
  /\ phase = [t \in Requests |-> "idle"]
  /\ outcome = [t \in Requests |-> "none"]
  /\ ended = [t \in Requests |-> {}]

\* What a request may be sent with, and the number that a registration is to
\* draw with the id of its user; a session credential is one that a
\* committed request was answered with.
Arguments(t) ==
  IF t \in Registrations
  THEN [email : Emails, org : OrgNames \union {NoName}, number : Numbers[t]]
  ELSE IF t \in Logins THEN [email : Emails, right : BOOLEAN]
  ELSE [session : {e.id : e \in Sessions}]

First(t) ==
  IF t \in Registrations THEN "email" ELSE IF t \in Logins THEN "user" ELSE "session"

Arrive(t) ==
  /\ phase[t] = "idle"
  /\ \E a \in Arguments(t) : args' = [args EXCEPT ![t] = a]
  /\ phase' = [phase EXCEPT ![t] = First(t)]
  /\ ended' = [ended EXCEPT ![t] = {u \in Requests : phase[u] = "ended"}]
  /\ UNCHANGED <<tables, flushed, found, outcome>>

\* register: the SELECT by email.
CheckEmail(t) ==
  /\ phase[t] = "email"
  /\ \/ EmailTaken(args[t].email) /\ Raise(t, "409")
     \/ ~EmailTaken(args[t].email) /\ Goto(t, "org") /\ UNCHANGED <<flushed, found>>

\* The SELECT by name: the first of the rows, in no order.
FindOrg(t) ==
  /\ phase[t] = "org"
  /\ \E one \in {{o} : o \in Named(args[t].org)} \union
                  (IF Named(args[t].org) = {} THEN {{}} ELSE {}) :
       found' = [found EXCEPT ![t] = one]
  /\ Goto(t, "flush")
  /\ UNCHANGED flushed

\* The flush of the new account, which waits for the unique indexes; an
\* IntegrityError of either is the same 409.  The user and the matter are
\* inserted in either order, and one may be in while the other waits: that
\* makes others wait, and commits and answers nothing, so it is left out.
FlushAccount(t) ==
  /\ phase[t] = "flush"
  /\ \/ (EmailIndex(t) = "taken" \/ NumberIndex(t) = "taken") /\ Raise(t, "409")
     \/ /\ EmailIndex(t) = "free" /\ NumberIndex(t) = "free"
        /\ rows' = [rows EXCEPT ![t] = Account(t)]
        /\ Goto(t, "audit")
        /\ UNCHANGED <<revoking, found>>

\* login: the SELECT by email, and the verdict on the password.  An unknown
\* email has no organization to audit for.
FindUser(t) ==
  /\ phase[t] = "user"
  /\ \/ ~EmailTaken(args[t].email) /\ Raise(t, "401")
     \/ \E e \in Users :
          /\ e.email = args[t].email
          /\ found' = [found EXCEPT ![t] = {e.id}]
          /\ Goto(t, IF args[t].right /\ e.id \notin disabled THEN "audit" ELSE "failed")
          /\ UNCHANGED flushed

\* Fault: a login leaves no audit event.
EventUnlessLogin(t) ==
  IF t \in Registrations THEN {AuditEvent(t, "auth.registered", t)} ELSE {}

\* The event of a registration or of a successful login.
Event(t) ==
  IF t \in Registrations THEN {AuditEvent(t, "auth.registered", t)}
  ELSE {AuditEvent(t, "auth.login_success", u) : u \in found[t]}

Audit(t) ==
  /\ phase[t] = "audit"
  /\ rows' = [rows EXCEPT ![t] = @ \union Event(t)]
  /\ Goto(t, "commit")
  /\ UNCHANGED <<revoking, found>>

\* The event of a failed login, before its exception is raised.
AuditFailure(t) ==
  /\ phase[t] = "failed"
  /\ rows' = [rows EXCEPT ![t] =
                @ \union {AuditEvent(t, "auth.login_failed", u) : u \in found[t]}]
  /\ Goto(t, "refuse")
  /\ UNCHANGED <<revoking, found>>

RefuseLogin(t) ==
  /\ phase[t] = "refuse"
  /\ Raise(t, "401")

\* _authenticate: the session row is read, and kept in the request's session.
Authenticate(t) ==
  /\ phase[t] = "session"
  /\ \/ ~SessionOpen(args[t].session) /\ Raise(t, "401")
     \/ /\ SessionOpen(args[t].session)
        /\ found' = [found EXCEPT ![t] = {args[t].session}]
        /\ Goto(t, IF t \in Logouts THEN "revoke" ELSE "commit")
        /\ UNCHANGED flushed

\* logout: the row is the one read by the authentication, so its flag is down;
\* the UPDATE waits for the row lock.
Revoke(t) ==
  /\ phase[t] = "revoke"
  /\ HoldSession(args[t].session) = {}
  /\ revoking' = [revoking EXCEPT ![t] = {args[t].session}]
  /\ Goto(t, "commit")
  /\ UNCHANGED <<rows, found>>

\* The clock, and the administrator's hand.
Expire ==
  /\ Cardinality(expired) < MaxExpired
  /\ \E e \in Sessions : expired' = expired \union {e.id}
  /\ UNCHANGED <<db, revoked, disabled, flushed, args, found, phase, outcome, ended>>

Disable ==
  /\ Cardinality(disabled) < MaxDisabled
  /\ \E e \in Users : disabled' = disabled \union {e.id}
  /\ UNCHANGED <<db, revoked, expired, flushed, args, found, phase, outcome, ended>>

Step(t) ==
  \/ CheckEmail(t)
  \/ FindOrg(t)
  \/ FlushAccount(t)
  \/ FindUser(t)
  \/ Audit(t)
  \/ AuditFailure(t)
  \/ RefuseLogin(t)
  \/ Authenticate(t)
  \/ Revoke(t)
  \/ Commit(t)

Next ==
  \/ \E t \in Requests : Arrive(t) \/ Step(t) \/ Fail(t)
  \/ Expire
  \/ Disable
  \/ (\A t \in Requests : phase[t] # "idle" => phase[t] = "ended") /\ UNCHANGED vars

Spec == Init /\ [][Next]_vars

\* A request that has arrived executes its statements; none is sent for sure.
FairSpec == Spec /\ \A t \in Requests : WF_vars(Step(t))

-----------------------------------------------------------------------------
(* Properties *)

Rows ==
  [table : {"organizations"}, id : Registrations, name : OrgNames]
    \union [table : {"users"}, id : Registrations, email : Emails, org : Registrations]
    \union [table : {"matters"}, id : Registrations, org : Registrations,
            number : UNION {Numbers[t] : t \in Registrations}]
    \union [table : {"matter_members"}, id : Registrations, user : Registrations]
    \union [table : {"sessions"}, id : Registrations \union Logins, user : Registrations]
    \union [table : {"audit_events"}, id : Registrations \union Logins,
            event : {"auth.registered", "auth.login_success", "auth.login_failed"},
            user : Registrations]

TypeOK ==
  /\ db \subseteq Rows
  /\ revoked \subseteq {e.id : e \in Sessions}
  /\ expired \subseteq {e.id : e \in Sessions}
  /\ disabled \subseteq {e.id : e \in Users}
  /\ rows \in [Requests -> SUBSET Rows]
  /\ revoking \in [Requests -> SUBSET (Registrations \union Logins)]
  /\ found \in [Requests -> SUBSET (Registrations \union Logins)]
  /\ phase \in [Requests -> {"idle", "email", "org", "flush", "user", "audit", "failed",
                             "refuse", "session", "revoke", "commit", "ended"}]
  /\ outcome \in [Requests -> {"none", "ok", "401", "409", "500"}]
  /\ ended \in [Requests -> SUBSET Requests]

\* Whatever is refused, lost or raced, the accounts are whole: a user has an
\* organization, a starter matter in it with a membership, and the event of
\* its registration; no organization is left behind by a registration that
\* failed ("no partial state survives").
AccountsWhole ==
  /\ \A u \in Users :
       /\ \E o \in Orgs : o.id = u.org
       /\ HasMatter(u)
       /\ Member(u.id) \in db
       /\ AuditEvent(u.id, "auth.registered", u.id) \in db
  /\ \A o \in Orgs : \E u \in Users : u.org = o.id

\* Overlapping registrations never make two accounts of one email.
OneAccountPerEmail == \A u, v \in Users : u.email = v.email => u = v

\* Why: the emails of rows that are not committed yet are of no other row.
EmailsApart ==
  /\ \A t \in Requests : phase[t] \in {"email", "org", "flush"} => t \in Registrations
  /\ \A t \in Requests : \A e \in Of("users", rows[t]) :
       /\ t \in Registrations
       /\ ~EmailTaken(e.email)
       /\ \A u \in Requests : \A f \in Of("users", rows[u]) :
            e.email = f.email => t = u /\ e = f
  /\ OneAccountPerEmail

\* A registration that loses a race loses it to one that is committed, never to
\* one that fails: the 409 is answered only if its email has an account or, as
\* register's comment says ("or collision on the generated matter_number"), its
\* number a matter.  Then the answer blames the email all the same.
OnlyTakenRefused ==
  \A t \in Registrations : outcome[t] = "409" =>
    EmailTaken(args[t].email) \/ NumberTaken(args[t].number)

\* A session is opened for its user by a registration or a login that is on
\* the audit trail.
SessionsAudited ==
  \A s \in Sessions : \E e \in Of("audit_events", db) :
    e.id = s.id /\ e.user = s.user /\ e.event # "auth.login_failed"

\* Once a logout is answered, no request that arrives later is let in with its
\* session ("logout/revocation take effect immediately"), although the flag
\* was checked on a row read before other logouts set it.
LogoutTakesEffect ==
  \A v \in Visits \union Logouts : \A l \in Logouts \intersect ended[v] :
    outcome[l] = "ok" /\ args[l].session = args[v].session => outcome[v] # "ok"

\* Why: a logout that is answered has committed its flag, and a request that
\* passed the check had arrived before.
LogoutInv ==
  /\ \A t \in Requests : outcome[t] # "none" <=> phase[t] = "ended"
  /\ \A t \in Requests : phase[t] = "idle" => ended[t] = {}
  /\ \A v \in Visits \union Logouts :
       phase[v] \in {"idle", "session", "revoke", "commit", "ended"}
  /\ \A l \in Logouts :
       /\ phase[l] = "commit" => revoking[l] = {args[l].session}
       /\ outcome[l] = "ok" => args[l].session \in revoked
  /\ \A v \in Visits \union Logouts : \A l \in Logouts \intersect ended[v] :
       /\ phase[l] = "ended"
       /\ outcome[l] = "ok" /\ args[l].session = args[v].session =>
            phase[v] \notin {"revoke", "commit"} /\ outcome[v] # "ok"

\* A registration joins the organization it names if that was there when the
\* registration arrived: only overlapping ones can make two of one name.
OrganizationsReused ==
  \A t \in Registrations : \A u \in Registrations \intersect ended[t] :
    outcome[t] = "ok" /\ outcome[u] = "ok" /\ args[u].org = args[t].org
    /\ args[t].org # NoName => ~ \E o \in Orgs : o.id = t

\* What a registration has read and flushed when it executes a statement.
RegistrationInv(t) ==
  /\ phase[t] \in {"idle", "email", "org", "flush", "audit", "commit", "ended"}
  /\ phase[t] # "idle" =>
       args[t] \in [email : Emails, org : OrgNames \union {NoName}, number : Numbers[t]]
  /\ found[t] # {} =>
       /\ phase[t] # "idle"
       /\ \E o \in Orgs : found[t] = {o.id} /\ o.name = args[t].org
  /\ rows[t] = IF phase[t] = "audit" THEN Account(t)
               ELSE IF phase[t] = "commit" THEN Account(t) \union Event(t) ELSE {}

\* The same of a login; it goes on for a committed user only.
LoginInv(t) ==
  /\ phase[t] \in {"idle", "user", "audit", "failed", "refuse", "commit", "ended"}
  /\ phase[t] # "idle" => args[t] \in [email : Emails, right : BOOLEAN]
  /\ found[t] # {} => phase[t] # "idle" /\ \E u \in Users : found[t] = {u.id}
  /\ phase[t] \in {"audit", "failed", "refuse", "commit"} => found[t] # {}
  /\ rows[t] = IF phase[t] = "commit" THEN Event(t)
               ELSE IF phase[t] = "refuse"
                    THEN {AuditEvent(t, "auth.login_failed", u) : u \in found[t]}
                    ELSE {}

\* The same of a request with a session credential, which writes no rows.
SessionInv(t) ==
  /\ phase[t] \in {"idle", "session", "revoke", "commit", "ended"}
  /\ phase[t] = "revoke" => t \in Logouts
  /\ phase[t] # "idle" => \E s \in Sessions : args[t] = [session |-> s.id]
  /\ found[t] # {} => found[t] = {args[t].session} /\ phase[t] # "idle"
  /\ rows[t] = {}

\* Flags are set of committed sessions, by requests that sent their credential.
FlagsInv ==
  /\ \A t \in Requests : revoking[t] # {} =>
       t \in Logouts /\ revoking[t] = {args[t].session} /\ phase[t] # "idle"
  /\ revoked \subseteq {e.id : e \in Sessions}
  /\ expired \subseteq {e.id : e \in Sessions}
  /\ disabled \subseteq {e.id : e \in Users}

\* Why the tables are well-formed and accounts whole.
AccountInv ==
  /\ db \subseteq Rows
  /\ \A t \in Registrations : RegistrationInv(t)
  /\ \A t \in Logins : LoginInv(t)
  /\ \A t \in Logouts \union Visits : SessionInv(t)
  /\ FlagsInv
  /\ AccountsWhole
  /\ SessionsAudited

\* Why organizations are reused: an organization is committed by a registration
\* that found none, and one that is answered has committed or found its own.
OrganizationInv ==
  /\ \A t \in Requests : \A u \in ended[t] : u \in Requests /\ phase[u] = "ended"
  /\ \A o \in Orgs : phase[o.id] = "ended" /\ found[o.id] = {}
  /\ \A u \in Registrations : outcome[u] = "ok" /\ args[u].org # NoName =>
       \E o \in Orgs : o.name = args[u].org
  /\ \A t \in Registrations : \A u \in Registrations \intersect ended[t] :
       /\ phase[t] \in {"flush", "audit", "commit"} \/ outcome[t] = "ok"
       /\ outcome[u] = "ok" /\ args[u].org = args[t].org /\ args[t].org # NoName
       => found[t] # {}

\* Every request is answered although registrations and logouts wait for each
\* other's locks.
Answered == \A t \in Requests : phase[t] # "idle" ~> phase[t] = "ended"

-----------------------------------------------------------------------------
(* Refinement *)

\* What is seen of each table.  A user without its starter matter or without a
\* membership in it is no account.
AccountsSeen ==
  {[id |-> u.id, email |-> u.email, org |-> u.org] :
     u \in {v \in Users : HasMatter(v) /\ Member(v.id) \in db}}
OrganizationsSeen == {[id |-> o.id, name |-> o.name] : o \in Orgs}
SessionsSeen == {[id |-> s.id, user |-> s.user] : s \in Sessions}
TrailSeen ==
  {[id |-> e.id, event |-> e.event, user |-> e.user] : e \in Of("audit_events", db)}

Registry == INSTANCE Registry WITH
  Ids <- Requests,
  accounts <- AccountsSeen,
  organizations <- OrganizationsSeen,
  sessions <- SessionsSeen,
  trail <- TrailSeen

\* Whatever overlaps, waits, fails or is rolled back, every transaction is one
\* step of the registry or none, although its statements see what others have
\* committed in between.
ImplementsRegistry == Registry!RegistrySpec

-----------------------------------------------------------------------------
(* What comments say, and the code does not do *)

\* "Success and attributable failures emit auth.login_success /
\* auth.login_failed audit events" (auth.py): a login that is refused for a
\* known account is on the audit trail.
FailuresAudited ==
  \A t \in Logins : outcome[t] = "401" /\ found[t] # {} =>
    \E e \in Of("audit_events", db) : e.id = t /\ e.event = "auth.login_failed"

=============================================================================
