------------------------------ MODULE Registry ------------------------------
(***************************************************************************)
(* What registration, login and logout promise, with every request one     *)
(* step: an account appears whole, with its organization, its session and  *)
(* its event, or not at all; a login opens a session of an account, with   *)
(* its event; a logout revokes a session for good.  Accounts models the    *)
(* requests as transactions of several statements, and is shown to         *)
(* implement this module.                                                  *)
(***************************************************************************)
CONSTANTS Ids, Emails, OrgNames

VARIABLES
  accounts,       \* users with their starter matter: [id, email, org]
  organizations,  \* [id, name]; several may have one name
  sessions,       \* [id, user]
  revoked,        \* ids of sessions
  trail           \* audit events: [id, event, user]

registryVars == <<accounts, organizations, sessions, revoked, trail>>

RegistryInit ==
  /\ accounts = {} /\ organizations = {}
  /\ sessions = {} /\ revoked = {} /\ trail = {}

Fresh(id) == \A r \in accounts \union organizations \union sessions \union trail : r.id # id

Opens(id, user, event) ==
  /\ sessions' = sessions \union {[id |-> id, user |-> user]}
  /\ trail' = trail \union {[id |-> id, event |-> event, user |-> user]}
  /\ UNCHANGED revoked

\* An account of an email that has none, in an organization of its own or in
\* one that is there.
Register(id, email, org, name) ==
  /\ Fresh(id)
  /\ \A a \in accounts : a.email # email
  /\ accounts' = accounts \union {[id |-> id, email |-> email, org |-> org]}
  /\ \/ /\ org = id
        /\ organizations' = organizations \union {[id |-> org, name |-> name]}
     \/ /\ [id |-> org, name |-> name] \in organizations
        /\ UNCHANGED organizations
  /\ Opens(id, id, "auth.registered")

Login(id, a) ==
  /\ Fresh(id)
  /\ Opens(id, a.id, "auth.login_success")
  /\ UNCHANGED <<accounts, organizations>>

Logout(s) ==
  /\ revoked' = revoked \union {s.id}
  /\ UNCHANGED <<accounts, organizations, sessions, trail>>

RegistryNext ==
  \/ \E id, org \in Ids, email \in Emails, name \in OrgNames : Register(id, email, org, name)
  \/ \E id \in Ids, a \in accounts : Login(id, a)
  \/ \E s \in sessions : Logout(s)

RegistrySpec == RegistryInit /\ [][RegistryNext]_registryVars
=============================================================================
