----------------------------- MODULE MatterRules ----------------------------
(* Organizations and matters, and who may do what with them:                 *)
(* domain/organization, domain/matter and application/authorization.py.      *)
EXTENDS Naturals, FiniteSets

CONSTANTS
  Users,
  Names   \* names of matters and of organizations

ASSUME UsersAssumption == IsFiniteSet(Users)

MatterStatus == {"active", "on_hold", "closed", "archived"}
MatterMemberRole == {"owner", "editor", "viewer"}
OrganizationStatus == {"active", "suspended", "archived"}

\* `insider`: the actor is of the organization.
Actors == [user : Users, admin : BOOLEAN, insider : BOOLEAN]

Matters ==
  [status : MatterStatus, hold : BOOLEAN, name : Names,
   roles : [Users -> MatterMemberRole \union {"none"}]]
Organizations == [status : OrganizationStatus, name : Names]

NewOrganization(name) == [status |-> "active", name |-> name]

\* The creator is the first owner.
NewMatter(name, user) ==
  [status |-> "active", hold |-> FALSE, name |-> name,
   roles |-> [u \in Users |-> IF u = user THEN "owner" ELSE "none"]]

-----------------------------------------------------------------------------
(* Authorization *)

RoleAllows(role, action) ==
  \/ role = "owner"
  \/ role = "editor" /\ action \in {"read", "edit"}
  \/ role = "viewer" /\ action = "read"

\* require_matter_access, on the matter as it was loaded.
MayAct(actor, matter, action) ==
  actor.admin \/ RoleAllows(matter.roles[actor.user], action)

\* require_organization_access.
MayUse(actor) == actor.admin \/ actor.insider

-----------------------------------------------------------------------------
(* Matters *)

\* Fault: a legal hold stops nothing.
ModifiableUnlessClosed(m) == m.status \notin {"closed", "archived"}

\* ensure_matter_is_modifiable
Modifiable(m) == m.status \notin {"closed", "archived"} /\ ~m.hold

\* What a legal hold freezes.
Structure(m) == [name |-> m.name, roles |-> m.roles]

Owners(m) == {u \in Users : m.roles[u] = "owner"}
Member(m, user) == m.roles[user] # "none"

\* Fault: the owner who goes is counted as one who remains.
SomeOwner(m, user) == m.roles[user] = "owner" => Cardinality(Owners(m)) > 0

\* ensure_owner_remains, for a change that takes the role from user.
OwnerStays(m, user) == m.roles[user] = "owner" => Cardinality(Owners(m)) > 1

WithRole(m, user, role) == [m EXCEPT !.roles[user] = role]

\* add_member, change_member_role and remove_member: what each may make of m.
Joined(m) ==
  {WithRole(m, u, r) : u \in {v \in Users : ~Member(m, v)}, r \in MatterMemberRole}
Reassigned(m) ==
  {WithRole(m, u, "owner") : u \in {v \in Users : Member(m, v)}}
    \union {WithRole(m, u, r) : u \in {v \in Users : Member(m, v) /\ OwnerStays(m, v)},
                                r \in MatterMemberRole}
Removed(m) ==
  {WithRole(m, u, "none") : u \in {v \in Users : Member(m, v) /\ OwnerStays(m, v)}}
=============================================================================
