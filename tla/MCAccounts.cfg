CONSTANTS
  Registrations = {r1, r2}
  Logins = {}
  Logouts = {x1, x2}
  Visits = {}
  Emails = {e1, e2}
  Numbers <- Drawn
  OrgNames = {o1, o2}
  Workspace = o2
  NoName = NoName
  MaxExpired = 0
  MaxDisabled = 0
  NoArgs = NoArgs
SPECIFICATION FairSpec
INVARIANTS
  OnlyTakenRefused
  OrganizationsReused
PROPERTIES
  ImplementsRegistry
  Answered
