CONSTANTS
  Registrations = {r1}
  Logins = {l1}
  Logouts = {x1, x2}
  Visits = {v1}
  Emails = {e1}
  Numbers <- Drawn
  OrgNames = {o1}
  Workspace = o1
  NoName = NoName
  MaxExpired = 1
  MaxDisabled = 1
  NoArgs = NoArgs
SYMMETRY Symmetry
SPECIFICATION Spec
INVARIANT LogoutTakesEffect
PROPERTY ImplementsRegistry
