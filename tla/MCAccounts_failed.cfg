CONSTANTS
  Registrations = {r1}
  Logins = {l1}
  Logouts = {}
  Visits = {}
  Emails = {e1}
  Numbers <- Drawn
  OrgNames = {o1}
  Workspace = o1
  NoName = NoName
  MaxExpired = 2
  MaxDisabled = 1
  NoArgs = NoArgs
SPECIFICATION Spec
INVARIANT FailuresAudited
