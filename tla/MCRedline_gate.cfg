SPECIFICATION UnracedSpec
CONSTANTS
  j1 = j1
  j2 = j2
  c1 = c1
  c2 = c2
  c3 = c3
  owner = owner
  editor = editor
  viewer = viewer
  outsider = outsider
  Jobs = {j1, j2}
  Changes = {c1, c2, c3}
  JobOf <- TwoJobs
  Requests = {r1, r2, r3, r4}
  Users = {editor}
  Role <- MatterRole
  ProposalSizes = {0, 1, 2}
  NoChange = NoChange
  NoToken = NoToken
  Nobody = Nobody
  Free = Free
  NoTxn = NoTxn
SYMMETRY SplitSymmetry
PROPERTIES
  ImplementsGate
