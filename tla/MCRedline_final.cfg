SPECIFICATION Spec
CONSTANTS
  j1 = j1
  j2 = j2
  c1 = c1
  c2 = c2
  c3 = c3
  owner = owner
  editor = editor
  viewer = viewer
  outsider = outsider
  Jobs = {j1}
  Changes = {c1}
  JobOf <- OneJob
  Requests = {r1, r2, r3, r4}
  Users = {owner, viewer}
  Role <- MatterRole
  ProposalSizes = {1}
  NoChange = NoChange
  NoToken = NoToken
  Nobody = Nobody
  Free = Free
  NoTxn = NoTxn
SYMMETRY RequestSymmetry
PROPERTIES
  EveryDecisionFinal
