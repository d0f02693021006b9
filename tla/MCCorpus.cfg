CONSTANTS
  Indexers = {i1, i2}
  Searchers = {}
  Readers = {r1}
  id1 = id1
  id2 = id2
  number1 = number1
  nobody = nobody
  m1 = m1
  m2 = m2
  a = a
  b = b
  Handles <- MCAllHandles
  Matters = {m1, m2}
  MatterOf <- MCMatterOf
  IdOf <- MCIdOf
  NumberOf <- MCNumberOf
  NoMatter = NoMatter
  Sources = {s1}
  Texts = {a, b}
  MaxChunks = 2
  Documents <- MCPairs
  PageSize = 1
  MaxUploads = 1
  Limit = 1
  NoRequest = NoRequest
  MaxWords = 6
SYMMETRY Symmetry
SPECIFICATION Spec
INVARIANTS
  TypeOK
  StoredUnlessTaken
  SetupSettled
  OwnText
  ReadsBack
  SplitExact
