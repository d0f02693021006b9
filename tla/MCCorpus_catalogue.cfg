CONSTANTS
  Indexers = {i1, i2}
  Searchers = {}
  Readers = {r1}
  id1 = id1
  id2 = id2
  number1 = number1
  nobody = nobody
  m1 = m1
  m2 = m2
  a = a
  b = b
  Handles <- MCHandles2
  Matters = {m1}
  MatterOf <- MCMatterOf2
  IdOf <- MCIdOf1
  NumberOf <- MCNumberOf1
  NoMatter = NoMatter
  Sources = {s1, s2}
  Texts = {a, b}
  MaxChunks = 2
  Documents <- MCPairs
  PageSize = 8
  MaxUploads = 0
  Limit = 1
  NoRequest = NoRequest
  MaxWords = 1
SPECIFICATION OnceSpec
PROPERTY ImplementsCatalogue
