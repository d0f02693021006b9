CONSTANTS
  Indexers = {i1}
  Searchers = {q1}
  Readers = {r1}
  id1 = id1
  id2 = id2
  number1 = number1
  nobody = nobody
  m1 = m1
  m2 = m2
  a = a
  b = b
  Handles <- MCHandles1
  Matters = {m1}
  MatterOf <- MCMatterOf1
  IdOf <- MCIdOf1
  NumberOf <- MCNumberOf1
  NoMatter = NoMatter
  Sources = {s1}
  Texts = {a}
  MaxChunks = 2
  Documents <- MCOne
  PageSize = 1
  MaxUploads = 1
  Limit = 1
  NoRequest = NoRequest
  MaxWords = 1
SPECIFICATION FairSpec
PROPERTY Answered
