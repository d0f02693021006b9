SPECIFICATION MCSpec
SYMMETRY RecordSymmetry
CONSTANTS
  Txns = {t1, t2, t3}
  RowIds = {1, 2, 3, 4, 5}
  Legacy = {3}
  MaxRows = 2
  NoHash = NoHash
  NoLink = NoLink
  s1 = s1
  s2 = s2
  Sources = {s1, s2}
  RiskWords = {"liability"}
  DutyWords = {"must"}
  ActionWords = {"deadline"}
  Tasks = {1, 2, 3, 4}
  Hits <- MCHits
  Answers <- MCAnswers
  SpokenWords = {"liability"}
  TranscriptSize = 2
  QuoteSize <- MCQuotes
  Budgets <- MCBudgets
  Capacity = 4
  NoBudget = NoBudget
  NoAnalysis = NoAnalysis
  NoPrompt = NoPrompt
  MaxFaults = 1
  p1 = p1
  p2 = p2
  Users = {u1, u2}
  Names = {n1, n2}
  Passages = {p1, p2}
  Formats = {"pdf", "html"}
  Commands = {c1, c2}
  Texts <- MCTexts
  Contexts <- MCContexts
  Drafts <- MCDrafts
  MaxSections = 2
  Nothing = Nothing
  MaxOpen = 2
  MaxCommands = 5
INVARIANTS
  TypeOK
  LinksLeadToRows
  VerifiesUnlessForked
  VerifyExact
  TamperEvident
  KeepsLongestPrefix
  StoredIsSupported
  AnalysesAudited
  OutageHidden
  JobTellsTruth
  OwnerRemains
  FilesWhole
PROPERTIES
  DecisionsKept
  HoldFreezes
  SettledStays
  CurrentSavesFollow
