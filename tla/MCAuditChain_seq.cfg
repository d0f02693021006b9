SPECIFICATION SightedSpec
CONSTANTS
  Txns = {t1, t2}
  RowIds = {1, 2, 3}
  Legacy = {}
  MaxRows = 1
  NoHash = NoHash
  NoLink = NoLink
INVARIANTS
  SeqUnique
