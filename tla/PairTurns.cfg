SPECIFICATION TurnsSpec
CONSTANTS
  Ctx <- TwoByOne
  Rank = {0}
  Creator <- MCCreator
  NoSession = NoSession
  instance <- MCInstance
  rank <- MCRank
  MaxSeq <- Seq22
  Env = {}
  Faulty <- All
INVARIANTS TurnsInv PassedOverOnce
PROPERTIES EntryServed
CHECK_DEADLOCK FALSE
