SPECIFICATION StartedSpec
CONSTANTS
  Ctx <- RestartB
  Rank = {0}
  Creator <- MCCreator
  NoSession = NoSession
  instance <- MCInstance
  rank <- MCRank
  MaxSeq <- Seq22
  Env = {"close"}
  Faulty <- All
INVARIANTS IdleCloseIsClean
CHECK_DEADLOCK FALSE
