SPECIFICATION CrashSpec
CONSTANTS
  Ctx <- OneByTwo
  Rank = {0, 1}
  Creator <- MCCreator
  NoSession = NoSession
  instance <- MCInstance
  rank <- MCRank
  MaxSeq <- Seq22
  Env = {"crash", "slow"}
  Faulty <- All
PROPERTIES EnterReturns
CHECK_DEADLOCK FALSE
