SPECIFICATION CrashSpec
CONSTANTS
  Ctx <- TwoByOne
  Rank = {0}
  Creator <- MCCreator
  NoSession = NoSession
  instance <- MCInstance
  rank <- MCRank
  MaxSeq <- Seq11
  Env = {"crash", "slow"}
  Faulty <- All
PROPERTIES LeaveReturns
CHECK_DEADLOCK FALSE
