SPECIFICATION OpenCrashSpec
CONSTANTS
  Ctx <- OneByTwo
  Rank = {0, 1}
  Creator <- MCCreator
  NoSession = NoSession
  instance <- MCInstance
  rank <- MCRank
  MaxSeq <- Seq22
  Env = {"crash", "slow", "nothread", "solo", "abort", "misuse", "close"}
  Faulty <- All
INVARIANTS TypeOK IInv
PROPERTIES RoundsSpec AwaitReturns GrantNotHeld
CHECK_DEADLOCK FALSE
