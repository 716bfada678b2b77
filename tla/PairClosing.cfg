SPECIFICATION StartedSpec
CONSTANTS
  Ctx <- RestartB
  Rank = {0}
  Creator <- MCCreator
  NoSession = NoSession
  instance <- MCInstance
  rank <- MCRank
  MaxSeq <- Seq11
  Env = {"rude", "abort", "misuse"}
  Faulty <- OnlyB
INVARIANTS IInv
PROPERTIES RoundsSpec
VIEW View
CHECK_DEADLOCK FALSE
