SPECIFICATION StartedSpec
CONSTANTS
  Ctx <- RestartB
  Rank = {0}
  Creator <- MCCreator
  NoSession = NoSession
  instance <- MCInstance
  rank <- MCRank
  MaxSeq <- Seq11
  Env = {"crash", "stall"}
  Faulty <- All
INVARIANTS RoundsNeverOverlap GrantConsumedOnce
VIEW View
CHECK_DEADLOCK FALSE
