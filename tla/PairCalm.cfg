SPECIFICATION StartedSpec
CONSTANTS
  Ctx <- TwoByTwo
  Rank = {0, 1}
  Creator <- MCCreator
  NoSession = NoSession
  instance <- MCInstance
  rank <- MCRank
  MaxSeq <- Seq12
  Env = {}
  Faulty <- All
INVARIANTS LockstepInv NoFailure StaysTogether
PROPERTIES RoundsSpec
CHECK_DEADLOCK FALSE
