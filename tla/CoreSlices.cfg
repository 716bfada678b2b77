SPECIFICATION FairSpec
CONSTANTS
  MaxVnpu = 2
  Proc <- TwoVnpus
  vnpu <- MCvnpu
  Policy = "elastic"
  MaxQuota = 1
  MaxDebt = 1
  NoProc = NoProc
  OwnerDead = OwnerDead
  Env = {"crash", "stall", "nodevice"}
  Faulty <- OnlyOne
  Tuned = {0}
  Prefilling = {1}
INVARIANTS TypeOK CalmInv SlicesExclusive
PROPERTIES OnlyOwnerSchedules InitReturns EveryoneServed
CHECK_DEADLOCK FALSE
