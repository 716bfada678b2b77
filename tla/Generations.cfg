SPECIFICATION FairSpec
CONSTANTS
  p1 = p1
  p2 = p2
  p3 = p3
  a1 = a1
  NoEpoch = NoEpoch
  Primary <- ThreePrimaries
  Attacher <- OneAttacher
  Env = {"crash", "error", "fail", "timeout"}
INVARIANTS GenerationInv CurrentHasFile PrimaryAlone NothingLeft
PROPERTIES AttachesToTheLiveOne EventuallyAttached
CHECK_DEADLOCK FALSE
