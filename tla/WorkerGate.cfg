SPECIFICATION Spec
CONSTANTS
  Engine = {"raise", "interrupt", "early", "fail", "close", "trace"}
INVARIANTS WorksInsideRound RoundRemembered ContextNotReleased CallsAlternate
  GateInv
CHECK_DEADLOCK FALSE
