-------------------------- MODULE MCPairGeneration --------------------------
(***************************************************************************)
(* Small instances of PairGeneration.                                      *)
(***************************************************************************)
EXTENDS PairGeneration

CONSTANTS p1, p2, p3, a1

ThreePrimaries == {p1, p2, p3}
OneAttacher == {a1}
=============================================================================
