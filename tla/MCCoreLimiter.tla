---------------------------- MODULE MCCoreLimiter ----------------------------
(***************************************************************************)
(* Instances of CoreLimiter for TLC.  A process <<v, n>> belongs to vNPU v. *)
(***************************************************************************)
EXTENDS CoreLimiter

MCvnpu == [p \in Proc |-> p[1]]

TwoVnpus == {<<0, 1>>, <<1, 1>>}

\* The process that fails.
OnlyOne == {<<1, 1>>}

FairSpec == Spec /\ Fairness
=============================================================================
