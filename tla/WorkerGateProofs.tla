-------------------------- MODULE WorkerGateProofs ---------------------------
(***************************************************************************)
(* The worker gate is safe whatever the engine, the closing thread and the *)
(* rest of the pair do, and in whatever order.                             *)
(***************************************************************************)
EXTENDS WorkerGate, TLAPS

\* A new gate has a context, a free lock and no round (open of the gate).
LEMMA GateInit == Init => GateInv
  BY DEF Init, GateInv, TypeOK, LockInv, RoundInv, Working

\* Every step of a wrapper, of a gate method on the RPC thread, of close() and
\* of the rest of the pair keeps the invariant.
LEMMA GateNext == GateInv /\ [Next]_vars => GateInv'
<1> SUFFICES ASSUME GateInv, [Next]_vars PROVE GateInv'
  OBVIOUS
<1> USE DEF GateInv, TypeOK, LockInv, RoundInv, Working, rounds
<1>1. CASE ExecuteModel BY <1>1 DEF ExecuteModel
<1>2. CASE ExecuteEmpty BY <1>2 DEF ExecuteEmpty
<1>3. CASE EmptyReturns BY <1>3 DEF EmptyReturns
<1>4. CASE SampleTokens BY <1>4 DEF SampleTokens
<1>5. CASE WorkReturns BY <1>5 DEF WorkReturns
<1>6. CASE WorkRaises BY <1>6 DEF WorkRaises
<1>7. CASE Interrupted BY <1>7 DEF Interrupted
<1>8. CASE EnterForward BY <1>8 DEF EnterForward
<1>9. CASE EnterReturns
  <2>1. pc' \in Working /\ closer = "run" /\ open
    BY <1>9 DEF EnterReturns
  <2>2. held' /\ gate_round' /\ active_round'
    BY <1>9 DEF EnterReturns
  <2> QED BY <1>9, <2>1, <2>2 DEF EnterReturns
<1>10. CASE EnterFails BY <1>10 DEF EnterFails
<1>11. CASE LeaveForward BY <1>11 DEF LeaveForward
<1>12. CASE LeaveReturns BY <1>12 DEF LeaveReturns
<1>13. CASE LeaveFails BY <1>13 DEF LeaveFails
<1>14. CASE Fail BY <1>14 DEF Fail
<1>15. CASE Close BY <1>15 DEF Close
<1>16. CASE CloseReturns BY <1>16 DEF CloseReturns
<1>17. CASE PairFails BY <1>17 DEF PairFails
<1>18. CASE EnterUntraced BY <1>18 DEF EnterUntraced
<1>19. CASE LeaveUntraced
  <2>1. CASE pc = "leave"
    <3>1. /\ active_round' = FALSE /\ pc' = "failing"
          /\ UNCHANGED <<call, gate_round, held, lock, open, closer, failed, untraced>>
      BY Zenon, <1>19, <2>1 DEF LeaveUntraced
    <3> QED BY <2>1, <3>1
  <2>2. CASE pc = "leaving"
    <3>1. /\ gate_round' = FALSE /\ held' = FALSE /\ active_round' = FALSE
          /\ lock' = "free" /\ pc' = "failing"
          /\ UNCHANGED <<call, open, closer, failed, untraced>>
      BY Zenon, <1>19, <2>2 DEF LeaveUntraced
    <3> QED BY <2>2, <3>1
  <2> QED BY Zenon, <1>19, <2>1, <2>2 DEF LeaveUntraced
<1>20. CASE UNCHANGED vars BY <1>20 DEF vars
<1> QED
  BY <1>1, <1>2, <1>3, <1>4, <1>5, <1>6, <1>7, <1>8, <1>9, <1>10, <1>11,
     <1>12, <1>13, <1>14, <1>15, <1>16, <1>17, <1>18, <1>19, <1>20
     DEF Next, Rpc

\* The gate keeps the lock, the context and the two notions of a round
\* consistent (SharedMemoryForwardGate and the wrappers of the patch).
THEOREM GateInvHolds == Spec => []GateInv
  BY GateInit, GateNext, PTL DEF Spec

\* The worker computes only inside a round, or the pair has failed, or ps_close
\* is about to fail it (gated_execute_model, gated_sample_tokens, close()).
THEOREM WorksInsideRoundHolds == Spec => []WorksInsideRound
<1>1. GateInv => WorksInsideRound
  BY DEF GateInv, RoundInv, WorksInsideRound
<1> QED BY <1>1, GateInvHolds, PTL

\* No round of the context is forgotten by a wrapper of a running pair, but for
\* one whose entry could not be traced (the except clauses, fail()).
THEOREM RoundRememberedHolds == Spec => []RoundRemembered
<1>1. GateInv => RoundRemembered
  BY DEF GateInv, RoundInv, RoundRemembered
<1> QED BY <1>1, GateInvHolds, PTL

\* No native call runs on a context that close() has taken away (_state_lock).
THEOREM ContextNotReleasedHolds == Spec => []ContextNotReleased
<1>1. GateInv => ContextNotReleased
  BY DEF GateInv, TypeOK, LockInv, ContextNotReleased
<1> QED BY <1>1, GateInvHolds, PTL

\* The native calls alternate as PairSched assumes of its engine (the
\* active_round checks of the wrappers).
THEOREM CallsAlternateHolds == Spec => []CallsAlternate
<1>1. GateInv => CallsAlternate
  BY DEF GateInv, LockInv, RoundInv, CallsAlternate
<1> QED BY <1>1, GateInvHolds, PTL
=============================================================================
