----------------------------- MODULE WorkerGate -----------------------------
(***************************************************************************)
(* How one vLLM worker uses its forward gate: the wrappers that            *)
(* vllm-pair-elastic-scheduling.patch puts around execute_model and        *)
(* sample_tokens, the methods of SharedMemoryForwardGate they call, and    *)
(* close() on a thread of its own.                                         *)
(*                                                                         *)
(* The RPC thread runs one engine call at a time; shutdown and failure     *)
(* callbacks may race it, and _state_lock is held across each native call. *)
(* The native side is reduced to what its callers see: a call succeeds, or *)
(* it fails and the pair is FAILED (PairSched has the rest).               *)
(***************************************************************************)
CONSTANTS Engine  \* what the engine and the rest of the pair may do

Behaviour == {"raise", "interrupt", "early", "fail", "close", "trace"}

ASSUME EngineAssumption == Engine \subseteq Behaviour

VARIABLES
  pc,            \* where the RPC thread is
  call,          \* the wrapper it is in
  active_round,  \* the wrapper's nonlocal: a round is waiting for its sampling
  gate_round,    \* gate._active_round # None
  lock,          \* holder of gate._state_lock
  open,          \* gate._ctx # None
  closer,        \* where the thread that calls close() is
  held,          \* the native context has a round
  failed,        \* the pair is FAILED
  untraced       \* ghost: the trace record of an entry could not be written

rounds == <<active_round, gate_round, held>>
vars == <<pc, call, rounds, lock, open, closer, failed, untraced>>

\* The worker computes for a request, so its round must be running.
Working == {"execute", "sample"}

TypeOK ==
  /\ pc \in Working \cup {"idle", "plain", "enter", "entering", "leave",
                          "leaving", "failing", "exited"}
  /\ call \in Working
  /\ active_round \in BOOLEAN /\ gate_round \in BOOLEAN
  /\ open \in BOOLEAN /\ held \in BOOLEAN /\ failed \in BOOLEAN
  /\ untraced \in BOOLEAN
  /\ lock \in {"free", "rpc", "closer"}
  /\ closer \in {"run", "closing", "closed"}

Init ==
  /\ pc = "idle"
  /\ call = "execute"
  /\ active_round = FALSE
  /\ gate_round = FALSE
  /\ lock = "free"
  /\ open = TRUE
  /\ closer = "run"
  /\ held = FALSE
  /\ failed = FALSE
  /\ untraced = FALSE

-----------------------------------------------------------------------------
(***************************************************************************)
(* The wrappers.                                                           *)
(***************************************************************************)

\* Mutant: the check for an unfinished round is gone.
ExecuteUnchecked ==
  /\ pc = "idle"
  /\ active_round => "early" \in Engine
  /\ call' = "execute"
  /\ pc' = "enter"
  /\ UNCHANGED <<rounds, lock, open, closer, failed, untraced>>

\* gated_execute_model with tokens to compute.  An unfinished round is an
\* error of the engine: the pair is failed and the round stays as it is.
ExecuteModel ==
  /\ pc = "idle"
  /\ \/ active_round /\ "early" \in Engine /\ pc' = "failing"
     \/ ~active_round /\ pc' = "enter"
  /\ call' = "execute"
  /\ UNCHANGED <<rounds, lock, open, closer, failed, untraced>>

\* gated_execute_model with nothing to compute bypasses the gate.
ExecuteEmpty ==
  /\ pc = "idle"
  /\ pc' = "plain"
  /\ UNCHANGED <<call, rounds, lock, open, closer, failed, untraced>>

EmptyReturns ==
  /\ pc = "plain"
  /\ pc' = "idle"
  /\ UNCHANGED <<call, rounds, lock, open, closer, failed, untraced>>

\* Mutant: sampling never takes a round of its own.
SampleUngated ==
  /\ pc = "idle"
  /\ pc' = "sample"
  /\ call' = "sample"
  /\ UNCHANGED <<rounds, lock, open, closer, failed, untraced>>

\* gated_sample_tokens continues the round of execute_model, or takes one.
SampleTokens ==
  /\ pc = "idle"
  /\ pc' = IF active_round THEN "sample" ELSE "enter"
  /\ call' = "sample"
  /\ UNCHANGED <<rounds, lock, open, closer, failed, untraced>>

\* execute_model or sample_tokens returns.  Without an output the round is kept
\* for the sampling that follows.
WorkReturns ==
  /\ pc \in Working
  /\ \/ pc' = "leave"
     \/ pc = "execute" /\ pc' = "idle"
  /\ UNCHANGED <<call, rounds, lock, open, closer, failed, untraced>>

\* Mutant: an exception forgets the round without failing the pair.
WorkRaisesQuietly ==
  /\ "raise" \in Engine
  /\ pc \in Working
  /\ active_round' = FALSE
  /\ pc' = "idle"
  /\ UNCHANGED <<call, gate_round, held, lock, open, closer, failed, untraced>>

\* The except clause: forget the round and fail the pair.
WorkRaises ==
  /\ "raise" \in Engine
  /\ pc \in Working
  /\ active_round' = FALSE
  /\ pc' = "failing"
  /\ UNCHANGED <<call, gate_round, held, lock, open, closer, failed, untraced>>

\* KeyboardInterrupt and SystemExit are not Exceptions: the RPC loop ends.
Interrupted ==
  /\ "interrupt" \in Engine
  /\ pc \in Working \cup {"idle", "plain"}
  /\ pc' = "exited"
  /\ UNCHANGED <<call, rounds, lock, open, closer, failed, untraced>>

-----------------------------------------------------------------------------
(***************************************************************************)
(* The gate's methods, on the RPC thread.                                  *)
(***************************************************************************)

\* enter_forward up to ps_enter_forward; a closed gate raises, and the wrapper
\* has not recorded a round yet.
EnterForward ==
  /\ pc = "enter"
  /\ lock = "free"
  /\ \/ open /\ lock' = "rpc" /\ pc' = "entering"
     \/ ~open /\ pc' = "idle" /\ UNCHANGED lock
  /\ UNCHANGED <<call, rounds, open, closer, failed, untraced>>

\* ps_enter_forward returns a round; a context that has one gets no second.
EnterReturns ==
  /\ pc = "entering"
  /\ ~held
  /\ held' = TRUE
  /\ gate_round' = TRUE
  /\ active_round' = TRUE
  /\ lock' = "free"
  /\ pc' = call
  /\ UNCHANGED <<call, open, closer, failed, untraced>>

\* ps_enter_forward takes the round, but with VLLM_PAIR_SCHED_TRACE_DIR set the
\* trace record that follows cannot be written: enter_forward raises before the
\* wrapper has the round, and before its try.
EnterUntraced ==
  /\ "trace" \in Engine
  /\ pc = "entering"
  /\ ~held
  /\ held' = TRUE
  /\ gate_round' = TRUE
  /\ untraced' = TRUE
  /\ lock' = "free"
  /\ pc' = "idle"
  /\ UNCHANGED <<call, active_round, open, closer, failed>>

\* ps_enter_forward fails, and with it the pair; the wrapper's try has not
\* begun.  It always fails for a context that has a round.
EnterFails ==
  /\ "fail" \in Engine \/ held
  /\ pc = "entering"
  /\ failed' = TRUE
  /\ lock' = "free"
  /\ pc' = "idle"
  /\ UNCHANGED <<call, rounds, open, closer, untraced>>

\* leave_forward up to ps_leave_forward; inside the wrapper's try.
LeaveForward ==
  /\ pc = "leave"
  /\ lock = "free"
  /\ \/ /\ open
        /\ lock' = "rpc"
        /\ pc' = "leaving"
        /\ UNCHANGED active_round
     \/ /\ ~open
        /\ pc' = "failing"
        /\ active_round' = FALSE
        /\ UNCHANGED lock
  /\ UNCHANGED <<call, gate_round, held, open, closer, failed, untraced>>

\* ps_leave_forward returns; the gate and then the wrapper forget the round.
LeaveReturns ==
  /\ pc = "leaving"
  /\ held' = FALSE
  /\ gate_round' = FALSE
  /\ active_round' = FALSE
  /\ lock' = "free"
  /\ pc' = "idle"
  /\ UNCHANGED <<call, open, closer, failed, untraced>>

\* ps_leave_forward fails, and with it the pair; the except clause follows.
LeaveFails ==
  /\ "fail" \in Engine
  /\ pc = "leaving"
  /\ failed' = TRUE
  /\ active_round' = FALSE
  /\ lock' = "free"
  /\ pc' = "failing"
  /\ UNCHANGED <<call, gate_round, held, open, closer, untraced>>

\* leave_forward raises for a trace record, before its native call or after it:
\* both inside the wrapper's try.
LeaveUntraced ==
  /\ "trace" \in Engine
  /\ \/ pc = "leave" /\ UNCHANGED <<gate_round, held, lock>>
     \/ pc = "leaving" /\ gate_round' = FALSE /\ held' = FALSE /\ lock' = "free"
  /\ active_round' = FALSE
  /\ pc' = "failing"
  /\ UNCHANGED <<call, open, closer, failed, untraced>>

\* fail(): ps_fail, unless the gate is closed.  The wrapper re-raises.
Fail ==
  /\ pc = "failing"
  /\ lock = "free"
  /\ failed' = (failed \/ open)
  /\ pc' = "idle"
  /\ UNCHANGED <<call, rounds, lock, open, closer, untraced>>

-----------------------------------------------------------------------------
(***************************************************************************)
(* The thread that closes the gate, and the rest of the pair.              *)
(***************************************************************************)

\* Mutant: close() does not wait for a native call to return.
CloseUnlocked ==
  /\ "close" \in Engine
  /\ closer = "run"
  /\ open' = FALSE
  /\ closer' = "closing"
  /\ lock' = "closer"
  /\ UNCHANGED <<pc, call, rounds, failed, untraced>>

\* close() takes the lock and takes the context out of the gate ...
Close ==
  /\ "close" \in Engine
  /\ closer = "run"
  /\ lock = "free"
  /\ open' = FALSE
  /\ closer' = "closing"
  /\ lock' = "closer"
  /\ UNCHANGED <<pc, call, rounds, failed, untraced>>

\* ... and ps_close fails the pair if the context has a round.
CloseReturns ==
  /\ closer = "closing"
  /\ failed' = (failed \/ held)
  /\ held' = FALSE
  /\ lock' = "free"
  /\ closer' = "closed"
  /\ UNCHANGED <<pc, call, active_round, gate_round, open, untraced>>

\* Some other worker, or the coordinator, fails the pair.
PairFails ==
  /\ "fail" \in Engine
  /\ ~failed
  /\ failed' = TRUE
  /\ UNCHANGED <<pc, call, rounds, lock, open, closer, untraced>>

Rpc ==
  \/ ExecuteModel \/ ExecuteEmpty \/ EmptyReturns \/ SampleTokens
  \/ WorkReturns \/ WorkRaises \/ Interrupted
  \/ EnterForward \/ EnterReturns \/ EnterUntraced \/ EnterFails
  \/ LeaveForward \/ LeaveReturns \/ LeaveUntraced \/ LeaveFails \/ Fail

Next == Rpc \/ Close \/ CloseReturns \/ PairFails

Spec == Init /\ [][Next]_vars

-----------------------------------------------------------------------------
(***************************************************************************)
(* Properties.                                                             *)
(***************************************************************************)

\* The worker computes only inside a round of a live context, from the entry of
\* execute_model through the matching sample_tokens, unless the pair has failed
\* meanwhile: also when close() runs in the middle of a forward, since ps_close
\* then fails the pair (the wrappers, close()).
WorksInsideRound == pc \in Working => held \/ failed \/ closer = "closing"

\* A round is never lost: between two engine calls the wrapper remembers every
\* round its context has, or the pair has failed (the except clauses, fail());
\* except the round whose entry could not be traced, which enter_forward takes
\* and does not return.
RoundRemembered ==
  pc \in {"idle", "enter", "plain"} /\ held => active_round \/ failed \/ untraced

\* No native call runs on a context that close() has taken away (_state_lock;
\* "ctypes can never observe a context that close() has concurrently
\* released").
ContextNotReleased == pc \in {"entering", "leaving"} => open

\* The wrappers use the native calls as PairSched's well-behaved engine does:
\* they enter with no round and leave with the one they entered, unless the
\* pair has failed before or the entry could not be traced (the active_round
\* checks).
CallsAlternate ==
  /\ pc = "entering" => ~held \/ failed \/ untraced
  /\ pc = "leaving" => held

-----------------------------------------------------------------------------
(***************************************************************************)
(* The inductive invariant behind these properties.                        *)
(***************************************************************************)

\* _state_lock is held exactly across the native calls, and the context is out
\* of the gate from the moment close() has taken it.
LockInv ==
  /\ lock = "rpc" <=> pc \in {"entering", "leaving"}
  /\ lock = "closer" <=> closer = "closing"
  /\ open <=> closer = "run"
  /\ lock = "rpc" => closer = "run"

\* The wrapper's round and the context's round: the wrapper has one from the
\* return of enter_forward to the call of leave_forward; the context still has
\* it, or close() has given it up and failed the pair; and what the context has
\* after the wrapper forgot it, the pair has failed for by the next call, or it
\* is the round whose entry could not be traced.
RoundInv ==
  /\ closer = "closed" => ~held
  /\ pc \in {"enter", "entering"} => ~active_round
  /\ pc \in Working \cup {"leave", "leaving"} => active_round
  /\ active_round => held \/ (closer = "closed" /\ failed)
  /\ pc \in {"idle", "plain", "enter", "entering"} /\ held =>
       active_round \/ failed \/ untraced

\* Every step of the RPC thread, of close() and of the rest of the pair keeps
\* the lock and the two notions of a round consistent (the wrappers and
\* SharedMemoryForwardGate together).
GateInv == TypeOK /\ LockInv /\ RoundInv
=============================================================================
