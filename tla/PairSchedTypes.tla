--------------------------- MODULE PairSchedTypes ---------------------------
(***************************************************************************)
(* Type correctness of PairSched for every set of contexts and ranks, and   *)
(* the steps that the invariant of PairSchedInv hardly notices.             *)
(***************************************************************************)
EXTENDS PairSchedInv, TLAPS

\* Abbreviations that every proof looks through.
USE DEF turns, round, closing, held, Everyone, AfterHeartbeat, NextGrant,
        CrossRound

\* Membership of the labels and reasons, so that the sets stay folded.
LEMMA Labels ==
  /\ "new" \in Pc
  /\ "idle" \in Pc
  /\ "exec" \in Pc
  /\ "gone" \in Pc
  /\ "dead" \in Pc
  /\ "register" \in Pc
  /\ "online" \in Pc
  /\ "opened" \in Pc
  /\ "claim" \in Pc
  /\ "init" \in Pc
  /\ "match" \in Pc
  /\ "ready" \in Pc
  /\ "publish" \in Pc
  /\ "await" \in Pc
  /\ "poll" \in Pc
  /\ "fence" \in Pc
  /\ "finish" \in Pc
  /\ "complete" \in Pc
  /\ "drain" \in Pc
  /\ "exit" \in Pc
  /\ "reset" \in Pc
  /\ "OFFLINE" \in RoundState
  /\ "IDLE" \in RoundState
  /\ "INITIALIZING" \in RoundState
  /\ "COLLECTING" \in RoundState
  /\ "READY" \in RoundState
  /\ "RUNNING" \in RoundState
  /\ "COMPLETE" \in RoundState
  /\ "DRAINING" \in RoundState
  /\ "APPLICATION" \in Reason
  /\ "FORWARD_TIMEOUT" \in Reason
  /\ "PRIMARY_DEAD" \in Reason
  /\ "WORKER_DEAD" \in Reason
  /\ "FENCING" \in Reason
  /\ "DUPLICATE_RANK" \in Reason
  /\ "BARRIER_TIMEOUT" \in Reason
  /\ "CLOSE_ACTIVE" \in Reason
  BY Zenon DEF Pc, OpenPc, EnterPc, LeavePc, RoundState, Reason

\* A new segment is well typed (ps_open, create).
LEMMA TypeInit == Init => TypeOK
<1> SUFFICES ASSUME Init PROVE TypeOK
  BY Zenon
<1> USE CtxAssumption, Labels DEF Init, Inst
<1>1. /\ status \in {"RUNNING", "SHUTDOWN"} \cup Reason
      /\ owner \in Inst \cup {NoOwner}
      /\ last_owner \in Inst \cup {NoOwner}
      /\ deadline \in {"none", "armed", "passed"}
      /\ primary_stale \in BOOLEAN
      /\ next_grant_id \in Nat
  BY Zenon
<1>2. /\ state \in [Inst -> RoundState]
  /\ forward_seq \in [Inst -> Nat]
  /\ grant_id \in [Inst -> Nat]
  /\ ready \in [Inst -> SUBSET Rank]
  /\ complete \in [Inst -> SUBSET Rank]
  /\ exited \in [Inst -> SUBSET Rank]
  /\ online \in [Inst -> SUBSET Rank]
  /\ publish \in [Inst -> Nat]
  /\ late \in SUBSET Inst
  BY Zenon
<1>3. /\ session \in [Inst -> [Rank -> Ctx \cup {NoSession}]]
  /\ last_seq \in [Inst -> [Rank -> Nat]]
  BY Zenon
<1>4.  fresh \in [Inst -> [Rank -> BOOLEAN]]
  BY Zenon
<1>5. /\ pc \in [Ctx -> Pc]
  /\ closer \in [Ctx -> Closer]
  /\ saw_idle \in SUBSET Ctx
  /\ next_seq \in [Ctx -> Nat]
  /\ active_seq \in [Ctx -> Nat]
  /\ active_grant_id \in [Ctx -> Nat]
  BY Zenon DEF Closer
<1>6. cpc \in CoordPc
  BY Zenon DEF CoordPc
<1>7. scanned \in [Inst -> Nat \cup {NotReady}] /\ selected \in Inst
  BY Zenon DEF NoneReady
<1> QED BY Zenon, <1>1, <1>2, <1>3, <1>4, <1>5, <1>6, <1>7 DEF TypeOK

\* Every step keeps the segment well typed: masks stay within expected_mask, the
\* owner is an instance or none and the round state is one of the eight, so
\* validate_shared never finds the segment corrupt.
LEMMA TypeNext == TypeOK /\ [Next]_vars => TypeOK'
<1> SUFFICES ASSUME TypeOK, [Next]_vars PROVE TypeOK'
  BY Zenon
<1> USE CtxAssumption, Labels DEF TypeOK, shared, group, slots, local, coord,
     Goto, Return, FailAndReturn, FailPair
<1>1. CASE UNCHANGED vars
  BY SMTT(30), <1>1 DEF vars
<1>2. ASSUME NEW c \in Ctx, OpenSteps(c) PROVE TypeOK'
  <2>1. CASE OpenCheck(c) BY Zenon, <2>1 DEF OpenCheck
  <2>2. CASE RegisterSlot(c) BY Zenon, <2>2 DEF RegisterSlot
  <2>3. CASE RegisterOnline(c) BY <2>3 DEF RegisterOnline
  <2>4. CASE Opened(c) BY Zenon, <2>4 DEF Opened, CoordPc
  <2>5. CASE OpenFailure(c) BY SMTT(30), <2>5 DEF OpenFailure
  <2> QED BY ZenonT(30), <1>2, <2>1, <2>2, <2>3, <2>4, <2>5 DEF OpenSteps
<1>3. ASSUME NEW c \in Ctx, EnterSteps(c) PROVE TypeOK'
  <2>1. CASE Claim(c)
    <3>1. \E l \in {"init", "match", "idle"} : pc' = [pc EXCEPT ![c] = l]
      BY Zenon, <2>1 DEF Claim
    <3>2. pc' \in [Ctx -> Pc]
      BY <3>1
    <3>3. status' = status \/ status' = "FENCING"
      BY Zenon, <2>1 DEF Claim
    <3>4. status' \in {"RUNNING", "SHUTDOWN"} \cup Reason
      BY Zenon, <3>3
    <3>5. state' = state \/ state' = [state EXCEPT ![instance[c]] =
       "INITIALIZING"]
      BY Zenon, <2>1 DEF Claim
    <3>6. state' \in [Inst -> RoundState]
      BY Zenon, <3>5
    <3> QED BY Zenon, <2>1, <3>2, <3>4, <3>6 DEF Claim
  <2>2. CASE InitRound(c)
    <3>1. pc' \in [Ctx -> Pc]
      BY Zenon, <2>2 DEF InitRound
    <3>2. publish' \in [Inst -> Nat]
      BY <2>2 DEF InitRound, Stamp, Inst
    <3> QED BY Zenon, <2>2, <3>1, <3>2 DEF InitRound
  <2>3. CASE Match(c)
    <3>1. \E l \in {"ready", "idle"} : pc' = [pc EXCEPT ![c] = l]
      BY Zenon, <2>3 DEF Match
    <3>2. pc' \in [Ctx -> Pc]
      BY <3>1
    <3>3. status' = status \/ status' = "FENCING"
      BY Zenon, <2>3 DEF Match
    <3>4. status' \in {"RUNNING", "SHUTDOWN"} \cup Reason
      BY Zenon, <3>3
    <3>5. \/ last_seq' = last_seq
          \/ last_seq' = [last_seq EXCEPT ![instance[c]][rank[c]] = next_seq[c]]
      BY Zenon, <2>3 DEF Match
    <3>6. last_seq' \in [Inst -> [Rank -> Nat]]
      <4>1. CASE last_seq' = last_seq
        BY Zenon, <4>1
      <4>2. CASE last_seq' =
                   [last_seq EXCEPT ![instance[c]][rank[c]] = next_seq[c]]
        BY Zenon, <4>2
      <4> QED BY Zenon, <3>5, <4>1, <4>2
    <3> QED BY Zenon, <2>3, <3>2, <3>4, <3>6 DEF Match
  <2>4. CASE SetReady(c)
    <3>1. \E l \in {"publish", "await", "idle"} : pc' = [pc EXCEPT ![c] = l]
      BY Zenon, <2>4 DEF SetReady
    <3>2. pc' \in [Ctx -> Pc]
      BY <3>1
    <3>3. status' = status \/ status' = "DUPLICATE_RANK"
      BY Zenon, <2>4 DEF SetReady
    <3>4. status' \in {"RUNNING", "SHUTDOWN"} \cup Reason
      BY Zenon, <3>3
    <3>5. ready' \in [Inst -> SUBSET Rank]
      BY <2>4 DEF SetReady
    <3> QED BY Zenon, <2>4, <3>2, <3>4, <3>5 DEF SetReady
  <2>5. CASE PublishReady(c)
    <3>1. \E l \in {"await", "idle"} : pc' = [pc EXCEPT ![c] = l]
      BY Zenon, <2>5 DEF PublishReady
    <3>2. pc' \in [Ctx -> Pc]
      BY <3>1
    <3>3. status' = status \/ status' = "FENCING"
      BY Zenon, <2>5 DEF PublishReady
    <3>4. status' \in {"RUNNING", "SHUTDOWN"} \cup Reason
      BY Zenon, <3>3
    <3>5. state' = state \/ state' = [state EXCEPT ![instance[c]] = "READY"]
      BY Zenon, <2>5 DEF PublishReady
    <3>6. state' \in [Inst -> RoundState]
      BY Zenon, <3>5
    <3> QED BY Zenon, <2>5, <3>2, <3>4, <3>6 DEF PublishReady
  <2>6. CASE Await(c)
    <3>1. \E l \in {"poll", "idle"} : pc' = [pc EXCEPT ![c] = l]
      BY Zenon, <2>6 DEF Await
    <3>2. pc' \in [Ctx -> Pc]
      BY <3>1
    <3>3. status' = status \/ status' = "PRIMARY_DEAD"
      BY Zenon, <2>6 DEF Await
    <3>4. status' \in {"RUNNING", "SHUTDOWN"} \cup Reason
      BY Zenon, <3>3
    <3> QED BY Zenon, <2>6, <3>2, <3>4 DEF Await
  <2>7. CASE Poll(c)
    <3>1. \E l \in {"exec", "await", "idle"} : pc' = [pc EXCEPT ![c] = l]
      BY Zenon, <2>7 DEF Poll
    <3>2. pc' \in [Ctx -> Pc]
      BY <3>1
    <3>3. status' = status \/ status' = "FENCING"
      BY Zenon, <2>7 DEF Poll
    <3>4. status' \in {"RUNNING", "SHUTDOWN"} \cup Reason
      BY Zenon, <3>3
    <3>5. active_seq' \in [Ctx -> Nat]
      BY Zenon, <2>7 DEF Poll
    <3>6. \E n \in Nat : \/ active_grant_id' = active_grant_id
                       \/ active_grant_id' = [active_grant_id EXCEPT ![c] = n]
      BY Zenon, <2>7 DEF Poll
    <3>7. active_grant_id' \in [Ctx -> Nat]
      BY ZenonT(30), <3>6
    <3> QED BY Zenon, <2>7, <3>2, <3>4, <3>5, <3>7 DEF Poll
  <2> QED BY ZenonT(30), <1>3, <2>1, <2>2, <2>3, <2>4, <2>5, <2>6, <2>7 DEF EnterSteps
<1>4. ASSUME NEW c \in Ctx, LeaveSteps(c) PROVE TypeOK'
  <2>1. CASE Fence(c)
    <3>1. \E l \in {"finish", "idle"} : pc' = [pc EXCEPT ![c] = l]
      BY Zenon, <2>1 DEF Fence
    <3>2. pc' \in [Ctx -> Pc]
      BY <3>1
    <3>3. status' = status \/ status' = "FENCING"
      BY Zenon, <2>1 DEF Fence
    <3>4. status' \in {"RUNNING", "SHUTDOWN"} \cup Reason
      BY Zenon, <3>3
    <3> QED BY Zenon, <2>1, <3>2, <3>4 DEF Fence
  <2>2. CASE SetComplete(c)
    <3>1. \E l \in {"complete", "drain", "idle"} : pc' = [pc EXCEPT ![c] = l]
      BY Zenon, <2>2 DEF SetComplete
    <3>2. pc' \in [Ctx -> Pc]
      BY <3>1
    <3>3. status' = status \/ status' = "DUPLICATE_RANK"
      BY Zenon, <2>2 DEF SetComplete
    <3>4. status' \in {"RUNNING", "SHUTDOWN"} \cup Reason
      BY Zenon, <3>3
    <3>5. complete' \in [Inst -> SUBSET Rank]
      BY <2>2 DEF SetComplete
    <3> QED BY Zenon, <2>2, <3>2, <3>4, <3>5 DEF SetComplete
  <2>3. CASE PublishComplete(c)
    <3>1. \E l \in {"drain", "idle"} : pc' = [pc EXCEPT ![c] = l]
      BY Zenon, <2>3 DEF PublishComplete
    <3>2. pc' \in [Ctx -> Pc]
      BY <3>1
    <3>3. status' = status \/ status' = "FENCING"
      BY Zenon, <2>3 DEF PublishComplete
    <3>4. status' \in {"RUNNING", "SHUTDOWN"} \cup Reason
      BY Zenon, <3>3
    <3>5. state' = state \/ state' = [state EXCEPT ![instance[c]] = "COMPLETE"]
      BY Zenon, <2>3 DEF PublishComplete
    <3>6. state' \in [Inst -> RoundState]
      BY Zenon, <3>5
    <3> QED BY Zenon, <2>3, <3>2, <3>4, <3>6 DEF PublishComplete
  <2>4. CASE Drain(c) BY Zenon, <2>4 DEF Drain
  <2>5. CASE Exit(c)
    <3>1. \E l \in {"reset", "idle", "drain"} : pc' = [pc EXCEPT ![c] = l]
      BY Zenon, <2>5 DEF Exit
    <3>2. pc' \in [Ctx -> Pc]
      BY <3>1
    <3>3. status' = status \/ status' = "FENCING"
      BY Zenon, <2>5 DEF Exit
    <3>4. status' \in {"RUNNING", "SHUTDOWN"} \cup Reason
      BY Zenon, <3>3
    <3>5. exited' \in [Inst -> SUBSET Rank]
      BY <2>5 DEF Exit
    <3>6. active_seq' \in [Ctx -> Nat]
      BY <2>5 DEF Exit
    <3>7. active_grant_id' \in [Ctx -> Nat]
      BY <2>5 DEF Exit
    <3> QED BY Zenon, <2>5, <3>2, <3>4, <3>5, <3>6, <3>7 DEF Exit
  <2>6. CASE ResetRound(c) BY Zenon, <2>6 DEF ResetRound
  <2> QED BY Zenon, <1>4, <2>1, <2>2, <2>3, <2>4, <2>5, <2>6 DEF LeaveSteps
<1>5. ASSUME NEW c \in Ctx, CloseSteps(c) PROVE TypeOK'
  <2> USE DEF Closer, ClosedNext
  <2>1. CASE CloseCheck(c) BY Zenon, <2>1 DEF CloseCheck
  <2>2. CASE CloseOffline(c) BY Zenon, <2>2 DEF CloseOffline
  <2>3. CASE CloseSlot(c) BY Zenon, <2>3 DEF CloseSlot
  <2>4. CASE CloseLast(c) BY Zenon, <2>4 DEF CloseLast
  <2>5. CASE StoreOffline(c) BY Zenon, <2>5 DEF StoreOffline
  <2>6. CASE Shutdown(c) BY Zenon, <2>6 DEF Shutdown
  <2> QED BY Zenon, <1>5, <2>1, <2>2, <2>3, <2>4, <2>5, <2>6 DEF CloseSteps
<1>6. ASSUME NEW c \in Ctx, Engine(c) PROVE TypeOK'
  <2>1. CASE EnterBegin(c) BY <2>1 DEF EnterBegin
  <2>2. CASE LeaveBegin(c)
    <3>1. \E l \in {"fence", "idle"} : pc' = [pc EXCEPT ![c] = l]
      BY Zenon, <2>2 DEF LeaveBegin
    <3>2. pc' \in [Ctx -> Pc]
      BY <3>1
    <3>3. status' = status \/ status' = "FORWARD_TIMEOUT"
      BY Zenon, <2>2 DEF LeaveBegin
    <3>4. status' \in {"RUNNING", "SHUTDOWN"} \cup Reason
      BY Zenon, <3>3
    <3> QED BY Zenon, <2>2, <3>2, <3>4 DEF LeaveBegin
  <2>3. CASE EnterTwice(c) BY <2>3 DEF EnterTwice
  <2>4. CASE LeaveForeign(c) BY Zenon, <2>4 DEF LeaveForeign
  <2>5. CASE Abort(c) BY Zenon, <2>5 DEF Abort
  <2>6. CASE CloseBegin(c) BY Zenon, <2>6 DEF CloseBegin, Closer
  <2> QED BY Zenon, <1>6, <2>1, <2>2, <2>3, <2>4, <2>5, <2>6 DEF Engine
<1>7. CASE Coordinator
  <2> USE DEF CoordAt, CoordPc
  <2>1. CASE Tick BY Zenon, <2>1 DEF Tick, NoneReady, NotReady
  <2>2. CASE CoordStop BY Zenon, <2>2 DEF CoordStop
  <2>3. CASE Recycle BY Zenon, <2>3 DEF Recycle
  <2>4. CASE StartDraining BY ZenonT(30), <2>4 DEF StartDraining
  <2>5. CASE ReleaseOwner BY Zenon, <2>5 DEF ReleaseOwner
  <2>6. CASE Recheck BY Zenon, <2>6 DEF Recheck
  <2>7. ASSUME NEW i \in Inst, Scan(i) PROVE TypeOK'
    BY ZenonT(30), <2>7 DEF Scan, NoneReady, NotReady
  <2>8. CASE Select BY <2>8 DEF Select, Preferred, Inst, NoneReady, NotReady
  <2>9. CASE Grant BY <2>9 DEF Grant
  <2> QED
    BY Zenon, <1>7, <2>1, <2>2, <2>3, <2>4, <2>5, <2>6, <2>7, <2>8, <2>9
       DEF Coordinator, Inst
<1>8. CASE Environment
  <2>1. ASSUME NEW c \in Ctx, Heartbeat(c) PROVE TypeOK' BY Zenon, <2>1 DEF Heartbeat
  <2>2. ASSUME NEW c \in Ctx, Crash(c) PROVE TypeOK' BY Zenon, <2>2 DEF Crash
  <2>3. ASSUME NEW i \in Inst, NEW k \in Rank, HeartbeatExpires(i, k)
        PROVE TypeOK'
    BY Zenon, <2>3 DEF HeartbeatExpires
  <2>4. CASE PrimaryExpires BY Zenon, <2>4 DEF PrimaryExpires
  <2>5. CASE DeadlinePasses BY Zenon, <2>5 DEF DeadlinePasses
  <2>6. ASSUME NEW i \in Inst, BarrierAges(i) PROVE TypeOK'
    BY Zenon, <2>6 DEF BarrierAges
  <2> QED BY ZenonT(30), <1>8, <2>1, <2>2, <2>3, <2>4, <2>5, <2>6 DEF Environment
<1> QED BY Zenon, <1>1, <1>2, <1>3, <1>4, <1>5, <1>6, <1>7, <1>8 DEF Next

-----------------------------------------------------------------------------
(***************************************************************************)
(* A quiet step touches none of the words the invariant speaks of; an       *)
(* overwrite stores a state before RUNNING, over whatever the state was.    *)
(***************************************************************************)

\* A step that moves no worker into a round: nobody starts to execute, nobody
\* sets the last COMPLETE bit, and a worker that joins does so before RUNNING.
QuietPc ==
  /\ \A c \in Ctx : Executing(c)' => Executing(c)
  /\ \A c \in Ctx : pc'[c] = "complete" => pc[c] = "complete"
  /\ \A c \in Ctx : pc'[c] \in EnterTail =>
       pc[c] \in EnterTail \/ state'[instance[c]] # "RUNNING"
  /\ \A c \in Ctx : pc'[c] \in EnterPc => active_seq[c] = 0 /\ next_seq'[c] # 0
  /\ pc'[Creator] \in {"new"} \cup OpenPc => pc[Creator] \in {"new"} \cup OpenPc

\* ... and that leaves alone every word the invariant speaks of.
Quiet ==
  /\ QuietPc
  /\ UNCHANGED <<owner, cpc, state, grant_id, complete, session,
                 next_grant_id, active_seq, active_grant_id, selected>>

\* Quiet steps preserve the invariant.
LEMMA QuietStep ==
  ASSUME IInv, TypeOK', Quiet PROVE IInv'
<1> USE DEF Quiet, QuietPc
<1>1. CoordInv'
  BY Zenon DEF IInv, CoordInv
<1>2. GrantInv'
  BY Zenon DEF IInv, GrantInv, Got
<1>3. EngagedInv'
  BY Zenon DEF IInv, EngagedInv, Engaged
<1>4. SessionInv'
  BY Zenon, CtxAssumption DEF IInv, SessionInv, Got, SameSlot
<1>5. CompleteInv'
  BY DEF IInv, CompleteInv, Got
<1>6. LastInv'
  BY Zenon DEF IInv, LastInv
<1>7. GrantConsumedOnce'
  BY Zenon DEF IInv, GrantConsumedOnce
<1> QED BY Zenon, <1>1, <1>2, <1>3, <1>4, <1>5, <1>6, <1>7 DEF IInv

\* When moving one context to another label is quiet.
LEMMA QuietGoto ==
  ASSUME IInv, NEW c \in Ctx, NEW l, pc' = [pc EXCEPT ![c] = l],
         next_seq' = next_seq,
         l \in {"exec", "fence", "finish"} => Executing(c),
         l # "complete",
         l \in EnterPc => pc[c] \in EnterPc,
         l \in EnterTail =>
           pc[c] \in EnterTail \/ state'[instance[c]] # "RUNNING",
         l \in {"new"} \cup OpenPc => pc[c] \in {"new"} \cup OpenPc
  PROVE  QuietPc
  BY Zenon, CtxAssumption DEF IInv, TypeOK, QuietPc, GrantInv, Executing

\* A step that moves no worker is quiet.
LEMMA QuietSame ==
  ASSUME IInv, pc' = pc, next_seq' = next_seq PROVE QuietPc
  BY Zenon, CtxAssumption DEF IInv, TypeOK, QuietPc, GrantInv, Executing

\* A store of a state before RUNNING over whatever the group's state was, from a
\* worker or a closer that may have been delayed, preserves the invariant.
LEMMA Overwrite ==
  ASSUME IInv, TypeOK', QuietPc,
         NEW i \in Inst,
         NEW s \in {"OFFLINE", "IDLE", "INITIALIZING", "COLLECTING", "READY"},
         state' = [state EXCEPT ![i] = s],
         complete' = complete \/ complete' = [complete EXCEPT ![i] = {}],
         s \in {"COLLECTING", "READY"} =>
           complete'[i] = {} \/ state[i] = "COLLECTING",
         grant_id' = grant_id \/ grant_id' = [grant_id EXCEPT ![i] = 0],
         UNCHANGED <<owner, cpc, session, next_grant_id, active_seq,
                     active_grant_id, selected>>
  PROVE  IInv'
<1>0. /\ TypeOK /\ CoordInv /\ GrantInv /\ EngagedInv /\ SessionInv
      /\ CompleteInv /\ LastInv /\ GrantConsumedOnce
  BY Zenon DEF IInv
<1> USE CtxAssumption, <1>0
<1>a. /\ state'[i] = s
      /\ \A j \in Inst : j # i => /\ state'[j] = state[j]
                                 /\ complete'[j] = complete[j]
                                 /\ grant_id'[j] = grant_id[j]
      /\ complete'[i] = complete[i] \/ complete'[i] = {}
  BY DEF TypeOK
<1>b. \A c \in Ctx : /\ Engaged(c)' => Engaged(c)
                     /\ Got(c)' <=> Got(c)
  BY Zenon DEF QuietPc, Engaged, Got
<1>1. CoordInv'
  <2>1. owner \in Inst => state'[owner] = state[owner] \/ state'[owner] = s
    BY Zenon, <1>a
  <2>2. selected \in Inst =>
          state'[selected] = state[selected] \/ state'[selected] = s
    BY Zenon, <1>a
  <2>3. \A j \in Inst : state'[j] = "COMPLETE" => state[j] = "COMPLETE"
    BY Zenon, <1>a
  <2>4. owner \in Inst \cup {NoOwner} /\ selected \in Inst
    BY Zenon DEF TypeOK
  <2> QED BY Zenon, <2>1, <2>2, <2>3, <2>4 DEF CoordInv, QuietPc
<1>2. GrantInv'
  BY <1>a, <1>b DEF GrantInv, QuietPc
<1>3. EngagedInv'
  BY <1>a, <1>b DEF EngagedInv
<1>4. SessionInv'
  BY <1>a, <1>b DEF SessionInv, SameSlot, QuietPc
<1>5. CompleteInv'
  <2>1. \A j \in Inst :
          /\ state'[j] \in {"COLLECTING", "READY", "RUNNING"}
          /\ owner # j \/ cpc = "release"
          => complete'[j] = {}
    BY Zenon, <1>a DEF CompleteInv
  <2>2. \A c \in Ctx : Got(c) /\ ~Executing(c) => Got(c)' /\ ~Executing(c)'
    BY Zenon, <1>b DEF QuietPc
  <2>3. \A j \in Inst : \A k \in Rank :
          /\ owner = j
          /\ state'[j] \in {"RUNNING", "COMPLETE"}
          /\ k \in complete'[j]
          => \E d \in Ctx : /\ instance[d] = j /\ rank[d] = k
                            /\ Got(d)' /\ ~Executing(d)'
    BY <1>a, <2>2 DEF CompleteInv
  <2> QED BY <1>b, <2>1, <2>3 DEF CompleteInv
<1>6. LastInv'
  BY <1>a DEF LastInv, QuietPc
<1>7. GrantConsumedOnce'
  BY Zenon DEF GrantConsumedOnce
<1> QED BY Zenon, <1>1, <1>2, <1>3, <1>4, <1>5, <1>6, <1>7 DEF IInv

\* The actions that are quiet.
LEMMA QuietActions ==
  ASSUME IInv, NEW c \in Ctx,
         \/ OpenCheck(c) \/ RegisterOnline(c)
         \/ Match(c) \/ SetReady(c) \/ Await(c)
         \/ Fence(c) \/ Drain(c)
         \/ CloseCheck(c) \/ CloseOffline(c) \/ CloseLast(c) \/ Shutdown(c)
         \/ Engine(c) \/ Heartbeat(c) \/ Crash(c)
  PROVE  Quiet
<1> USE DEF Goto, Return, FailAndReturn, group, slots, coord, shared, local
<1>1. CASE OpenCheck(c)
  <2>1. QuietPc BY Zenon, <1>1, QuietGoto DEF OpenCheck, OpenPc, EnterPc, EnterTail
  <2> QED BY Zenon, <1>1, <2>1 DEF OpenCheck, Quiet
<1>2. CASE RegisterOnline(c)
  <2>1. QuietPc
    BY Zenon, <1>2, QuietGoto DEF RegisterOnline, OpenPc, EnterPc, EnterTail
  <2> QED BY Zenon, <1>2, <2>1 DEF RegisterOnline, Quiet
<1>3. CASE Match(c)
  <2>1. QuietPc BY Zenon, <1>3, QuietGoto DEF Match, OpenPc, EnterPc, EnterTail
  <2> QED BY Zenon, <1>3, <2>1 DEF Match, Quiet
<1>4. CASE SetReady(c)
  <2>1. QuietPc BY Zenon, <1>4, QuietGoto DEF SetReady, OpenPc, EnterPc, EnterTail
  <2> QED BY Zenon, <1>4, <2>1 DEF SetReady, Quiet
<1>5. CASE Await(c)
  <2>1. QuietPc BY SMTT(30), <1>5, QuietGoto DEF Await, OpenPc, EnterPc, EnterTail
  <2> QED BY Zenon, <1>5, <2>1 DEF Await, Quiet
<1>6. CASE Fence(c)
  <2>1. QuietPc
    BY Zenon, <1>6, QuietGoto DEF Fence, OpenPc, EnterPc, EnterTail, Executing
  <2> QED BY Zenon, <1>6, <2>1 DEF Fence, Quiet
<1>7. CASE Drain(c)
  <2>1. QuietPc BY Zenon, <1>7, QuietGoto DEF Drain, OpenPc, EnterPc, EnterTail
  <2> QED BY Zenon, <1>7, <2>1 DEF Drain, Quiet
<1>8. CASE CloseCheck(c) \/ CloseOffline(c) \/ CloseLast(c) \/ Shutdown(c)
  <2>1. QuietPc
    BY Zenon, <1>8, QuietSame DEF CloseCheck, CloseOffline, CloseLast, Shutdown
  <2> QED BY Zenon, <1>8, <2>1 DEF CloseCheck, CloseOffline, CloseLast, Shutdown, Quiet
<1>9. CASE EnterBegin(c)
  <2>1. /\ pc' = [pc EXCEPT ![c] = "claim"]
        /\ next_seq' = [next_seq EXCEPT ![c] = @ + 1]
        /\ active_seq[c] = 0
    BY Zenon, <1>9 DEF EnterBegin, MayEnter
  <2>2. \A d \in Ctx : pc'[d] = pc[d] \/ (d = c /\ pc'[d] = "claim")
    BY Zenon, <2>1 DEF IInv, TypeOK
  <2>3. next_seq'[c] # 0 /\ \A d \in Ctx : d # c => next_seq'[d] = next_seq[d]
    BY <2>1 DEF IInv, TypeOK
  <2>4. "claim" \notin EnterTail \cup {"new"} \cup OpenPc
    BY Zenon DEF EnterTail, OpenPc
  <2>5. QuietPc
    <3>1. \A d \in Ctx : pc'[d] \in EnterTail => pc[d] \in EnterTail
      BY Zenon, <2>2, <2>4
    <3>2. \A d \in Ctx : Executing(d)' => Executing(d)
      BY Zenon, <2>2 DEF Executing
    <3>3. \A d \in Ctx : pc'[d] = "complete" => pc[d] = "complete"
      BY Zenon, <2>2
    <3>4. \A d \in Ctx : pc'[d] \in EnterPc =>
            active_seq[d] = 0 /\ next_seq'[d] # 0
      BY Zenon, <2>1, <2>2, <2>3 DEF IInv, GrantInv
    <3>5. pc'[Creator] \in {"new"} \cup OpenPc =>
            pc[Creator] \in {"new"} \cup OpenPc
      BY Zenon, <2>2, <2>4, CtxAssumption
    <3> QED BY Zenon, <3>1, <3>2, <3>3, <3>4, <3>5 DEF QuietPc
  <2> QED BY Zenon, <1>9, <2>5 DEF EnterBegin, Quiet
<1>10. CASE EnterTwice(c)
  <2>1. QuietPc
    BY Zenon, <1>10 DEF EnterTwice, QuietPc, Executing, IInv, TypeOK, GrantInv
  <2> QED BY Zenon, <1>10, <2>1 DEF EnterTwice, Quiet
<1>11. CASE LeaveBegin(c)
  <2>1. QuietPc
    BY Zenon, <1>11, QuietGoto DEF LeaveBegin, OpenPc, EnterPc, EnterTail, Executing
  <2> QED BY Zenon, <1>11, <2>1 DEF LeaveBegin, Quiet
<1>12. CASE Abort(c)
  <2>1. QuietPc BY Zenon, <1>12, QuietGoto DEF Abort, OpenPc, EnterPc, EnterTail
  <2> QED BY Zenon, <1>12, <2>1 DEF Abort, Quiet
<1>13. CASE LeaveForeign(c) \/ CloseBegin(c) \/ Heartbeat(c)
  <2>1. QuietPc BY Zenon, <1>13, QuietSame DEF LeaveForeign, CloseBegin, Heartbeat
  <2> QED BY Zenon, <1>13, <2>1 DEF LeaveForeign, CloseBegin, Heartbeat, Quiet
<1>14. CASE Crash(c)
  <2>1. QuietPc BY Zenon, <1>14, QuietGoto DEF Crash, OpenPc, EnterPc, EnterTail
  <2> QED BY Zenon, <1>14, <2>1 DEF Crash, Quiet
<1> QED
  BY SMTT(30), <1>1, <1>2, <1>3, <1>4, <1>5, <1>6, <1>7, <1>8, <1>9, <1>10, <1>11, <1>12,
     <1>13, <1>14 DEF Engine

\* ps_open returns; the creator's also starts the coordinator.
LEMMA OpenedStep ==
  ASSUME IInv, TypeOK', NEW c \in Ctx, Opened(c) PROVE IInv'
<1>0. /\ TypeOK /\ CoordInv /\ GrantInv /\ EngagedInv /\ SessionInv
      /\ CompleteInv /\ LastInv /\ GrantConsumedOnce
  BY Zenon DEF IInv
<1> USE CtxAssumption, <1>0
<1> DEFINE i == instance[c]
<1>1. /\ pc[c] = "opened"
      /\ pc' = [pc EXCEPT ![c] = "idle"]
      /\ state' = [state EXCEPT ![i] = IF @ = "OFFLINE" THEN "IDLE" ELSE @]
      /\ cpc' = IF c = Creator THEN "tick" ELSE cpc
      /\ next_seq' = [next_seq EXCEPT ![c] = forward_seq[i]]
      /\ UNCHANGED <<owner, complete, grant_id, session, next_grant_id,
                     selected, active_seq, active_grant_id>>
  BY SMTT(30) DEF Opened, Goto, shared, slots
<1>2. /\ \A d \in Ctx : d # c => pc'[d] = pc[d] /\ next_seq'[d] = next_seq[d]
      /\ pc'[c] = "idle"
      /\ \A j \in Inst : \/ state'[j] = state[j]
                         \/ state[j] = "OFFLINE" /\ state'[j] = "IDLE"
      /\ cpc' = cpc \/ (cpc = "off" /\ cpc' = "tick")
      /\ c = Creator => cpc = "off"
  BY <1>1 DEF TypeOK, CoordInv, OpenPc
<1>3. \A d \in Ctx : /\ Executing(d)' <=> Executing(d)
                     /\ Engaged(d)' <=> Engaged(d)
                     /\ Got(d)' <=> Got(d)
  BY Zenon, <1>1, <1>2 DEF Engaged, Executing, Got
<1>4. /\ \A j \in Inst : state'[j] \notin {"IDLE"} => state'[j] = state[j]
      /\ cpc' = "release" <=> cpc = "release"
      /\ cpc' = "drain" <=> cpc = "drain"
  BY Zenon, <1>2
<1>11. CoordInv'
  <2>1. pc'[Creator] \in {"new"} \cup OpenPc => cpc' = "off"
    BY Zenon, <1>1, <1>2 DEF CoordInv, OpenPc
  <2> QED BY <1>1, <1>2, <2>1 DEF CoordInv
<1>12. GrantInv'
  <2>1. \A d \in Ctx : pc'[d] \in EnterPc =>
          active_seq'[d] = 0 /\ next_seq'[d] # 0
    BY <1>1, <1>2 DEF GrantInv, EnterPc
  <2>2. \A j \in Inst : owner' = j /\ state'[j] = "RUNNING" =>
          grant_id'[j] = next_grant_id'
    BY Zenon, <1>1, <1>4 DEF GrantInv
  <2> QED BY ZenonT(30), <1>1, <1>3, <2>1, <2>2 DEF GrantInv
<1>13. EngagedInv'
  BY <1>1, <1>2, <1>3 DEF EngagedInv
<1>14. SessionInv'
  BY <1>1, <1>2, <1>3 DEF SessionInv, EnterTail
<1>15. CompleteInv'
  <2>1. /\ \A j \in Inst :
             /\ state'[j] \in {"COLLECTING", "READY", "RUNNING"}
             /\ owner' # j \/ cpc' = "release"
             => complete'[j] = {}
    BY Zenon, <1>1, <1>4 DEF CompleteInv
  <2>2. \A j \in Inst : \A k \in Rank :
             /\ owner' = j
             /\ state'[j] \in {"RUNNING", "COMPLETE"}
             /\ k \in complete'[j]
             => \E d \in Ctx : /\ instance[d] = j /\ rank[d] = k
                               /\ Got(d)' /\ ~Executing(d)'
    <3> SUFFICES ASSUME NEW j \in Inst, NEW k \in Rank, owner = j,
                        state[j] \in {"RUNNING", "COMPLETE"},
                        k \in complete[j]
                 PROVE  \E d \in Ctx : /\ instance[d] = j /\ rank[d] = k
                                       /\ Got(d)' /\ ~Executing(d)'
      BY <1>1, <1>4
    <3>1. PICK d \in Ctx : /\ instance[d] = j /\ rank[d] = k
                           /\ Got(d) /\ ~Executing(d)
      BY DEF CompleteInv
    <3> QED BY Zenon, <1>3, <3>1
  <2>3. cpc' = "drain" =>
             \A k \in Rank : \E d \in Ctx : rank[d] = k /\ Got(d)'
    BY ZenonT(30), <1>3, <1>4 DEF CompleteInv
  <2> QED BY Zenon, <2>1, <2>2, <2>3 DEF CompleteInv
<1>16. LastInv'
  <2>1. \A d \in Ctx : pc'[d] = "complete" => d # c /\ pc[d] = "complete"
    BY Zenon, <1>2
  <2> QED BY <1>1, <1>4, <2>1 DEF LastInv
<1>17. GrantConsumedOnce'
  BY Zenon, <1>1 DEF GrantConsumedOnce
<1> QED BY Zenon, <1>11, <1>12, <1>13, <1>14, <1>15, <1>16, <1>17 DEF IInv

\* The actions that store a state before RUNNING.
LEMMA OverwriteActions ==
  ASSUME IInv, TypeOK', NEW c \in Ctx,
         \/ OpenFailure(c) \/ Claim(c) \/ InitRound(c) \/ PublishReady(c)
         \/ ResetRound(c) \/ StoreOffline(c)
  PROVE  IInv'
<1> USE CtxAssumption
<1> DEFINE i == instance[c]
<1>a. i \in Inst
  BY Zenon
<1>1. CASE OpenFailure(c)
  <2>1. /\ pc[c] = "opened"
        /\ pc' = [pc EXCEPT ![c] = "gone"]
        /\ state' = [state EXCEPT ![i] = IF @ = "OFFLINE" THEN "IDLE" ELSE @]
        /\ UNCHANGED <<owner, cpc, complete, grant_id, session, next_grant_id,
                       selected, active_seq, active_grant_id, next_seq>>
    BY Zenon, <1>1 DEF OpenFailure, Goto, shared, slots, coord
  <2>2. QuietPc
    BY Zenon, <2>1, QuietGoto DEF EnterPc, EnterTail, OpenPc
  <2>3. CASE state[i] = "OFFLINE"
    <3>1. state' = [state EXCEPT ![i] = "IDLE"]
      BY Zenon, <2>1, <2>3
    <3> QED BY Zenon, <2>1, <2>2, <3>1, Overwrite
  <2>4. CASE state[i] # "OFFLINE"
    <3>1. state' = state
      BY Zenon, <2>1, <2>4 DEF IInv, TypeOK
    <3> QED BY Zenon, <2>1, <2>2, <3>1, QuietStep DEF Quiet
  <2> QED BY Zenon, <2>3, <2>4
<1>2. CASE Claim(c)
  <2>1. /\ pc[c] = "claim"
        /\ UNCHANGED <<owner, cpc, complete, grant_id, session, next_grant_id,
                       selected, active_seq, active_grant_id, next_seq>>
    BY Zenon, <1>2 DEF Claim, slots, coord
  <2>2. CASE state[i] = "IDLE"
    <3>1. /\ state' = [state EXCEPT ![i] = "INITIALIZING"]
          /\ pc' = [pc EXCEPT ![c] = "init"]
      BY Zenon, <1>2, <2>2 DEF Claim, Goto
    <3>2. state'[i] # "RUNNING"
      BY Zenon, <3>1 DEF IInv, TypeOK
    <3>3. QuietPc
      BY Zenon, <2>1, <3>1, <3>2, QuietGoto DEF EnterPc, OpenPc
    <3> QED BY Zenon, <2>1, <3>1, <3>3, Overwrite
  <2>3. CASE state[i] # "IDLE"
    <3>1. /\ state' = state
          /\ \/ pc' = [pc EXCEPT ![c] = "match"] /\ state[i] = "COLLECTING"
             \/ pc' = [pc EXCEPT ![c] = "idle"]
      BY Zenon, <1>2, <2>3 DEF Claim, Goto, Return, FailAndReturn
    <3>2. QuietPc
      BY Zenon, <2>1, <3>1, QuietGoto DEF EnterPc, EnterTail, OpenPc
    <3> QED BY Zenon, <2>1, <3>1, <3>2, QuietStep DEF Quiet
  <2> QED BY Zenon, <2>2, <2>3
<1>3. CASE InitRound(c)
  <2>1. /\ pc[c] = "init"
        /\ pc' = [pc EXCEPT ![c] = "ready"]
        /\ state' = [state EXCEPT ![i] = "COLLECTING"]
        /\ complete' = [complete EXCEPT ![i] = {}]
        /\ grant_id' = [grant_id EXCEPT ![i] = 0]
        /\ UNCHANGED <<owner, cpc, session, next_grant_id,
                       selected, active_seq, active_grant_id, next_seq>>
    BY Zenon, <1>3 DEF InitRound, Goto, shared, coord
  <2>2. QuietPc
    BY Zenon, <2>1, QuietGoto DEF EnterPc, EnterTail, OpenPc
  <2>3. complete'[i] = {}
    BY Zenon, <2>1 DEF IInv, TypeOK
  <2> QED BY Zenon, <2>1, <2>2, <2>3, Overwrite
<1>4. CASE PublishReady(c)
  <2>1. /\ pc[c] = "publish"
        /\ UNCHANGED <<owner, cpc, complete, grant_id, session, next_grant_id,
                       selected, active_seq, active_grant_id, next_seq>>
        /\ \E l \in {"await", "idle"} : pc' = [pc EXCEPT ![c] = l]
        /\ \/ state' = state
           \/ /\ state[i] = "COLLECTING"
              /\ state' = [state EXCEPT ![i] = "READY"]
    BY Zenon, <1>4 DEF PublishReady, slots, coord, Goto, Return, FailAndReturn
  <2>2. QuietPc
    BY Zenon, <2>1, QuietGoto DEF EnterPc, EnterTail, OpenPc
  <2>3. CASE state' = state
    BY Zenon, <2>1, <2>2, <2>3, QuietStep DEF Quiet
  <2>4. CASE /\ state[i] = "COLLECTING"
             /\ state' = [state EXCEPT ![i] = "READY"]
    BY Zenon, <2>1, <2>2, <2>4, Overwrite
  <2> QED BY Zenon, <2>1, <2>3, <2>4
<1>5. CASE ResetRound(c)
  <2>1. /\ pc[c] = "reset"
        /\ pc' = [pc EXCEPT ![c] = "idle"]
        /\ state' = [state EXCEPT ![i] = "IDLE"]
        /\ complete' = [complete EXCEPT ![i] = {}]
        /\ grant_id' = [grant_id EXCEPT ![i] = 0]
        /\ UNCHANGED <<owner, cpc, session, next_grant_id,
                       selected, active_seq, active_grant_id, next_seq>>
    BY Zenon, <1>5 DEF ResetRound, Goto, Return, shared, slots, coord
  <2>2. QuietPc
    BY Zenon, <2>1, QuietGoto DEF EnterPc, EnterTail, OpenPc
  <2> QED BY Zenon, <2>1, <2>2, Overwrite
<1>6. CASE StoreOffline(c)
  <2>1. /\ state' = [state EXCEPT ![i] = "OFFLINE"]
        /\ UNCHANGED <<owner, cpc, complete, grant_id, session, next_grant_id,
                       selected, active_seq, active_grant_id, next_seq, pc>>
    BY Zenon, <1>6 DEF StoreOffline, shared, slots, coord
  <2>2. QuietPc
    BY Zenon, <2>1, QuietSame
  <2> QED BY Zenon, <2>1, <2>2, Overwrite
<1> QED BY Zenon, <1>1, <1>2, <1>3, <1>4, <1>5, <1>6
=============================================================================
