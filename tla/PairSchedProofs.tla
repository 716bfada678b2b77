-------------------------- MODULE PairSchedProofs ---------------------------
(***************************************************************************)
(* The invariant of PairSchedInv is inductive, for every set of contexts    *)
(* and ranks; from it follow type correctness, mutual exclusion of rounds,  *)
(* uniqueness of grants and the refinement of PairRounds.                   *)
(***************************************************************************)
EXTENDS PairSchedTypes

\* Abbreviations that every proof looks through.
USE DEF turns, round, closing, held, Everyone, AfterHeartbeat, NextGrant,
        CrossRound

-----------------------------------------------------------------------------
(***************************************************************************)
(* The steps of a worker that matter to the invariant: getting the grant,   *)
(* setting a COMPLETE bit and publishing COMPLETE.                          *)
(***************************************************************************)

\* A worker that passes the checks of ps_enter_forward starts to execute.
LEMMA StartStep ==
  ASSUME IInv, TypeOK', NEW c \in Ctx,
         pc[c] = "poll",
         state[instance[c]] = "RUNNING",
         owner = instance[c],
         grant_id[instance[c]] # 0,
         session[instance[c]][rank[c]] = c,
         pc' = [pc EXCEPT ![c] = "exec"],
         active_seq' = [active_seq EXCEPT ![c] = next_seq[c]],
         active_grant_id' =
           [active_grant_id EXCEPT ![c] = grant_id[instance[c]]],
         UNCHANGED <<owner, cpc, state, grant_id, complete, session,
                     next_grant_id, next_seq, selected>>
  PROVE  IInv'
<1>0. /\ TypeOK /\ CoordInv /\ GrantInv /\ EngagedInv /\ SessionInv
      /\ CompleteInv /\ LastInv /\ GrantConsumedOnce
  BY Zenon DEF IInv
<1> USE CtxAssumption, <1>0
<1>1. /\ \A d \in Ctx : d # c => pc'[d] = pc[d]
      /\ pc'[c] = "exec"
      /\ \A d \in Ctx : d # c => active_seq'[d] = active_seq[d]
      /\ active_seq'[c] = next_seq[c]
      /\ \A d \in Ctx : d # c => active_grant_id'[d] = active_grant_id[d]
      /\ active_grant_id'[c] = next_grant_id
  BY Zenon DEF TypeOK, GrantInv
<1>2. /\ next_seq[c] # 0
      /\ active_seq[c] = 0
      /\ active_grant_id[c] = 0
      /\ next_grant_id # 0
      /\ cpc \notin {"drain", "release"}
  BY Zenon DEF GrantInv, CoordInv, EnterPc
<1>3. \A d \in Ctx : d # c => (Got(d)' <=> Got(d))
  BY Zenon, <1>1 DEF Got
<1>4. Got(c)' /\ ~Got(c)
  BY Zenon, <1>1, <1>2 DEF Got
<1>5. \A d \in Ctx : Got(d) => instance[d] = instance[c] /\ rank[d] # rank[c]
  BY Zenon, <1>2, <1>4 DEF GrantInv, SessionInv, EnterTail, SameSlot
<1>11. CoordInv'
  BY Zenon, <1>1, <1>2 DEF CoordInv, OpenPc
<1>12. GrantInv'
  <2>1. \A d \in Ctx : active_grant_id'[d] <= next_grant_id
    BY <1>1 DEF GrantInv, TypeOK
  <2>2. \A d \in Ctx : active_seq'[d] = 0 => active_grant_id'[d] = 0
    BY <1>1, <1>2 DEF GrantInv
  <2>3. \A d \in Ctx : pc'[d] \in EnterPc =>
          active_seq'[d] = 0 /\ next_seq[d] # 0
    BY <1>1 DEF GrantInv, EnterPc
  <2>4. \A d \in Ctx : Got(d)' /\ owner \in Inst => instance[d] = owner
    BY Zenon, <1>3, <1>4 DEF GrantInv
  <2> QED BY Zenon, <2>1, <2>2, <2>3, <2>4 DEF GrantInv
<1>13. EngagedInv'
  BY <1>1, <1>2 DEF EngagedInv, Engaged, Executing
<1>14. SessionInv'
  <2> SUFFICES ASSUME NEW d \in Ctx, NEW e \in Ctx,
                      d # e, SameSlot(d, e), owner = instance[d],
                      state[instance[d]] = "RUNNING", Got(e)',
                      pc'[d] \in EnterTail
               PROVE  session[instance[d]][rank[d]] # d
    BY Zenon DEF SessionInv, SameSlot
  <2>1. CASE e = c
    BY Zenon, <2>1 DEF SameSlot
  <2>2. CASE e # c
    BY Zenon, <2>2, <1>1, <1>3 DEF SessionInv, EnterTail
  <2> QED BY Zenon, <2>1, <2>2
<1>15. CompleteInv'
  <2>1. \A d \in Ctx : Got(d) /\ ~Executing(d) => Got(d)' /\ ~Executing(d)'
    BY Zenon, <1>1, <1>3, <1>4 DEF Executing
  <2>2. \A d \in Ctx : Got(d) => Got(d)'
    BY Zenon, <1>3, <1>4
  <2>3. \A i \in Inst : \A k \in Rank :
          /\ owner = i
          /\ state[i] \in {"RUNNING", "COMPLETE"}
          /\ k \in complete[i]
          => \E d \in Ctx : /\ instance[d] = i /\ rank[d] = k
                            /\ Got(d)' /\ ~Executing(d)'
    BY <2>1 DEF CompleteInv
  <2>4. \A i \in Inst :
          /\ state[i] \in {"COLLECTING", "READY", "RUNNING"}
          /\ owner # i \/ cpc = "release"
          => complete[i] = {}
    BY Zenon DEF CompleteInv
  <2> QED BY <1>2, <2>3, <2>4 DEF CompleteInv
<1>16. LastInv'
  BY <1>1 DEF LastInv
<1>17. GrantConsumedOnce'
  <2> SUFFICES ASSUME NEW d \in Ctx, NEW e \in Ctx, d # e,
                      active_grant_id'[d] # 0,
                      active_grant_id'[d] = active_grant_id'[e]
               PROVE  instance[d] = instance[e] /\ rank[d] # rank[e]
    BY Zenon DEF GrantConsumedOnce
  <2>1. CASE d # c /\ e # c
    BY <2>1, <1>1 DEF GrantConsumedOnce
  <2>2. CASE d = c
    BY Zenon, <2>2, <1>1, <1>2, <1>5 DEF Got
  <2>3. CASE e = c
    BY Zenon, <2>3, <1>1, <1>2, <1>5 DEF Got
  <2> QED BY Zenon, <2>1, <2>2, <2>3
<1> QED BY Zenon, <1>11, <1>12, <1>13, <1>14, <1>15, <1>16, <1>17 DEF IInv

\* The second half of the wait for the grant.
LEMMA PollStep ==
  ASSUME IInv, TypeOK', NEW c \in Ctx, Poll(c) PROVE IInv'
<1> DEFINE granted == /\ state[instance[c]] = "RUNNING"
                      /\ owner = instance[c]
                      /\ forward_seq[instance[c]] = next_seq[c]
                      /\ grant_id[instance[c]] # 0
<1>1. CASE granted /\ ValidLocalWorker(c, next_seq[c])
  BY Zenon, <1>1, StartStep
     DEF Poll, ValidLocalWorker, Goto, group, slots, coord, FailAndReturn
<1>2. CASE ~(granted /\ ValidLocalWorker(c, next_seq[c]))
  <2>1. /\ pc[c] = "poll"
        /\ \E l \in {"idle", "await"} : pc' = [pc EXCEPT ![c] = l]
        /\ UNCHANGED <<owner, cpc, state, grant_id, complete, session,
                       next_grant_id, active_seq, active_grant_id, selected,
                       next_seq>>
    BY Zenon, <1>2 DEF Poll, Goto, Return, FailAndReturn, group, slots, coord
  <2>2. QuietPc
    BY Zenon, <2>1, QuietGoto DEF EnterPc, EnterTail, OpenPc
  <2> QED BY Zenon, <2>1, <2>2, QuietStep DEF Quiet
<1> QED BY Zenon, <1>1, <1>2

\* ps_leave_forward sets a COMPLETE bit.
LEMMA SetCompleteStep ==
  ASSUME IInv, TypeOK', NEW c \in Ctx, SetComplete(c) PROVE IInv'
<1>0. /\ TypeOK /\ CoordInv /\ GrantInv /\ EngagedInv /\ SessionInv
      /\ CompleteInv /\ LastInv /\ GrantConsumedOnce
  BY Zenon DEF IInv
<1> USE CtxAssumption, <1>0
<1>1. /\ pc[c] = "finish"
      /\ complete' = [complete EXCEPT ![instance[c]] = @ \cup {rank[c]}]
      /\ UNCHANGED <<owner, cpc, state, grant_id, session, next_grant_id,
                     active_seq, active_grant_id, selected, next_seq>>
  BY Zenon DEF SetComplete, slots, coord
<1>2. CASE rank[c] \in complete[instance[c]]
  <2>1. complete' = complete /\ pc' = [pc EXCEPT ![c] = "idle"]
    BY <1>1, <1>2 DEF TypeOK, SetComplete, FailAndReturn, Return, Goto
  <2>2. QuietPc
    BY Zenon, <1>1, <2>1, QuietGoto DEF EnterPc, EnterTail, OpenPc
  <2> QED BY Zenon, <1>1, <2>1, <2>2, QuietStep DEF Quiet
<1>3. CASE rank[c] \notin complete[instance[c]]
  <2>1. pc' = [pc EXCEPT ![c] =
                 IF complete'[instance[c]] = Rank THEN "complete" ELSE "drain"]
    BY Zenon, <1>1, <1>3 DEF SetComplete, FailAndReturn, Return, Goto
  <2>2. /\ \A d \in Ctx : d # c => pc'[d] = pc[d]
        /\ pc'[c] \in {"complete", "drain"}
        /\ pc'[c] = "complete" => complete'[instance[c]] = Rank
    BY Zenon, <2>1 DEF TypeOK
  <2>3. /\ \A i \in Inst : i # instance[c] => complete'[i] = complete[i]
        /\ complete'[instance[c]] = complete[instance[c]] \cup {rank[c]}
    BY Zenon, <1>1 DEF TypeOK
  <2>4. /\ owner = instance[c]
        /\ cpc \notin {"drain", "release"}
        /\ state[instance[c]] # "COMPLETE"
        /\ Got(c)
    BY Zenon, <1>1 DEF EngagedInv, Engaged, Executing, Got
  <2>5. \A d \in Ctx : pc[d] = "complete" /\ state[instance[d]] = "RUNNING" =>
          instance[d] # instance[c]
    BY Zenon, <1>3 DEF LastInv
  <2>6. \A d \in Ctx : Got(d)' <=> Got(d)
    BY Zenon, <1>1 DEF Got
  <2>11. CoordInv'
    BY Zenon, <1>1, <2>2 DEF CoordInv, OpenPc
  <2>12. GrantInv'
    BY Zenon, <1>1, <2>2, <2>6 DEF GrantInv, EnterPc
  <2>13. EngagedInv'
    BY Zenon, <1>1, <2>2, <2>4 DEF EngagedInv, Engaged, Executing
  <2>14. SessionInv'
    BY Zenon, <1>1, <2>2, <2>6 DEF SessionInv, EnterTail
  <2>15. CompleteInv'
    <3>1. \A d \in Ctx : Got(d) /\ ~Executing(d) => Got(d)' /\ ~Executing(d)'
      BY Zenon, <2>2, <2>6 DEF Executing
    <3>2. Got(c)' /\ ~Executing(c)'
      BY Zenon, <2>2, <2>4, <2>6 DEF Executing
    <3>3. \A i \in Inst : \A k \in Rank :
          /\ owner = i
          /\ state[i] \in {"RUNNING", "COMPLETE"}
          /\ k \in complete'[i]
          => \E d \in Ctx : /\ instance[d] = i /\ rank[d] = k
                            /\ Got(d)' /\ ~Executing(d)'
      <4> SUFFICES ASSUME NEW i \in Inst, NEW k \in Rank, owner = i,
                          state[i] \in {"RUNNING", "COMPLETE"},
                          k \in complete'[i]
                   PROVE  \E d \in Ctx : /\ instance[d] = i /\ rank[d] = k
                                         /\ Got(d)' /\ ~Executing(d)'
        BY Zenon
      <4>1. CASE k = rank[c]
        BY Zenon, <4>1, <2>4, <3>2
      <4>2. CASE k # rank[c]
        <5>1. k \in complete[i]
          BY Zenon, <4>2, <2>3, <2>4
        <5>2. PICK d \in Ctx : /\ instance[d] = i /\ rank[d] = k
                               /\ Got(d) /\ ~Executing(d)
          BY <5>1 DEF CompleteInv
        <5> QED BY Zenon, <5>2, <3>1
      <4> QED BY Zenon, <4>1, <4>2
    <3>4. \A i \in Inst :
          /\ state[i] \in {"COLLECTING", "READY", "RUNNING"}
          /\ owner # i \/ cpc = "release"
          => complete'[i] = {}
      BY Zenon, <2>3, <2>4 DEF CompleteInv
    <3> QED BY <1>1, <2>4, <3>3, <3>4 DEF CompleteInv
  <2>16. LastInv'
    <3>1. \A d \in Ctx : pc'[d] = "complete" /\ state[instance[d]] = "RUNNING"
            => d = c \/ (pc[d] = "complete" /\ instance[d] # instance[c])
      BY Zenon, <2>2, <2>5
    <3>2. \A d \in Ctx : pc'[d] = "complete" /\ state[instance[d]] = "RUNNING"
            => complete'[instance[d]] = Rank
      BY SMTT(30), <2>2, <2>3, <3>1 DEF LastInv
    <3>3. \A d, e \in Ctx :
            /\ pc'[d] = "complete" /\ pc'[e] = "complete"
            /\ instance[d] = instance[e]
            /\ state[instance[d]] = "RUNNING"
            => d = e
      BY Zenon, <3>1 DEF LastInv
    <3> QED BY Zenon, <1>1, <3>2, <3>3 DEF LastInv
  <2>17. GrantConsumedOnce'
    BY Zenon, <1>1 DEF GrantConsumedOnce
  <2> QED BY Zenon, <2>11, <2>12, <2>13, <2>14, <2>15, <2>16, <2>17 DEF IInv
<1> QED BY Zenon, <1>2, <1>3

\* ps_leave_forward publishes COMPLETE.
LEMMA PublishCompleteStep ==
  ASSUME IInv, TypeOK', NEW c \in Ctx, PublishComplete(c) PROVE IInv'
<1>0. /\ TypeOK /\ CoordInv /\ GrantInv /\ EngagedInv /\ SessionInv
      /\ CompleteInv /\ LastInv /\ GrantConsumedOnce
  BY Zenon DEF IInv
<1> USE CtxAssumption, <1>0
<1>1. /\ pc[c] = "complete"
      /\ UNCHANGED <<owner, cpc, complete, grant_id, session, next_grant_id,
                     active_seq, active_grant_id, selected, next_seq>>
  BY Zenon DEF PublishComplete, slots, coord
<1>2. CASE state[instance[c]] # "RUNNING"
  <2>1. state' = state /\ pc' = [pc EXCEPT ![c] = "idle"]
    BY Zenon, <1>2 DEF PublishComplete, FailAndReturn, Return, Goto
  <2>2. QuietPc
    BY Zenon, <1>1, <2>1, QuietGoto DEF EnterPc, EnterTail, OpenPc
  <2> QED BY Zenon, <1>1, <2>1, <2>2, QuietStep DEF Quiet
<1>3. CASE state[instance[c]] = "RUNNING"
  <2>1. /\ state' = [state EXCEPT ![instance[c]] = "COMPLETE"]
        /\ pc' = [pc EXCEPT ![c] = "drain"]
    BY Zenon, <1>3 DEF PublishComplete, Goto
  <2>2. /\ \A d \in Ctx : d # c => pc'[d] = pc[d]
        /\ pc'[c] = "drain"
        /\ \A i \in Inst : i # instance[c] => state'[i] = state[i]
        /\ state'[instance[c]] = "COMPLETE"
    BY Zenon, <2>1 DEF TypeOK
  <2>3. /\ owner = instance[c]
        /\ cpc \notin {"drain", "release"}
        /\ complete[instance[c]] = Rank
    BY Zenon, <1>1, <1>3 DEF EngagedInv, Engaged, LastInv
  <2>4. \A d \in Ctx : Got(d)' <=> Got(d)
    BY Zenon, <1>1 DEF Got
  <2>5. \A d \in Ctx : Engaged(d) /\ instance[d] = instance[c] => d = c
    <3> SUFFICES ASSUME NEW d \in Ctx, Engaged(d), instance[d] = instance[c],
                        d # c
                 PROVE  FALSE
      BY Zenon
    <3>1. Executing(d)
      BY Zenon, <1>1, <1>3 DEF LastInv, Engaged
    <3>2. PICK e \in Ctx : instance[e] = instance[d] /\ rank[e] = rank[d]
                           /\ Got(e) /\ ~Executing(e)
      BY <2>3, <1>3 DEF CompleteInv
    <3>3. Got(d)
      BY Zenon DEF EngagedInv, Got
    <3> QED BY Zenon, <3>1, <3>2, <3>3 DEF GrantConsumedOnce, Got
  <2>6. \A d \in Ctx : Engaged(d)' => Engaged(d) /\ instance[d] # instance[c]
    <3>1. \A d \in Ctx : Engaged(d)' => Engaged(d) /\ d # c
      BY Zenon, <2>2 DEF Engaged, Executing
    <3> QED BY Zenon, <3>1, <2>5
  <2>11. CoordInv'
    <3>1. /\ owner \in Inst
          /\ state'[owner] = "COMPLETE"
          /\ \A i \in Inst : i # owner => state'[i] = state[i]
      BY Zenon, <2>2, <2>3
    <3>2. pc'[Creator] \in {"new"} \cup OpenPc => cpc = "off"
      BY Zenon, <2>2 DEF CoordInv, OpenPc
    <3>3. cpc # "grant"
      BY <3>1 DEF CoordInv, NoOwner, Inst
    <3> QED BY Zenon, <1>1, <2>3, <3>1, <3>2, <3>3 DEF CoordInv
  <2>12. GrantInv'
    BY Zenon, <1>1, <2>2, <2>4 DEF GrantInv, EnterPc
  <2>13. EngagedInv'
    BY Zenon, <1>1, <2>2, <2>3, <2>6 DEF EngagedInv
  <2>14. SessionInv'
    BY <1>1, <2>2, <2>4 DEF SessionInv, EnterTail
  <2>15. CompleteInv'
    <3>1. \A d \in Ctx : Got(d) /\ ~Executing(d) => Got(d)' /\ ~Executing(d)'
      BY Zenon, <2>2, <2>4 DEF Executing
    <3>3. \A i \in Inst : \A k \in Rank :
          /\ owner = i
          /\ state'[i] \in {"RUNNING", "COMPLETE"}
          /\ k \in complete[i]
          => \E d \in Ctx : /\ instance[d] = i /\ rank[d] = k
                            /\ Got(d)' /\ ~Executing(d)'
      <4> SUFFICES ASSUME NEW i \in Inst, NEW k \in Rank, owner = i,
                          k \in complete[i]
                   PROVE  \E d \in Ctx : /\ instance[d] = i /\ rank[d] = k
                                         /\ Got(d)' /\ ~Executing(d)'
        BY Zenon
      <4>1. state[i] = "RUNNING"
        BY Zenon, <1>3, <2>3
      <4>2. PICK d \in Ctx : /\ instance[d] = i /\ rank[d] = k
                             /\ Got(d) /\ ~Executing(d)
        BY <4>1 DEF CompleteInv
      <4> QED BY Zenon, <4>2, <3>1
    <3>4. \A i \in Inst :
          /\ state'[i] \in {"COLLECTING", "READY", "RUNNING"}
          /\ owner # i \/ cpc = "release"
          => complete[i] = {}
      BY Zenon, <2>2 DEF CompleteInv
    <3> QED BY <1>1, <2>3, <3>3, <3>4 DEF CompleteInv
  <2>16. LastInv'
    <3>1. \A d \in Ctx : pc'[d] = "complete" /\ state'[instance[d]] = "RUNNING"
            => pc[d] = "complete" /\ state[instance[d]] = "RUNNING"
      BY Zenon, <2>2
    <3> QED BY Zenon, <1>1, <3>1 DEF LastInv
  <2>17. GrantConsumedOnce'
    BY Zenon, <1>1 DEF GrantConsumedOnce
  <2> QED BY Zenon, <2>11, <2>12, <2>13, <2>14, <2>15, <2>16, <2>17 DEF IInv
<1> QED BY Zenon, <1>2, <1>3

-----------------------------------------------------------------------------
(***************************************************************************)
(* A worker that lets go: the EXIT half of ps_leave_forward, and a slot     *)
(* that changes hands when register_worker takes it and ps_close frees it.  *)
(***************************************************************************)

\* ps_leave_forward sets an EXIT bit and drops the round.
LEMMA ExitStep ==
  ASSUME IInv, TypeOK', NEW c \in Ctx, Exit(c) PROVE IInv'
<1>0. /\ TypeOK /\ CoordInv /\ GrantInv /\ EngagedInv /\ SessionInv
      /\ CompleteInv /\ LastInv /\ GrantConsumedOnce
  BY Zenon DEF IInv
<1> USE CtxAssumption, <1>0
<1>1. /\ pc[c] = "exit"
      /\ UNCHANGED <<owner, cpc, state, complete, grant_id, session,
                     next_grant_id, selected, next_seq>>
      /\ \E l \in {"idle", "reset", "drain"} : pc' = [pc EXCEPT ![c] = l]
  BY Zenon DEF Exit, slots, coord, Goto, Return, FailAndReturn
<1>2. QuietPc
  BY Zenon, <1>1, QuietGoto DEF EnterPc, EnterTail, OpenPc
<1>3. CASE ~(state[instance[c]] = "DRAINING"
             /\ forward_seq[instance[c]] = active_seq[c])
  <2>1. UNCHANGED <<active_seq, active_grant_id>>
    BY Zenon, <1>3 DEF Exit
  <2> QED BY Zenon, <1>1, <1>2, <2>1, QuietStep DEF Quiet
<1>4. CASE /\ state[instance[c]] = "DRAINING"
           /\ forward_seq[instance[c]] = active_seq[c]
  <2>1. /\ active_seq' = [active_seq EXCEPT ![c] = 0]
        /\ active_grant_id' = [active_grant_id EXCEPT ![c] = 0]
    BY Zenon, <1>4 DEF Exit
  <2>2. /\ \A d \in Ctx : d # c => /\ active_seq'[d] = active_seq[d]
                                   /\ active_grant_id'[d] = active_grant_id[d]
        /\ active_seq'[c] = 0
        /\ active_grant_id'[c] = 0
    BY Zenon, <2>1 DEF TypeOK
  <2>3. \A d \in Ctx : Got(d)' => Got(d)
    BY ZenonT(30), <1>1, <2>2 DEF Got
  <2>4. \A d \in Ctx :
          Got(d) /\ owner \in Inst /\ cpc # "release" => Got(d)' /\ d # c
    <3>1. Got(c) /\ owner \in Inst => cpc = "release"
      BY ZenonT(30), <1>4 DEF GrantInv, CoordInv
    <3> QED BY ZenonT(30), <1>1, <2>2, <3>1 DEF Got
  <2>5. ~Engaged(c) /\ \A d \in Ctx : Engaged(d)' => Engaged(d) /\ d # c
    BY Zenon, <1>1 DEF TypeOK, Engaged, Executing
  <2>11. CoordInv'
    BY ZenonT(30), <1>1, <1>2 DEF CoordInv, QuietPc
  <2>12. GrantInv'
    <3>1. \A d \in Ctx : active_grant_id'[d] <= next_grant_id
      <4> SUFFICES ASSUME NEW d \in Ctx
                   PROVE  active_grant_id'[d] <= next_grant_id
        BY Zenon
      <4>1. CASE d = c
        BY <4>1, <2>2 DEF TypeOK
      <4>2. CASE d # c
        BY ZenonT(30), <4>2, <2>2 DEF GrantInv
      <4> QED BY Zenon, <4>1, <4>2
    <3>2. \A d \in Ctx : active_seq'[d] = 0 => active_grant_id'[d] = 0
      BY SMTT(30), <2>2 DEF GrantInv
    <3>3. \A d \in Ctx : pc'[d] \in EnterPc =>
            active_seq'[d] = 0 /\ next_seq'[d] # 0
      BY ZenonT(30), <1>2, <2>2 DEF QuietPc
    <3> QED BY ZenonT(30), <1>1, <2>3, <3>1, <3>2, <3>3 DEF GrantInv
  <2>13. EngagedInv'
    BY SMTT(30), <1>1, <2>2, <2>5 DEF EngagedInv
  <2>14. SessionInv'
    BY SMTT(30), <1>1, <1>2, <2>3 DEF SessionInv, QuietPc, SameSlot
  <2>15. CompleteInv'
    <3>1. \A i \in Inst : \A k \in Rank :
          /\ owner = i
          /\ state[i] \in {"RUNNING", "COMPLETE"}
          /\ k \in complete[i]
          => \E d \in Ctx : /\ instance[d] = i /\ rank[d] = k
                            /\ Got(d)' /\ ~Executing(d)'
      <4> SUFFICES ASSUME NEW i \in Inst, NEW k \in Rank, owner = i,
                          state[i] \in {"RUNNING", "COMPLETE"},
                          k \in complete[i]
                   PROVE  \E d \in Ctx : /\ instance[d] = i /\ rank[d] = k
                                         /\ Got(d)' /\ ~Executing(d)'
        OBVIOUS
      <4>1. PICK d \in Ctx : /\ instance[d] = i /\ rank[d] = k
                             /\ Got(d) /\ ~Executing(d)
        BY DEF CompleteInv
      <4>2. d # c
        BY Zenon, <1>4, <4>1
      <4> QED BY Zenon, <1>1, <1>2, <2>2, <4>1, <4>2 DEF QuietPc, Got
    <3>2. cpc = "drain" => \A k \in Rank : \E d \in Ctx : rank[d] = k /\ Got(d)'
      BY Zenon, <2>4 DEF CompleteInv, CoordInv
    <3> QED BY <1>1, <3>1, <3>2 DEF CompleteInv
  <2>16. LastInv'
    BY Zenon, <1>1, <1>2 DEF LastInv, QuietPc
  <2>17. GrantConsumedOnce'
    <3> SUFFICES ASSUME NEW d \in Ctx, NEW e \in Ctx, d # e,
                        active_grant_id'[d] # 0,
                        active_grant_id'[d] = active_grant_id'[e]
                 PROVE  instance[d] = instance[e] /\ rank[d] # rank[e]
      BY Zenon DEF GrantConsumedOnce
    <3>1. d # c /\ e # c
      BY Zenon, <2>2
    <3> QED BY <2>2, <3>1 DEF GrantConsumedOnce
  <2> QED BY Zenon, <2>11, <2>12, <2>13, <2>14, <2>15, <2>16, <2>17 DEF IInv
<1> QED BY Zenon, <1>3, <1>4

\* register_worker takes a slot, ps_close frees one: a slot changes hands.
LEMMA SlotStep ==
  ASSUME IInv, TypeOK', NEW c \in Ctx, RegisterSlot(c) \/ CloseSlot(c)
  PROVE  IInv'
<1>0. /\ TypeOK /\ CoordInv /\ GrantInv /\ EngagedInv /\ SessionInv
      /\ CompleteInv /\ LastInv /\ GrantConsumedOnce
  BY Zenon DEF IInv
<1> USE CtxAssumption, <1>0
<1>1. UNCHANGED <<owner, cpc, state, complete, grant_id, next_grant_id,
                  selected, next_seq, active_seq, active_grant_id>>
  BY Zenon DEF RegisterSlot, CloseSlot, group, shared, coord
<1>2. QuietPc
  <2>1. CASE RegisterSlot(c)
    BY Zenon, <2>1, QuietGoto DEF RegisterSlot, Goto, EnterPc, EnterTail, OpenPc
  <2>2. CASE CloseSlot(c)
    BY SMTT(30), <2>2, QuietSame DEF CloseSlot
  <2> QED BY Zenon, <2>1, <2>2
<1>3. \A d \in Ctx : pc'[d] \in EnterTail =>
        \/ session'[instance[d]][rank[d]] = session[instance[d]][rank[d]]
        \/ session'[instance[d]][rank[d]] # d
  <2>1. CASE RegisterSlot(c)
    <3>1. /\ session' = [session EXCEPT ![instance[c]][rank[c]] = c]
          /\ pc' = [pc EXCEPT ![c] = "online"]
      BY Zenon, <2>1 DEF RegisterSlot, Goto
    <3>2. pc'[c] \notin EnterTail
      BY ZenonT(30), <3>1 DEF TypeOK, EnterTail
    <3> QED BY Zenon, <3>1, <3>2 DEF TypeOK
  <2>2. CASE CloseSlot(c)
    <3>1. session' = [session EXCEPT ![instance[c]][rank[c]] = NoSession]
      BY Zenon, <2>2 DEF CloseSlot
    <3> QED BY Zenon, <3>1 DEF TypeOK
  <2> QED BY Zenon, <2>1, <2>2
<1>11. CoordInv' /\ LastInv' /\ GrantConsumedOnce'
  BY Zenon, <1>1, <1>2 DEF CoordInv, LastInv, GrantConsumedOnce, QuietPc
<1>12. GrantInv'
  BY ZenonT(30), <1>1, <1>2 DEF GrantInv, Got, QuietPc
<1>13. EngagedInv'
  BY Zenon, <1>1, <1>2 DEF EngagedInv, Engaged, QuietPc
<1>4. \A d \in Ctx : /\ Got(d)' <=> Got(d)
                     /\ Executing(d)' => Executing(d)
  BY Zenon, <1>1, <1>2 DEF Got, QuietPc
<1>14. SessionInv'
  <2> SUFFICES ASSUME NEW d \in Ctx, NEW e \in Ctx, d # e, SameSlot(d, e),
                      owner = instance[d], state[instance[d]] = "RUNNING",
                      Got(e), pc'[d] \in EnterTail
               PROVE  session'[instance[d]][rank[d]] # d
    BY Zenon, <1>1, <1>4 DEF SessionInv, SameSlot
  <2>1. pc[d] \in EnterTail
    BY Zenon, <1>1, <1>2 DEF QuietPc
  <2>2. session[instance[d]][rank[d]] # d
    BY ZenonT(30), <2>1 DEF SessionInv
  <2> QED BY Zenon, <1>3, <2>2
<1>15. CompleteInv'
  BY <1>1, <1>4 DEF CompleteInv
<1> QED BY Zenon, <1>11, <1>12, <1>13, <1>14, <1>15 DEF IInv

-----------------------------------------------------------------------------
(***************************************************************************)
(* The coordinator, the whole step and the theorems.                        *)
(***************************************************************************)

\* Every step of the coordinator.
LEMMA CoordStep ==
  ASSUME IInv, TypeOK', Coordinator PROVE IInv'
<1>0. /\ TypeOK /\ CoordInv /\ GrantInv /\ EngagedInv /\ SessionInv
      /\ CompleteInv /\ LastInv /\ GrantConsumedOnce
  BY SMTT(30) DEF IInv
<1> USE CtxAssumption, <1>0
<1>a. /\ UNCHANGED <<pc, next_seq, active_seq, active_grant_id, complete,
                     session>>
      /\ CoordAt(cpc)
      /\ cpc # "off"
      /\ pc[Creator] \notin {"new"} \cup OpenPc
  BY ZenonT(30) DEF Coordinator, Tick, CoordStop, Recycle, StartDraining, ReleaseOwner,
     Recheck, Scan, Select, Grant, CoordAt, local, group, slots, CoordInv
<1>b. \A c \in Ctx : /\ Executing(c)' <=> Executing(c)
                     /\ Engaged(c)' <=> Engaged(c)
  BY Zenon, <1>a DEF Executing, Engaged
<1>c. GrantConsumedOnce'
  BY Zenon, <1>a DEF GrantConsumedOnce
<1>1. ASSUME UNCHANGED <<owner, state, grant_id, next_grant_id>>,
             \/ cpc' \in {"tick", "stopped"} /\ cpc # "release"
             \/ cpc' = "recycle" /\ owner \in Inst /\ cpc # "release"
             \/ /\ cpc' \in {"scan0", "scan1", "select"}
                /\ owner = NoOwner
             \/ /\ cpc' = "drain"
                /\ cpc # "release"
                /\ owner \in Inst
                /\ state[owner] = "COMPLETE"
                /\ complete[owner] = Rank
      PROVE  IInv'
  <2>1. \A c \in Ctx : Got(c)' <=> Got(c)
    BY Zenon, <1>1, <1>a DEF Got
  <2>11. CoordInv'
    BY <1>1, <1>a DEF CoordInv, Inst, NoOwner
  <2>12. GrantInv'
    BY Zenon, <1>1, <1>a, <2>1 DEF GrantInv
  <2>13. EngagedInv'
    BY Zenon, <1>1, <1>a, <1>b DEF EngagedInv
  <2>14. SessionInv'
    BY Zenon, <1>1, <1>a, <2>1 DEF SessionInv
  <2>15. CompleteInv'
    <3>1. \A i \in Inst :
            /\ state[i] \in {"COLLECTING", "READY", "RUNNING"}
            /\ owner # i \/ cpc' = "release"
            => complete[i] = {}
      BY Zenon, <1>1 DEF CompleteInv
    <3>2. cpc' = "drain" =>
            \A k \in Rank : \E d \in Ctx : rank[d] = k /\ Got(d)
      BY <1>1 DEF CompleteInv
    <3> QED BY <1>1, <1>a, <1>b, <2>1, <3>1, <3>2 DEF CompleteInv
  <2>16. LastInv'
    BY Zenon, <1>1, <1>a DEF LastInv
  <2> QED BY Zenon, <1>c, <2>11, <2>12, <2>13, <2>14, <2>15, <2>16 DEF IInv
<1>2. CASE Tick
  BY Zenon, <1>2, <1>1 DEF Tick, CoordAt, group, TypeOK
<1>3. CASE CoordStop
  BY Zenon, <1>3, <1>1 DEF CoordStop, CoordAt, group, shared
<1>4. CASE Recycle
  BY Zenon, <1>4, <1>1 DEF Recycle, CoordAt, group, CoordInv
<1>5. CASE Recheck
  BY Zenon, <1>5, <1>1 DEF Recheck, CoordAt, group, shared
<1>6. ASSUME NEW i \in Inst, Scan(i) PROVE IInv'
  BY Zenon, <1>6, <1>1 DEF Scan, CoordAt, group, CoordInv
<1>7. CASE StartDraining
  <2>1. /\ cpc = "drain" /\ cpc' = "release" /\ owner \in Inst
        /\ state' = [state EXCEPT ![owner] = "DRAINING"]
        /\ UNCHANGED <<owner, grant_id, next_grant_id, selected>>
    BY Zenon, <1>7 DEF StartDraining, CoordAt, shared, CoordInv
  <2>2. /\ \A i \in Inst : i # owner => state'[i] = state[i]
        /\ state'[owner] = "DRAINING"
        /\ \A c \in Ctx : ~Engaged(c)
        /\ \A c \in Ctx : Got(c)' <=> Got(c)
    BY Zenon, <2>1, <1>a DEF EngagedInv, Got, TypeOK
  <2>11. CoordInv'
    BY Zenon, <2>1, <2>2, <1>a DEF CoordInv, Inst, NoOwner
  <2>12. GrantInv'
    BY Zenon, <2>1, <2>2, <1>a DEF GrantInv
  <2>13. EngagedInv'
    BY Zenon, <2>2, <1>b DEF EngagedInv
  <2>14. SessionInv'
    BY Zenon, <2>1, <2>2, <1>a DEF SessionInv
  <2>15. CompleteInv'
    BY Zenon, <2>1, <2>2, <1>a, <1>b DEF CompleteInv
  <2>16. LastInv'
    BY Zenon, <2>1, <2>2, <1>a DEF LastInv
  <2> QED BY Zenon, <1>c, <2>11, <2>12, <2>13, <2>14, <2>15, <2>16 DEF IInv
<1>8. CASE ReleaseOwner
  <2>1. /\ cpc = "release" /\ cpc' = "recheck" /\ owner \in Inst
        /\ owner' = NoOwner
        /\ UNCHANGED <<state, grant_id, next_grant_id, selected>>
    BY Zenon, <1>8 DEF ReleaseOwner, CoordAt, group, CoordInv
  <2>2. /\ \A c \in Ctx : ~Engaged(c)
        /\ \A c \in Ctx : Got(c)' <=> Got(c)
    BY Zenon, <2>1, <1>a DEF EngagedInv, Got, TypeOK
  <2>3. NoOwner \notin Inst
    BY DEF NoOwner, Inst
  <2>11. CoordInv'
    BY Zenon, <2>1, <2>3, <1>a DEF CoordInv
  <2>12. GrantInv'
    BY Zenon, <2>1, <2>2, <2>3, <1>a DEF GrantInv
  <2>13. EngagedInv'
    BY Zenon, <2>2, <1>b DEF EngagedInv
  <2>14. SessionInv'
    BY <2>1, <2>3, <1>a DEF SessionInv
  <2>15. CompleteInv'
    BY <2>1, <2>3, <1>a DEF CompleteInv
  <2>16. LastInv'
    BY Zenon, <2>1, <1>a DEF LastInv
  <2> QED BY Zenon, <1>c, <2>11, <2>12, <2>13, <2>14, <2>15, <2>16 DEF IInv
<1>9. CASE Select
  <2>1. /\ cpc = "select" /\ owner = NoOwner
        /\ UNCHANGED <<owner, grant_id, next_grant_id>>
        /\ selected' \in Inst
        /\ \/ cpc' = "tick" /\ state' = state
           \/ /\ cpc' = "grant"
              /\ state[selected'] = "READY"
              /\ state' = [state EXCEPT ![selected'] = "RUNNING"]
    BY Zenon, <1>9 DEF Select, CoordAt, shared, CoordInv, TypeOK
  <2>2. /\ \A i \in Inst : \/ state'[i] = state[i]
                           \/ state[i] = "READY" /\ state'[i] = "RUNNING"
        /\ cpc' = "grant" => state'[selected'] = "RUNNING"
        /\ \A c \in Ctx : Got(c)' <=> Got(c)
    BY Zenon, <2>1, <1>a DEF Got, TypeOK
  <2>3. NoOwner \notin Inst
    BY DEF NoOwner, Inst
  <2>4. \A c \in Ctx : ~Engaged(c)
    BY <2>1, <2>3 DEF EngagedInv
  <2>11. CoordInv'
    BY Zenon, <2>1, <2>2, <2>3, <1>a DEF CoordInv
  <2>12. GrantInv'
    BY Zenon, <2>1, <2>2, <2>3, <1>a DEF GrantInv
  <2>13. EngagedInv'
    BY Zenon, <2>4, <1>b DEF EngagedInv
  <2>14. SessionInv'
    BY <2>1, <2>3, <1>a DEF SessionInv
  <2>15. CompleteInv'
    <3>1. \A i \in Inst : state'[i] \in {"COLLECTING", "READY", "RUNNING"} =>
            complete[i] = {}
      BY Zenon, <2>1, <2>2, <2>3 DEF CompleteInv
    <3> QED BY Zenon, <2>1, <2>3, <3>1, <1>a DEF CompleteInv
  <2>16. LastInv'
    BY Zenon, <2>4, <1>a DEF LastInv, Engaged
  <2> QED BY Zenon, <1>c, <2>11, <2>12, <2>13, <2>14, <2>15, <2>16 DEF IInv
<1>10. CASE Grant
  <2>1. /\ cpc = "grant" /\ cpc' = "tick" /\ owner = NoOwner
        /\ owner' = selected
        /\ next_grant_id' = next_grant_id + 1
        /\ grant_id' = [grant_id EXCEPT ![selected] = next_grant_id + 1]
        /\ UNCHANGED <<state, selected>>
        /\ state[selected] \notin {"DRAINING", "COMPLETE"}
    BY <1>10 DEF Grant, CoordAt, CoordInv, NoOwner, Inst, TypeOK
  <2>2. NoOwner \notin Inst
    BY DEF NoOwner, Inst
  <2>3. /\ \A c \in Ctx : ~Engaged(c)
        /\ \A c \in Ctx : ~Got(c)'
        /\ \A c \in Ctx : active_grant_id[c] <= next_grant_id + 1
    BY <2>1, <2>2, <1>a DEF EngagedInv, Got, GrantInv, TypeOK
  <2>4. /\ next_grant_id' # 0
        /\ grant_id'[selected] = next_grant_id'
    BY <2>1 DEF TypeOK
  <2>11. CoordInv'
    BY Zenon, <2>1, <2>2, <1>a DEF CoordInv
  <2>12. GrantInv'
    <3>1. \A i \in Inst : owner' = i => grant_id'[i] = next_grant_id'
      BY Zenon, <2>1, <2>4
    <3>2. \A c \in Ctx : active_grant_id'[c] <= next_grant_id'
      BY Zenon, <2>1, <2>3, <1>a
    <3> QED BY Zenon, <2>3, <2>4, <3>1, <3>2, <1>a DEF GrantInv
  <2>13. EngagedInv'
    BY Zenon, <2>3, <1>b DEF EngagedInv
  <2>14. SessionInv'
    BY Zenon, <2>3 DEF SessionInv
  <2>15. CompleteInv'
    <3>1. \A i \in Inst : state[i] \in {"COLLECTING", "READY", "RUNNING"} =>
            complete[i] = {}
      BY Zenon, <2>1, <2>2 DEF CompleteInv
    <3>2. \A i \in Inst : owner' = i => state[i] # "COMPLETE"
      BY Zenon, <2>1
    <3> QED BY Zenon, <2>1, <3>1, <3>2, <1>a DEF CompleteInv
  <2>16. LastInv'
    BY Zenon, <2>1, <1>a DEF LastInv
  <2> QED BY Zenon, <1>c, <2>11, <2>12, <2>13, <2>14, <2>15, <2>16 DEF IInv
<1> QED
  BY Zenon, <1>2, <1>3, <1>4, <1>5, <1>6, <1>7, <1>8, <1>9, <1>10 DEF Coordinator, Inst

\* A new segment satisfies the invariant.
LEMMA IInvInit == Init => IInv
<1> SUFFICES ASSUME Init PROVE IInv
  BY Zenon
<1>1. TypeOK
  BY Zenon, TypeInit
<1>2. /\ owner = NoOwner
      /\ \A i \in Inst : state[i] = "OFFLINE"
      /\ next_grant_id = 0
      /\ \A c \in Ctx : /\ pc[c] = "new"
                        /\ active_seq[c] = 0
                        /\ active_grant_id[c] = 0
      /\ cpc = "off"
      /\ NoOwner \notin Inst
  BY CtxAssumption DEF Init, NoOwner, Inst
<1>3. CoordInv
  BY Zenon, <1>1, <1>2 DEF CoordInv, TypeOK
<1>4. GrantInv /\ SessionInv
  BY <1>2 DEF GrantInv, SessionInv, EnterPc, EnterTail, Got
<1>5. EngagedInv /\ LastInv /\ GrantConsumedOnce
  BY Zenon, <1>2 DEF EngagedInv, LastInv, GrantConsumedOnce, Engaged, Executing
<1>6. CompleteInv
  BY Zenon, <1>2 DEF CompleteInv
<1> QED BY Zenon, <1>1, <1>3, <1>4, <1>5, <1>6 DEF IInv

\* The invariant is inductive: one case per action of Next.
LEMMA IInvNext == IInv /\ [Next]_vars => IInv'
<1> SUFFICES ASSUME IInv, [Next]_vars PROVE IInv'
  BY Zenon
<1>0. TypeOK'
  BY Zenon, TypeNext DEF IInv
<1>1. ASSUME pc' = pc, next_seq' = next_seq,
             UNCHANGED <<owner, cpc, state, grant_id, complete, session,
                         next_grant_id, active_seq, active_grant_id, selected>>
      PROVE  IInv'
  BY Zenon, <1>0, <1>1, QuietSame, QuietStep DEF Quiet
<1>2. CASE UNCHANGED vars
  BY Zenon, <1>1, <1>2 DEF vars, shared, group, slots, local, coord
<1>3. ASSUME NEW c \in Ctx,
             \/ OpenSteps(c) \/ EnterSteps(c) \/ LeaveSteps(c) \/ CloseSteps(c)
             \/ Engine(c) \/ Heartbeat(c) \/ Crash(c)
      PROVE  IInv'
  <2>1. CASE \/ OpenCheck(c) \/ RegisterOnline(c)
             \/ Match(c) \/ SetReady(c) \/ Await(c)
             \/ Fence(c) \/ Drain(c)
             \/ CloseCheck(c) \/ CloseOffline(c) \/ CloseLast(c) \/ Shutdown(c)
             \/ Engine(c) \/ Heartbeat(c) \/ Crash(c)
    BY Zenon, <1>0, <2>1, QuietActions, QuietStep
  <2>2. CASE RegisterSlot(c) \/ CloseSlot(c)
    BY Zenon, <1>0, <2>2, SlotStep
  <2>3. CASE \/ OpenFailure(c) \/ Claim(c) \/ InitRound(c) \/ PublishReady(c)
             \/ ResetRound(c) \/ StoreOffline(c)
    BY Zenon, <1>0, <2>3, OverwriteActions
  <2>4. CASE Opened(c) BY Zenon, <1>0, <2>4, OpenedStep
  <2>5. CASE Poll(c) BY Zenon, <1>0, <2>5, PollStep
  <2>6. CASE SetComplete(c) BY Zenon, <1>0, <2>6, SetCompleteStep
  <2>7. CASE PublishComplete(c) BY Zenon, <1>0, <2>7, PublishCompleteStep
  <2>8. CASE Exit(c) BY Zenon, <1>0, <2>8, ExitStep
  <2> QED
    BY Zenon, <1>3, <2>1, <2>2, <2>3, <2>4, <2>5, <2>6, <2>7, <2>8
       DEF OpenSteps, EnterSteps, LeaveSteps, CloseSteps
<1>4. CASE Coordinator
  BY Zenon, <1>0, <1>4, CoordStep
<1>5. ASSUME NEW i \in Inst, NEW k \in Rank, HeartbeatExpires(i, k)
      PROVE  IInv'
  BY Zenon, <1>1, <1>5 DEF HeartbeatExpires, shared, group, local, coord
<1>6. CASE PrimaryExpires \/ DeadlinePasses
  BY Zenon, <1>1, <1>6 DEF PrimaryExpires, DeadlinePasses, group, slots, local, coord
<1>7. ASSUME NEW i \in Inst, BarrierAges(i) PROVE IInv'
  BY Zenon, <1>1, <1>7 DEF BarrierAges, shared, slots, local, coord
<1> QED BY Zenon, <1>2, <1>3, <1>4, <1>5, <1>6, <1>7 DEF Next, Environment

\* The inductive invariant holds in every behaviour, for every number of
\* contexts and ranks and under every hazard of the environment.
THEOREM Invariance == Spec => []IInv
  BY IInvInit, IInvNext, PTL DEF Spec

\* Type correctness for every instance: the words of the segment stay in range,
\* so validate_shared never fails the pair (FAIL_CORRUPT_OWNER and
\* FAIL_CORRUPT_STATE cannot be the reason of a failure).
THEOREM TypeCorrect == Spec => []TypeOK
<1>1. IInv => TypeOK
  BY Zenon DEF IInv
<1> QED BY <1>1, Invariance, PTL

\* Rounds of the two instances never overlap, for every number of contexts and
\* ranks, whatever crashes, stalls, takes over a slot or closes late
\* (dispatch_next, recycle_complete).
THEOREM MutualExclusion == Spec => []RoundsNeverOverlap
<1>1. IInv => RoundsNeverOverlap
  BY Zenon DEF IInv, EngagedInv, Engaged, RoundsNeverOverlap
<1> QED BY <1>1, Invariance, PTL

\* A grant is consumed at most once per rank and by one instance only, for
\* every number of contexts and ranks (dispatch_next, validate_local_worker).
THEOREM GrantUnique == Spec => []GrantConsumedOnce
<1>1. IInv => GrantConsumedOnce
  BY Zenon DEF IInv
<1> QED BY <1>1, Invariance, PTL

-----------------------------------------------------------------------------
(***************************************************************************)
(* PairSched implements PairRounds under the mapping of PairSchedInv.       *)
(***************************************************************************)

\* The step changes nothing that PairRounds sees.
Stutter == UNCHANGED <<turnBar, startedBar, executingBar>>

\* The turn and the started ranks depend on the grant words alone.
LEMMA BarSame ==
  ASSUME UNCHANGED <<next_grant_id, active_grant_id>>,
         (cpc' = "release") <=> (cpc = "release"),
         owner' = owner
  PROVE  turnBar' = turnBar /\ startedBar' = startedBar
<1>1. turnBar' = turnBar
  BY Zenon DEF turnBar
<1>2. \A d \in Ctx : Got(d)' <=> Got(d)
  BY Zenon DEF Got
<1>3. {d \in Ctx : Got(d)}' = {d \in Ctx : Got(d)}
  BY Zenon, <1>2
<1> QED BY Zenon, <1>1, <1>3 DEF startedBar

\* A worker that moves without starting a round stops one, or is not seen.
LEMMA StopOrStutter ==
  ASSUME NEW c \in Ctx,
         \A d \in Ctx : d # c => pc'[d] = pc[d],
         Executing(c)' => Executing(c),
         turnBar' = turnBar, startedBar' = startedBar
  PROVE  Rounds!Next \/ Stutter
<1>1. CASE Executing(c)' <=> Executing(c)
  <2>1. executingBar' = executingBar
    BY Zenon, <1>1 DEF executingBar, Executing
  <2> QED BY Zenon, <2>1 DEF Stutter
<1>2. CASE Executing(c) /\ ~Executing(c)'
  <2>1. c \in executingBar /\ executingBar' = executingBar \ {c}
    BY Zenon, <1>2 DEF executingBar, Executing
  <2> QED BY Zenon, <2>1 DEF Rounds!Next, Rounds!Stop
<1> QED BY Zenon, <1>1, <1>2

\* The worker actions that touch no grant.
LEMMA WorkerMoves ==
  ASSUME IInv, NEW c \in Ctx,
         \/ OpenCheck(c) \/ RegisterSlot(c) \/ RegisterOnline(c)
         \/ OpenFailure(c)
         \/ Claim(c) \/ InitRound(c) \/ Match(c) \/ SetReady(c)
         \/ PublishReady(c) \/ Await(c)
         \/ Fence(c) \/ SetComplete(c) \/ PublishComplete(c) \/ Drain(c)
         \/ ResetRound(c)
         \/ CloseSteps(c) \/ Engine(c) \/ Heartbeat(c) \/ Crash(c)
  PROVE  Rounds!Next \/ Stutter
<1> USE DEF Goto, Return, FailAndReturn, shared, group, slots, local, coord
<1>1. UNCHANGED <<owner, cpc, next_grant_id, active_grant_id>>
  BY ZenonT(30) DEF OpenCheck, RegisterSlot, RegisterOnline, OpenFailure, Claim,
     InitRound, Match, SetReady, PublishReady, Await, Fence, SetComplete,
     PublishComplete, Drain, ResetRound, CloseSteps, CloseCheck, CloseOffline,
     CloseSlot, CloseLast, StoreOffline, Shutdown, Engine, EnterBegin,
     LeaveBegin, EnterTwice, LeaveForeign, Abort, CloseBegin, Heartbeat, Crash
<1>2. \/ pc' = pc
      \/ \E l : pc' = [pc EXCEPT ![c] = l] /\ (l \in {"fence", "finish"} =>
         Executing(c))
                /\ l # "exec"
  <2>1. CASE OpenCheck(c) \/ RegisterSlot(c) \/ RegisterOnline(c) \/
     OpenFailure(c)
    BY Zenon, <2>1 DEF OpenCheck, RegisterSlot, RegisterOnline, OpenFailure
  <2>2. CASE Claim(c)
    BY Zenon, <2>2 DEF Claim
  <2>3. CASE InitRound(c) \/ Match(c)
    BY SMTT(30), <2>3 DEF InitRound, Match
  <2>4. CASE SetReady(c) \/ PublishReady(c)
    BY Zenon, <2>4 DEF SetReady, PublishReady
  <2>5. CASE Await(c) \/ Fence(c)
    BY Zenon, <2>5 DEF Await, Fence, Executing
  <2>6. CASE SetComplete(c) \/ PublishComplete(c)
    BY Zenon, <2>6 DEF SetComplete, PublishComplete
  <2>7. CASE Drain(c) \/ ResetRound(c)
    BY SMTT(30), <2>7 DEF Drain, ResetRound
  <2>8. CASE CloseSteps(c)
    BY ZenonT(30), <2>8 DEF CloseSteps, CloseCheck, CloseOffline, CloseSlot, CloseLast,
       StoreOffline, Shutdown
  <2>9. CASE Engine(c)
    BY ZenonT(30), <2>9 DEF Engine, EnterBegin, LeaveBegin, EnterTwice, LeaveForeign,
       Abort, CloseBegin, Executing
  <2>10. CASE Heartbeat(c) \/ Crash(c)
    BY Zenon, <2>10 DEF Heartbeat, Crash
  <2> QED
    BY SMTT(30), <2>1, <2>2, <2>3, <2>4, <2>5, <2>6, <2>7, <2>8, <2>9, <2>10
<1>3. /\ \A d \in Ctx : d # c => pc'[d] = pc[d]
      /\ Executing(c)' => Executing(c)
  BY Zenon, <1>2 DEF Executing, IInv, TypeOK
<1> QED BY SMTT(30), <1>1, <1>3, BarSame, StopOrStutter

\* The start of the coordinator is not seen.
LEMMA OpenedMoves ==
  ASSUME IInv, NEW c \in Ctx, Opened(c) PROVE Rounds!Next \/ Stutter
<1>1. /\ UNCHANGED <<owner, next_grant_id, active_grant_id>>
      /\ pc' = [pc EXCEPT ![c] = "idle"]
      /\ cpc' = IF c = Creator THEN "tick" ELSE cpc
      /\ pc[c] = "opened"
  BY Zenon DEF Opened, shared, Goto
<1>2. (cpc' = "release") <=> (cpc = "release")
  BY Zenon, <1>1 DEF IInv, CoordInv, OpenPc
<1>3. /\ \A d \in Ctx : d # c => pc'[d] = pc[d]
      /\ Executing(c)' => Executing(c)
  BY Zenon, <1>1 DEF IInv, TypeOK, Executing
<1> QED BY Zenon, <1>1, <1>2, <1>3, BarSame, StopOrStutter

\* A worker that gets its grant is the abstract Start.
LEMMA PollMoves ==
  ASSUME IInv, IInv', NEW c \in Ctx, Poll(c) PROVE Rounds!Next \/ Stutter
<1> USE CtxAssumption
<1>1. /\ pc[c] = "poll"
      /\ UNCHANGED <<owner, cpc, next_grant_id>>
      /\ state' = state
  BY Zenon DEF Poll, group, coord
<1>2. CASE /\ pc' = [pc EXCEPT ![c] = "exec"]
           /\ owner = instance[c]
           /\ state[instance[c]] = "RUNNING"
           /\ active_grant_id' =
                [active_grant_id EXCEPT ![c] = grant_id[instance[c]]]
           /\ ValidLocalWorker(c, next_seq[c])
  <2>1. /\ cpc # "release"
        /\ active_grant_id'[c] = next_grant_id
        /\ next_grant_id # 0
        /\ \A d \in Ctx : d # c => active_grant_id'[d] = active_grant_id[d]
        /\ ~Got(c)
    BY SMTT(30), <1>1, <1>2 DEF IInv, CoordInv, GrantInv, TypeOK, EnterPc, Got
  <2>2. \A d \in Ctx : Got(d)' <=> (Got(d) \/ d = c)
    BY Zenon, <1>1, <2>1 DEF Got
  <2>3. turnBar = instance[c] /\ turnBar' = turnBar /\ turnBar # NoOwner
    BY <1>1, <1>2, <2>1 DEF turnBar, NoOwner, Inst
  <2>4. startedBar' = startedBar \cup {rank[c]}
    BY Zenon, <2>2, <2>3 DEF startedBar
  <2>5. rank[c] \notin startedBar
    <3> SUFFICES ASSUME NEW d \in Ctx, Got(d), rank[d] = rank[c] PROVE FALSE
      BY Zenon, <2>3 DEF startedBar
    <3>1. d # c /\ SameSlot(c, d)
      BY Zenon, <1>2, <2>1 DEF IInv, GrantInv, SameSlot
    <3> QED
      BY Zenon, <1>1, <1>2, <3>1 DEF IInv, SessionInv, EnterTail, ValidLocalWorker
  <2>6. executingBar' = executingBar \cup {c}
    <3>1. \A d \in Ctx : pc'[d] = IF d = c THEN "exec" ELSE pc[d]
      BY Zenon, <1>2 DEF IInv, TypeOK
    <3>2. \A d \in Ctx : Executing(d)' <=> (Executing(d) \/ d = c)
      BY Zenon, <3>1 DEF Executing
    <3> QED BY Zenon, <3>2 DEF executingBar
  <2> QED BY Zenon, <2>3, <2>4, <2>5, <2>6 DEF Rounds!Next, Rounds!Start
<1>3. CASE /\ \E l \in {"idle", "await"} : pc' = [pc EXCEPT ![c] = l]
           /\ active_grant_id' = active_grant_id
  <2>1. /\ \A d \in Ctx : d # c => pc'[d] = pc[d]
        /\ Executing(c)' => Executing(c)
    <3>1. PICK l \in {"idle", "await"} : pc' = [pc EXCEPT ![c] = l]
      BY Zenon, <1>3
    <3>2. \A d \in Ctx : pc'[d] = IF d = c THEN l ELSE pc[d]
      BY Zenon, <3>1 DEF IInv, TypeOK
    <3> QED BY Zenon, <3>2 DEF Executing
  <2> QED BY Zenon, <1>1, <1>3, <2>1, BarSame, StopOrStutter
<1> QED
  BY Zenon, <1>2, <1>3 DEF Poll, Goto, Return, FailAndReturn

\* A worker drops its grant only after the turn has passed on.
LEMMA ExitMoves ==
  ASSUME IInv, NEW c \in Ctx, Exit(c) PROVE Rounds!Next \/ Stutter
<1> USE CtxAssumption
<1>1. /\ pc[c] = "exit"
      /\ UNCHANGED <<owner, cpc, next_grant_id>>
      /\ \E l \in {"idle", "reset", "drain"} : pc' = [pc EXCEPT ![c] = l]
  BY Zenon DEF Exit, coord, Goto, Return, FailAndReturn
<1>2. /\ \A d \in Ctx : d # c => pc'[d] = pc[d]
      /\ Executing(c)' => Executing(c)
  BY Zenon, <1>1 DEF IInv, TypeOK, Executing
<1>3. CASE active_grant_id' = active_grant_id
  BY Zenon, <1>1, <1>2, <1>3, BarSame, StopOrStutter
<1>4. CASE /\ state[instance[c]] = "DRAINING"
           /\ active_grant_id' = [active_grant_id EXCEPT ![c] = 0]
  <2>1. turnBar' = turnBar
    BY Zenon, <1>1 DEF turnBar
  <2>2. turnBar # NoOwner => ~Got(c)
    BY Zenon, <1>4 DEF turnBar, IInv, GrantInv, CoordInv, TypeOK
  <2>3. turnBar # NoOwner => \A d \in Ctx : Got(d)' <=> Got(d)
    BY Zenon, <1>1, <1>4, <2>2 DEF Got, IInv, TypeOK
  <2>4. startedBar' = startedBar
    BY Zenon, <2>1, <2>3 DEF startedBar
  <2> QED BY Zenon, <1>2, <2>1, <2>4, StopOrStutter
<1> QED BY Zenon, <1>3, <1>4 DEF Exit

\* The grant is the abstract GrantRound, the DRAINING store the abstract PassOn.
LEMMA CoordMoves ==
  ASSUME IInv, IInv', Coordinator PROVE Rounds!Next \/ Stutter
<1> USE CtxAssumption
<1>1. UNCHANGED <<pc, active_grant_id>>
  BY Zenon DEF Coordinator, Tick, CoordStop, Recycle, StartDraining, ReleaseOwner,
     Recheck, Scan, Select, Grant, local
<1>2. executingBar' = executingBar
  BY Zenon, <1>1 DEF executingBar, Executing
<1>3. CASE StartDraining
  <2>1. cpc = "drain" /\ cpc' = "release" /\ owner' = owner /\ owner \in Inst
    BY Zenon, <1>3 DEF StartDraining, CoordAt, shared, IInv, CoordInv
  <2>2. turnBar = owner /\ turnBar # NoOwner /\ turnBar' = NoOwner
    BY SMTT(30), <2>1 DEF turnBar, NoOwner, Inst
  <2>3. executingBar = {}
    BY Zenon, <2>1 DEF executingBar, IInv, EngagedInv, Engaged
  <2>4. startedBar' = {}
    BY Zenon, <2>2 DEF startedBar
  <2>5. startedBar = Rank
    BY <2>1, <2>2 DEF startedBar, IInv, CompleteInv
  <2> QED
    BY SMTT(30), <1>2, <2>2, <2>3, <2>4, <2>5 DEF Rounds!Next, Rounds!PassOn,
       Rounds!NoTurn, NoOwner
<1>4. CASE ReleaseOwner
  <2>1. turnBar = NoOwner /\ turnBar' = NoOwner
    BY Zenon, <1>4 DEF ReleaseOwner, CoordAt, turnBar
  <2>2. startedBar = {} /\ startedBar' = {}
    BY Zenon, <2>1 DEF startedBar
  <2> QED BY Zenon, <1>2, <2>1, <2>2 DEF Stutter
<1>5. CASE Grant
  <2>1. /\ cpc = "grant" /\ cpc' = "tick" /\ owner = NoOwner
        /\ owner' = selected /\ selected \in Inst
        /\ next_grant_id' = next_grant_id + 1
    BY Zenon, <1>5 DEF Grant, CoordAt, IInv, CoordInv, TypeOK
  <2>2. turnBar = NoOwner /\ turnBar' = selected
    BY SMTT(30), <2>1 DEF turnBar
  <2>3. executingBar = {}
    BY <2>1 DEF executingBar, IInv, EngagedInv, Engaged, NoOwner, Inst
  <2>4. \A d \in Ctx : ~Got(d)'
    BY <1>1, <2>1 DEF Got, IInv, GrantInv, TypeOK
  <2>5. startedBar' = {}
    BY Zenon, <2>4 DEF startedBar
  <2> QED
    BY Zenon, <1>2, <2>1, <2>2, <2>3, <2>5
       DEF Rounds!Next, Rounds!GrantRound, Rounds!NoTurn, Rounds!Inst,
          NoOwner, Inst
<1>6. CASE /\ UNCHANGED <<owner, next_grant_id>>
           /\ cpc # "release"
           /\ cpc' # "release"
  BY Zenon, <1>1, <1>2, <1>6, BarSame DEF Stutter
<1>7. CASE Tick \/ CoordStop \/ Recycle \/ Recheck \/ Select
  BY Zenon, <1>6, <1>7 DEF Tick, CoordStop, Recycle, Recheck, Select, CoordAt, shared
<1>8. CASE \E i \in Inst : Scan(i)
  BY Zenon, <1>6, <1>8 DEF Scan, CoordAt, shared
<1> QED BY SMTT(30), <1>3, <1>4, <1>5, <1>7, <1>8 DEF Coordinator, Inst

\* Every step of PairSched is a step of PairRounds or leaves it unchanged.
LEMMA StepRefines ==
  IInv /\ IInv' /\ [Next]_vars => Rounds!Next \/ Stutter
<1> SUFFICES ASSUME IInv, IInv', [Next]_vars PROVE Rounds!Next \/ Stutter
  BY Zenon
<1>1. ASSUME UNCHANGED <<pc, owner, cpc, next_grant_id, active_grant_id>>
      PROVE  Rounds!Next \/ Stutter
  <2>1. executingBar' = executingBar
    BY Zenon, <1>1 DEF executingBar, Executing
  <2> QED BY Zenon, <1>1, <2>1, BarSame DEF Stutter
<1>2. CASE UNCHANGED vars
  BY Zenon, <1>1, <1>2 DEF vars, shared, local, coord
<1>3. ASSUME NEW c \in Ctx,
             \/ OpenSteps(c) \/ EnterSteps(c) \/ LeaveSteps(c) \/ CloseSteps(c)
             \/ Engine(c) \/ Heartbeat(c) \/ Crash(c)
      PROVE  Rounds!Next \/ Stutter
  BY Zenon, <1>3, WorkerMoves, OpenedMoves, PollMoves, ExitMoves
     DEF OpenSteps, EnterSteps, LeaveSteps
<1>4. CASE Coordinator
  BY Zenon, <1>4, CoordMoves
<1>5. ASSUME NEW i \in Inst, NEW k \in Rank, HeartbeatExpires(i, k)
      PROVE  Rounds!Next \/ Stutter
  BY Zenon, <1>1, <1>5 DEF HeartbeatExpires, shared, local, coord
<1>6. CASE PrimaryExpires \/ DeadlinePasses
  BY Zenon, <1>1, <1>6 DEF PrimaryExpires, DeadlinePasses, local, coord
<1>7. ASSUME NEW i \in Inst, BarrierAges(i) PROVE Rounds!Next \/ Stutter
  BY Zenon, <1>1, <1>7 DEF BarrierAges, shared, local, coord
<1> QED BY Zenon, <1>2, <1>3, <1>4, <1>5, <1>6, <1>7 DEF Next, Environment

\* PairSched implements PairRounds for every number of contexts and ranks: the
\* turn is given only when nobody executes, each rank starts a round at most
\* once, and the turn passes on only when every rank has started and all have
\* stopped (ps_enter_forward, ps_leave_forward, recycle_complete,
\* dispatch_next).
THEOREM Refinement == Spec => RoundsSpec
<1>1. Init => Rounds!Init
  BY Zenon, CtxAssumption
     DEF Init, Rounds!Init, turnBar, startedBar, executingBar, Executing,
         Rounds!NoTurn, NoOwner
<1>2. IInv /\ IInv' /\ [Next]_vars => [Rounds!Next]_(Rounds!rvars)
  BY Zenon, StepRefines DEF Stutter, Rounds!rvars
<1> QED BY <1>1, <1>2, Invariance, PTL DEF Spec, RoundsSpec, Rounds!Spec
=============================================================================
