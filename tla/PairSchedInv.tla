---------------------------- MODULE PairSchedInv -----------------------------
(***************************************************************************)
(* The invariant behind mutual exclusion in PairSched, and the mapping     *)
(* under which PairSched implements PairRounds.                            *)
(*                                                                         *)
(* The argument has to survive every overwrite the code allows: a closer   *)
(* delayed before its OFFLINE store, a worker delayed before its           *)
(* COLLECTING store, a session cleared under its new holder.  Such stores  *)
(* can take a group out of RUNNING while its workers execute, but never    *)
(* back into RUNNING or into COMPLETE before the owner is released, and    *)
(* the owner is released only from COMPLETE with a full mask.              *)
(***************************************************************************)
EXTENDS PairSched

SameSlot(c, d) == instance[c] = instance[d] /\ rank[c] = rank[d]

\* c took part in the latest grant.
Got(c) == next_grant_id # 0 /\ active_grant_id[c] = next_grant_id

\* c can still become an executing worker of the current round.
EnterTail == {"init", "match", "ready", "publish", "await", "poll"}

\* c has the grant and the round cannot be complete without it.
Engaged(c) == Executing(c) \/ pc[c] = "complete"

\* The coordinator dispatches without an owner and recycles with one.  A group
\* is COMPLETE only as the owner, and DRAINING as the owner for one step.
CoordInv ==
  /\ cpc \in {"scan0", "scan1", "select", "grant"} => owner = NoOwner
  /\ cpc \in {"recycle", "drain", "release"} => owner \in Inst
  /\ cpc \in {"drain", "release"} => state[owner] # "RUNNING"
  /\ cpc = "grant" => state[selected] # "DRAINING"
  /\ \A i \in Inst : state[i] = "COMPLETE" => owner = i /\ cpc # "release"
  /\ pc[Creator] \in {"new"} \cup OpenPc => cpc = "off"
  /\ owner \in Inst /\ cpc # "release" => state[owner] # "DRAINING"

\* Grant numbers: a context holds one only while its round is active, none is
\* ahead of the counter, and the latest belongs to the owner.
GrantInv ==
  /\ \A c \in Ctx : active_grant_id[c] <= next_grant_id
  /\ \A c \in Ctx : active_seq[c] = 0 => active_grant_id[c] = 0
  /\ \A c \in Ctx : pc[c] \in EnterPc => active_seq[c] = 0 /\ next_seq[c] # 0
  /\ owner \in Inst => next_grant_id # 0
  /\ \A i \in Inst : owner = i /\ state[i] = "RUNNING" =>
       grant_id[i] = next_grant_id
  /\ \A c \in Ctx : Got(c) /\ owner \in Inst => instance[c] = owner

\* An engaged worker pins the owner and keeps the group out of COMPLETE.
EngagedInv ==
  \A c \in Ctx : Engaged(c) =>
    /\ owner = instance[c]
    /\ cpc \notin {"drain", "release"}
    /\ state[instance[c]] # "COMPLETE"
    /\ active_grant_id[c] = next_grant_id
    /\ next_grant_id # 0

\* While the round runs, no second context of a rank that has the grant can
\* pass validate_local_worker.
SessionInv ==
  \A c, d \in Ctx :
    /\ c # d
    /\ SameSlot(c, d)
    /\ owner = instance[c]
    /\ state[instance[c]] = "RUNNING"
    /\ Got(d)
    /\ pc[c] \in EnterTail
    => session[instance[c]][rank[c]] # c

\* COMPLETE bits: none before the grant, each backed by a context that has
\* had the grant and is no longer executing.
CompleteInv ==
  /\ \A i \in Inst :
       /\ state[i] \in {"COLLECTING", "READY", "RUNNING"}
       /\ owner # i \/ cpc = "release"
       => complete[i] = {}
  /\ \A i \in Inst : \A k \in Rank :
       /\ owner = i
       /\ state[i] \in {"RUNNING", "COMPLETE"}
       /\ k \in complete[i]
       => \E d \in Ctx : /\ instance[d] = i /\ rank[d] = k
                         /\ Got(d) /\ ~Executing(d)
  /\ cpc = "drain" =>
       \A k \in Rank : \E d \in Ctx : rank[d] = k /\ Got(d)

\* The worker that sets the last COMPLETE bit is unique in its round.
LastInv ==
  /\ \A c \in Ctx :
       pc[c] = "complete" /\ state[instance[c]] = "RUNNING" =>
         complete[instance[c]] = Rank
  /\ \A c, d \in Ctx :
       /\ pc[c] = "complete" /\ pc[d] = "complete"
       /\ instance[c] = instance[d]
       /\ state[instance[c]] = "RUNNING"
       => c = d

\* The inductive invariant: together these facts are preserved by every step
\* of workers, closers, coordinator and environment.
IInv ==
  /\ TypeOK
  /\ CoordInv
  /\ GrantInv
  /\ EngagedInv
  /\ SessionInv
  /\ CompleteInv
  /\ LastInv
  /\ GrantConsumedOnce

-----------------------------------------------------------------------------
(***************************************************************************)
(* The refinement mapping.  The turn passes on at the DRAINING store, one  *)
(* step before the owner word is cleared.                                  *)
(***************************************************************************)
turnBar == IF cpc = "release" THEN NoOwner ELSE owner
startedBar == IF turnBar = NoOwner THEN {}
              ELSE {rank[c] : c \in {d \in Ctx : Got(d)}}
executingBar == {c \in Ctx : Executing(c)}

Rounds == INSTANCE PairRounds WITH
            turn <- turnBar, started <- startedBar, executing <- executingBar

\* PairSched implements PairRounds: rounds are serialised, each rank of the
\* owner executes once per grant, and the owner changes only when every rank
\* has executed and none still does (dispatch_next, recycle_complete and the
\* enter and leave barriers together).
RoundsSpec == Rounds!Spec
=============================================================================
