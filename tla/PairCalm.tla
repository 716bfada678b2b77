------------------------------ MODULE PairCalm ------------------------------
(***************************************************************************)
(* PairSched on a calm machine: every worker has been opened before the    *)
(* engine sends its first step and keeps its slot, and nothing goes wrong  *)
(* around the protocol.  What could still go wrong is the protocol itself, *)
(* as the ranks arrive, finish, drain and come back in any order.          *)
(***************************************************************************)
EXTENDS PairSchedInv

At(c, i, k) == instance[c] = i /\ rank[c] = k

\* The workers in up have been opened and none has entered.
Started(up) ==
  /\ status = "RUNNING"
  /\ owner = NoOwner
  /\ last_owner = NoOwner
  /\ deadline = "none"
  /\ primary_stale = FALSE
  /\ next_grant_id = 0
  /\ state = [i \in Inst |->
               IF \E c \in up : instance[c] = i THEN "IDLE" ELSE "OFFLINE"]
  /\ forward_seq = [i \in Inst |-> 0]
  /\ grant_id = [i \in Inst |-> 0]
  /\ ready = [i \in Inst |-> {}]
  /\ complete = [i \in Inst |-> {}]
  /\ exited = [i \in Inst |-> {}]
  /\ online = [i \in Inst |-> {k \in Rank : \E c \in up : At(c, i, k)}]
  /\ publish = [i \in Inst |-> 0]
  /\ late = {}
  /\ session = [i \in Inst |-> [k \in Rank |->
                 IF \E c \in up : At(c, i, k)
                   THEN CHOOSE c \in up : At(c, i, k) ELSE NoSession]]
  /\ last_seq = [i \in Inst |-> [k \in Rank |-> 0]]
  /\ fresh = [i \in Inst |-> [k \in Rank |-> \E c \in up : At(c, i, k)]]
  /\ pc = [c \in Ctx |-> IF c \in up THEN "idle" ELSE "new"]
  /\ closer = [c \in Ctx |-> "no"]
  /\ saw_idle = {}
  /\ next_seq = [c \in Ctx |-> 0]
  /\ active_seq = [c \in Ctx |-> 0]
  /\ active_grant_id = [c \in Ctx |-> 0]
  /\ cpc = "tick"
  /\ scanned = NoneReady
  /\ selected = 0

\* One context per slot, and no hazard.
Calm == Env = {} /\ \A c, d \in Ctx : SameSlot(c, d) => c = d

CalmSpec == Calm /\ Started(Ctx) /\ [][Next]_vars

\* Nothing but the protocol moves.
StillInv ==
  /\ Calm
  /\ status = "RUNNING"
  /\ deadline # "passed"
  /\ ~primary_stale
  /\ late = {}
  /\ cpc \notin {"off", "stopped"}
  /\ \A c \in Ctx : /\ pc[c] \notin {"new", "gone", "dead"} \cup OpenPc
                    /\ closer[c] = "no"
                    /\ session[instance[c]][rank[c]] = c
                    /\ fresh[instance[c]][rank[c]]
  /\ \A i \in Inst : online[i] = {k \in Rank : \E c \in Ctx : At(c, i, k)}

\* Where a worker can be in each state of its group, in which round, and with
\* which of its bits set.
Place(c) ==
  LET i == instance[c]
      k == rank[c]
      s == state[i]
      n == next_seq[c]
      last == forward_seq[i]
      outside == \/ pc[c] = "idle" /\ n = last
                 \/ pc[c] = "claim" /\ n = last + 1
  IN  \/ s = "IDLE" /\ outside
      \/ s = "INITIALIZING" /\ (outside \/ (pc[c] = "init" /\ n = last + 1))
      \/ /\ s = "COLLECTING"
         /\ \/ pc[c] = "idle" /\ n + 1 = last /\ k \notin ready[i]
            \/ pc[c] \in {"claim", "match", "ready"} /\ n = last /\ k \notin ready[i]
            \/ pc[c] \in {"publish", "await", "poll"} /\ n = last /\ k \in ready[i]
      \/ s = "READY" /\ pc[c] \in {"await", "poll"} /\ n = last
      \/ /\ s = "RUNNING"
         /\ n = last
         /\ \/ pc[c] \in {"await", "poll", "exec", "fence", "finish"}
               /\ k \notin complete[i]
            \/ pc[c] \in {"complete", "drain", "exit"} /\ k \in complete[i]
      \/ s = "COMPLETE" /\ pc[c] \in {"drain", "exit"} /\ n = last
      \/ /\ s = "DRAINING"
         /\ \/ pc[c] \in {"drain", "exit"} /\ n = last /\ k \notin exited[i]
            \/ (outside \/ (pc[c] = "reset" /\ n = last)) /\ k \in exited[i]

\* The round of a worker's slot and of its context.
InRound(c) ==
  /\ active_seq[c] = IF pc[c] \in {"exec", "fence", "finish", "complete",
                                   "drain", "exit"}
                       THEN next_seq[c] ELSE 0
  /\ pc[c] \notin {"idle", "claim", "init", "match", "reset"} =>
       last_seq[instance[c]][rank[c]] = next_seq[c]

\* The workers that change the state of their group are alone in doing so.
AloneInv ==
  /\ \A c \in Ctx : pc[c] = "publish" => ready[instance[c]] = Rank
  /\ \A c \in Ctx : pc[c] = "reset" => exited[instance[c]] = Rank
  /\ \A c, d \in Ctx :
       /\ instance[c] = instance[d]
       /\ pc[c] = pc[d]
       /\ pc[c] \in {"init", "publish", "reset"}
       => c = d

\* A round is opened only for a whole instance, and drained only when done.
WholeInv ==
  /\ \A c \in Ctx : pc[c] # "idle" => online[instance[c]] = Rank
  /\ \A i \in Inst : state[i] \notin {"IDLE", "OFFLINE"} => online[i] = Rank
  /\ cpc = "drain" => state[owner] = "COMPLETE"

\* On a calm machine every step of the workers and of the coordinator keeps the
\* ranks of an instance in the same round (ps_enter_forward, ps_leave_forward
\* and the coordinator together).
LockstepInv ==
  /\ StillInv
  /\ \A c \in Ctx : Place(c) /\ InRound(c)
  /\ AloneInv
  /\ WholeInv
=============================================================================
