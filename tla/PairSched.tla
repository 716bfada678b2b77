------------------------------ MODULE PairSched ------------------------------
(***************************************************************************)
(* The shared-memory round protocol of the pair scheduler                  *)
(* (scheduler/src/vllm_pair_scheduler/native/pair_sched.c, protocol v4).   *)
(*                                                                         *)
(* Two vLLM instances, A = 0 and B = 1, share one segment.  Each instance  *)
(* runs one worker process per rank, and a process talks to the segment    *)
(* through a ps_context.  A context is opened once; a restarted worker is  *)
(* a new context on the same slot, so that a context is also its session   *)
(* (the random 63-bit session and the pid never repeat).  The creator of   *)
(* the segment, rank 0 of A, also runs the coordinator thread, which       *)
(* grants rounds to one instance at a time.                                *)
(*                                                                         *)
(* A step writes one contended word of the segment, together with words    *)
(* that no other thread can observe half done.  What a thread reads before *)
(* it decides is read in that step: the several words that Poll, Fence,    *)
(* Exit, CloseCheck and Scan compare are read at one instant, while the    *)
(* code loads them one after another.                                      *)
(* Futex waits all have a timeout, so a wait is a step that finds nothing  *)
(* to do; the wake words carry no other information and are left out.      *)
(*                                                                         *)
(* Time is abstracted to the facts the code derives from it: a heartbeat   *)
(* is fresh or expired, a deadline has passed or not, a barrier is older   *)
(* than peer_timeout or not.                                               *)
(***************************************************************************)
EXTENDS Integers, FiniteSets

CONSTANTS
  Ctx,        \* every ps_context ever opened on the segment
  Rank,       \* worker ranks 0 .. worker_count-1: the full (expected) mask
  Creator,    \* the context that created the segment
  NoSession,  \* session word of a free worker slot
  instance,   \* instance[c], rank[c]: the worker slot of context c
  rank,
  MaxSeq,     \* bound, per instance: the last round a worker enters
  Env,        \* what the environment may do, see Hazard
  Faulty      \* the contexts to which it may do it

Inst == {0, 1}
NoOwner == -1
NotReady == -1

Hazard ==
  { "crash",    \* a worker process dies
    "stall",    \* a live process misses its heartbeats for peer_timeout
    "slow",     \* a forward outlasts forward_timeout, a barrier peer_timeout
    "abort",    \* the engine reports a failed forward with ps_fail
    "close",    \* an idle worker closes its context
    "rude",     \* ... or closes it at any time
    "nothread", \* a thread of ps_open cannot be started
    "solo",     \* a worker enters before its whole instance is registered
    "misuse" }  \* a worker enters twice, or leaves a round it does not hold

ASSUME CtxAssumption ==
  /\ instance \in [Ctx -> Inst]
  /\ rank \in [Ctx -> Rank]
  /\ Creator \in Ctx
  /\ instance[Creator] = 0
  /\ NoSession \notin Ctx

ASSUME BoundAssumption == MaxSeq \in [Inst -> Nat]

ASSUME EnvAssumption == Env \subseteq Hazard /\ Faulty \subseteq Ctx

Reason ==
  { "APPLICATION", "FORWARD_TIMEOUT", "PRIMARY_DEAD", "WORKER_DEAD",
    "FENCING", "DUPLICATE_RANK", "BARRIER_TIMEOUT", "CLOSE_ACTIVE" }

RoundState ==
  { "OFFLINE", "IDLE", "INITIALIZING", "COLLECTING", "READY", "RUNNING",
    "COMPLETE", "DRAINING" }

VARIABLES
  \* shared_state
  status,         \* RUNNING, SHUTDOWN or the reason of the first failure
  owner,
  last_owner,
  deadline,       \* deadline_ns: "none", "armed" or "passed"
  primary_stale,  \* primary_heartbeat_ns is older than peer_timeout
  next_grant_id,
  \* instance_group, per instance
  state,
  forward_seq,
  grant_id,
  ready,
  complete,
  exited,
  online,
  publish,        \* publish_ns: 0, or a stamp ordered as the clock is
  late,           \* the instances whose publish_ns is older than peer_timeout
  \* worker_slot, per instance and rank
  session,
  last_seq,
  fresh,          \* heartbeat_ns is at most peer_timeout old
  \* ps_context
  pc,             \* where the thread that calls enter and leave is
  closer,         \* where the thread that calls ps_close is; "no" = ~stopping
  saw_idle,       \* closers whose round_state was IDLE
  next_seq,
  active_seq,
  active_grant_id,
  \* the coordinator thread
  cpc,
  scanned,        \* ready[] and published[] of dispatch_next: a stamp or -1
  selected

turns   == <<owner, last_owner, deadline, primary_stale, next_grant_id>>
shared  == <<status, turns>>
round   == <<forward_seq, grant_id, ready, complete, exited, online, publish,
             late>>
group   == <<state, round>>
slots   == <<session, last_seq, fresh>>
closing == <<closer, saw_idle>>
held    == <<next_seq, active_seq, active_grant_id>>
local   == <<pc, closing, held>>
coord   == <<cpc, scanned, selected>>
vars    == <<shared, group, slots, local, coord>>

-----------------------------------------------------------------------------
EnterPc == {"claim", "init", "match", "ready", "publish", "await", "poll"}
LeavePc == {"fence", "finish", "complete", "drain", "exit", "reset"}
OpenPc  == {"register", "online", "opened"}
Pc      == {"new", "idle", "exec", "gone", "dead"}
             \cup OpenPc \cup EnterPc \cup LeavePc
Closer  == {"no", "join", "offline", "slot", "last", "store", "shutdown",
            "closed"}
CoordPc == {"off", "tick", "recycle", "drain", "release", "recheck",
            "scan0", "scan1", "select", "grant", "stopped"}

TypeOK ==
  /\ status \in {"RUNNING", "SHUTDOWN"} \cup Reason
  /\ owner \in Inst \cup {NoOwner}
  /\ last_owner \in Inst \cup {NoOwner}
  /\ deadline \in {"none", "armed", "passed"}
  /\ primary_stale \in BOOLEAN
  /\ next_grant_id \in Nat
  /\ state \in [Inst -> RoundState]
  /\ forward_seq \in [Inst -> Nat]
  /\ grant_id \in [Inst -> Nat]
  /\ ready \in [Inst -> SUBSET Rank]
  /\ complete \in [Inst -> SUBSET Rank]
  /\ exited \in [Inst -> SUBSET Rank]
  /\ online \in [Inst -> SUBSET Rank]
  /\ publish \in [Inst -> Nat]
  /\ late \in SUBSET Inst
  /\ session \in [Inst -> [Rank -> Ctx \cup {NoSession}]]
  /\ last_seq \in [Inst -> [Rank -> Nat]]
  /\ fresh \in [Inst -> [Rank -> BOOLEAN]]
  /\ pc \in [Ctx -> Pc]
  /\ closer \in [Ctx -> Closer]
  /\ saw_idle \in SUBSET Ctx
  /\ next_seq \in [Ctx -> Nat]
  /\ active_seq \in [Ctx -> Nat]
  /\ active_grant_id \in [Ctx -> Nat]
  /\ cpc \in CoordPc
  /\ scanned \in [Inst -> Nat \cup {NotReady}]
  /\ selected \in Inst

NoneReady == [i \in Inst |-> NotReady]

\* The segment as ps_open(create) leaves it; the creator registers next.
Init ==
  /\ status = "RUNNING"
  /\ owner = NoOwner
  /\ last_owner = NoOwner
  /\ deadline = "none"
  /\ primary_stale = FALSE
  /\ next_grant_id = 0
  /\ state = [i \in Inst |-> "OFFLINE"]
  /\ forward_seq = [i \in Inst |-> 0]
  /\ grant_id = [i \in Inst |-> 0]
  /\ ready = [i \in Inst |-> {}]
  /\ complete = [i \in Inst |-> {}]
  /\ exited = [i \in Inst |-> {}]
  /\ online = [i \in Inst |-> {}]
  /\ publish = [i \in Inst |-> 0]
  /\ late = {}
  /\ session = [i \in Inst |-> [k \in Rank |-> NoSession]]
  /\ last_seq = [i \in Inst |-> [k \in Rank |-> 0]]
  /\ fresh = [i \in Inst |-> [k \in Rank |-> FALSE]]
  /\ pc = [c \in Ctx |-> "new"]
  /\ closer = [c \in Ctx |-> "no"]
  /\ saw_idle = {}
  /\ next_seq = [c \in Ctx |-> 0]
  /\ active_seq = [c \in Ctx |-> 0]
  /\ active_grant_id = [c \in Ctx |-> 0]
  /\ cpc = "off"
  /\ scanned = NoneReady
  /\ selected = 0

-----------------------------------------------------------------------------
\* fail_pair: the first failure wins, a pair that is not RUNNING keeps its
\* status.
FailPair(reason) ==
  status' = IF status = "RUNNING" THEN reason ELSE status

\* worker_alive (the pid word is non-zero whenever the session word is).
WorkerAlive(i, k) == session[i][k] # NoSession /\ fresh[i][k]

GroupWorkersAlive(i, mask) == \A k \in mask : WorkerAlive(i, k)

\* validate_local_worker: the slot still belongs to c and to this round.
ValidLocalWorker(c, seq) ==
  /\ session[instance[c]][rank[c]] = c
  /\ last_seq[instance[c]][rank[c]] = seq

\* Mutant: one bit is taken for all.
AnyRank(mask) == mask # {}

\* The comparison of a mask with expected_mask.
Everyone(mask) == mask = Rank

Goto(c, label) == pc' = [pc EXCEPT ![c] = label]

\* A call returns without the round: the thread is back outside.
Return(c) == Goto(c, "idle")

\* What a call does when it fails the pair and returns -1.
FailAndReturn(c, reason) == FailPair(reason) /\ Return(c)

Stopping(c) == closer[c] # "no"

-----------------------------------------------------------------------------
(***************************************************************************)
(* ps_open.  Attaching needs a running pair with a live coordinator, and a *)
(* slot that is free or whose heartbeat has expired.  A refused ps_open    *)
(* leaves no trace and is retried by the caller.                           *)
(***************************************************************************)
SlotFree(i, k) == session[i][k] = NoSession \/ ~fresh[i][k]

OpenCheck(c) ==
  /\ pc[c] = "new"
  /\ \/ c = Creator
     \/ cpc # "off" /\ status = "RUNNING" /\ ~primary_stale
  /\ SlotFree(instance[c], rank[c])
  /\ Goto(c, "register")
  /\ UNCHANGED <<shared, group, slots, closing, held, coord>>

\* register_worker: the slot words.
RegisterSlot(c) ==
  LET i == instance[c]
      k == rank[c]
  IN  /\ pc[c] = "register"
      /\ session' = [session EXCEPT ![i][k] = c]
      /\ last_seq' = [last_seq EXCEPT ![i][k] = 0]
      /\ fresh' = [fresh EXCEPT ![i][k] = TRUE]
      /\ Goto(c, "online")
      /\ UNCHANGED <<shared, group, closing, held, coord>>

\* register_worker: online_mask |= bit.
RegisterOnline(c) ==
  /\ pc[c] = "online"
  /\ online' = [online EXCEPT ![instance[c]] = @ \cup {rank[c]}]
  /\ Goto(c, "opened")
  /\ UNCHANGED <<shared, state, forward_seq, grant_id, ready, complete, exited,
                 publish, late, slots, closing, held, coord>>

\* register_worker wakes an OFFLINE group; ps_open takes over the round
\* counter of the group and starts the threads.
Opened(c) ==
  LET i == instance[c]
  IN  /\ pc[c] = "opened"
      /\ state' = [state EXCEPT ![i] = IF @ = "OFFLINE" THEN "IDLE" ELSE @]
      /\ next_seq' = [next_seq EXCEPT ![c] = forward_seq[i]]
      /\ cpc' = IF c = Creator THEN "tick" ELSE cpc
      /\ Goto(c, "idle")
      /\ UNCHANGED <<shared, round, slots, closing, active_seq,
                     active_grant_id, scanned, selected>>

\* open_failure: the group has been woken, but a thread could not be started.
\* The online bit is taken back and the slot is left to expire.
OpenFailure(c) ==
  LET i == instance[c]
  IN  /\ "nothread" \in Env /\ c \in Faulty
      /\ pc[c] = "opened"
      /\ state' = [state EXCEPT ![i] = IF @ = "OFFLINE" THEN "IDLE" ELSE @]
      /\ online' = [online EXCEPT ![i] = @ \ {rank[c]}]
      /\ Goto(c, "gone")
      /\ UNCHANGED <<shared, forward_seq, grant_id, ready, complete, exited,
                     publish, late, slots, closing, held, coord>>

-----------------------------------------------------------------------------
(***************************************************************************)
(* ps_enter_forward.                                                       *)
(***************************************************************************)

\* The executor sends a step once every rank has registered; with "solo" a
\* worker may also enter before.
MayEnter(c) ==
  /\ pc[c] = "idle"
  /\ active_seq[c] = 0
  /\ ~Stopping(c)
  /\ next_seq[c] < MaxSeq[instance[c]]
  /\ "solo" \in Env \/ online[instance[c]] = Rank

\* begin_call, the next sequence number, and check_running.  A pair that is
\* not RUNNING never runs again, so a refused call changes nothing that is
\* read later and is no step.
EnterBegin(c) ==
  /\ MayEnter(c)
  /\ status = "RUNNING"
  /\ next_seq' = [next_seq EXCEPT ![c] = @ + 1]
  /\ Goto(c, "claim")
  /\ UNCHANGED <<shared, group, slots, closing, active_seq, active_grant_id,
                 coord>>

\* A call of enter by a worker that still holds a round.
EnterTwice(c) ==
  /\ "misuse" \in Env /\ c \in Faulty
  /\ pc[c] \in {"idle", "exec"}
  /\ active_seq[c] # 0
  /\ ~Stopping(c)
  /\ status = "RUNNING"
  /\ next_seq' = [next_seq EXCEPT ![c] = @ + 1]
  /\ FailPair("FENCING")
  /\ UNCHANGED <<turns, group, slots, pc, closing, active_seq, active_grant_id,
                 coord>>

\* Mutant: a worker that is back before its round has drained is refused.
CrossRoundOrDraining ==
  {"OFFLINE", "READY", "RUNNING", "COMPLETE", "DRAINING"}

\* The states in which a worker cannot join the round, and does not wait.
CrossRound == {"OFFLINE", "READY", "RUNNING", "COMPLETE"}

\* The loop that joins the group's round.  It polls INITIALIZING and DRAINING
\* away, and reads nothing but the round state while it does.
Claim(c) ==
  LET i == instance[c]
  IN  /\ pc[c] = "claim"
      /\ \/ /\ state[i] = "IDLE"
            /\ state' = [state EXCEPT ![i] = "INITIALIZING"]
            /\ Goto(c, "init")
            /\ UNCHANGED status
         \/ /\ state[i] = "COLLECTING"
            /\ Goto(c, "match")
            /\ UNCHANGED <<status, state>>
         \/ /\ state[i] \in CrossRound
            /\ FailAndReturn(c, "FENCING")
            /\ UNCHANGED state
      /\ UNCHANGED <<turns, round, slots, closing, held, coord>>

\* The stamps a clock that never runs backwards can give to a new round.
Stamp(i) ==
  LET other == publish[1 - i]
  IN  IF other = 0 THEN {1} ELSE {other, other + 1}

\* The winner of the INITIALIZING race resets the round and opens it.
InitRound(c) ==
  LET i == instance[c]
  IN  /\ pc[c] = "init"
      /\ forward_seq' = [forward_seq EXCEPT ![i] = next_seq[c]]
      /\ grant_id' = [grant_id EXCEPT ![i] = 0]
      /\ ready' = [ready EXCEPT ![i] = {}]
      /\ complete' = [complete EXCEPT ![i] = {}]
      /\ exited' = [exited EXCEPT ![i] = {}]
      /\ \E t \in Stamp(i) : publish' = [publish EXCEPT ![i] = t]
      /\ late' = late \ {i}
      /\ state' = [state EXCEPT ![i] = "COLLECTING"]
      /\ last_seq' = [last_seq EXCEPT ![i][rank[c]] = next_seq[c]]
      /\ Goto(c, "ready")
      /\ UNCHANGED <<shared, online, session, fresh, closing, held, coord>>

\* A COLLECTING round is joined only under its own sequence number.
Match(c) ==
  LET i == instance[c]
  IN  /\ pc[c] = "match"
      /\ \/ /\ forward_seq[i] = next_seq[c]
            /\ last_seq' = [last_seq EXCEPT ![i][rank[c]] = next_seq[c]]
            /\ Goto(c, "ready")
            /\ UNCHANGED status
         \/ /\ forward_seq[i] # next_seq[c]
            /\ FailAndReturn(c, "FENCING")
            /\ UNCHANGED last_seq
      /\ UNCHANGED <<turns, group, session, fresh, closing, held, coord>>

\* ready_mask |= bit.
SetReady(c) ==
  LET i == instance[c]
      k == rank[c]
  IN  /\ pc[c] = "ready"
      /\ ready' = [ready EXCEPT ![i] = @ \cup {k}]
      /\ \/ k \in ready[i] /\ FailAndReturn(c, "DUPLICATE_RANK")
         \/ /\ k \notin ready[i]
            /\ Goto(c, IF Everyone(ready'[i]) THEN "publish" ELSE "await")
            /\ UNCHANGED status
      /\ UNCHANGED <<turns, state, forward_seq, grant_id, complete, exited,
                     online, publish, late, slots, closing, held, coord>>

\* The last rank to arrive moves the group from COLLECTING to READY.
PublishReady(c) ==
  LET i == instance[c]
  IN  /\ pc[c] = "publish"
      /\ \/ /\ state[i] = "COLLECTING"
            /\ state' = [state EXCEPT ![i] = "READY"]
            /\ Goto(c, "await")
            /\ UNCHANGED status
         \/ /\ state[i] # "COLLECTING"
            /\ FailAndReturn(c, "FENCING")
            /\ UNCHANGED state
      /\ UNCHANGED <<turns, round, slots, closing, held, coord>>

\* Mutant: nobody looks at the primary heartbeat.
AwaitBlind(c) ==
  /\ pc[c] = "await"
  /\ Goto(c, IF Stopping(c) \/ status # "RUNNING" THEN "idle" ELSE "poll")
  /\ UNCHANGED <<shared, group, slots, closing, held, coord>>

\* The wait for the grant, first half: stopping, status, primary heartbeat.
Await(c) ==
  /\ pc[c] = "await"
  /\ IF Stopping(c) \/ status # "RUNNING"
       THEN Return(c) /\ UNCHANGED status
       ELSE IF primary_stale
         THEN FailAndReturn(c, "PRIMARY_DEAD")
         ELSE Goto(c, "poll") /\ UNCHANGED status
  /\ UNCHANGED <<turns, group, slots, closing, held, coord>>

\* The wait for the grant, second half: the group and the owner.
Poll(c) ==
  LET i == instance[c]
      seq == next_seq[c]
      granted == /\ state[i] = "RUNNING"
                 /\ owner = i
                 /\ forward_seq[i] = seq
                 /\ grant_id[i] # 0
      waiting == /\ forward_seq[i] = seq
                 /\ state[i] \in {"COLLECTING", "READY", "RUNNING"}
  IN  /\ pc[c] = "poll"
      /\ \/ /\ granted /\ ValidLocalWorker(c, seq)
            /\ active_seq' = [active_seq EXCEPT ![c] = seq]
            /\ active_grant_id' = [active_grant_id EXCEPT ![c] = grant_id[i]]
            /\ Goto(c, "exec")
            /\ UNCHANGED status
         \/ /\ IF granted THEN ~ValidLocalWorker(c, seq) ELSE ~waiting
            /\ FailAndReturn(c, "FENCING")
            /\ UNCHANGED <<active_seq, active_grant_id>>
         \/ /\ ~granted /\ waiting
            /\ Goto(c, "await")
            /\ UNCHANGED <<status, active_seq, active_grant_id>>
      /\ UNCHANGED <<turns, group, slots, closing, next_seq, coord>>

-----------------------------------------------------------------------------
(***************************************************************************)
(* ps_leave_forward and ps_fail.                                           *)
(***************************************************************************)

\* begin_call, check_running and the deadline.
LeaveBegin(c) ==
  /\ pc[c] = "exec"
  /\ IF Stopping(c) \/ status # "RUNNING"
       THEN Return(c) /\ UNCHANGED status
       ELSE IF deadline = "passed"
         THEN FailAndReturn(c, "FORWARD_TIMEOUT")
         ELSE Goto(c, "fence") /\ UNCHANGED status
  /\ UNCHANGED <<turns, group, slots, closing, held, coord>>

\* A call of leave with a token that is not the worker's own.
LeaveForeign(c) ==
  /\ "misuse" \in Env /\ c \in Faulty
  /\ pc[c] \in {"idle", "exec"}
  /\ ~Stopping(c)
  /\ FailPair(IF deadline = "passed" THEN "FORWARD_TIMEOUT" ELSE "FENCING")
  /\ UNCHANGED <<turns, group, slots, local, coord>>

\* The round, the grant and the slot must still be the ones c entered with.
Fence(c) ==
  LET i == instance[c]
      same == /\ owner = i
              /\ forward_seq[i] = active_seq[c]
              /\ grant_id[i] = active_grant_id[c]
              /\ state[i] = "RUNNING"
              /\ ValidLocalWorker(c, active_seq[c])
  IN  /\ pc[c] = "fence"
      /\ IF same THEN Goto(c, "finish") /\ UNCHANGED status
                 ELSE FailAndReturn(c, "FENCING")
      /\ UNCHANGED <<turns, group, slots, closing, held, coord>>

\* complete_mask |= bit.
SetComplete(c) ==
  LET i == instance[c]
      k == rank[c]
  IN  /\ pc[c] = "finish"
      /\ complete' = [complete EXCEPT ![i] = @ \cup {k}]
      /\ \/ k \in complete[i] /\ FailAndReturn(c, "DUPLICATE_RANK")
         \/ /\ k \notin complete[i]
            /\ Goto(c, IF Everyone(complete'[i]) THEN "complete" ELSE "drain")
            /\ UNCHANGED status
      /\ UNCHANGED <<turns, state, forward_seq, grant_id, ready, exited,
                     online, publish, late, slots, closing, held, coord>>

\* The last rank to finish moves the group from RUNNING to COMPLETE.
PublishComplete(c) ==
  LET i == instance[c]
  IN  /\ pc[c] = "complete"
      /\ \/ /\ state[i] = "RUNNING"
            /\ state' = [state EXCEPT ![i] = "COMPLETE"]
            /\ Goto(c, "drain")
            /\ UNCHANGED status
         \/ /\ state[i] # "RUNNING"
            /\ FailAndReturn(c, "FENCING")
            /\ UNCHANGED state
      /\ UNCHANGED <<turns, round, slots, closing, held, coord>>

\* The wait for DRAINING, first half: stopping and status.
Drain(c) ==
  /\ pc[c] = "drain"
  /\ Goto(c, IF Stopping(c) \/ status # "RUNNING" THEN "idle" ELSE "exit")
  /\ UNCHANGED <<shared, group, slots, closing, held, coord>>

\* The wait for DRAINING, second half: exit_mask |= bit, or another turn.
Exit(c) ==
  LET i == instance[c]
      mine == forward_seq[i] = active_seq[c]
      mask == exited[i] \cup {rank[c]}
  IN  /\ pc[c] = "exit"
      /\ \/ /\ state[i] = "DRAINING" /\ mine
            /\ exited' = [exited EXCEPT ![i] = mask]
            /\ Goto(c, IF Everyone(mask) THEN "reset" ELSE "idle")
            /\ active_seq' = [active_seq EXCEPT ![c] = 0]
            /\ active_grant_id' = [active_grant_id EXCEPT ![c] = 0]
            /\ UNCHANGED status
         \/ /\ state[i] \in {"RUNNING", "COMPLETE"} /\ mine
            /\ Goto(c, "drain")
            /\ UNCHANGED <<status, exited, active_seq, active_grant_id>>
         \/ /\ \/ state[i] \notin {"RUNNING", "COMPLETE", "DRAINING"}
               \/ ~mine
            /\ FailAndReturn(c, "FENCING")
            /\ UNCHANGED <<exited, active_seq, active_grant_id>>
      /\ UNCHANGED <<turns, state, forward_seq, grant_id, ready, complete,
                     online, publish, late, slots, closing, next_seq, coord>>

\* The last rank out resets the round and frees the group.
ResetRound(c) ==
  LET i == instance[c]
  IN  /\ pc[c] = "reset"
      /\ ready' = [ready EXCEPT ![i] = {}]
      /\ complete' = [complete EXCEPT ![i] = {}]
      /\ grant_id' = [grant_id EXCEPT ![i] = 0]
      /\ publish' = [publish EXCEPT ![i] = 0]
      /\ late' = late \ {i}
      /\ state' = [state EXCEPT ![i] = "IDLE"]
      /\ Return(c)
      /\ UNCHANGED <<shared, forward_seq, exited, online, slots, closing, held,
                     coord>>

\* ps_fail, called by the worker gate when the forward raises.
Abort(c) ==
  /\ "abort" \in Env /\ c \in Faulty
  /\ pc[c] = "exec"
  /\ ~Stopping(c)
  /\ FailAndReturn(c, "APPLICATION")
  /\ UNCHANGED <<turns, group, slots, closing, held, coord>>

-----------------------------------------------------------------------------
(***************************************************************************)
(* ps_close, on a thread of its own: it may overlap a call of enter or     *)
(* leave on the same context, and waits for that call to return.           *)
(***************************************************************************)
Open(c) == pc[c] \notin {"new", "gone", "dead"} \cup OpenPc

\* stopping = true.
CloseBegin(c) ==
  /\ \/ "rude" \in Env
     \/ "close" \in Env /\ pc[c] = "idle" /\ active_seq[c] = 0
  /\ c \in Faulty
  /\ Open(c)
  /\ closer[c] = "no"
  /\ closer' = [closer EXCEPT ![c] = "join"]
  /\ UNCHANGED <<shared, group, slots, pc, saw_idle, held, coord>>

ClosedNext(c) == IF c = Creator THEN "shutdown" ELSE "closed"

\* The threads are joined and no call is active.  A worker that leaves in the
\* middle of a round fails the pair.
CloseCheck(c) ==
  LET i == instance[c]
      k == rank[c]
      active == \/ active_seq[c] # 0
                \/ owner = i
                \/ state[i] \in {"COLLECTING", "READY"} /\ k \in ready[i]
  IN  /\ closer[c] = "join"
      /\ pc[c] \in {"idle", "exec"}
      /\ c = Creator => cpc = "stopped"
      /\ \/ /\ session[i][k] = c
            /\ IF active THEN FailPair("CLOSE_ACTIVE") ELSE UNCHANGED status
            /\ saw_idle' = IF state[i] = "IDLE" THEN saw_idle \cup {c}
                                                ELSE saw_idle
            /\ closer' = [closer EXCEPT ![c] = "offline"]
         \/ /\ session[i][k] # c
            /\ closer' = [closer EXCEPT ![c] = ClosedNext(c)]
            /\ UNCHANGED <<status, saw_idle>>
      /\ UNCHANGED <<turns, group, slots, pc, held, coord>>

\* online_mask &= ~bit, heartbeat_ns = 0.
CloseOffline(c) ==
  LET i == instance[c]
      k == rank[c]
  IN  /\ closer[c] = "offline"
      /\ pc[c] # "dead"
      /\ online' = [online EXCEPT ![i] = @ \ {k}]
      /\ fresh' = [fresh EXCEPT ![i][k] = FALSE]
      /\ closer' = [closer EXCEPT ![c] = "slot"]
      /\ UNCHANGED <<shared, state, forward_seq, grant_id, ready, complete,
                     exited, publish, late, session, last_seq, pc, saw_idle,
                     held, coord>>

\* pid = 0, session = 0.
CloseSlot(c) ==
  /\ closer[c] = "slot"
  /\ pc[c] # "dead"
  /\ session' = [session EXCEPT ![instance[c]][rank[c]] = NoSession]
  /\ closer' = [closer EXCEPT ![c] = "last"]
  /\ UNCHANGED <<shared, group, last_seq, fresh, pc, saw_idle, held, coord>>

\* The last worker of an instance that was IDLE takes the group OFFLINE.
CloseLast(c) ==
  /\ closer[c] = "last"
  /\ pc[c] # "dead"
  /\ closer' = [closer EXCEPT ![c] =
                  IF online[instance[c]] = {} /\ c \in saw_idle
                    THEN "store" ELSE ClosedNext(c)]
  /\ UNCHANGED <<shared, group, slots, pc, saw_idle, held, coord>>

StoreOffline(c) ==
  /\ closer[c] = "store"
  /\ pc[c] # "dead"
  /\ state' = [state EXCEPT ![instance[c]] = "OFFLINE"]
  /\ closer' = [closer EXCEPT ![c] = ClosedNext(c)]
  /\ UNCHANGED <<shared, round, slots, pc, saw_idle, held, coord>>

\* The coordinator's context shuts a running pair down.
Shutdown(c) ==
  /\ closer[c] = "shutdown"
  /\ pc[c] # "dead"
  /\ status' = IF status = "RUNNING" THEN "SHUTDOWN" ELSE status
  /\ closer' = [closer EXCEPT ![c] = "closed"]
  /\ UNCHANGED <<turns, group, slots, pc, saw_idle, held, coord>>

-----------------------------------------------------------------------------
(***************************************************************************)
(* The coordinator thread: coordinator_main calls coordinator_tick, which  *)
(* recycles a completed round and dispatches the next one.  Only this      *)
(* thread writes owner, last_owner, deadline and next_grant_id.            *)
(***************************************************************************)
CoordAt(label) == cpc = label /\ pc[Creator] # "dead"

\* Mutants: dispatch while an owner runs; never recycle the owner's round.
DispatchAnyway == "scan0"
NeverRecycle == IF owner # NoOwner THEN "tick" ELSE "scan0"

\* A tick recycles when there is an owner and dispatches when there is none.
AfterHeartbeat == IF owner # NoOwner THEN "recycle" ELSE "scan0"

\* The head of a tick: status, the primary heartbeat, the owner.  (The second
\* load of status and owner, just before dispatch_next, is a step of its own
\* only after recycle_complete has released the owner.)
Tick ==
  /\ CoordAt("tick")
  /\ ~Stopping(Creator)
  /\ status = "RUNNING"
  /\ primary_stale' = FALSE
  /\ cpc' = AfterHeartbeat
  /\ scanned' = NoneReady
  /\ UNCHANGED <<status, owner, last_owner, deadline, next_grant_id, group,
                 slots, local, selected>>

\* coordinator_main leaves its loop when the context is closing.
CoordStop ==
  /\ CoordAt("tick")
  /\ Stopping(Creator)
  /\ cpc' = "stopped"
  /\ UNCHANGED <<shared, group, slots, local, scanned, selected>>

\* recycle_complete, the decision.
Recycle ==
  LET i == owner
      done == state[i] = "COMPLETE" /\ Everyone(complete[i])
  IN  /\ CoordAt("recycle")
      /\ \/ /\ deadline = "passed"
            /\ FailPair("FORWARD_TIMEOUT")
            /\ cpc' = "tick"
         \/ /\ deadline # "passed" /\ ~done
            /\ IF /\ state[i] \in {"RUNNING", "COMPLETE"}
                  /\ ~GroupWorkersAlive(i, Rank)
                 THEN FailPair("WORKER_DEAD")
                 ELSE UNCHANGED status
            /\ cpc' = "tick"
         \/ /\ deadline # "passed" /\ done
            /\ cpc' = "drain"
            /\ UNCHANGED status
      /\ UNCHANGED <<turns, group, slots, local, scanned, selected>>

\* recycle_complete: the group may drain ...
StartDraining ==
  /\ CoordAt("drain")
  /\ exited' = [exited EXCEPT ![owner] = {}]
  /\ state' = [state EXCEPT ![owner] = "DRAINING"]
  /\ cpc' = "release"
  /\ UNCHANGED <<shared, forward_seq, grant_id, ready, complete, online,
                 publish, late, slots, local, scanned, selected>>

\* ... and only then is the owner cleared.
ReleaseOwner ==
  /\ CoordAt("release")
  /\ last_owner' = owner
  /\ deadline' = "none"
  /\ owner' = NoOwner
  /\ cpc' = "recheck"
  /\ UNCHANGED <<status, primary_stale, next_grant_id, group, slots, local,
                 scanned, selected>>

\* coordinator_tick dispatches only for a running pair without an owner.
Recheck ==
  /\ CoordAt("recheck")
  /\ cpc' = IF status = "RUNNING" /\ owner = NoOwner THEN "scan0" ELSE "tick"
  /\ UNCHANGED <<shared, group, slots, local, scanned, selected>>

GroupReady(i) ==
  /\ state[i] = "READY"
  /\ Everyone(ready[i])
  /\ Everyone(online[i])
  /\ GroupWorkersAlive(i, Rank)

\* Mutant: the barrier never times out.
NeverBroken(i) == FALSE

\* A barrier that has been open for peer_timeout with a rank missing or dead.
BarrierBroken(i) ==
  /\ state[i] \in {"COLLECTING", "READY"}
  /\ publish[i] # 0
  /\ i \in late
  /\ \/ ~Everyone(ready[i])
     \/ ~Everyone(online[i])
     \/ ~GroupWorkersAlive(i, ready[i])

\* dispatch_next, the look at group i.
Scan(i) ==
  LET found == [scanned EXCEPT ![i] =
                  IF GroupReady(i) THEN publish[i] ELSE NotReady]
  IN  /\ CoordAt(IF i = 0 THEN "scan0" ELSE "scan1")
      /\ \/ /\ BarrierBroken(i)
            /\ FailPair("BARRIER_TIMEOUT")
            /\ scanned' = NoneReady
            /\ cpc' = "tick"
         \/ /\ ~BarrierBroken(i)
            /\ scanned' = found
            /\ cpc' = IF i = 0 THEN "scan1"
                      ELSE IF found = NoneReady THEN "tick" ELSE "select"
            /\ UNCHANGED status
      /\ UNCHANGED <<turns, group, slots, local, selected>>

\* Mutant: the primary always goes first.
AlwaysA == IF scanned[0] # NotReady THEN 0 ELSE 1

\* The earlier publication wins, a tie goes to the instance that did not run
\* last.
Preferred ==
  IF \E i \in Inst : scanned[i] = NotReady
    THEN IF scanned[0] = NotReady THEN 1 ELSE 0
    ELSE IF scanned[0] # scanned[1]
           THEN IF scanned[0] < scanned[1] THEN 0 ELSE 1
           ELSE IF last_owner = 0 THEN 1 ELSE 0

\* dispatch_next: READY -> RUNNING, or nothing when the group moved.
Select ==
  LET i == Preferred
  IN  /\ CoordAt("select")
      /\ selected' = i
      /\ scanned' = NoneReady
      /\ \/ /\ state[i] = "READY"
            /\ state' = [state EXCEPT ![i] = "RUNNING"]
            /\ cpc' = "grant"
         \/ /\ state[i] # "READY"
            /\ cpc' = "tick"
            /\ UNCHANGED state
      /\ UNCHANGED <<shared, round, slots, local>>

\* Mutants: the grant number is not advanced, or goes the wrong way.
SameGrant == 1
GrantBefore == next_grant_id - 1

\* next_grant_id, incremented.
NextGrant == next_grant_id + 1

\* dispatch_next: grant, deadline, owner.
Grant ==
  /\ CoordAt("grant")
  /\ next_grant_id' = NextGrant
  /\ grant_id' = [grant_id EXCEPT ![selected] = NextGrant]
  /\ deadline' = "armed"
  /\ owner' = selected
  /\ cpc' = "tick"
  /\ UNCHANGED <<status, last_owner, primary_stale, state, forward_seq, ready,
                 complete, exited, online, publish, late, slots, local,
                 scanned, selected>>

-----------------------------------------------------------------------------
(***************************************************************************)
(* Time, heartbeats and crashes.                                           *)
(***************************************************************************)
Beating(c) == Open(c) /\ closer[c] = "no"

\* heartbeat_main: the thread refreshes its slot, whoever holds it by now.
Heartbeat(c) ==
  LET i == instance[c]
      k == rank[c]
  IN  /\ Beating(c)
      /\ ~fresh[i][k]
      /\ fresh' = [fresh EXCEPT ![i][k] = TRUE]
      /\ UNCHANGED <<shared, group, session, last_seq, local, coord>>

\* A heartbeat expires when no live process refreshes it, or by a stall.
HeartbeatExpires(i, k) ==
  /\ fresh[i][k]
  /\ \/ "stall" \in Env
     \/ \A c \in Ctx : instance[c] = i /\ rank[c] = k =>
          ~Beating(c) /\ pc[c] \notin {"online", "opened"}
  /\ fresh' = [fresh EXCEPT ![i][k] = FALSE]
  /\ UNCHANGED <<shared, group, session, last_seq, local, coord>>

\* A failed pair's coordinator stops refreshing it too; nobody reads it then.
PrimaryExpires ==
  /\ ~primary_stale
  /\ \/ "stall" \in Env
     \/ pc[Creator] \in {"dead", "gone"}
     \/ cpc = "stopped"
  /\ primary_stale' = TRUE
  /\ UNCHANGED <<status, owner, last_owner, deadline, next_grant_id, group,
                 slots, local, coord>>

DeadlinePasses ==
  /\ "slow" \in Env
  /\ deadline = "armed"
  /\ deadline' = "passed"
  /\ UNCHANGED <<status, owner, last_owner, primary_stale, next_grant_id,
                 group, slots, local, coord>>

BarrierAges(i) ==
  /\ "slow" \in Env
  /\ publish[i] # 0
  /\ state[i] \in {"COLLECTING", "READY"}
  /\ i \notin late
  /\ late' = late \cup {i}
  /\ UNCHANGED <<shared, state, forward_seq, grant_id, ready, complete, exited,
                 online, publish, slots, local, coord>>

\* SIGKILL: the process stops wherever it is; the segment stays as it is.
Crash(c) ==
  /\ "crash" \in Env /\ c \in Faulty
  /\ pc[c] \notin {"new", "gone", "dead"}
  /\ closer[c] # "closed"
  /\ Goto(c, "dead")
  /\ UNCHANGED <<shared, group, slots, closing, held, coord>>

-----------------------------------------------------------------------------
OpenSteps(c) ==
  \/ OpenCheck(c) \/ RegisterSlot(c) \/ RegisterOnline(c) \/ Opened(c)
  \/ OpenFailure(c)

EnterSteps(c) ==
  \/ Claim(c) \/ InitRound(c) \/ Match(c) \/ SetReady(c) \/ PublishReady(c)
  \/ Await(c) \/ Poll(c)

LeaveSteps(c) ==
  \/ Fence(c) \/ SetComplete(c) \/ PublishComplete(c) \/ Drain(c) \/ Exit(c)
  \/ ResetRound(c)

CloseSteps(c) ==
  \/ CloseCheck(c) \/ CloseOffline(c) \/ CloseSlot(c) \/ CloseLast(c)
  \/ StoreOffline(c) \/ Shutdown(c)

Engine(c) ==
  \/ EnterBegin(c) \/ LeaveBegin(c) \/ EnterTwice(c) \/ LeaveForeign(c)
  \/ Abort(c) \/ CloseBegin(c)

Coordinator ==
  \/ Tick \/ CoordStop \/ Recycle \/ StartDraining \/ ReleaseOwner \/ Recheck
  \/ Scan(0) \/ Scan(1) \/ Select \/ Grant

Environment ==
  \/ \E c \in Ctx : Heartbeat(c) \/ Crash(c)
  \/ \E i \in Inst, k \in Rank : HeartbeatExpires(i, k)
  \/ PrimaryExpires
  \/ DeadlinePasses
  \/ \E i \in Inst : BarrierAges(i)

Next ==
  \/ \E c \in Ctx : \/ OpenSteps(c) \/ EnterSteps(c) \/ LeaveSteps(c)
                    \/ CloseSteps(c) \/ Engine(c)
  \/ Coordinator
  \/ Environment

Spec == Init /\ [][Next]_vars

-----------------------------------------------------------------------------
(***************************************************************************)
(* Safety.                                                                 *)
(***************************************************************************)

\* c is between the return of enter_forward and its COMPLETE bit.
Executing(c) == pc[c] \in {"exec", "fence", "finish"}

\* Rounds of the two instances never overlap: while a worker of one instance
\* executes under its grant, no worker of the other instance does
\* (dispatch_next grants only without an owner, recycle_complete clears the
\* owner only after every COMPLETE bit).
RoundsNeverOverlap ==
  \A c, d \in Ctx : Executing(c) /\ Executing(d) => instance[c] = instance[d]

\* One grant is consumed by each rank of one instance at most once, whatever
\* restarts, stale sessions and delayed closers do (the READY bit of a rank
\* admits one context per round, and sessions fence the others).
GrantConsumedOnce ==
  \A c, d \in Ctx :
    c # d /\ active_grant_id[c] # 0 /\ active_grant_id[c] = active_grant_id[d]
      => instance[c] = instance[d] /\ rank[c] # rank[d]

\* Without crashes, stalls, timeouts and closing workers the pair never fails,
\* in whatever order the ranks of an instance arrive, finish, drain and re-enter
\* (ps_enter_forward waits out INITIALIZING and DRAINING before it compares
\* sequence numbers, so a fast rank never meets its own previous round).
NoFailure == status = "RUNNING"

\* A thread with its READY bit set that has not set its EXIT bit.
RoundPc == {"publish", "await", "poll", "exec"} \cup LeavePc

\* The ranks of an instance run in lockstep: when one of them executes a
\* round, every other one has entered the same round and has not left it (the
\* READY mask of ps_enter_forward, the COMPLETE mask of ps_leave_forward).
StaysTogether ==
  \A c, d \in Ctx :
    Executing(c) /\ instance[c] = instance[d] =>
      next_seq[c] = next_seq[d] /\ pc[d] \in RoundPc

\* Closing a worker between rounds does not fail the pair (ps_close calls
\* fail_pair(FAIL_CLOSE_ACTIVE) only for a worker in the middle of a round).
IdleCloseIsClean == status # "CLOSE_ACTIVE"

-----------------------------------------------------------------------------
(***************************************************************************)
(* Fairness.  Threads that can take a step do (every futex wait has a      *)
(* timeout, so no thread depends on a wake-up), forwards end, and time     *)
(* passes.                                                                 *)
(***************************************************************************)
Threads ==
  /\ WF_vars(Coordinator)
  /\ \A c \in Ctx : /\ WF_vars(EnterSteps(c))
                    /\ WF_vars(LeaveSteps(c))
                    /\ WF_vars(LeaveBegin(c))

Clocks ==
  /\ \A i \in Inst : \A k \in Rank : WF_vars(HeartbeatExpires(i, k))
  /\ \A i \in Inst : WF_vars(BarrierAges(i))
  /\ WF_vars(PrimaryExpires)
  /\ WF_vars(DeadlinePasses)

\* Every call of enter_forward gets its round, however busy the other instance
\* is, and even if it never stops sending steps (dispatch_next serves the earlier
\* publication first, and the instance that did not run last on a tie).
EntryServed == \A c \in Ctx : pc[c] = "claim" ~> Executing(c)

\* The owner word is not held for ever: the round completes, or the pair fails
\* because a worker died or the deadline passed, as long as the coordinator
\* lives (recycle_complete).
GrantNotHeld ==
  \A i \in Inst :
    owner = i ~> owner # i \/ status # "RUNNING" \/ pc[Creator] = "dead"

\* A worker waiting for its grant is never left waiting, whoever crashes: it
\* gets the round or its call returns because the barrier timed out or the
\* primary heartbeat expired (dispatch_next, the await loop of
\* ps_enter_forward).
AwaitReturns ==
  \A c \in Ctx : pc[c] \in {"await", "poll"} ~> pc[c] \notin {"await", "poll"}

\* Every call of enter_forward returns, whoever crashes.
EnterReturns == \A c \in Ctx : pc[c] \in EnterPc ~> pc[c] \notin EnterPc

\* Every call of leave_forward returns, whoever crashes.
LeaveReturns == \A c \in Ctx : pc[c] \in LeavePc ~> pc[c] \notin LeavePc
=============================================================================
