----------------------------- MODULE CoreLimiter -----------------------------
(***************************************************************************)
(* The time-slice scheduler of vCANN-RT (core_limiter.c): the processes    *)
(* that share one NPU pass the word `owner` around in shared memory, and   *)
(* the scheduler thread of the owner's process opens its launch gate (it   *)
(* releases g_sched_mutex) for the length of one slice.                    *)
(*                                                                         *)
(* One step per access of a shared word.  Clocks are abstracted: `alive`   *)
(* holds the vNPUs whose last_alive_time_ns is fresh, a slice lasts as     *)
(* long as it lasts, and what it overran or what the synchronisation of    *)
(* the streams cost afterwards is a debt chosen from 0..MaxDebt.           *)
(***************************************************************************)
EXTENDS Integers, FiniteSets

CONSTANTS
  MaxVnpu,     \* MAX_VNPU; the ids are 0 .. MaxVnpu - 1
  Proc,        \* processes that map the segment
  vnpu,        \* vnpu[p]: get_vnpu_id() of process p
  Policy,      \* get_sched_policy(): "fixed" or "elastic"
  MaxQuota,    \* slice lengths are 0 .. MaxQuota
  MaxDebt,     \* bound of an overrun and of a synchronisation
  NoProc,
  OwnerDead,   \* state of a robust mutex whose holder died
  Env,         \* what may happen to faulty processes, see Hazard
  Faulty,      \* processes that may fail
  Tuned,       \* vNPUs whose quota an operator changes with enpu-ctl
  Prefilling   \* vNPUs whose engine marks its prefills

Hazard == {"crash", "stall", "nodevice"}
VNPU == 0 .. (MaxVnpu - 1)
NoOwner == -1

ASSUME LimiterAssumption ==
  /\ MaxVnpu \in Nat \ {0}
  /\ vnpu \in [Proc -> VNPU]
  /\ Policy \in {"fixed", "elastic"}
  /\ MaxQuota \in Nat \ {0}
  /\ MaxDebt \in Nat
  /\ NoProc \notin Proc /\ OwnerDead \notin Proc /\ NoProc # OwnerDead
  /\ Env \subseteq Hazard
  /\ Faulty \subseteq Proc
  /\ Tuned \subseteq VNPU /\ Prefilling \subseteq VNPU

VARIABLES
  magic,       \* magic_number of the segment
  owner,       \* the vNPU whose turn it is
  alive,       \* vNPUs whose heartbeat is within VNPU_TIMEOUT_PERIOD
  quota,       \* vnpu_core_limit_quota
  in_prefill,  \* vNPUs with prefill_state.in_prefill set
  mtx,         \* mtx[v]: holder of the robust vnpu_schedule_mutex[v]
  pc,          \* where the scheduler thread of a process is
  reg,         \* reg[p]: the owner it read or the next owner it selected, and
               \* NoOwner when the value will not be used again
  cur,         \* core_cur_timeslice
  current,     \* processes whose turn_id, read in this slice, still equals
               \* vnpu_schedule_turn
  calm         \* ghost: an orderly start, and no fault since (see SlicesExclusive)

shared == <<magic, owner, alive, quota, in_prefill, mtx>>
local == <<pc, reg, cur, current>>
vars == <<shared, local, calm>>

Booting == {"init", "again", "expire", "claim", "wipe", "publish", "join"}
\* The launch gate is open: the scheduler thread has given g_sched_mutex away
\* for a slice.
Open == {"begin", "slice"}
Handing == {"relock", "account", "sync"}
Looping == {"poll", "borrow", "check", "reload", "pass", "take", "skip",
            "skippass", "skipaccount"} \cup Open \cup Handing
Labels == {"off", "headless"} \cup Booting \cup Looping

\* The flush thread runs from vnpu_scheduler_init until the process dies.
Flushing(p) == pc[p] \in Looping \cup {"headless"}
Mates(p) == {q \in Proc : vnpu[q] = vnpu[p]}

InSlice(p) == pc[p] \in Open

TypeOK ==
  /\ magic \in {"UNINITIALIZED", "INITIALIZING", "INITIALIZED"}
  /\ owner \in VNPU \cup {NoOwner}
  /\ alive \subseteq VNPU
  /\ quota \in [VNPU -> 0 .. MaxQuota]
  /\ in_prefill \subseteq VNPU
  /\ mtx \in [VNPU -> Proc \cup {NoProc, OwnerDead}]
  /\ pc \in [Proc -> Labels]
  /\ reg \in [Proc -> VNPU \cup {NoOwner}]
  /\ cur \in [Proc -> -MaxDebt .. 0]
  /\ current \subseteq Proc
  /\ calm \in BOOLEAN

\* A fresh segment: map_share_mem creates it filled with zeros.
Init ==
  /\ magic = "UNINITIALIZED"
  /\ owner = 0
  /\ alive = {}
  /\ quota = [v \in VNPU |-> 0]
  /\ in_prefill = {}
  /\ mtx = [v \in VNPU |-> NoProc]
  /\ pc = [p \in Proc |-> "off"]
  /\ reg = [p \in Proc |-> NoOwner]
  /\ cur = [p \in Proc |-> 0]
  /\ current = {}
  /\ calm = TRUE

\* A process that may be held up for longer than VNPU_TIMEOUT_PERIOD (3 ms).
Stalls(p) == "stall" \in Env /\ p \in Faulty

goto(p, l) == pc' = [pc EXCEPT ![p] = l]

-----------------------------------------------------------------------------
(* share_mem_init and vnpu_scheduler_init. *)

Boot(p) ==
  /\ pc[p] = "off"
  /\ goto(p, "init")
  /\ UNCHANGED <<shared, reg, cur, current, calm>>

\* share_mem_init loads the magic number ...
InitRead(p) ==
  /\ pc[p] = "init"
  /\ goto(p, IF magic = "INITIALIZED" THEN "join" ELSE "again")
  /\ UNCHANGED <<shared, reg, cur, current, calm>>

\* ... and loads it again.  It waits for another initialiser; otherwise, and so
\* also when the other one has finished between the two loads, it initialises.
InitReadAgain(p) ==
  /\ pc[p] = "again"
  /\ goto(p, IF magic = "INITIALIZING" THEN "init" ELSE "claim")
  /\ UNCHANGED <<shared, reg, cur, current, calm>>

\* It has waited longer than VNPU_TIMEOUT_PERIOD since its own begin, however
\* long ago the present initialiser began ...
InitTimeout(p) ==
  /\ pc[p] = "again"
  /\ magic = "INITIALIZING"
  /\ goto(p, "expire")
  /\ UNCHANGED <<shared, reg, cur, current, calm>>

\* Mutant: the magic number is not reset.
ResetNothing(p) ==
  /\ pc[p] = "expire"
  /\ goto(p, "init")
  /\ calm' = FALSE
  /\ UNCHANGED <<shared, reg, cur, current>>

\* ... and resets the magic number, whatever it is by now.
InitReset(p) ==
  /\ pc[p] = "expire"
  /\ magic' = "UNINITIALIZED"
  /\ goto(p, "init")
  /\ calm' = FALSE
  /\ UNCHANGED <<owner, alive, quota, in_prefill, mtx, reg, cur, current>>

\* Nothing holds the place between the loads and this store.
InitClaim(p) ==
  /\ pc[p] = "claim"
  /\ magic' = "INITIALIZING"
  /\ goto(p, "wipe")
  /\ calm' = (calm /\ magic = "UNINITIALIZED")
  /\ UNCHANGED <<owner, alive, quota, in_prefill, mtx, reg, cur, current>>

\* The turns restart at 0, so a turn_id read before may or may not match.
InitWipe(p) ==
  /\ pc[p] = "wipe"
  /\ owner' = NoOwner
  /\ alive' = {}
  /\ quota' = [v \in VNPU |-> 0]
  /\ in_prefill' = {}
  /\ mtx' = [v \in VNPU |-> NoProc]
  /\ current' \in SUBSET {q \in Proc : pc[q] \in {"slice", "relock", "account"}}
  /\ goto(p, "publish")
  /\ UNCHANGED <<magic, reg, cur, calm>>

InitPublish(p) ==
  /\ pc[p] = "publish"
  /\ magic' = "INITIALIZED"
  /\ goto(p, "join")
  /\ UNCHANGED <<owner, alive, quota, in_prefill, mtx, reg, cur, current, calm>>

\* vnpu_scheduler_init stores the configured quota and starts the two threads.
\* The scheduler thread locks g_sched_mutex first; when rtSetDevice fails it
\* returns with the mutex locked while the flush thread goes on.
Join(p) ==
  /\ pc[p] = "join"
  /\ \E q \in 1 .. MaxQuota : quota' = [quota EXCEPT ![vnpu[p]] = q]
  /\ cur' = [cur EXCEPT ![p] = 0]
  /\ \/ goto(p, "poll")
     \/ "nodevice" \in Env /\ p \in Faulty /\ goto(p, "headless")
  /\ calm' = (calm /\ \A q \in Proc \ {p} :
                         Flushing(q) => vnpu[q] # vnpu[p] /\ owner \in alive)
  /\ UNCHANGED <<magic, owner, alive, in_prefill, mtx, reg, current>>

-----------------------------------------------------------------------------
(* vnpu_scheduler_thread. *)

\* Mutant: the search begins with the owner itself.
DistanceFromSelf(v, w) == (w - v + MaxVnpu) % MaxVnpu

\* How far vNPU w is behind vNPU v in the search of select_next_owner.
Distance(v, w) == (w - v - 1 + MaxVnpu) % MaxVnpu

\* select_next_owner(v) returns w: the first live vNPU after v, v itself last.
Selects(v, w) ==
  \/ w \in alive /\ \A u \in alive : Distance(v, w) <= Distance(v, u)
  \/ w = NoOwner /\ alive = {}

\* Mutant: vNPU 0 is taken for an invalid id.
IsAliveAboveZero(v) == v > 0 /\ v \in alive

\* is_vnpu_alive; no owner is not alive.
is_vnpu_alive(v) == v \in alive

\* Top of the loop: load the owner, and branch on it.
Poll(p) ==
  /\ pc[p] = "poll"
  /\ IF owner = vnpu[p]
     THEN goto(p, "take") /\ UNCHANGED reg
     ELSE /\ goto(p, IF Policy = "elastic" THEN "borrow" ELSE "check")
          /\ reg' = [reg EXCEPT ![p] = owner]
  /\ UNCHANGED <<shared, cur, current, calm>>

\* check_and_borrow_timeslice: the gate is open for BORROW_TIMESLICE_LENGTH.
Borrow(p) ==
  /\ pc[p] = "borrow"
  /\ goto(p, "check")
  /\ UNCHANGED <<shared, reg, cur, current, calm>>

\* Mutant: the turn is taken over without looking at the owner's heartbeat.
CheckNothing(p) ==
  /\ pc[p] = "check"
  /\ goto(p, "reload")
  /\ reg' = [reg EXCEPT ![p] = NoOwner]
  /\ UNCHANGED <<shared, cur, current, calm>>

\* The owner that was read is looked up only now.
CheckOwner(p) ==
  /\ pc[p] = "check"
  /\ goto(p, IF is_vnpu_alive(reg[p]) THEN "poll" ELSE "reload")
  /\ reg' = [reg EXCEPT ![p] = NoOwner]
  /\ UNCHANGED <<shared, cur, current, calm>>

\* The owner is loaded again and its successor selected.
Reload(p) ==
  /\ pc[p] = "reload"
  /\ \E w \in VNPU \cup {NoOwner} :
       /\ Selects(owner, w)
       /\ reg' = [reg EXCEPT ![p] = w]
  /\ goto(p, "pass")
  /\ UNCHANGED <<shared, cur, current, calm>>

\* set_vnpu_and_idle: the idling of the fixed policy is time before the store.
Store(p) ==
  /\ owner' = IF reg[p] = NoOwner THEN owner ELSE reg[p]
  /\ reg' = [reg EXCEPT ![p] = NoOwner]

PassDead(p) ==
  /\ pc[p] = "pass"
  /\ Store(p)
  /\ goto(p, "poll")
  /\ UNCHANGED <<magic, alive, quota, in_prefill, mtx, cur, current, calm>>

-----------------------------------------------------------------------------
(* add_and_consume_time_slice. *)

\* The slice is the quota less the debt of the last one.
TakeSlice(p) ==
  LET timeslice == cur[p] + quota[vnpu[p]]
  IN  /\ pc[p] = "take"
      /\ IF timeslice <= 0
         THEN /\ cur' = [cur EXCEPT ![p] = timeslice]
              /\ goto(p, "skip")
         ELSE /\ cur' = [cur EXCEPT ![p] = 0]
              /\ goto(p, "begin")
      /\ UNCHANGED <<shared, reg, current, calm>>

\* No time left in this turn: select the next owner and hand over at once.
Skip(p) ==
  /\ pc[p] = "skip"
  /\ \E w \in VNPU \cup {NoOwner} :
       /\ Selects(owner, w)
       /\ reg' = [reg EXCEPT ![p] = w]
  /\ goto(p, "skippass")
  /\ UNCHANGED <<shared, cur, current, calm>>

PassSkipped(p) ==
  /\ pc[p] = "skippass"
  /\ Store(p)
  /\ goto(p, "skipaccount")
  /\ UNCHANGED <<magic, alive, quota, in_prefill, mtx, cur, current, calm>>

\* Mutant: the next owner is stored when it is selected.
HandOverAtBegin(p) ==
  /\ pc[p] = "begin"
  /\ current' = current \cup {p}
  /\ \E w \in VNPU : Selects(owner, w) /\ owner' = w
  /\ goto(p, "slice")
  /\ UNCHANGED <<magic, alive, quota, in_prefill, mtx, reg, cur, calm>>

\* At the beginning of the slice the turn is noted and the next owner selected.
BeginSlice(p) ==
  /\ pc[p] = "begin"
  /\ current' = current \cup {p}
  /\ \E w \in VNPU \cup {NoOwner} :
       /\ Selects(owner, w)
       /\ reg' = [reg EXCEPT ![p] = w]
  /\ goto(p, "slice")
  /\ UNCHANGED <<shared, cur, calm>>

\* Mutant: the overrun is credited instead of charged.
CreditOverrun(p) ==
  /\ pc[p] = "slice"
  /\ vnpu[p] \notin in_prefill
  /\ \E overrun \in 0 .. MaxDebt : cur' = [cur EXCEPT ![p] = overrun]
  /\ goto(p, "relock")
  /\ UNCHANGED <<shared, reg, current, calm>>

\* The slice is over, or (elastic) the vNPU has no work; a prefill is not cut.
EndSlice(p) ==
  /\ pc[p] = "slice"
  /\ vnpu[p] \notin in_prefill
  /\ \E overrun \in 0 .. MaxDebt : cur' = [cur EXCEPT ![p] = -overrun]
  /\ goto(p, "relock")
  /\ UNCHANGED <<shared, reg, current, calm>>

\* The gate is closed; the owner selected at the beginning is stored.
HandOver(p) ==
  /\ pc[p] = "relock"
  /\ Store(p)
  /\ goto(p, "account")
  /\ UNCHANGED <<magic, alive, quota, in_prefill, mtx, cur, current, calm>>

-----------------------------------------------------------------------------
(* The end of a turn, under the robust mutex of the vNPU. *)

\* Free, or left by a dead process (EOWNERDEAD, pthread_mutex_consistent).
Lockable(v) == mtx[v] \in {NoProc, OwnerDead}

\* "Only one thread is accepted": the first process of the vNPU to come here in
\* this turn synchronises its streams, the others go on.
Account(p) ==
  /\ pc[p] = "account"
  /\ Lockable(vnpu[p])
  /\ IF p \in current
     THEN /\ mtx' = [mtx EXCEPT ![vnpu[p]] = p]
          /\ goto(p, "sync")
     ELSE /\ mtx' = [mtx EXCEPT ![vnpu[p]] = NoProc]
          /\ goto(p, "poll")
  /\ UNCHANGED <<magic, owner, alive, quota, in_prefill, reg, cur, current, calm>>

\* compensate_delta_time, the next turn, unlock.
Compensate(p) ==
  /\ pc[p] = "sync"
  /\ \E elapsed \in 0 .. MaxDebt : cur' = [cur EXCEPT ![p] = -elapsed]
  /\ current' = current \ Mates(p)
  /\ mtx' = [mtx EXCEPT ![vnpu[p]] = IF @ = p THEN NoProc ELSE @]
  /\ goto(p, "poll")
  /\ UNCHANGED <<magic, owner, alive, quota, in_prefill, reg, calm>>

\* After a skipped turn nothing is synchronised.  turn_id is 255 at first and
\* otherwise that of an earlier slice; it may match, the turns being modulo 256.
AccountSkipped(p) ==
  /\ pc[p] = "skipaccount"
  /\ Lockable(vnpu[p])
  /\ current' \in {current, current \ Mates(p)}
  /\ mtx' = [mtx EXCEPT ![vnpu[p]] = NoProc]
  /\ goto(p, "poll")
  /\ UNCHANGED <<magic, owner, alive, quota, in_prefill, reg, cur, calm>>

-----------------------------------------------------------------------------
(* The flush thread, the engine, enpu-ctl, and failures. *)

\* vnpu_scheduler_flush_thread
Flush(p) ==
  /\ Flushing(p)
  /\ alive' = alive \cup {vnpu[p]}
  /\ UNCHANGED <<magic, owner, quota, in_prefill, mtx, local, calm>>

\* A heartbeat that nobody refreshes grows old.
Expire(v) ==
  /\ v \in alive
  /\ \A p \in Proc : vnpu[p] = v => ~Flushing(p)
  /\ alive' = alive \ {v}
  /\ UNCHANGED <<magic, owner, quota, in_prefill, mtx, local, calm>>

\* The flush thread of a vNPU is held up, and the heartbeat grows old.
Lapse(v) ==
  /\ v \in alive
  /\ \E p \in Proc : vnpu[p] = v /\ Flushing(p) /\ Stalls(p)
  /\ alive' = alive \ {v}
  /\ calm' = FALSE
  /\ UNCHANGED <<magic, owner, quota, in_prefill, mtx, local>>

\* rtBeginPrefill and rtEndPrefill of a running process.
BeginPrefill(p) ==
  /\ Flushing(p) /\ vnpu[p] \in Prefilling \ in_prefill
  /\ in_prefill' = in_prefill \cup {vnpu[p]}
  /\ UNCHANGED <<magic, owner, alive, quota, mtx, local, calm>>

EndPrefill(p) ==
  /\ Flushing(p) /\ vnpu[p] \in in_prefill
  /\ in_prefill' = in_prefill \ {vnpu[p]}
  /\ UNCHANGED <<magic, owner, alive, quota, mtx, local, calm>>

\* enpu-ctl set: 0 is accepted too.
SetQuota(v) ==
  /\ v \in Tuned
  /\ \E q \in 0 .. MaxQuota : quota' = [quota EXCEPT ![v] = q]
  /\ UNCHANGED <<magic, owner, alive, in_prefill, mtx, local, calm>>

\* A process dies; the words it wrote stay in the segment, and it may be
\* started again.
Crash(p) ==
  /\ "crash" \in Env /\ p \in Faulty
  /\ pc[p] # "off"
  /\ goto(p, "off")
  /\ mtx' = [v \in VNPU |-> IF mtx[v] = p THEN OwnerDead ELSE mtx[v]]
  /\ reg' = [reg EXCEPT ![p] = NoOwner]
  /\ cur' = [cur EXCEPT ![p] = 0]
  /\ current' = current \ {p}
  /\ calm' = FALSE
  /\ UNCHANGED <<magic, owner, alive, quota, in_prefill>>

-----------------------------------------------------------------------------
Start(p) ==
  \/ InitRead(p) \/ InitReadAgain(p) \/ InitTimeout(p) \/ InitReset(p)
  \/ InitClaim(p) \/ InitWipe(p) \/ InitPublish(p) \/ Join(p)

SchedulerThread(p) ==
  \/ Poll(p) \/ Borrow(p) \/ CheckOwner(p) \/ Reload(p) \/ PassDead(p)
  \/ TakeSlice(p) \/ Skip(p) \/ PassSkipped(p)
  \/ BeginSlice(p) \/ EndSlice(p) \/ HandOver(p)
  \/ Account(p) \/ Compensate(p) \/ AccountSkipped(p)

Next ==
  \/ \E p \in Proc : \/ Boot(p) \/ Start(p) \/ SchedulerThread(p) \/ Flush(p)
                     \/ BeginPrefill(p) \/ EndPrefill(p) \/ Crash(p)
  \/ \E v \in VNPU : Expire(v) \/ Lapse(v) \/ SetQuota(v)

\* Threads run and time passes: a process that goes on finding INITIALIZING in
\* share_mem_init finds it after VNPU_TIMEOUT_PERIOD too (begin is set back by a
\* timeout only), and a heartbeat that nobody refreshes grows old.
Fairness ==
  /\ \A p \in Proc : /\ WF_vars(Start(p)) /\ SF_vars(InitTimeout(p))
                     /\ WF_vars(SchedulerThread(p)) /\ WF_vars(Flush(p))
  /\ \A v \in VNPU : WF_vars(Expire(v))

Spec == Init /\ [][Next]_vars

-----------------------------------------------------------------------------
\* Two vNPUs never have a slice at the same time on a calm machine: the owner is
\* handed on only by the vNPU that has it (vnpu_scheduler_thread and
\* add_and_consume_time_slice).  A machine is calm as long as
\*  - the segment is initialised once: no process finds UNINITIALIZED, or
\*    INITIALIZING and then INITIALIZED, and stores INITIALIZING after another
\*    one has, and none times out;
\*  - processes join one after the other: a process joins when another one is
\*    up only after a vNPU has taken the first turn, and not as a second process
\*    of its vNPU;
\*  - no process dies or misses its heartbeat.
SlicesExclusive ==
  calm => \A p, q \in Proc : InSlice(p) /\ InSlice(q) => vnpu[p] = vnpu[q]

\* On a calm machine, the orderly start included, the turn is handed on only by
\* the process of the vNPU that has it, or when the owner is no live vNPU:
\* "Scheduling is performed only when the owner is the current vnpu or the owner
\* is disabled" (vnpu_scheduler_thread).
OnlyOwnerSchedules ==
  [][calm /\ owner' # owner =>
       owner \notin alive \/ \E p \in Proc : vnpu[p] = owner /\ pc'[p] # pc[p]]_vars

-----------------------------------------------------------------------------
\* Where a process has stored nothing in the segment, where it has the turn, and
\* where it has selected a successor.
Before == {"off", "init", "again", "expire", "claim"}
Scheduling == {"take", "skip", "skippass", "begin", "slice", "relock"}
Selected == {"skippass", "slice", "relock"}

\* One process initialises the segment while the others have not stored anything,
\* and processes join after it.
InitOnce ==
  /\ magic = "INITIALIZED" \/ \A p \in Proc : pc[p] \in Before \cup {"wipe", "publish"}
  /\ \A p \in Proc : pc[p] \in {"wipe", "publish"} =>
       magic = "INITIALIZING" /\ \A q \in Proc \ {p} : pc[q] \in Before

\* A heartbeat has exactly one process behind it.
Backed ==
  /\ \A p, q \in Proc : Flushing(p) /\ Flushing(q) /\ vnpu[p] = vnpu[q] => p = q
  /\ \A v \in alive : \E p \in Proc : vnpu[p] = v /\ Flushing(p)

\* The owner is a live vNPU, so nobody finds a dead owner, and a thread that
\* schedules belongs to the owner.
Taken ==
  /\ owner \in alive
  /\ \A p \in Proc :
       /\ pc[p] \notin {"reload", "pass"}
       /\ pc[p] \in {"borrow", "check"} \cup Selected => reg[p] \in alive
       /\ pc[p] \in Scheduling => owner = vnpu[p]

\* Before the first turn at most one process is up, and it finds no owner.
Untaken ==
  /\ owner \notin alive
  /\ magic = "INITIALIZED" => owner = NoOwner
  /\ \A p, q \in Proc : Flushing(p) /\ Flushing(q) => p = q
  /\ \A p \in Proc :
       /\ pc[p] \notin Scheduling
       /\ pc[p] = "publish" => owner = NoOwner
       /\ pc[p] = "pass" => reg[p] \in alive \cup {NoOwner}

\* Why slices are exclusive on a calm machine, from the zeroed segment on
\* (share_mem_init, vnpu_scheduler_thread, add_and_consume_time_slice).
CalmInv == calm => InitOnce /\ Backed /\ (Taken \/ Untaken)

-----------------------------------------------------------------------------
\* After a time nobody starts or dies any more ...
Stays == <>[][\A p \in Proc : pc[p] = "off" <=> pc'[p] = "off"]_vars

\* ... or misses a heartbeat, every scheduler thread has its device, and the
\* prefills are over.
Settles ==
  /\ Stays
  /\ <>[][alive \subseteq alive']_vars
  /\ <>[](\A p \in Proc : pc[p] # "headless")
  /\ <>[](in_prefill = {})

\* share_mem_init always returns, also when an initialiser died half way and
\* left INITIALIZING behind, and when several processes time out on each other
\* (the timeout of share_mem_init).
InitReturns ==
  Stays => \A p \in Proc : pc[p] \in Booting ~> pc[p] \notin Booting

\* Every vNPU that stays up with a quota gets slices for ever, also after
\* initialisers, owners and holders of the robust mutex have died, turns were
\* handed to dead vNPUs and the segment was initialised again
\* (is_vnpu_alive, select_next_owner, EOWNERDEAD).  A vNPU whose quota an
\* operator or a second initialisation sets to 0 gets none.
EveryoneServed ==
  Settles =>
    \A p \in Proc :
      <>[](pc[p] # "off" /\ quota[vnpu[p]] > 0) =>
        []<>(\E q \in Mates(p) : InSlice(q))
=============================================================================
