# A verification of the pair scheduler and of the vCANN time slices

This directory specifies, model-checks and proves properties of the two parts
of this repository that share NPUs: the pair scheduler, which lets two vLLM
instances take turns, one model-execution round at a time, and the core limiter
of the vCANN runtime, which gives virtual NPUs (vNPUs) on one card slices of
time.

## The system

### Parts

| part | source | what it does |
|---|---|---|
| round protocol | `scheduler/src/vllm_pair_scheduler/native/pair_sched.c` | a shared-memory segment, a barrier per instance, a coordinator thread that grants rounds |
| generation lifecycle | `scheduler/src/vllm_pair_scheduler/gate.py`, constructor and `close` | who creates the segment, how the others find it, what is removed |
| worker gate | `patches/vllm-pair-elastic-scheduling.patch`, `gate.py` methods | wraps `execute_model` and `sample_tokens` of every vLLM worker in `enter_forward` / `leave_forward` |
| configuration, inspection, tracing | `config.py`, `inspect.py`, `diagnostics.py` | read environment variables, read the segment, append trace lines |
| operation | `scripts/`, `scheduler/benchmarks`, `scheduler/scripts` | drivers, probes, reproductions, analysis |
| vCANN turns | `vcann-rt/ubs-virt-enpu/vcann-rt/src/core_limiter.c`, `ascend/prefill.c`, `tools/enpu-ctl.c` | a scheduler thread per process passes the turn from vNPU to vNPU through shared memory |
| vCANN stream accounting | `core_limiter.c`, `ascend/event.c`, `graph.c`, `kernel.c`, `task.c`, `utils/hash_map.c` | records the streams that work was delivered on, follows graph captures, waits for the work at the end of a slice |
| vCANN memory limiter | `mem_limiter.c` | switched off: `guard_memory` returns at once |
| rest of vCANN | `vcann-rt/` | configuration, logging, tracing, and unrelated upstream tools |
| vLLM, vLLM Ascend | `vllm/`, `vllm-ascend/` | vendored upstream snapshots |

Two instances, A (primary) and B (standby), each run one worker process per
tensor-parallel rank. A worker of A with rank 0 creates a segment file, holds a
`flock` on a lock file and publishes a `current` record; every other worker
reads the record and attaches. Before a forward, a worker *enters*: the ranks
of its instance collect at a barrier (`COLLECTING`, `READY`), the coordinator
thread in the creator's process picks one instance and publishes the grant
(`RUNNING`, `owner`), and the ranks execute. On *leave* each rank sets its
COMPLETE bit; when all have, the coordinator moves the group to `DRAINING` and
releases the owner, and the ranks set EXIT bits, the last of which makes the
group `IDLE`. Anything unexpected makes the segment's status FAILED, once and
for all: a failed pair is stopped and restarted together.

In the vCANN runtime every process of a vNPU maps one segment. The word `owner`
names the vNPU that has the turn. The scheduler thread of the owner's process
gives the launch mutex `g_sched_mutex` away for a slice (quota less debt), takes
it back, stores the next live vNPU as owner, and waits for the work that was
delivered. A flush thread refreshes a heartbeat every millisecond; an
owner whose heartbeat is older than 3 ms is passed over by anybody. The launch
hooks go through `core_limiter`, which waits for the mutex and records the
stream in a cache and a hash map.

### What is hard here

- The segment is written by up to 2N worker threads, N closers, N heartbeat
  threads and the coordinator, without locks; several fields change in
  sequences of stores that others can see half done.
- A process can be killed at any instruction, and a live one can be too slow,
  so that its slot is taken over while it runs.
- A worker can be closed while one of its own calls is in progress.
- Liveness rests on polling with timeouts and on heartbeats.
- The generation files are replaced while other processes read them.
- The vCANN turn is a plain word: it is read, acted on milliseconds later, and
  overwritten without a compare-and-swap.
- vCANN hooks split into a part under the mutex and a call to the device after
  it; the end of a slice can fall between the two.

## Modules

| module | content |
|---|---|
| `PairSched` | the round protocol, its properties and its fairness |
| `PairRounds` | abstract specification: serialised rounds |
| `PairSchedInv` | the inductive invariant `IInv` and the refinement mapping to `PairRounds` |
| `PairCalm` | `PairSched` on a calm machine, and the invariant `LockstepInv` that holds there |
| `PairTurns` | a history variable that counts how often a READY instance is passed over, and the invariant `TurnsInv` |
| `MCPairSched`, `MCPairTurns` | instances for TLC |
| `PairSchedTypes`, `PairSchedProofs` | proof that `IInv` is inductive, its consequences, and that `PairSched` implements `PairRounds` |
| `PairCalmProofs` | proof that `LockstepInv` and `TurnsInv` are inductive, and their consequences |
| `PairGeneration`, `MCPairGeneration`, `PairGenerationProofs` | the generation lifecycle, its instances, its proofs |
| `WorkerGate`, `WorkerGateProofs` | one worker's gate wrappers, against a thread that closes the gate; the proofs |
| `CoreLimiter`, `MCCoreLimiter`, `CoreLimiterProofs` | the turns of the vNPUs, an instance, the proofs |
| `StreamCache` | the accounting of streams in one vCANN process |
| `StreamCacheLoop`, `StreamCacheProofs` | its proofs: the cache, the maps and the loop over them; captures, work and the theorems |

### PairSched

The variables are the words of the segment under their C names (`status`,
`owner`, `last_owner`, `next_grant_id`; `state`, `forward_seq`, `grant_id`,
`publish` and the masks per instance; `session`, `last_seq` per slot), the
fields of each `ps_context` (`next_seq`, `active_seq`, `active_grant_id`), and
program counters: `pc[c]` for the thread that calls enter and leave, `closer[c]`
for the thread that calls `ps_close`, `cpc` for the coordinator.

- **Granularity.** A step stores one contended word, together with stores that
  no other thread can observe half done. Where the order of stores matters
  (DRAINING before the owner is cleared, the heartbeat before the session in
  `ps_close`, the state compare-and-swap before the grant) the stores are
  separate steps. Loads are coarser: `Poll`, `Fence`, `Exit`, `CloseCheck` and
  `Scan` compare several words at one instant, while the code loads them one
  after another. A word that changes between two such loads is seen as it was
  before or after all of them, so mixed reads are not explored.
- **Contexts.** A context is opened once and its name is its session: sessions
  are random 63-bit numbers. A restarted worker is another context with the
  same instance and rank.
- **Time** becomes facts: `fresh` (a heartbeat is recent), `late` (a barrier is
  older than `peer_timeout`), `deadline` (`none`, `armed`, `passed`),
  `primary_stale`. `publish` is a stamp ordered as the clock is.
- **Masks** are sets of ranks, the expected mask is `Rank`.
- **Failure** keeps the first reason, as the compare-and-swap in `fail_pair`
  does. Calls that a failed pair refuses at once are not steps.
- **Futex words** are left out: every wait in the code has a timeout, so a wait
  is a poll that found nothing.
- **Environment.** `Env` selects what may happen (`crash`, `stall`, `slow`,
  `abort`, `close`, `rude`, `nothread`, `solo`, `misuse`) and `Faulty` to whom.
  The theorems of `PairSchedProofs` hold for every choice of both, those of
  `PairCalmProofs` for `Env = {}`.

### PairGeneration

State: the holder of the lock file, the `current` record, the set of segment
files, which of them have a live coordinator, and per gate a program counter
and what it read. A primary's epoch is the primary itself, because epochs are
random. The whole constructor of the primary and of the other gates, the
exception paths and `close` are actions; a kill releases the lock and leaves
the files.

### WorkerGate

One worker's RPC thread and one other thread that fails or closes the gate.
Native calls are reduced to their outcomes (succeed, fail). The engine may
raise in the forward or in sampling, return early with an output, be
interrupted by something that is not an `Exception`, and call in any order. A
write to the trace file may fail too (`EnterUntraced`, `LeaveUntraced`): when
it does after the native enter, `enter_forward` raises and its caller never
learns of the round (`gate.py:319`). The ghost `untraced` marks this case, of
which `RoundRemembered` and `CallsAlternate` say nothing.

### CoreLimiter

State: the words of the segment (`magic`, `owner`, `quota`, `in_prefill`, the
robust mutex `mtx` of each vNPU), and per process the program counter of the
scheduler thread, the owner it read or selected (`reg`), and
`core_cur_timeslice` (`cur`).

- **Granularity.** One step per access to a word that others write: the owner
  is read (`Poll`), its heartbeat looked up (`CheckOwner`), the owner read again
  (`Reload`) and the successor stored (`PassDead`) in four steps. Selecting the
  next owner reads several heartbeats and is one step; so is the wipe of the
  segment by an initialiser, between its two stores of the magic number.
- **Time.** `alive` is the set of vNPUs with a recent heartbeat. `Expire` ages a
  heartbeat that nobody refreshes, `Lapse` one whose flush thread is held up.
  Slices, quotas and debts are small numbers; `EndSlice` may come at any time,
  since a vNPU without work gives its slice up under the elastic policy, but not
  in a prefill.
- **Turn numbers** (`vnpu_schedule_turn`, modulo 256) become the set `current`
  of processes whose number is still the present one.
- **Start.** The segment begins zeroed. `share_mem_init` loads the magic number
  twice (`InitRead`, `InitReadAgain`), resets it after a timeout in a step of
  its own (`InitReset`) and claims the segment without a compare-and-swap
  (`InitClaim`), so that several processes may initialise it, one after the
  other or at once.
- **Calm.** `calm` is a ghost. It ends when a process dies, misses its heartbeat
  or times out in `share_mem_init`, when the segment is claimed a second time,
  when a second process joins a vNPU, and when a process joins while another one
  is up and no vNPU has taken the first turn. Two processes that find no owner
  may both pass the turn on, so the last condition is needed. vCANN itself calls
  several processes in one vNPU "unrecommended" (`core_limiter.c:454`).
- **Environment.** `Env`: `crash` (with restart), `stall`, `nodevice`
  (`rtSetDevice` fails, the scheduler thread ends with the mutex locked and the
  heartbeat goes on: `headless`); `Faulty`: to whom; `Tuned`: vNPUs whose quota
  `enpu-ctl` changes, to 0 as well; `Prefilling`: vNPUs whose engine brackets its
  prefills.

### StreamCache

State: `g_cache_streams` (`cache`), `stream_map` and `event_map`, the hook each
thread is in, the scheduler thread in `synchronize_and_clear_streams`, and what
the device knows (streams, captures, work). A hook is two steps: what it does
under the mutex or on the device, and what follows. Hooks that take no lock
are one step on the maps. The launch hooks (`kernel.c`, `task.c`, `graph.c`)
have one shape and are one action; NULL is the stream of `rtsModelExecute`.
Events stand for notifies too. The device is modelled by how the hooks use it:
waiting for an event of a capture joins it, the end of a capture ends it for
all, and a synchronisation waits for the work of the stream. The return of
`rtStreamSynchronize` and the removal of the stream from `stream_map` are two
steps (`SyncReturns`, `SyncEnd`), so a launch admitted before may be delivered in
between and lose its record.
A program uses a stream in one thread at a time and destroys none that is being
captured. `escaped` is a ghost: streams whose work arrived when the scheduler
thread was not going to wait for it (not on record, or synchronised already), or
that joined a capture while they were synchronised.

## Runs

| run | instance | what it shows | distinct states |
|---|---|---|---|
| `PairCalm` | 2 instances × 2 ranks, 1 round of A and 2 of B, no hazard | the pair never fails itself (`NoFailure`), ranks stay in lockstep (`StaysTogether`, by `LockstepInv`), rounds are serialised (`RoundsSpec`) | 181,463 |
| `PairTurns` | 2 × 1, any number of rounds | a READY round is passed over at most once (`PassedOverOnce`, by `TurnsInv`), every entry is served, even if the other instance never pauses (`EntryServed`) | 62,789 |
| `PairFaults` | 2 × 1, B restarted once; crashes, live workers miss heartbeats | `RoundsNeverOverlap`, `GrantConsumedOnce` | 1,564,408 |
| `PairClosing` | same; B closed at any moment, double enter, foreign leave, failed forwards | `IInv`, `RoundsSpec` | 817,612 |
| `PairReleased` | 1 × 2, from the empty segment; failed opens, early entries, crashes, timeouts, failed forwards, calls out of order, idle workers and the primary closed | `TypeOK`, `IInv`, `RoundsSpec`, `AwaitReturns`, `GrantNotHeld` | 146,094 |
| `Generations` | 3 primaries, 1 other gate; kills, errors, failures, timeouts | `GenerationInv`, `CurrentHasFile`, `PrimaryAlone`, `NothingLeft`, `AttachesToTheLiveOne`, `EventuallyAttached` | 59,883 |
| `WorkerGate` | one worker, every misbehaviour | `WorksInsideRound`, `RoundRemembered`, `ContextNotReleased`, `CallsAlternate`, `GateInv` | 193 |
| `CoreSlices` | 2 vNPUs with a process each, elastic; one process dies, restarts, is held up or has no device; prefills of vNPU 1; quota of vNPU 0 changed | `TypeOK`, `CalmInv`, `SlicesExclusive`, `OnlyOwnerSchedules`, `InitReturns`, `EveryoneServed` | 152,986 |
| `Streams` | 2 threads, 2 streams, NULL, 1 event, a cache of 2 | `CacheInv`, `TypeOK`, `CacheMapped`, `NoSyncAfterDestroy`, `HeadNotSynced`, `WorkAccounted` | 815,943 |

Three runs show where the code does less than its documents or tests say:

- `PairEnterHangs` violates `EnterReturns`. The claim loop of
  `ps_enter_forward` (`pair_sched.c:749`) waits for INITIALIZING and DRAINING to
  pass without looking at the status or a clock. If the rank that claimed the
  round dies there, the other ranks stay in the loop.
- `PairLeaveHangs` violates `LeaveReturns`. The wait for DRAINING
  (`pair_sched.c:940`) watches the status but not the primary's heartbeat. If
  the primary dies after the last COMPLETE bit, nobody sets the status.
- `PairIdleClose` violates `IdleCloseIsClean`. `recycle_complete` publishes
  DRAINING (`pair_sched.c:335`) before it clears the owner, so a worker that
  left and closes at once can be taken for an active one.

### Bounds

`MaxSeq` bounds the rounds of an instance. Two rounds let a fast rank meet
its own previous round (in `PairCalm` the ranks of B do, while A has its turn
before, between or after). In `PairTurns` it bounds the rounds between two
renumberings: once an instance has used its numbers and is between rounds,
`Renumber` in `MCPairTurns` sets its sequence numbers, the grant in use and the
stamp in use back, so that both instances can go on for ever. The code compares
these numbers only with each other, so a renumbered state has the same steps.
Without it a busy instance would run out of rounds and could not starve the
other one; with it, a tie that always goes to A does starve B.
Two ranks are the least for barriers, and one rank is enough where the subject
is the two instances, sessions or restarts. One restart gives every overlap of
two contexts on one slot. Gates that attach do not affect each other, so one is
enough. Three primaries give a generation that replaces a
generation that replaced another. `View` merges failure reasons in runs whose
properties do not tell them apart; no guard does either. The pair runs other than
`PairReleased` start after the workers have been opened (`StartedInit`), a state
that `Init` reaches; behaviour stops at the bounds, so deadlock is not checked.

`CoreSlices`: two vNPUs are the least for a turn to be passed, stolen or given
to a dead one; one failing process is enough for every order of its death,
restart and wake-up against a process that stays. Quota and debt of at most 1
let them cancel out. One vNPU prefills and the quota of the other one changes,
which halves the states and keeps both kinds of turn. It starts from the zeroed
segment. Deadlock is not checked: with a headless process everybody
may come to rest. `Streams`: a cache of 2 is filled by NULL and a
stream, so that the next one finds it full; two streams give a head and one
that joins; deadlock is checked.

### Fairness

`Threads`: a thread that can take a step takes one. Every futex wait has a
timeout, so no thread depends on a wake-up, and a forward ends. `Clocks`: an
expired heartbeat, an old barrier and a passed deadline are facts of time and
do come about. No engine has to send a step. No fairness is assumed of crashes, closes or
restarts. `Fairness` of `PairGeneration`: a gate goes on with its tries, and a
dead primary's heartbeat expires. Giving up at the deadline is possible and
never required, so `EventuallyAttached` is about the gates that do not.

`Fairness` of `CoreLimiter`: threads run, and heartbeats that nobody refreshes
grow old. The timeout of `share_mem_init` is strongly fair: `begin` is set back
only by a timeout, so a process that finds INITIALIZING again and again finds it
after 3 ms too. Ending a slice is only weakly fair: a vNPU that prefills back to
back may keep the turn, and the code has no bound for that.
`InitReturns` assumes that in the end nobody starts or dies any more (`Stays`).
`EveryoneServed` assumes `Settles`: also that nobody is held up any more, no
process is headless and the prefills are over. It speaks of every process that
is up, in the middle of `share_mem_init` as well, and whose quota stays
positive; a second initialisation may have set it to 0. `Lapse`, `Crash` and
quota changes have no fairness.

## Proofs

The theorems on the pair scheduler hold for any set of contexts, any set of ranks, any bound and any
`Env`, from the assumptions on the constants in `PairSched`
(`CtxAssumption`, `BoundAssumption`, `EnvAssumption`) and `PairGeneration`
(`GateAssumption`).

- `Invariance`: `Spec => []IInv`. Mutual exclusion alone is not inductive: the
  code lets late stores of a closer or of a slow worker overwrite a group's
  state. `IInv` says what those stores cannot break. The coordinator's counter
  determines the owner (`CoordInv`); grant numbers never run ahead and the
  latest belongs to the owner (`GrantInv`); an executing worker pins the owner
  and keeps its group out of COMPLETE (`EngagedInv`); no second context of a
  rank with the grant passes the session check (`SessionInv`); a COMPLETE bit
  is backed by a worker that has had the grant and finished (`CompleteInv`); the
  last bit is set by one worker (`LastInv`).
- `TypeCorrect`, `MutualExclusion`, `GrantUnique` follow. By type correctness
  `validate_shared` never finds the segment corrupt, which is why the reasons
  CORRUPT_OWNER and CORRUPT_STATE do not occur in `PairSched`.
- `Refinement`: `Spec => RoundsSpec`, step by step under the mapping in
  `PairSchedInv`. The turn passes on at the DRAINING store, one step before the
  owner word is cleared.
- `Lockstep`: `CalmSpec => []LockstepInv`, with `CalmNeverFails` and
  `CalmStaysTogether`. A calm machine has one context per slot, no hazard
  (`Env = {}`) and starts when every worker has been opened and none has
  entered. The last condition is needed: a rank that is opened while the others
  run may read `forward_seq` too early or too late and be fenced. `NoFailure` says
  that no check of the code is a false alarm; to show it one has to know where
  every worker stands when the check is made. `Place` is that table: for each
  state of a group, the program points of its workers, the round each is in
  compared with `forward_seq`, and which of its READY, COMPLETE and EXIT bits
  are set. `InRound` ties the slot and the context to the round; `AloneInv` says
  that the worker that opens, publishes or resets a round is the only one to do
  so, `WholeInv` that rounds are opened for complete instances, and `StillInv`
  that nothing around the protocol moves. The inductive step also uses `IInv`.
- `TurnsKept` and `CalmPassedOverOnce`: `CalmTurns => []PassedOverOnce`. The
  count alone says nothing about the next choice. `TurnsInv` adds that what the
  coordinator has scanned as READY is still READY under the same stamp
  (`ScanInv`), and that an instance which was passed over comes first in both
  orders by which `dispatch_next` chooses, the stamp and the last owner, and is
  not missed by the scan (`Behind`).
- `GenerationSafe` and its consequences `RecordNamesSegment`, `OnePrimary`,
  `CleanEnd`, and the action property `AttachedToLive`.
- `CoreLimiterProofs`, for any number of vNPUs and processes, both policies and
  any `Env` (`LimiterAssumption`): `LimiterTypes`, `LimiterCalm`,
  `LimiterExclusive`, `LimiterOwner`. Exclusive slices are not inductive: the
  owner must stay alive, otherwise a waiting process takes the turn. `CalmInv`
  covers the start as well. `InitOnce` says that one process initialises while
  the others have stored nothing, `Backed` that every heartbeat has exactly one
  process behind it. The turn is either `Taken` (the owner is alive, nobody is on
  the way to pass over a dead owner, and the successor a process has selected is
  alive) or `Untaken` (at most one process is up, and it is the one that takes
  the first turn).
- `WorkerGateProofs`: `GateInvHolds`, `WorksInsideRoundHolds`,
  `RoundRememberedHolds`, `ContextNotReleasedHolds`, `CallsAlternateHolds`. There
  are two notions of a round, the wrapper's `active_round` and the native
  context's (`held`), and they differ on every exception path. `RoundInv` says at which
  program points they agree, and that where they do not, the pair has failed,
  the gate is closed or the entry was not traced; `LockInv` says who holds `_state_lock`, without which
  `close` could come between a check and a native call.
- `StreamCacheProofs`, for any number of streams, events and threads and any
  capacity (`CacheAssumption`): `CacheInvHolds`, `TypeOKHolds`,
  `CacheMappedHolds`, `NoSyncAfterDestroyHolds`, `HeadNotSyncedHolds`,
  `WorkAccountedHolds`. The loop of `synchronize_and_clear_streams` compacts the
  cache in place while it waits, so in mid loop the array holds leftovers, and
  the properties hold only of the places kept or not yet visited: `Window`.
  `MappedInv` states consistency with `stream_map` there, `AccountInv` that
  work which will be waited for is in the window, and none of it on the stream
  whose synchronisation has just returned, `LiveInv` that no entry outlives its stream,
  `CaptureInv` that a head is marked from before its capture to after it,
  `LoopInv` and `CallInv` where the scheduler and the hooks are. Lemmas about
  sequences (`FirstOfFound`, `WithoutElements`, `AfterElements`) say what
  `remove_stream` and the loop leave in the cache.

`IInv` is shown inductive in two modules: `PairSchedTypes` has the types, the
steps that touch no word of the invariant and the stores of a state before
RUNNING; `PairSchedProofs` has the grant and the COMPLETE bits, the EXIT bits and
slots, the coordinator, and then the theorems and the refinement.

Every invariant that a passing run checks is also proved, and so are the action
properties `AttachesToTheLiveOne` and `OnlyOwnerSchedules` and the refinement
`RoundsSpec`. Only model-checked: liveness (`EntryServed`, `GrantNotHeld`,
`AwaitReturns`, `EventuallyAttached`, `InitReturns`, `EveryoneServed`), which under fairness is
out of the proof system's reach, and the three violations above.

## Not modelled

- `ps_snapshot`, `ps_inspect`, `inspect.py`: they only read.
- `config.py`: validation of the environment; `diagnostics.py`: tracing.
- Memory-order effects: accesses are sequentially consistent. The code orders
  the words other threads rely on with release and acquire.
- Overflow of the 64-bit counters, reached after centuries of rounds.
- Two generations at once with workers of the old one still executing: the
  deployment document asks to stop both instances before a restart.
- The duration of native calls in `WorkerGate`, and its uniprocess copy of the
  wrapper, which has the same text.
- Mixed reads of several words in one check of `pair_sched.c` (see Granularity).
- vCANN: what happens after a machine has stopped being calm is in the model, but
  no safety property covers it. Slices may then overlap and a turn may be taken
  from a live owner; `InitReturns` and `EveryoneServed` speak of what follows. How
  long slices are, and so whether the shares come out as configured.
- vCANN: work delivered on NULL, which the device runs on its default stream;
  the cache entry is modelled, the work is not.
- vCANN: data races inside a hash map, a failing `malloc`, dependencies between
  streams on the device (a synchronisation under the launch mutex that waits for
  work which another thread has yet to launch).
- vCANN: `npu_utilization_monitor_thread` and `slide_window_check`, which nothing starts,
  and the memory limiter, whose `guard_memory` returns before it checks.
- The file rendezvous of `scripts/two_container_control.py`, operation scripts,
  vLLM and vLLM Ascend: drivers, I/O and vendored snapshots (`PROJECT.json`
  gives the reasons).

## Behaviour of vCANN worth knowing

The models show what these properties have to leave out:

- A stream that an event hook meets before its first launch is put into
  `stream_map` and not into the cache; `restore_streams` then takes it for
  recorded, and the end of a slice does not wait for its work
  (`core_limiter.c:61`, `:78`).
- `rtsModelExecute` records the NULL stream, which the map cannot hold;
  `synchronize_and_clear_streams` stops there at the end of every slice
  (`core_limiter.c:214`).
- An event keeps the head of an earlier capture when it is recorded again outside
  of one. With captures on two streams (`Heads = {s1, s2}`), a head can lose its mark and be
  synchronised in its capture; `HeadNotSynced` is about one head stream.
- A launch that was admitted in a slice and reaches the device after its end, in
  the worst case between the return of `rtStreamSynchronize` and the removal of
  the stream from the map, runs in another vNPU's slice, and nothing records it
  (`core_limiter.c:111`, `:229`).
- A process that loads `magic_number` before and after another one publishes
  INITIALIZED initialises the segment again, without any timeout, and sets the
  quotas of the processes that have joined to 0 (`core_limiter.c:474`, `:478`).
- After `rtSetDevice` failed, the vNPU is alive and never passes the turn on
  (`core_limiter.c:416`).
