--------------------------- MODULE PairGeneration ---------------------------
(***************************************************************************)
(* The life of a pair's shared-memory generations, from the constructor    *)
(* and close() of SharedMemoryForwardGate (gate.py).                       *)
(*                                                                         *)
(* A primary's rank-0 gate takes the pair's flock, creates a segment under *)
(* a fresh random epoch, publishes it by renaming a record over `current', *)
(* and removes what earlier generations left.  Every other gate attaches:  *)
(* it reads `current', opens the segment it names, and reads `current'     *)
(* again.  Gates are one-shot, a restart is another gate, so the epoch of  *)
(* a generation is the primary that made it.  What happens inside a        *)
(* generation is PairSched; here a segment is usable while ps_open would   *)
(* accept it.                                                              *)
(***************************************************************************)
CONSTANTS Primary,   \* gates of rank 0 of the primary instance
          Attacher,  \* all other gates
          NoEpoch,
          Env        \* what the environment may do: a subset of Hazard

Hazard == {"crash", "error", "fail", "timeout"}

ASSUME GateAssumption ==
  /\ Primary \cap Attacher = {}
  /\ NoEpoch \notin Primary
  /\ Env \subseteq Hazard

Gate == Primary \cup Attacher

VARIABLES
  lock,     \* holder of the flock on <pair>.lock
  current,  \* epoch in <pair>.current, NoEpoch when there is no such file
  files,    \* epochs whose .shm file has a name
  usable,   \* epochs whose segment is RUNNING with a fresh primary heartbeat
  pc,
  seen,     \* epoch an attacher has read
  ctx       \* generation a gate has an open native context on

disk == <<current, files>>
vars == <<lock, disk, usable, pc, seen, ctx>>

\* A primary holds the flock from LOCK_EX to LOCK_UN.
Holding == {"create", "publish", "clean", "open", "close", "inspect",
            "uncurrent", "unshm", "unlock"}
Attaching == {"seek", "attach", "check", "verify"}

TypeOK ==
  /\ lock \in Primary \cup {NoEpoch}
  /\ current \in Primary \cup {NoEpoch}
  /\ files \subseteq Primary
  /\ usable \subseteq Primary
  /\ pc \in [Gate -> {"new", "failed", "closed", "dead"} \cup Holding
                     \cup Attaching]
  /\ seen \in [Attacher -> Primary \cup {NoEpoch}]
  /\ ctx \in [Gate -> Primary \cup {NoEpoch}]

Init ==
  /\ lock = NoEpoch
  /\ current = NoEpoch
  /\ files = {}
  /\ usable = {}
  /\ pc = [g \in Gate |-> IF g \in Primary THEN "new" ELSE "seek"]
  /\ seen = [a \in Attacher |-> NoEpoch]
  /\ ctx = [g \in Gate |-> NoEpoch]

Goto(g, l) == pc' = [pc EXCEPT ![g] = l]

-----------------------------------------------------------------------------
(***************************************************************************)
(* The primary's gate.                                                     *)
(***************************************************************************)

\* flock(LOCK_EX | LOCK_NB); a second primary is refused, it does not wait.
Lock(p) ==
  /\ pc[p] = "new"
  /\ \/ /\ lock = NoEpoch
        /\ lock' = p
        /\ Goto(p, "create")
     \/ /\ lock # NoEpoch
        /\ Goto(p, "failed")
        /\ UNCHANGED lock
  /\ UNCHANGED <<disk, usable, seen, ctx>>

\* ps_open(create): the segment exists, RUNNING, before anyone can find it.
Create(p) ==
  /\ pc[p] = "create"
  /\ files' = files \cup {p}
  /\ usable' = usable \cup {p}
  /\ ctx' = [ctx EXCEPT ![p] = p]
  /\ Goto(p, "publish")
  /\ UNCHANGED <<lock, current, seen>>

\* ps_open(create) failed: before the layout is written it unlinks its file,
\* after that it does not.
CreateFails(p) ==
  /\ "error" \in Env
  /\ pc[p] = "create"
  /\ files' \in {files, files \cup {p}}
  /\ Goto(p, "close")
  /\ UNCHANGED <<lock, current, usable, seen, ctx>>

\* os.replace of the finished record over `current'.
Publish(p) ==
  /\ pc[p] = "publish"
  /\ current' = p
  /\ Goto(p, "clean")
  /\ UNCHANGED <<lock, files, usable, seen, ctx>>

\* _remove_stale_generations, one unlink at a time.
RemoveStale(p) ==
  /\ pc[p] = "clean"
  /\ \/ /\ files \subseteq {p}
        /\ Goto(p, "open")
        /\ UNCHANGED files
     \/ \E e \in files \ {p} :
          /\ files' = files \ {e}
          /\ UNCHANGED pc
  /\ UNCHANGED <<lock, current, usable, seen, ctx>>

\* An exception while publishing or cleaning up, or a call of close().
BeginClose(p) ==
  /\ \/ pc[p] \in {"publish", "clean"} /\ "error" \in Env
     \/ pc[p] = "open"
  /\ Goto(p, "close")
  /\ UNCHANGED <<lock, disk, usable, seen, ctx>>

\* ps_close, if ps_open succeeded: the creator leaves RUNNING for good.
CloseNative(p) ==
  /\ pc[p] = "close"
  /\ usable' = IF ctx[p] = NoEpoch THEN usable ELSE usable \ {ctx[p]}
  /\ ctx' = [ctx EXCEPT ![p] = NoEpoch]
  /\ Goto(p, "inspect")
  /\ UNCHANGED <<lock, disk, seen>>

\* Mutant: close() removes the segment and forgets the record.
ForgetRecord(p) == FALSE

\* The record is one's own.
OwnRecord(p) == current = p

\* Mutant: the lock is released before the files are removed.
InspectUnlocked(p) ==
  /\ pc[p] = "inspect"
  /\ Goto(p, IF OwnRecord(p) THEN "uncurrent" ELSE "unshm")
  /\ lock' = NoEpoch
  /\ UNCHANGED <<disk, usable, seen, ctx>>

\* _read_current: is the published generation this gate's own?
Inspect(p) ==
  /\ pc[p] = "inspect"
  /\ Goto(p, IF OwnRecord(p) THEN "uncurrent" ELSE "unshm")
  /\ UNCHANGED <<lock, disk, usable, seen, ctx>>

UnlinkCurrent(p) ==
  /\ pc[p] = "uncurrent"
  /\ current' = NoEpoch
  /\ Goto(p, "unshm")
  /\ UNCHANGED <<lock, files, usable, seen, ctx>>

\* Mutant: close() removes the record and forgets the segment.
KeepSegment(p) ==
  /\ pc[p] = "unshm"
  /\ Goto(p, "unlock")
  /\ UNCHANGED <<lock, disk, usable, seen, ctx>>

UnlinkSegment(p) ==
  /\ pc[p] = "unshm"
  /\ files' = files \ {p}
  /\ Goto(p, "unlock")
  /\ UNCHANGED <<lock, current, usable, seen, ctx>>

Unlock(p) ==
  /\ pc[p] = "unlock"
  /\ lock' = NoEpoch
  /\ Goto(p, "closed")
  /\ UNCHANGED <<disk, usable, seen, ctx>>

-----------------------------------------------------------------------------
(***************************************************************************)
(* Every other gate.                                                       *)
(***************************************************************************)

\* Mutant: try the same record again.
RetrySame(a) ==
  /\ Goto(a, "attach")
  /\ UNCHANGED seen

Retry(a) ==
  /\ seen' = [seen EXCEPT ![a] = NoEpoch]
  /\ Goto(a, "seek")

\* _read_current; a missing record is waited out.
ReadCurrent(a) ==
  /\ pc[a] = "seek"
  /\ current # NoEpoch
  /\ seen' = [seen EXCEPT ![a] = current]
  /\ Goto(a, "attach")
  /\ UNCHANGED <<lock, disk, usable, ctx>>

\* ps_open(attach) opens the file by name ...
OpenSegment(a) ==
  /\ pc[a] = "attach"
  /\ \/ seen[a] \in files /\ Goto(a, "check") /\ UNCHANGED seen
     \/ seen[a] \notin files /\ Retry(a)
  /\ UNCHANGED <<lock, disk, usable, ctx>>

\* ... and then asks whether the generation is alive, named or not.
CheckAlive(a) ==
  /\ pc[a] = "check"
  /\ \/ /\ seen[a] \in usable
        /\ ctx' = [ctx EXCEPT ![a] = seen[a]]
        /\ Goto(a, "verify")
        /\ UNCHANGED seen
     \/ /\ seen[a] \notin usable
        /\ Retry(a)
        /\ UNCHANGED ctx
  /\ UNCHANGED <<lock, disk, usable>>

\* Mutant: any record will do at the second reading.
StillThere(a) == current # NoEpoch

\* The record read again is the record read first.
Unchanged(a) == current = seen[a]

\* The second reading of `current'; ps_close and another try if it changed.
Verify(a) ==
  /\ pc[a] = "verify"
  /\ \/ Unchanged(a) /\ Goto(a, "open") /\ UNCHANGED <<seen, ctx>>
     \/ ~Unchanged(a) /\ Retry(a) /\ ctx' = [ctx EXCEPT ![a] = NoEpoch]
  /\ UNCHANGED <<lock, disk, usable>>

\* The deadline is tested between two tries.
GiveUp(a) ==
  /\ "timeout" \in Env
  /\ pc[a] = "seek"
  /\ Goto(a, "failed")
  /\ UNCHANGED <<lock, disk, usable, seen, ctx>>

Detach(a) ==
  /\ pc[a] = "open"
  /\ ctx' = [ctx EXCEPT ![a] = NoEpoch]
  /\ Goto(a, "closed")
  /\ UNCHANGED <<lock, disk, usable, seen>>

-----------------------------------------------------------------------------
(***************************************************************************)
(* The environment.                                                        *)
(***************************************************************************)

\* A killed process loses its mappings and its flock; files stay.
Crash(g) ==
  /\ "crash" \in Env
  /\ pc[g] \in Holding \cup Attaching
  /\ Goto(g, "dead")
  /\ lock' = IF lock = g THEN NoEpoch ELSE lock
  /\ ctx' = [ctx EXCEPT ![g] = NoEpoch]
  /\ UNCHANGED <<disk, usable, seen>>

\* The pair fails, or the heartbeat of a dead primary expires.
Fail(e) ==
  /\ e \in usable
  /\ pc[e] = "dead" \/ "fail" \in Env
  /\ usable' = usable \ {e}
  /\ UNCHANGED <<lock, disk, pc, seen, ctx>>

PrimaryStep(p) ==
  \/ Lock(p) \/ Create(p) \/ CreateFails(p) \/ Publish(p) \/ RemoveStale(p)
  \/ BeginClose(p) \/ CloseNative(p) \/ Inspect(p) \/ UnlinkCurrent(p)
  \/ UnlinkSegment(p) \/ Unlock(p)

Try(a) == ReadCurrent(a) \/ OpenSegment(a) \/ CheckAlive(a) \/ Verify(a)

AttacherStep(a) == Try(a) \/ GiveUp(a) \/ Detach(a)

Next ==
  \/ \E p \in Primary : PrimaryStep(p) \/ Fail(p)
  \/ \E a \in Attacher : AttacherStep(a)
  \/ \E g \in Gate : Crash(g)

Spec == Init /\ [][Next]_vars

\* The constructor of an attacher keeps trying until its deadline, and a dead
\* primary's heartbeat expires.
Fairness ==
  /\ \A a \in Attacher : WF_vars(Try(a))
  /\ \A p \in Primary : WF_vars(Fail(p) /\ pc[p] = "dead")

FairSpec == Spec /\ Fairness

-----------------------------------------------------------------------------
(***************************************************************************)
(* Properties.                                                             *)
(***************************************************************************)

\* A published record always names a segment that exists, also while the
\* primary closes and after it is killed at any point (close unlinks `current'
\* before the segment; a new primary publishes before it removes the old one).
CurrentHasFile == current # NoEpoch => current \in files

\* Once a primary's constructor has returned, its generation is the published
\* one and the only one on disk until it closes, whatever earlier primaries
\* left behind or are still doing in close() (the flock, the epoch comparison
\* in close, _remove_stale_generations).
PrimaryAlone ==
  \A p \in Primary : pc[p] = "open" => current = p /\ files = {p}

\* When no primary was killed, nothing is left once all are done, constructors
\* that raised included (test_primary_close_removes_generation, close()).
NothingLeft ==
  (\A p \in Primary : pc[p] \in {"new", "failed", "closed"}) =>
    current = NoEpoch /\ files = {}

\* What the three facts above rest on: who holds the flock, whose generation
\* may be published or on disk, and what a closing primary still has to undo.
GenerationInv ==
  /\ \A p \in Primary : pc[p] \in Holding <=> lock = p
  /\ \A p \in Primary : pc[p] \notin Attaching
  /\ CurrentHasFile
  /\ PrimaryAlone
  /\ \A p \in Primary : current = p =>
       pc[p] \in {"clean", "open", "close", "inspect", "uncurrent", "dead"}
  /\ \A p \in Primary : pc[p] = "publish" => p \in files
  /\ \A p \in Primary : pc[p] \in {"clean", "uncurrent"} => current = p
  /\ \A p \in files :
       pc[p] \in (Holding \ {"create", "unlock"}) \cup {"dead"}
  /\ \A a \in Attacher : pc[a] = "verify" => ctx[a] = seen[a]

\* A gate that finishes attaching while a primary is up has attached to that
\* primary's generation, never to a predecessor's that still looked alive when
\* it was opened (the second read of `current' in the constructor).
AttachesToTheLiveOne ==
  [][\A a \in Attacher :
       pc[a] = "verify" /\ pc'[a] = "open" =>
         \A p \in Primary : pc[p] = "open" => ctx[a] = p]_vars

\* A gate that keeps trying attaches once a usable primary stays up: a record
\* that was stale, removed or replaced costs it a try (the retry loop).
EventuallyAttached ==
  (<>[](\E p \in Primary : pc[p] = "open" /\ p \in usable)) =>
    \A a \in Attacher : <>(pc[a] \notin Attaching)
=============================================================================
