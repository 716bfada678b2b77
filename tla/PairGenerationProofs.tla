------------------------ MODULE PairGenerationProofs ------------------------
(***************************************************************************)
(* Proofs about PairGeneration, for any number of primaries and attachers. *)
(* GenerationInv is inductive together with TypeOK; the facts about disk   *)
(* and lock follow from it.                                                *)
(***************************************************************************)
EXTENDS PairGeneration, TLAPS

\* The types of the gates' state survive every step of a gate or of the
\* environment.
LEMMA GenTypes ==
  ASSUME TypeOK, [Next]_vars PROVE TypeOK'
<1> USE GateAssumption DEF TypeOK, Goto, disk, Gate
<1>1. CASE UNCHANGED vars
  BY <1>1 DEF vars
<1>2. ASSUME NEW p \in Primary, PrimaryStep(p) PROVE TypeOK'
  BY <1>2 DEF PrimaryStep, Lock, Create, CreateFails, Publish, RemoveStale,
     BeginClose, CloseNative, Inspect, UnlinkCurrent, UnlinkSegment, Unlock,
     Holding, Attaching
<1>3. ASSUME NEW p \in Primary, Fail(p) PROVE TypeOK'
  BY <1>3 DEF Fail
<1>4. ASSUME NEW a \in Attacher, AttacherStep(a) PROVE TypeOK'
  BY <1>4 DEF AttacherStep, Try, ReadCurrent, OpenSegment, CheckAlive, Verify,
     GiveUp, Detach, Retry, Holding, Attaching
<1>5. ASSUME NEW g \in Gate, Crash(g) PROVE TypeOK'
  BY <1>5 DEF Crash, Holding, Attaching
<1> QED BY <1>1, <1>2, <1>3, <1>4, <1>5 DEF Next

\* A step of a primary's constructor or of its close() keeps the invariant:
\* whoever writes to the disk holds the flock.
LEMMA PrimaryKeeps ==
  ASSUME TypeOK, GenerationInv, NEW p \in Primary, PrimaryStep(p)
  PROVE  GenerationInv'
<1> USE GateAssumption
    DEF TypeOK, Goto, disk, Gate, Holding, Attaching, GenerationInv,
        CurrentHasFile, PrimaryAlone
<1>1. CASE Lock(p)
  BY <1>1 DEF Lock
<1>2. CASE Create(p)
  BY <1>2 DEF Create
<1>3. CASE CreateFails(p)
  BY <1>3 DEF CreateFails
<1>4. CASE Publish(p)
  BY <1>4 DEF Publish
<1>5. CASE RemoveStale(p)
  BY <1>5 DEF RemoveStale
<1>6. CASE BeginClose(p)
  BY <1>6 DEF BeginClose
<1>7. CASE CloseNative(p)
  BY <1>7 DEF CloseNative
<1>8. CASE Inspect(p)
  BY <1>8 DEF Inspect, OwnRecord
<1>9. CASE UnlinkCurrent(p)
  BY <1>9 DEF UnlinkCurrent
<1>10. CASE UnlinkSegment(p)
  BY <1>10 DEF UnlinkSegment
<1>11. CASE Unlock(p)
  BY <1>11 DEF Unlock
<1> QED
  BY <1>1, <1>2, <1>3, <1>4, <1>5, <1>6, <1>7, <1>8, <1>9, <1>10, <1>11
     DEF PrimaryStep

\* Attachers write nothing but their own contexts.
LEMMA AttacherKeeps ==
  ASSUME TypeOK, GenerationInv, NEW a \in Attacher, AttacherStep(a)
  PROVE  GenerationInv'
<1>1. /\ UNCHANGED <<lock, current, files>>
      /\ \A p \in Primary : pc'[p] = pc[p]
  BY GateAssumption DEF TypeOK, AttacherStep, Try, ReadCurrent, OpenSegment,
     CheckAlive, Verify, GiveUp, Detach, Retry, Goto, disk, Gate
<1>2. \A b \in Attacher : pc'[b] = "verify" => ctx'[b] = seen'[b]
  BY GateAssumption DEF TypeOK, GenerationInv, AttacherStep, Try, ReadCurrent,
     OpenSegment, CheckAlive, Verify, GiveUp, Detach, Retry, Goto, disk, Gate
<1> QED
  BY <1>1, <1>2 DEF TypeOK, GenerationInv, CurrentHasFile, PrimaryAlone

\* A killed gate leaves the disk as it is and gives up the flock.
LEMMA CrashKeeps ==
  ASSUME TypeOK, GenerationInv, NEW g \in Gate, Crash(g)
  PROVE  GenerationInv'
  BY GateAssumption DEF TypeOK, GenerationInv, CurrentHasFile, PrimaryAlone,
     Crash, Goto, disk, Gate, Holding, Attaching

\* GenerationInv and TypeOK are inductive.
THEOREM GenerationSafe == Spec => [](TypeOK /\ GenerationInv)
<1>1. Init => TypeOK /\ GenerationInv
  BY GateAssumption DEF Init, TypeOK, GenerationInv, CurrentHasFile,
     PrimaryAlone, Gate, Holding, Attaching
<1>2. TypeOK /\ GenerationInv /\ [Next]_vars => (TypeOK /\ GenerationInv)'
  <2> SUFFICES ASSUME TypeOK, GenerationInv, [Next]_vars
               PROVE  GenerationInv'
    BY GenTypes
  <2>1. CASE UNCHANGED vars
    BY <2>1 DEF vars, disk, GenerationInv, CurrentHasFile, PrimaryAlone
  <2>2. ASSUME NEW p \in Primary, Fail(p) PROVE GenerationInv'
    BY <2>2 DEF Fail, disk, GenerationInv, CurrentHasFile, PrimaryAlone
  <2> QED BY <2>1, <2>2, PrimaryKeeps, AttacherKeeps, CrashKeeps DEF Next
<1> QED BY <1>1, <1>2, PTL DEF Spec

\* The published record always names an existing segment: the order of the
\* unlinks in close() and of publish and clean-up in the constructor.
THEOREM RecordNamesSegment == Spec => []CurrentHasFile
<1>1. GenerationInv => CurrentHasFile
  BY DEF GenerationInv
<1> QED BY <1>1, GenerationSafe, PTL

\* A primary that is up is the published generation and the only one on disk.
THEOREM OnePrimary == Spec => []PrimaryAlone
<1>1. GenerationInv => PrimaryAlone
  BY DEF GenerationInv
<1> QED BY <1>1, GenerationSafe, PTL

\* Primaries that all ended by close() or by a refused constructor leave no
\* file.
THEOREM CleanEnd == Spec => []NothingLeft
<1>1. TypeOK /\ GenerationInv => NothingLeft
  BY DEF TypeOK, GenerationInv, NothingLeft, Holding
<1> QED BY <1>1, GenerationSafe, PTL

\* A gate that attaches while a primary is up attaches to that primary.
THEOREM AttachedToLive == Spec => AttachesToTheLiveOne
<1>1. TypeOK /\ GenerationInv /\ [Next]_vars =>
        [\A a \in Attacher :
           pc[a] = "verify" /\ pc'[a] = "open" =>
             \A p \in Primary : pc[p] = "open" => ctx[a] = p]_vars
  <2> SUFFICES ASSUME TypeOK, GenerationInv, Next, NEW a \in Attacher,
                      pc[a] = "verify", pc'[a] = "open"
               PROVE  \A p \in Primary : pc[p] = "open" => ctx[a] = p
    BY DEF vars
  <2>1. ASSUME NEW p \in Primary, PrimaryStep(p) \/ Fail(p) PROVE FALSE
    <3>1. pc' = pc \/ \E l : pc' = [pc EXCEPT ![p] = l]
      BY <2>1 DEF PrimaryStep, Lock, Create, CreateFails, Publish, RemoveStale,
         BeginClose, CloseNative, Inspect, UnlinkCurrent, UnlinkSegment,
         Unlock, Fail, Goto
    <3> QED BY <3>1, GateAssumption DEF TypeOK, Gate
  <2>2. ASSUME NEW g \in Gate, Crash(g) PROVE FALSE
    BY <2>2 DEF Crash, Goto, TypeOK, Gate
  <2>3. PICK b \in Attacher : AttacherStep(b)
    BY <2>1, <2>2 DEF Next
  <2>4. b = a
    <3>1. \E l : pc' = [pc EXCEPT ![b] = l]
      BY <2>3 DEF AttacherStep, Try, ReadCurrent, OpenSegment, CheckAlive,
         Verify, GiveUp, Detach, Retry, Goto
    <3> QED BY <3>1 DEF TypeOK, Gate
  <2>5. Verify(a)
    BY <2>3, <2>4 DEF AttacherStep, Try, ReadCurrent, OpenSegment, CheckAlive,
       GiveUp, Detach
  <2>6. current = ctx[a]
    BY <2>5 DEF Verify, Unchanged, Retry, Goto, TypeOK, GenerationInv, Gate
  <2> QED BY <2>6 DEF GenerationInv, PrimaryAlone
<1> QED BY <1>1, GenerationSafe, PTL DEF Spec, AttachesToTheLiveOne
=============================================================================
