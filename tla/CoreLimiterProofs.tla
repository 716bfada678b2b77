-------------------------- MODULE CoreLimiterProofs --------------------------
(***************************************************************************)
(* Slices are exclusive on a calm machine, for any number of vNPUs and     *)
(* processes, both policies and every quota, from the zeroed segment on.   *)
(* The invariant is CalmInv; the type invariant supplies that -1 is never  *)
(* a live vNPU.                                                            *)
(***************************************************************************)
EXTENDS CoreLimiter, TLAPS

USE DEF shared, local, Looping, Open, Handing, Booting, Labels

\* The zeroed segment has its types.
LEMMA InitType == Init => TypeOK
<1>1. 0 \in VNPU /\ 0 \in 0 .. MaxQuota /\ 0 \in -MaxDebt .. 0
  BY LimiterAssumption DEF VNPU
<1> QED BY <1>1 DEF Init, TypeOK

\* share_mem_init and vnpu_scheduler_init keep the types.
LEMMA StartType ==
  ASSUME TypeOK, NEW p \in Proc, Boot(p) \/ Start(p)
  PROVE  TypeOK'
<1> USE LimiterAssumption DEF TypeOK, goto
<1>1. CASE Boot(p)        BY <1>1 DEF Boot
<1>2. CASE InitRead(p) \/ InitReadAgain(p)
  BY <1>2 DEF InitRead, InitReadAgain
<1>3. CASE InitTimeout(p) \/ InitReset(p)
  BY <1>3 DEF InitTimeout, InitReset
<1>4. CASE InitClaim(p)   BY <1>4 DEF InitClaim
<1>5. CASE InitWipe(p)
  <2>1. /\ owner' = NoOwner /\ alive' = {} /\ in_prefill' = {} /\ calm' = calm
        /\ current' \subseteq Proc
    BY <1>5, Zenon DEF InitWipe
  <2>2. quota' \in [VNPU -> 0 .. MaxQuota] /\ mtx' \in [VNPU -> Proc \cup {NoProc, OwnerDead}]
    BY <1>5 DEF InitWipe
  <2>3. pc' \in [Proc -> Labels] /\ UNCHANGED <<magic, reg, cur>>
    BY <1>5 DEF InitWipe
  <2> QED BY <2>1, <2>2, <2>3
<1>6. CASE InitPublish(p) BY <1>6 DEF InitPublish
<1>7. CASE Join(p)        BY <1>7, SMTT(30) DEF Join
<1> QED BY <1>1, <1>2, <1>3, <1>4, <1>5, <1>6, <1>7 DEF Start

\* The scheduler thread keeps the types, the debt of a slice included.
LEMMA SchedulerType ==
  ASSUME TypeOK, NEW p \in Proc, SchedulerThread(p)
  PROVE  TypeOK'
<1> USE LimiterAssumption DEF TypeOK, goto
<1>1. CASE Poll(p)        BY <1>1 DEF Poll
<1>2. CASE Borrow(p)      BY <1>2 DEF Borrow
<1>3. CASE CheckOwner(p)  BY <1>3 DEF CheckOwner
<1>4. CASE Reload(p)      BY <1>4 DEF Reload
<1>5. CASE PassDead(p)    BY <1>5 DEF PassDead, Store
<1>6. CASE TakeSlice(p)   BY <1>6, SMTT(30) DEF TakeSlice
<1>7. CASE Skip(p)        BY <1>7 DEF Skip
<1>8. CASE PassSkipped(p) BY <1>8 DEF PassSkipped, Store
<1>9. CASE BeginSlice(p)  BY <1>9 DEF BeginSlice
<1>10. CASE EndSlice(p)   BY <1>10, SMTT(30) DEF EndSlice
<1>11. CASE HandOver(p)   BY <1>11 DEF HandOver, Store
<1>12. CASE Account(p)    BY <1>12 DEF Account
<1>13. CASE Compensate(p) BY <1>13, SMTT(30) DEF Compensate
<1>14. CASE AccountSkipped(p) BY <1>14 DEF AccountSkipped
<1> QED BY <1>1, <1>2, <1>3, <1>4, <1>5, <1>6, <1>7, <1>8, <1>9, <1>10,
           <1>11, <1>12, <1>13, <1>14 DEF SchedulerThread

\* Every step keeps the types.
LEMMA StepType == TypeOK /\ [Next]_vars => TypeOK'
<1> SUFFICES ASSUME TypeOK, [Next]_vars PROVE TypeOK'
  OBVIOUS
<1> USE LimiterAssumption DEF TypeOK
<1>1. ASSUME NEW p \in Proc, Boot(p) \/ Start(p) PROVE TypeOK'
  BY <1>1, StartType
<1>2. ASSUME NEW p \in Proc, SchedulerThread(p) PROVE TypeOK'
  BY <1>2, SchedulerType
<1>3. ASSUME NEW p \in Proc, Flush(p) PROVE TypeOK'
  BY <1>3 DEF Flush
<1>4. ASSUME NEW p \in Proc, BeginPrefill(p) \/ EndPrefill(p) PROVE TypeOK'
  BY <1>4 DEF BeginPrefill, EndPrefill
<1>5. ASSUME NEW p \in Proc, Crash(p) PROVE TypeOK'
  <2>1. mtx' \in [VNPU -> Proc \cup {NoProc, OwnerDead}]
    BY <1>5 DEF Crash
  <2>2. pc' \in [Proc -> Labels]
    BY <1>5 DEF Crash, goto
  <2>3. 0 \in -MaxDebt .. 0
    OBVIOUS
  <2>4. reg' \in [Proc -> VNPU \cup {NoOwner}] /\ cur' \in [Proc -> -MaxDebt .. 0]
    BY <1>5, <2>3 DEF Crash
  <2> QED BY Zenon, <1>5, <2>1, <2>2, <2>4 DEF Crash
<1>6. ASSUME NEW v \in VNPU, Expire(v) \/ Lapse(v) PROVE TypeOK'
  BY <1>6 DEF Expire, Lapse
<1>7. ASSUME NEW v \in VNPU, SetQuota(v) PROVE TypeOK'
  BY <1>7 DEF SetQuota
<1>8. CASE UNCHANGED vars
  BY <1>8 DEF vars
<1> QED BY <1>1, <1>2, <1>3, <1>4, <1>5, <1>6, <1>7, <1>8 DEF Next

-----------------------------------------------------------------------------
\* -1 is no vNPU.
LEMMA NoOwnerNoVnpu == NoOwner \notin VNPU
  BY LimiterAssumption DEF NoOwner, VNPU

\* While somebody is alive, select_next_owner returns a live vNPU.
LEMMA SelectsAlive ==
  ASSUME NEW v, NEW w, Selects(v, w), NEW u \in alive
  PROVE  w \in alive
  BY DEF Selects

\* The calm invariant holds before the first process starts.
LEMMA InitCalm == Init => CalmInv
  BY DEF Init, CalmInv, InitOnce, Backed, Untaken, Flushing, Before, Scheduling

\* A step before a process joins, and not the wiping: it leaves owner and
\* heartbeats alone.
LEMMA BootCalm ==
  ASSUME TypeOK, CalmInv, calm, NEW p \in Proc, pc[p] \in {"off"} \cup Booting,
         NEW l \in Booting \ {"publish"}, pc' = [pc EXCEPT ![p] = l],
         magic' = "INITIALIZED" => magic = "INITIALIZED" \/ pc[p] = "publish",
         UNCHANGED <<owner, alive, reg>>
  PROVE  Backed' /\ (Taken' \/ Untaken')
<1> USE DEF TypeOK
<1>1. \A q \in Proc \ {p} : pc'[q] = pc[q]
  OBVIOUS
<1>2. pc'[p] = l
  OBVIOUS
<1>3. \A q \in Proc : Flushing(q)' <=> Flushing(q)
  BY <1>1, <1>2 DEF Flushing
<1>4. Backed'
  BY <1>3 DEF CalmInv, Backed
<1>5. CASE Taken
  <2>1. ASSUME NEW q \in Proc
        PROVE  /\ pc'[q] \notin {"reload", "pass"}
               /\ pc'[q] \in {"borrow", "check"} \cup Selected => reg[q] \in alive
               /\ pc'[q] \in Scheduling => owner = vnpu[q]
    <3>1. CASE q = p BY <1>2, <3>1 DEF Scheduling, Selected
    <3>2. CASE q # p BY Zenon, <1>1, <1>5, <3>2 DEF Taken
    <3> QED BY <3>1, <3>2
  <2>2. ASSUME NEW q \in Proc
        PROVE  /\ pc'[q] \notin {"reload", "pass"}
               /\ pc'[q] \in {"borrow", "check"} \cup Selected => reg'[q] \in alive'
               /\ pc'[q] \in Scheduling => owner' = vnpu[q]
    BY <2>1
  <2>3. owner' \in alive'
    BY <1>5 DEF Taken
  <2>4. Taken'
    BY Zenon, <2>2, <2>3 DEF Taken
  <2> QED BY <1>4, <2>4
<1>6. CASE Untaken
  <2>1. magic' = "INITIALIZED" => owner = NoOwner
    BY <1>6 DEF Untaken
  <2>2. \A q, u \in Proc : Flushing(q)' /\ Flushing(u)' => q = u
    BY <1>3, <1>6 DEF Untaken
  <2>3. ASSUME NEW q \in Proc
        PROVE  /\ pc'[q] \notin Scheduling
               /\ pc'[q] = "publish" => owner = NoOwner
               /\ pc'[q] = "pass" => reg[q] \in alive \cup {NoOwner}
    <3>1. CASE q = p BY <1>2, <3>1 DEF Scheduling
    <3>2. CASE q # p BY Zenon, <1>1, <1>6, <3>2 DEF Untaken
    <3> QED BY <3>1, <3>2
  <2>4. ASSUME NEW q \in Proc
        PROVE  /\ pc'[q] \notin Scheduling
               /\ pc'[q] = "publish" => owner' = NoOwner
               /\ pc'[q] = "pass" => reg'[q] \in alive' \cup {NoOwner}
    BY <2>3
  <2>5. owner' \notin alive' /\ (magic' = "INITIALIZED" => owner' = NoOwner)
    BY <1>6, <2>1 DEF Untaken
  <2>6. Untaken'
    BY Zenon, <2>2, <2>4, <2>5 DEF Untaken
  <2> QED BY <1>4, <2>6
<1> QED BY <1>4, <1>5, <1>6 DEF CalmInv

\* share_mem_init and vnpu_scheduler_init keep the calm invariant: one process
\* initialises the segment, and each process joins when the turn is taken or
\* when it is the first.
LEMMA StartCalm ==
  ASSUME TypeOK, CalmInv, calm, calm', NEW p \in Proc, Boot(p) \/ Start(p)
  PROVE  CalmInv' /\ (owner' # owner => owner \notin alive)
<1> USE DEF TypeOK, goto
<1>0. InitOnce /\ Backed /\ (Taken \/ Untaken)
  BY DEF CalmInv
<1>1. CASE Boot(p) \/ InitRead(p) \/ InitReadAgain(p) \/ InitTimeout(p)
  <2>1. UNCHANGED <<magic, owner, alive, reg>>
    BY <1>1 DEF Boot, InitRead, InitReadAgain, InitTimeout
  <2>2. /\ pc[p] \in {"off", "init", "again"}
        /\ \E l \in {"init", "again", "expire", "claim", "join"} :
             /\ pc' = [pc EXCEPT ![p] = l]
             /\ l = "join" => magic = "INITIALIZED"
    BY <1>1 DEF Boot, InitRead, InitReadAgain, InitTimeout
  <2>3. PICK l \in {"init", "again", "expire", "claim", "join"} :
             /\ pc' = [pc EXCEPT ![p] = l]
             /\ l = "join" => magic = "INITIALIZED"
    BY <2>2
  <2>4. InitOnce'
    BY <1>0, <2>1, <2>2, <2>3 DEF InitOnce, Before
  <2>5. Backed' /\ (Taken' \/ Untaken')
    BY Zenon, <2>1, <2>2, <2>3, BootCalm
  <2> QED BY <2>1, <2>4, <2>5 DEF CalmInv
<1>2. CASE InitReset(p)
  BY <1>2 DEF InitReset
<1>3. CASE InitClaim(p)
  <2>1. /\ magic = "UNINITIALIZED" /\ magic' = "INITIALIZING"
        /\ pc[p] = "claim" /\ pc' = [pc EXCEPT ![p] = "wipe"]
        /\ UNCHANGED <<owner, alive, reg>>
    BY <1>3 DEF InitClaim
  <2>2. InitOnce'
    BY <1>0, <2>1 DEF InitOnce
  <2>3. Backed' /\ (Taken' \/ Untaken')
    BY Zenon, <2>1, BootCalm
  <2> QED BY <2>1, <2>2, <2>3 DEF CalmInv
<1>4. CASE InitWipe(p)
  <2>1. /\ pc[p] = "wipe" /\ pc' = [pc EXCEPT ![p] = "publish"] /\ magic' = magic
        /\ owner' = NoOwner /\ alive' = {}
    BY <1>4 DEF InitWipe
  <2>2. magic = "INITIALIZING" /\ \A q \in Proc \ {p} : pc[q] \in Before
    BY <1>0, <2>1 DEF InitOnce
  <2>3. \A q \in Proc : pc'[q] \in Before \cup {"publish"} /\ ~Flushing(q) /\ ~Flushing(q)'
    BY <2>1, <2>2 DEF Before, Flushing
  <2>4. owner \notin alive
    BY <1>0, <2>3 DEF Backed
  <2>5. InitOnce'
    <3>1. \A q \in Proc \ {p} : pc'[q] \in Before /\ pc'[q] \notin {"wipe", "publish"}
      BY <2>1, <2>2 DEF Before
    <3> QED BY <2>1, <2>2, <2>3, <3>1 DEF InitOnce
  <2>6. Backed' /\ Untaken'
    BY <2>1, <2>3 DEF Backed, Untaken, Before, Scheduling
  <2> QED BY <2>4, <2>5, <2>6 DEF CalmInv
<1>5. CASE InitPublish(p)
  <2>1. /\ pc[p] = "publish" /\ pc' = [pc EXCEPT ![p] = "join"]
        /\ magic' = "INITIALIZED" /\ UNCHANGED <<owner, alive, reg>>
    BY <1>5 DEF InitPublish
  <2>2. InitOnce'
    BY <1>0, <2>1 DEF InitOnce, Before
  <2>3. Backed' /\ (Taken' \/ Untaken')
    BY Zenon, <2>1, BootCalm
  <2> QED BY <2>1, <2>2, <2>3 DEF CalmInv
<1>6. CASE Join(p)
  <2>1. PICK l \in {"poll", "headless"} : pc' = [pc EXCEPT ![p] = l]
    BY <1>6 DEF Join
  <2>2. pc[p] = "join" /\ UNCHANGED <<magic, owner, alive, reg>>
    BY <1>6 DEF Join
  <2>3. \A q \in Proc \ {p} : Flushing(q) => vnpu[q] # vnpu[p] /\ owner \in alive
    BY <1>6, Zenon DEF Join
  <2>4. /\ \A q \in Proc \ {p} : pc'[q] = pc[q] /\ (Flushing(q)' <=> Flushing(q))
        /\ pc'[p] = l /\ ~Flushing(p)
    BY <2>1, <2>2 DEF Flushing
  <2>5. InitOnce'
    BY <1>0, <2>2, <2>4 DEF InitOnce, Before
  <2>6. Backed'
    BY <1>0, <2>2, <2>3, <2>4 DEF Backed
  <2>7. CASE Taken
    <3>1. ASSUME NEW q \in Proc
          PROVE  /\ pc'[q] \notin {"reload", "pass"}
                 /\ pc'[q] \in {"borrow", "check"} \cup Selected => reg[q] \in alive
                 /\ pc'[q] \in Scheduling => owner = vnpu[q]
      <4>1. CASE q = p BY <2>4, <4>1 DEF Scheduling, Selected
      <4>2. CASE q # p BY Zenon, <2>4, <2>7, <4>2 DEF Taken
      <4> QED BY <4>1, <4>2
    <3>2. ASSUME NEW q \in Proc
          PROVE  /\ pc'[q] \notin {"reload", "pass"}
                 /\ pc'[q] \in {"borrow", "check"} \cup Selected => reg'[q] \in alive'
                 /\ pc'[q] \in Scheduling => owner' = vnpu[q]
      BY <2>2, <3>1
    <3>3. owner' \in alive'
      BY <2>2, <2>7 DEF Taken
    <3>4. Taken'
      BY Zenon, <3>2, <3>3 DEF Taken
    <3> QED BY <2>2, <2>5, <2>6, <3>4 DEF CalmInv
  <2>8. CASE Untaken
    <3>1. \A q, u \in Proc : Flushing(q)' /\ Flushing(u)' => q = u
      BY <2>3, <2>4, <2>8 DEF Untaken
    <3>2. ASSUME NEW q \in Proc
          PROVE  /\ pc'[q] \notin Scheduling
                 /\ pc'[q] = "publish" => owner = NoOwner
                 /\ pc'[q] = "pass" => reg[q] \in alive \cup {NoOwner}
      <4>1. CASE q = p BY <2>4, <4>1 DEF Scheduling
      <4>2. CASE q # p BY Zenon, <2>4, <2>8, <4>2 DEF Untaken
      <4> QED BY <4>1, <4>2
    <3>3. ASSUME NEW q \in Proc
          PROVE  /\ pc'[q] \notin Scheduling
                 /\ pc'[q] = "publish" => owner' = NoOwner
                 /\ pc'[q] = "pass" => reg'[q] \in alive' \cup {NoOwner}
      BY <2>2, <3>2
    <3>4. owner' \notin alive' /\ (magic' = "INITIALIZED" => owner' = NoOwner)
      BY <2>2, <2>8 DEF Untaken
    <3>5. Untaken'
      BY Zenon, <3>1, <3>3, <3>4 DEF Untaken
    <3> QED BY <2>2, <2>5, <2>6, <3>5 DEF CalmInv
  <2> QED BY <1>0, <2>2, <2>5, <2>6, <2>7, <2>8 DEF CalmInv
<1> QED BY <1>1, <1>2, <1>3, <1>4, <1>5, <1>6 DEF Start

\* A step of a scheduler thread within its loop keeps the flush threads running
\* and the segment initialised.
LEMMA LoopCalm ==
  ASSUME TypeOK, InitOnce, Backed, NEW p \in Proc, Flushing(p), NEW l \in Looping,
         pc' = [pc EXCEPT ![p] = l], UNCHANGED <<magic, alive>>
  PROVE  InitOnce' /\ Backed' /\ \A q \in Proc : Flushing(q)' <=> Flushing(q)
<1>1. /\ \A q \in Proc \ {p} : pc'[q] = pc[q]
      /\ pc'[p] = l
  BY DEF TypeOK
<1>2. \A q \in Proc : Flushing(q)' <=> Flushing(q)
  BY <1>1 DEF Flushing
<1>3. magic = "INITIALIZED"
  BY DEF InitOnce, Flushing, Before
<1>4. InitOnce'
  BY <1>1, <1>3 DEF InitOnce
<1>5. Backed'
  BY Zenon, <1>2 DEF Backed
<1> QED BY <1>2, <1>4, <1>5

\* A step of a scheduler thread that keeps heartbeats and owner, when the turn
\* is taken.
LEMMA TakenStep ==
  ASSUME TypeOK, InitOnce, Backed, Taken, NEW p \in Proc, Flushing(p),
         NEW l \in Looping \ {"reload", "pass"},
         pc' = [pc EXCEPT ![p] = l],
         NEW w, reg' = [reg EXCEPT ![p] = w],
         UNCHANGED <<magic, owner, alive>>,
         l \in {"borrow", "check"} \cup Selected => w \in alive,
         l \in Scheduling => owner = vnpu[p]
  PROVE  CalmInv'
<1>1. /\ \A q \in Proc \ {p} : pc'[q] = pc[q] /\ reg'[q] = reg[q]
      /\ pc'[p] = l /\ reg'[p] = w
  BY DEF TypeOK
<1>2. InitOnce' /\ Backed'
  BY Zenon, LoopCalm
<1>3. ASSUME NEW q \in Proc
      PROVE  /\ pc'[q] \notin {"reload", "pass"}
             /\ pc'[q] \in {"borrow", "check"} \cup Selected => reg'[q] \in alive
             /\ pc'[q] \in Scheduling => owner = vnpu[q]
  <2>1. CASE q = p BY Zenon, <1>1, <2>1
  <2>2. CASE q # p BY Zenon, <1>1, <2>2 DEF Taken
  <2> QED BY <2>1, <2>2
<1>4. Taken'
  BY <1>3 DEF Taken
<1> QED BY <1>2, <1>4 DEF CalmInv

\* The same before the first turn.
LEMMA UntakenStep ==
  ASSUME TypeOK, InitOnce, Backed, Untaken, NEW p \in Proc, Flushing(p),
         NEW l \in Looping \ Scheduling,
         pc' = [pc EXCEPT ![p] = l],
         NEW w, reg' = [reg EXCEPT ![p] = w],
         UNCHANGED <<magic, owner, alive>>,
         l = "pass" => w \in alive \cup {NoOwner}
  PROVE  CalmInv'
<1>1. /\ \A q \in Proc \ {p} : pc'[q] = pc[q] /\ reg'[q] = reg[q]
      /\ pc'[p] = l /\ reg'[p] = w /\ l # "publish"
  BY DEF TypeOK
<1>2. InitOnce' /\ Backed' /\ \A q \in Proc : Flushing(q)' <=> Flushing(q)
  BY Zenon, LoopCalm
<1>3. ASSUME NEW q \in Proc
      PROVE  /\ pc'[q] \notin Scheduling
             /\ pc'[q] = "publish" => owner = NoOwner
             /\ pc'[q] = "pass" => reg'[q] \in alive \cup {NoOwner}
  <2>1. CASE q = p BY Zenon, <1>1, <2>1
  <2>2. CASE q # p BY Zenon, <1>1, <2>2 DEF Untaken
  <2> QED BY <2>1, <2>2
<1>4. \A q, u \in Proc : Flushing(q)' /\ Flushing(u)' => q = u
  BY Zenon, <1>2 DEF Untaken
<1>5. Untaken'
  BY <1>3, <1>4 DEF Untaken
<1> QED BY <1>2, <1>5 DEF CalmInv

\* The steps that hand the turn on: nobody else has it.
LEMMA HandOverCalm ==
  ASSUME TypeOK, InitOnce, Backed, Taken, NEW p \in Proc,
         pc[p] \in Selected, NEW l \in {"account", "skipaccount"},
         pc' = [pc EXCEPT ![p] = l], Store(p), UNCHANGED <<magic, alive>>
  PROVE  CalmInv' /\ owner = vnpu[p] /\ pc'[p] # pc[p]
<1> USE LimiterAssumption DEF TypeOK
<1>1. Flushing(p) /\ owner = vnpu[p] /\ reg[p] \in alive /\ pc[p] \in Scheduling
  BY DEF Taken, Flushing, Selected, Scheduling
<1>2. owner' = reg[p] /\ reg' = [reg EXCEPT ![p] = NoOwner]
  BY <1>1, NoOwnerNoVnpu DEF Store
<1>3. \A q \in Proc \ {p} : pc'[q] = pc[q] /\ reg'[q] = reg[q]
  BY <1>2
<1>4. pc'[p] = l
  OBVIOUS
<1>5. InitOnce' /\ Backed'
  BY Zenon, <1>1, LoopCalm
<1>6. \A q \in Proc \ {p} : pc[q] \notin Scheduling
  <2> SUFFICES ASSUME NEW q \in Proc \ {p}, pc[q] \in Scheduling PROVE FALSE
    OBVIOUS
  <2>1. Flushing(q) /\ vnpu[q] = owner
    BY DEF Taken, Flushing, Scheduling
  <2> QED BY <1>1, <2>1 DEF Backed
<1>7. \A q \in Proc :
        /\ pc'[q] \notin {"reload", "pass"}
        /\ pc'[q] \in {"borrow", "check"} \cup Selected => reg'[q] \in alive
        /\ pc'[q] \notin Scheduling
  BY <1>3, <1>4, <1>6 DEF Taken, Selected, Scheduling
<1>8. Taken'
  BY <1>1, <1>2, <1>7 DEF Taken
<1> QED BY <1>1, <1>4, <1>5, <1>8 DEF CalmInv, Selected

\* The scheduler thread keeps the calm invariant when the turn is taken.
LEMMA SchedulerTaken ==
  ASSUME TypeOK, InitOnce, Backed, Taken, NEW p \in Proc, SchedulerThread(p)
  PROVE  CalmInv' /\ (owner' # owner => vnpu[p] = owner /\ pc'[p] # pc[p])
<1> USE DEF goto
<1>0. /\ owner \in alive
      /\ pc[p] \notin {"reload", "pass"}
      /\ pc[p] \in {"borrow", "check"} \cup Selected => reg[p] \in alive
      /\ pc[p] \in Scheduling => owner = vnpu[p]
  BY DEF Taken
<1>a. reg = [reg EXCEPT ![p] = reg[p]]
  BY DEF TypeOK
<1>1. CASE Poll(p)
  <2>0. Flushing(p) /\ UNCHANGED <<magic, owner, alive>>
    BY <1>1 DEF Poll, Flushing
  <2>1. CASE owner = vnpu[p]
    BY <1>1, <1>a, <2>0, <2>1, TakenStep DEF Poll, Selected
  <2>2. CASE owner # vnpu[p]
    <3>1. PICK l \in {"borrow", "check"} : pc' = [pc EXCEPT ![p] = l]
      BY <1>1, <2>2 DEF Poll
    <3> QED BY Zenon, <1>0, <1>1, <2>0, <2>2, <3>1, TakenStep DEF Poll, Scheduling
  <2> QED BY <2>1, <2>2
<1>2. CASE Borrow(p)
  <2>0. Flushing(p) /\ UNCHANGED <<magic, owner, alive>>
    BY <1>2 DEF Borrow, Flushing
  <2>1. reg[p] \in alive /\ reg' = [reg EXCEPT ![p] = reg[p]]
    BY <1>0, <1>2, <1>a DEF Borrow
  <2>2. pc' = [pc EXCEPT ![p] = "check"]
    BY <1>2 DEF Borrow
  <2>3. "check" \in Looping \ {"reload", "pass"} /\ "check" \notin Scheduling
    BY DEF Scheduling
  <2> QED BY <2>0, <2>1, <2>2, <2>3, TakenStep, Zenon
<1>3. CASE CheckOwner(p)
  <2>0. Flushing(p) /\ UNCHANGED <<magic, owner, alive>>
    BY <1>3 DEF CheckOwner, Flushing
  <2>1. pc' = [pc EXCEPT ![p] = "poll"]
    BY <1>0, <1>3 DEF CheckOwner, is_vnpu_alive
  <2>2. reg' = [reg EXCEPT ![p] = NoOwner]
    BY <1>3 DEF CheckOwner
  <2>3. /\ "poll" \in Looping \ {"reload", "pass"}
        /\ "poll" \notin Scheduling /\ "poll" \notin {"borrow", "check"} \cup Selected
    BY DEF Scheduling, Selected
  <2> QED BY <2>0, <2>1, <2>2, <2>3, TakenStep, Zenon
<1>4. CASE Reload(p)
  BY <1>0, <1>4 DEF Reload
<1>5. CASE PassDead(p)
  BY <1>0, <1>5 DEF PassDead
<1>6. CASE TakeSlice(p)
  <2>0. Flushing(p) /\ UNCHANGED <<magic, owner, alive, reg>> /\ pc[p] \in Scheduling
    BY <1>6 DEF TakeSlice, Flushing, Scheduling
  <2>1. PICK l \in {"skip", "begin"} : pc' = [pc EXCEPT ![p] = l]
    BY <1>6 DEF TakeSlice
  <2> QED BY Zenon, <1>0, <1>a, <2>0, <2>1, TakenStep DEF Selected
<1>7. CASE Skip(p)
  <2>0. Flushing(p) /\ UNCHANGED <<magic, owner, alive>> /\ pc[p] \in Scheduling
    BY <1>7 DEF Skip, Flushing, Scheduling
  <2>1. PICK w \in VNPU \cup {NoOwner} : Selects(owner, w) /\ reg' = [reg EXCEPT ![p] = w]
    BY <1>7 DEF Skip
  <2>2. w \in alive
    BY <1>0, <2>1, SelectsAlive
  <2> QED BY Zenon, <1>0, <1>7, <2>0, <2>1, <2>2, TakenStep DEF Skip
<1>8. CASE PassSkipped(p)
  BY <1>8, HandOverCalm DEF PassSkipped, Selected
<1>9. CASE BeginSlice(p)
  <2>0. Flushing(p) /\ UNCHANGED <<magic, owner, alive>> /\ pc[p] \in Scheduling
    BY <1>9 DEF BeginSlice, Flushing, Scheduling
  <2>1. PICK w \in VNPU \cup {NoOwner} : Selects(owner, w) /\ reg' = [reg EXCEPT ![p] = w]
    BY Zenon, <1>9 DEF BeginSlice
  <2>2. w \in alive
    BY <1>0, <2>1, SelectsAlive
  <2> QED BY Zenon, <1>0, <1>9, <2>0, <2>1, <2>2, TakenStep DEF BeginSlice
<1>10. CASE EndSlice(p)
  <2>0. /\ Flushing(p) /\ UNCHANGED <<magic, owner, alive, reg>>
        /\ pc[p] \in Scheduling /\ pc[p] \in Selected
    BY <1>10 DEF EndSlice, Flushing, Scheduling, Selected
  <2>1. reg[p] \in alive /\ reg' = [reg EXCEPT ![p] = reg[p]] /\ owner = vnpu[p]
    BY <1>0, <1>a, <2>0
  <2>2. pc' = [pc EXCEPT ![p] = "relock"]
    BY <1>10 DEF EndSlice
  <2> QED BY Zenon, <2>0, <2>1, <2>2, TakenStep
<1>11. CASE HandOver(p)
  BY Zenon, <1>11, HandOverCalm DEF HandOver, Selected
<1>12. CASE Account(p) \/ Compensate(p) \/ AccountSkipped(p)
  <2>0. Flushing(p) /\ UNCHANGED <<magic, owner, alive, reg>>
    BY <1>12 DEF Account, Compensate, AccountSkipped, Flushing
  <2>1. PICK l \in {"sync", "poll"} : pc' = [pc EXCEPT ![p] = l]
    BY <1>12 DEF Account, Compensate, AccountSkipped
  <2> QED BY Zenon, <1>a, <2>0, <2>1, TakenStep DEF Scheduling, Selected
<1> QED BY SMTT(30), <1>1, <1>2, <1>3, <1>4, <1>5, <1>6, <1>7, <1>8, <1>9, <1>10,
           <1>11, <1>12 DEF SchedulerThread

\* Before the first turn one thread at most is in its loop: it finds no owner and
\* takes the turn itself.
LEMMA SchedulerUntaken ==
  ASSUME TypeOK, InitOnce, Backed, Untaken, NEW p \in Proc, SchedulerThread(p)
  PROVE  CalmInv'
<1> USE DEF goto
<1>0. pc[p] \notin Scheduling /\ reg = [reg EXCEPT ![p] = reg[p]]
  BY DEF Untaken, TypeOK
<1>1. CASE PassDead(p)
  <2>0. /\ Flushing(p) /\ pc[p] = "pass" /\ pc' = [pc EXCEPT ![p] = "poll"]
        /\ UNCHANGED <<magic, alive>> /\ Store(p)
    BY <1>1 DEF PassDead, Flushing
  <2>1. CASE reg[p] = NoOwner
    <3>1. owner' = owner /\ reg' = [reg EXCEPT ![p] = NoOwner]
      BY <2>0, <2>1 DEF Store
    <3>2. "poll" \in Looping \ Scheduling /\ "poll" # "pass"
      BY DEF Scheduling
    <3> QED BY Zenon, <2>0, <3>1, <3>2, UntakenStep
  <2>2. CASE reg[p] # NoOwner
    <3>1. owner' = reg[p] /\ reg[p] \in alive
      BY <2>0, <2>2 DEF Store, Untaken
    <3>2. InitOnce' /\ Backed'
      BY Zenon, <2>0, LoopCalm
    <3>3. pc'[p] = "poll" /\ \A q \in Proc \ {p} : pc'[q] = pc[q] /\ ~Flushing(q)
      BY <2>0 DEF TypeOK, Untaken
    <3>4. \A q \in Proc :
            pc'[q] \notin {"reload", "pass", "borrow", "check"} \cup Selected \cup Scheduling
      BY <3>3 DEF Flushing, Selected, Scheduling
    <3>5. Taken'
      BY Zenon, <2>0, <3>1, <3>4 DEF Taken
    <3> QED BY <3>2, <3>5 DEF CalmInv
  <2> QED BY <2>1, <2>2
<1>2. CASE Reload(p)
  <2>1. PICK w \in VNPU \cup {NoOwner} : Selects(owner, w) /\ reg' = [reg EXCEPT ![p] = w]
    BY Zenon, <1>2 DEF Reload
  <2>2. w \in alive \cup {NoOwner}
    BY <2>1 DEF Selects
  <2>3. /\ Flushing(p) /\ pc' = [pc EXCEPT ![p] = "pass"]
        /\ UNCHANGED <<magic, owner, alive>>
    BY <1>2 DEF Reload, Flushing
  <2>4. "pass" \in Looping \ Scheduling
    BY DEF Scheduling
  <2> QED BY Zenon, <2>1, <2>2, <2>3, <2>4, UntakenStep
<1>3. CASE Poll(p) \/ Borrow(p) \/ CheckOwner(p)
  <2>1. Flushing(p) /\ UNCHANGED <<magic, owner, alive>>
    BY <1>3 DEF Poll, Borrow, CheckOwner, Flushing
  <2>2. owner # vnpu[p]
    BY <2>1, NoOwnerNoVnpu, LimiterAssumption DEF Untaken, InitOnce, Flushing, Before
  <2>3. PICK l \in {"borrow", "check", "poll", "reload"} : pc' = [pc EXCEPT ![p] = l]
    BY <1>3, <2>2 DEF Poll, Borrow, CheckOwner
  <2>4. \E w : reg' = [reg EXCEPT ![p] = w]
    BY <1>0, <1>3, <2>2 DEF Poll, Borrow, CheckOwner
  <2>5. l \in Looping \ Scheduling /\ l # "pass"
    BY <2>3 DEF Scheduling
  <2> QED BY Zenon, <2>1, <2>3, <2>4, <2>5, UntakenStep
<1>4. CASE Account(p) \/ Compensate(p) \/ AccountSkipped(p)
  <2>1. Flushing(p) /\ UNCHANGED <<magic, owner, alive, reg>>
    BY <1>4 DEF Account, Compensate, AccountSkipped, Flushing
  <2>2. PICK l \in {"sync", "poll"} : pc' = [pc EXCEPT ![p] = l]
    BY <1>4 DEF Account, Compensate, AccountSkipped
  <2>3. l \in Looping \ Scheduling /\ l # "pass"
    BY <2>2 DEF Scheduling
  <2> QED BY Zenon, <1>0, <2>1, <2>2, <2>3, UntakenStep
<1>5. CASE \/ TakeSlice(p) \/ Skip(p) \/ PassSkipped(p) \/ BeginSlice(p)
           \/ EndSlice(p) \/ HandOver(p)
  BY <1>0, <1>5 DEF TakeSlice, Skip, PassSkipped, BeginSlice, EndSlice, HandOver, Scheduling
<1> QED BY <1>1, <1>2, <1>3, <1>4, <1>5 DEF SchedulerThread

\* The heartbeats of a calm machine are refreshed, and none grows old.
LEMMA OthersCalm ==
  ASSUME TypeOK, CalmInv, calm, calm'
  PROVE  /\ \A p \in Proc : Flush(p) => CalmInv'
         /\ \A p \in Proc : BeginPrefill(p) \/ EndPrefill(p) => CalmInv'
         /\ \A p \in Proc : ~Crash(p)
         /\ \A v \in VNPU : ~Expire(v) /\ ~Lapse(v)
         /\ \A v \in VNPU : SetQuota(v) => CalmInv'
<1>0. InitOnce /\ Backed /\ (Taken \/ Untaken)
  BY DEF CalmInv
<1>1. ASSUME NEW p \in Proc, Flush(p) PROVE CalmInv'
  <2>1. /\ alive' = alive \cup {vnpu[p]} /\ Flushing(p)
        /\ UNCHANGED <<magic, owner, pc, reg>>
    BY <1>1 DEF Flush
  <2>2. InitOnce' /\ Backed'
    BY <1>0, <2>1 DEF InitOnce, Backed, Flushing
  <2>3. CASE Taken
    <3>1. owner' \in alive'
      BY <2>1, <2>3 DEF Taken
    <3>2. ASSUME NEW q \in Proc
          PROVE  /\ pc'[q] \notin {"reload", "pass"}
                 /\ pc'[q] \in {"borrow", "check"} \cup Selected => reg'[q] \in alive'
                 /\ pc'[q] \in Scheduling => owner' = vnpu[q]
      BY <2>1, <2>3 DEF Taken
    <3>3. Taken'
      BY Zenon, <3>1, <3>2 DEF Taken
    <3> QED BY <2>2, <3>3 DEF CalmInv
  <2>4. CASE Untaken
    <3>1. owner = NoOwner /\ owner # vnpu[p]
      BY <1>0, <2>1, <2>4, NoOwnerNoVnpu, LimiterAssumption
         DEF Untaken, InitOnce, Flushing, Before
    <3>2. owner' \notin alive' /\ (magic' = "INITIALIZED" => owner' = NoOwner)
      BY <2>1, <2>4, <3>1 DEF Untaken
    <3>3. \A q, u \in Proc : Flushing(q)' /\ Flushing(u)' => q = u
      BY <2>1, <2>4 DEF Untaken, Flushing
    <3>4. ASSUME NEW q \in Proc
          PROVE  /\ pc'[q] \notin Scheduling
                 /\ pc'[q] = "publish" => owner' = NoOwner
                 /\ pc'[q] = "pass" => reg'[q] \in alive' \cup {NoOwner}
      BY <2>1, <2>4 DEF Untaken
    <3>5. Untaken'
      BY Zenon, <3>2, <3>3, <3>4 DEF Untaken
    <3> QED BY <2>2, <3>5 DEF CalmInv
  <2> QED BY <1>0, <2>2, <2>3, <2>4 DEF CalmInv
<1>2. ASSUME NEW p \in Proc, BeginPrefill(p) \/ EndPrefill(p) PROVE CalmInv'
  BY <1>2 DEF BeginPrefill, EndPrefill, CalmInv, InitOnce, Backed, Taken, Untaken, Flushing
<1>3. ASSUME NEW p \in Proc PROVE ~Crash(p)
  BY DEF Crash
<1>4. ASSUME NEW v \in VNPU PROVE ~Expire(v) /\ ~Lapse(v)
  BY <1>0 DEF Expire, Lapse, Backed
<1>5. ASSUME NEW v \in VNPU, SetQuota(v) PROVE CalmInv'
  BY SMTT(30), <1>5 DEF SetQuota, CalmInv, InitOnce, Backed, Taken, Untaken, Flushing
<1> QED BY <1>1, <1>2, <1>3, <1>4, <1>5

\* Every step of a calm machine keeps CalmInv, and the turn is handed on only
\* by the process that has it, or when nobody has it.
LEMMA StepCalm ==
  ASSUME TypeOK, CalmInv, [Next]_vars
  PROVE  /\ CalmInv'
         /\ calm /\ owner' # owner =>
              owner \notin alive \/ \E p \in Proc : vnpu[p] = owner /\ pc'[p] # pc[p]
<1>0. ~calm => ~calm'
  BY Zenon DEF Next, vars, Boot, Start, InitRead, InitReadAgain, InitTimeout,
         InitReset, InitClaim, InitWipe, InitPublish, Join, SchedulerThread, Poll, Borrow, CheckOwner, Reload,
         PassDead, TakeSlice, Skip, PassSkipped, BeginSlice, EndSlice, HandOver,
         Account, Compensate, AccountSkipped, Flush, BeginPrefill, EndPrefill,
         Crash, Expire, Lapse, SetQuota
<1>1. ASSUME ~calm PROVE CalmInv'
  BY <1>0, <1>1 DEF CalmInv
<1>2. ASSUME calm, NEW p \in Proc, Boot(p) \/ Start(p)
      PROVE  CalmInv' /\ (owner' # owner => owner \notin alive)
  <2>1. CASE calm'
    BY <1>2, <2>1, StartCalm
  <2>2. CASE ~calm'
    <3>1. ~InitWipe(p)
      BY Zenon, <1>2, <2>2 DEF InitWipe
    <3>2. owner' = owner
      BY Zenon, <1>2, <3>1 DEF Boot, Start, InitRead, InitReadAgain, InitTimeout, InitReset, InitClaim,
                        InitPublish, Join
    <3> QED BY <2>2, <3>2 DEF CalmInv
  <2> QED BY <2>1, <2>2
<1>3. ASSUME calm, NEW p \in Proc, SchedulerThread(p)
      PROVE  /\ CalmInv'
             /\ owner' # owner => owner \notin alive \/ (vnpu[p] = owner /\ pc'[p] # pc[p])
  <2>1. InitOnce /\ Backed /\ (Taken \/ Untaken)
    BY <1>3 DEF CalmInv
  <2>2. CASE Taken BY <1>3, <2>1, <2>2, SchedulerTaken
  <2>3. CASE Untaken
    <3>1. owner \notin alive
      BY <2>3 DEF Untaken
    <3> QED BY <1>3, <2>1, <2>3, <3>1, SchedulerUntaken
  <2> QED BY <2>1, <2>2, <2>3
<1>4. ASSUME calm, NEW p \in Proc,
             Flush(p) \/ BeginPrefill(p) \/ EndPrefill(p) \/ Crash(p)
      PROVE  CalmInv' /\ owner' = owner
  <2>1. owner' = owner
    BY Zenon, <1>4 DEF Flush, BeginPrefill, EndPrefill, Crash
  <2>2. CASE calm'
    BY <1>4, <2>1, <2>2, OthersCalm
  <2>3. CASE ~calm'
    BY <2>1, <2>3 DEF CalmInv
  <2> QED BY <2>2, <2>3
<1>5. ASSUME calm, NEW v \in VNPU, Expire(v) \/ Lapse(v) \/ SetQuota(v)
      PROVE  CalmInv' /\ owner' = owner
  <2>1. owner' = owner
    BY Zenon, <1>5 DEF Expire, Lapse, SetQuota
  <2>2. CASE calm'
    BY <1>5, <2>1, <2>2, OthersCalm
  <2>3. CASE ~calm'
    BY <2>1, <2>3 DEF CalmInv
  <2> QED BY <2>2, <2>3
<1>6. CASE UNCHANGED vars
  BY SMTT(30), <1>6 DEF vars, CalmInv, InitOnce, Backed, Taken, Untaken, Flushing
<1> QED BY Zenon, <1>1, <1>2, <1>3, <1>4, <1>5, <1>6 DEF Next

-----------------------------------------------------------------------------
\* The words of the segment and the registers of the scheduler threads keep
\* their types; a debt never exceeds what one slice overran or one
\* synchronisation cost (core_cur_timeslice).
THEOREM LimiterTypes == Spec => []TypeOK
  BY InitType, StepType, PTL DEF Spec

\* On a calm machine the segment is initialised once, the first turn is taken by
\* a process that is alone, and from then on the owner is a live vNPU and every
\* thread that schedules belongs to it, whatever the number of vNPUs and the
\* policy (share_mem_init, vnpu_scheduler_thread, add_and_consume_time_slice).
THEOREM LimiterCalm == Spec => []CalmInv
  BY InitType, InitCalm, StepType, StepCalm, PTL DEF Spec

\* Two vNPUs never have a slice at the same time on a calm machine
\* (vnpu_scheduler_thread, add_and_consume_time_slice).
THEOREM LimiterExclusive == Spec => []SlicesExclusive
<1>1. CalmInv => SlicesExclusive
  BY DEF CalmInv, Taken, Untaken, SlicesExclusive, InSlice, Scheduling
<1> QED BY <1>1, LimiterCalm, PTL

\* On a calm machine the turn is handed on only by the vNPU that has it, or while
\* no live vNPU has it (comment of vnpu_scheduler_thread).
THEOREM LimiterOwner == Spec => OnlyOwnerSchedules
<1>1. TypeOK /\ CalmInv /\ [Next]_vars =>
        [calm /\ owner' # owner =>
           owner \notin alive \/ \E p \in Proc : vnpu[p] = owner /\ pc'[p] # pc[p]]_vars
  BY StepCalm
<1> QED BY <1>1, LimiterTypes, LimiterCalm, PTL DEF Spec, OnlyOwnerSchedules
=============================================================================
