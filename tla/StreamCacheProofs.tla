-------------------------- MODULE StreamCacheProofs --------------------------
(***************************************************************************)
(* The account of delivered work is right for every number of streams,     *)
(* events and threads and every capacity of the cache: the steps of        *)
(* CacheInv that concern streams, captures and work, and the theorems.     *)
(***************************************************************************)
EXTENDS StreamCacheLoop

-----------------------------------------------------------------------------
(* Streams that the scheduler will synchronise exist. *)

Cached(x) == Contains(x) /\ \E k \in 1 .. Len(cache) : cache[k] = x

\* A call of a hook, other than rtStreamDestroy on this stream, does not make a
\* stream one that is being destroyed; neither does the return from one.
LEMMA DestroyingSteps ==
  ASSUME TypeOK, NEW t \in Thread
  PROVE  /\ \A op \in Op, s \in Stream \cup {Null}, e \in Event \cup {Null} :
              Enters(t, op, s, e) =>
                \A x \in Stream : Destroying(x)' <=>
                                    Destroying(x) \/ (op = "destroy" /\ x = s)
         /\ Returns(t) => \A x \in Stream : Destroying(x)' =>
                            \E u \in Thread : u # t /\ call[u].op = "destroy" /\ call[u].s = x
         /\ Returns(t) /\ call[t].op # "destroy" =>
              \A x \in Stream : Destroying(x)' <=> Destroying(x)
<1>1. ASSUME NEW op \in Op, NEW s \in Stream \cup {Null}, NEW e \in Event \cup {Null},
             Enters(t, op, s, e), NEW x \in Stream
      PROVE  Destroying(x)' <=> Destroying(x) \/ (op = "destroy" /\ x = s)
  <2>1. /\ call[t].op = "none"
        /\ call'[t].op = op /\ call'[t].s = s
        /\ \A u \in Thread : u # t => call'[u] = call[u]
    BY <1>1, CallsTyped DEF Idle
  <2> QED BY Zenon, <2>1 DEF Destroying
<1>2. ASSUME Returns(t)
      PROVE  /\ call'[t].op = "none"
             /\ \A u \in Thread : u # t => call'[u] = call[u]
  BY Zenon, <1>2, CallsTyped
<1>3. ASSUME Returns(t), NEW x \in Stream, Destroying(x)'
      PROVE  \E u \in Thread : u # t /\ call[u].op = "destroy" /\ call[u].s = x
  BY Zenon, <1>2, <1>3 DEF Destroying
<1>4. ASSUME Returns(t), call[t].op # "destroy", NEW x \in Stream
      PROVE  Destroying(x)' <=> Destroying(x)
  BY Zenon, <1>2, <1>4 DEF Destroying
<1> QED BY Zenon, <1>1, <1>3, <1>4

\* The stream of a call that is not rtStreamDestroy is not being destroyed.
LEMMA OwnNotDestroying ==
  ASSUME TypeOK, CallInv, NEW t \in Thread, call[t].s # Null, call[t].op # "destroy"
  PROVE  call[t].s \in live /\ ~Destroying(call[t].s)
  BY Zenon DEF CallInv, Destroying

\* A step that leaves cache and entries alone, destroys no stream, and calls no
\* rtStreamDestroy.
Spares ==
  /\ UNCHANGED <<cache, stream_map>>
  /\ live \subseteq live'
  /\ \A x \in Stream : Destroying(x)' => Destroying(x)

\* The steps that are of no account for the streams on record.
LEMMA SparingSteps ==
  ASSUME TypeOK, [Next]_vars
  PROVE  /\ \/ CloseGate \/ Abort \/ SyncBegin \/ SyncReturns \/ OpenGate
            \/ UNCHANGED vars
            => Spares
         /\ \A s \in Stream : StreamCreate(s) \/ Finish(s) => Spares
         /\ \A t \in Thread, e \in Event : EventCreate(t, e) \/ EventDestroy(t, e) => Spares
         /\ \A t \in Thread, e \in Event, s \in Stream :
              EventRecord(t, e, s) \/ EventWait(t, s, e) => Spares
         /\ \A t \in Thread : LaunchDelivered(t) \/ CaptureBegun(t) \/ CaptureEnded(t) => Spares
<1> USE DEF sched, device, Spares
<1>1. CloseGate \/ Abort \/ SyncBegin \/ SyncReturns \/ OpenGate \/ UNCHANGED vars => Spares
  BY Zenon DEF CloseGate, Abort, SyncBegin, SyncReturns, OpenGate, vars, Destroying
<1>2. ASSUME NEW s \in Stream, StreamCreate(s) \/ Finish(s) PROVE Spares
  BY Zenon, <1>2 DEF StreamCreate, Finish, Destroying
<1>3. ASSUME NEW t \in Thread, NEW e \in Event, EventCreate(t, e) \/ EventDestroy(t, e)
      PROVE  Spares
  BY Zenon, <1>3 DEF EventCreate, EventDestroy, Destroying
<1>4. ASSUME NEW t \in Thread, NEW e \in Event, NEW s \in Stream, EventRecord(t, e, s)
      PROVE  Spares
  BY Zenon, <1>4, DestroyingSteps DEF EventRecord, Op
<1>5. ASSUME NEW t \in Thread, NEW e \in Event, NEW s \in Stream, EventWait(t, s, e)
      PROVE  Spares
  BY Zenon, <1>5, DestroyingSteps DEF EventWait, Op
<1>6. ASSUME NEW t \in Thread, LaunchDelivered(t) PROVE Spares
  BY Zenon, <1>6, DestroyingSteps DEF LaunchDelivered, In
<1>7. ASSUME NEW t \in Thread, CaptureBegun(t) PROVE Spares
  BY Zenon, <1>7, DestroyingSteps DEF CaptureBegun, In
<1>8. ASSUME NEW t \in Thread, CaptureEnded(t) PROVE Spares
  <2>1. CASE Returns(t)
    BY Zenon, <1>8, <2>1, DestroyingSteps DEF CaptureEnded, In
  <2>2. CASE call' = [call EXCEPT ![t].op = "ended"]
    <3>1. /\ call'[t].op = "ended"
          /\ \A u \in Thread : u # t => call'[u] = call[u]
      BY Zenon, <2>2 DEF TypeOK
    <3>2. \A x \in Stream : Destroying(x)' => Destroying(x)
      BY Zenon, <3>1 DEF Destroying
    <3> QED BY Zenon, <1>8, <3>2 DEF CaptureEnded
  <2> QED BY Zenon, <1>8, <2>1, <2>2 DEF CaptureEnded
<1> QED BY Zenon, <1>1, <1>2, <1>3, <1>4, <1>5, <1>6, <1>7, <1>8

\* A stream with an entry stays in the cache no longer than it exists: the hook
\* of rtStreamDestroy removes it before the device destroys it.
LEMMA LiveNext == TypeOK /\ CallInv /\ LoopInv /\ LiveInv /\ [Next]_vars => LiveInv'
<1> SUFFICES ASSUME TypeOK, CallInv, LoopInv, LiveInv, [Next]_vars PROVE LiveInv'
  BY Zenon
<1> USE EntryFacts DEF sched, device
<1>0. /\ Len(cache) \in Nat
      /\ \A k \in 1 .. Len(cache) : cache[k] \in Stream \cup {Null}
      /\ \A k \in 1 .. Len(cache') : cache'[k] \in Stream \cup {Null}
      /\ Len(cache') \in Nat
  <2>1. TypeOK'
    BY Zenon, TypeNext
  <2>2. cache' \in Seq(Stream \cup {Null})
    BY Zenon, <2>1 DEF TypeOK
  <2> QED BY <2>2, CacheElements
<1>1. \A x \in Stream : Cached(x) => x \in live /\ ~Destroying(x)
  BY Zenon DEF LiveInv, Cached
<1>2. SUFFICES ASSUME NEW x \in Stream, Cached(x)' PROVE x \in live' /\ ~Destroying(x)'
  BY Zenon, <1>0, <1>2 DEF LiveInv, Cached, Contains
<1>3. CASE Spares
  BY Zenon, <1>1, <1>2, <1>3 DEF Spares, Cached, Contains
<1>4. ASSUME NEW t \in Thread, NEW s \in Stream \cup {Null}, NEW op \in Op,
             Enters(t, op, s, Null), op # "destroy", s # Null => Usable(s),
             cache' = CacheAfter(s), live' = live,
             x # s => stream_map'[x] = stream_map[x]
      PROVE  x \in live' /\ ~Destroying(x)'
  <2>1. Destroying(x)' <=> Destroying(x)
    BY <1>4, DestroyingSteps
  <2>2. CASE x = s
    BY Zenon, <1>4, <2>1, <2>2 DEF Usable, Destroying
  <2>3. CASE x # s
    <3>1. \A k \in 1 .. Len(cache') :
            (k \in 1 .. Len(cache) /\ cache'[k] = cache[k]) \/ cache'[k] = s
      BY <1>0, <1>4, AfterElements
    <3>2. Cached(x)
      BY Zenon, <1>2, <1>4, <2>3, <3>1 DEF Cached, Contains
    <3> QED BY Zenon, <1>1, <1>4, <2>1, <3>2
  <2> QED BY Zenon, <2>2, <2>3
<1>5. ASSUME NEW t \in Thread, NEW s \in Stream \cup {Null}, Launch(t, s)
      PROVE  x \in live' /\ ~Destroying(x)'
  <2>1. "launch" \in Op /\ "launch" # "destroy"
    BY Zenon DEF Op
  <2>2. x # s => stream_map'[x] = stream_map[x]
    BY <1>5, MapsTyped DEF Launch
  <2> QED BY Zenon, <1>4, <1>5, <2>1, <2>2 DEF Launch
<1>6. ASSUME NEW t \in Thread, NEW s \in Stream, BeginCapture(t, s)
      PROVE  x \in live' /\ ~Destroying(x)'
  <2>1. "begin" \in Op /\ "begin" # "destroy"
    BY Zenon DEF Op
  <2>2. x # s => stream_map'[x] = stream_map[x]
    BY <1>6, MapsTyped DEF BeginCapture
  <2> QED BY Zenon, <1>4, <1>6, <2>1, <2>2 DEF BeginCapture
<1>7. ASSUME NEW t \in Thread, NEW s \in Stream, EndCapture(t, s)
      PROVE  x \in live' /\ ~Destroying(x)'
  <2>1. "end" \in Op /\ "end" # "destroy"
    BY Zenon DEF Op
  <2>2. x # s => stream_map'[x] = stream_map[x]
    BY Zenon, <1>7, MapsTyped DEF EndCapture
  <2> QED BY Zenon, <1>4, <1>7, <2>1, <2>2 DEF EndCapture
<1>8. ASSUME NEW t \in Thread, NEW s \in Stream, Destroy(t, s)
      PROVE  x \in live' /\ ~Destroying(x)'
  <2>1. "destroy" \in Op
    BY Zenon DEF Op
  <2>2. Destroying(x)' <=> Destroying(x) \/ x = s
    BY <1>8, <2>1, DestroyingSteps DEF Destroy
  <2>3. x # s
    BY <1>2, <1>8, DestroyRemoves DEF Cached, Contains
  <2>4. \A k \in 1 .. Len(cache') : cache'[k] # s =>
          \E j \in 1 .. Len(cache) : cache[j] = cache'[k]
    <3>1. CASE cache' = cache
      BY Zenon, <3>1
    <3>2. ASSUME NEW p \in 1 .. Len(CacheAfter(s)),
                 Len(cache') = Len(CacheAfter(s)) - 1,
                 \A k \in 1 .. Len(CacheAfter(s)) - 1 :
                   cache'[k] = IF k < p THEN CacheAfter(s)[k] ELSE CacheAfter(s)[k + 1],
                 NEW k \in 1 .. Len(cache'), cache'[k] # s
          PROVE  \E j \in 1 .. Len(cache) : cache[j] = cache'[k]
      <4> DEFINE c == CacheAfter(s)
                 j == IF k < p THEN k ELSE k + 1
      <4>1. /\ Len(c) = IF Records(s) THEN Len(cache) + 1 ELSE Len(cache)
            /\ \A n \in 1 .. Len(cache) : c[n] = cache[n]
            /\ Records(s) => c[Len(cache) + 1] = s
        BY Zenon, AfterElements
      <4>2. p \in 1 .. Len(c) /\ Len(cache') = Len(c) - 1 /\ cache'[k] = c[j]
        BY Zenon, <3>2
      <4> HIDE DEF c
      <4>3. j \in 1 .. Len(c)
        BY <1>0, <4>1, <4>2
      <4>4. j \in 1 .. Len(cache)
        BY <1>0, <3>2, <4>1, <4>2, <4>3
      <4> QED BY Zenon, <4>1, <4>2, <4>4
    <3> QED BY Zenon, <1>8, <3>1, <3>2, DestroyRemoves
  <2>5. Cached(x)
    BY <1>2, <1>8, <2>3, <2>4, DestroyRemoves DEF Cached, Contains
  <2> QED BY Zenon, <1>1, <1>8, <2>2, <2>3, <2>5 DEF Destroy
<1>9. ASSUME NEW t \in Thread, Unmark(t) PROVE x \in live' /\ ~Destroying(x)'
  <2>1. stream_map'[x] # Absent => stream_map[x] # Absent
    <3>1. ASSUME NEW k \in DOMAIN cache, \A j \in 1 .. k : Contains(cache[j]), cache[k] = x
          PROVE  stream_map[x] # Absent
      <4>1. k \in 1 .. k
        BY <1>0, CacheElements
      <4> QED BY Zenon, <3>1, <4>1 DEF Contains
    <3> QED BY Zenon, <1>9, <3>1 DEF Unmark
  <2>2. Cached(x)
    BY Zenon, <1>2, <1>9, <2>1 DEF Cached, Contains, Unmark
  <2>3. Destroying(x)' <=> Destroying(x)
    BY Zenon, <1>9, DestroyingSteps DEF Unmark, In
  <2> QED BY Zenon, <1>1, <1>9, <2>2, <2>3 DEF Unmark
<1>10. ASSUME NEW t \in Thread, RecordNoted(t) \/ WaitNoted(t)
       PROVE  x \in live' /\ ~Destroying(x)'
  <2> DEFINE s == call[t].s
  <2>1. s \in Stream /\ call[t].e \in Event /\ event_map[call[t].e] # Absent
    BY Zenon, <1>10 DEF RecordNoted, WaitNoted, In, CallInv, TypeOK
  <2>2. event_map[call[t].e] \in Stream \cup {Null}
    BY Zenon, <2>1 DEF TypeOK
  <2>3. Destroying(x)' <=> Destroying(x)
    BY Zenon, <1>10, DestroyingSteps DEF RecordNoted, WaitNoted, In
  <2>4. x # s => stream_map'[x] = stream_map[x]
    BY <1>10, <2>1, <2>2, MapsTyped DEF RecordNoted, WaitNoted
  <2>5. cache' = cache /\ live' = live
    BY Zenon, <1>10 DEF RecordNoted, WaitNoted
  <2>6. x = s => x \in live /\ ~Destroying(x)
    BY Zenon, <1>10, <2>1, OwnNotDestroying DEF RecordNoted, WaitNoted, In
  <2>7. x # s => Cached(x)
    BY Zenon, <1>2, <2>4, <2>5 DEF Cached, Contains
  <2> QED BY Zenon, <1>1, <2>3, <2>5, <2>6, <2>7
<1>11. ASSUME NEW t \in Thread, Destroyed(t) PROVE x \in live' /\ ~Destroying(x)'
  <2> DEFINE s == call[t].s
  <2>1. Returns(t) /\ live' = live \ {s} /\ UNCHANGED <<cache, stream_map>>
    BY Zenon, <1>11 DEF Destroyed
  <2>2. Cached(x)
    BY Zenon, <1>2, <2>1 DEF Cached, Contains
  <2>3. Destroying(x)' => Destroying(x)
    BY <2>1, DestroyingSteps DEF Destroying
  <2>4. x # s
    BY Zenon, <1>1, <1>11, <2>2 DEF Destroyed, In, Destroying
  <2> QED BY Zenon, <1>1, <2>1, <2>2, <2>3, <2>4
<1>12. CASE KeepCaptured \/ SyncEnd \/ Forget
  <2>1. \A k \in 1 .. Len(cache') : \E j \in 1 .. Len(cache) : cache'[k] = cache[j]
    <3>1. CASE KeepCaptured BY Zenon, <3>1, KeepElements
    <3>2. CASE SyncEnd BY Zenon, <3>2 DEF SyncEnd
    <3>3. CASE Forget BY Zenon, <3>3, ForgetElements
    <3> QED BY Zenon, <1>12, <3>1, <3>2, <3>3
  <2>2. stream_map'[x] # Absent => stream_map[x] # Absent
    BY Zenon, <1>12 DEF KeepCaptured, SyncEnd, Forget, TypeOK
  <2>3. live' = live /\ call' = call
    BY Zenon, <1>12 DEF KeepCaptured, SyncEnd, Forget
  <2>4. Cached(x)
    BY Zenon, <1>2, <2>1, <2>2 DEF Cached, Contains
  <2> QED BY Zenon, <1>1, <2>3, <2>4 DEF Destroying
<1> QED
  BY SparingSteps, <1>3, <1>5, <1>6, <1>7, <1>8, <1>9, <1>10, <1>11, <1>12, Zenon
     DEF Next, Scheduler, Calls, Goes

-----------------------------------------------------------------------------
(* Captures. *)

\* The first three parts of CaptureInv: captures belong to head streams, and a
\* capture is over when its marks are taken back.
CaptureEnds ==
  /\ \A s \in Stream : capturing[s] \in Heads \cup {Null}
  /\ \A e \in Event : recorded[e] \in Heads \cup {Null}
  /\ \A t \in Thread : In(t, "ended") => capturing[call[t].s] # call[t].s

\* Every step keeps them: the device begins captures on head streams, passes them
\* on through events, and ends them before the hook of rtStreamEndCapture goes on.
LEMMA CaptureEndsNext == TypeOK /\ CallInv /\ CaptureEnds /\ [Next]_vars => CaptureEnds'
<1> SUFFICES ASSUME TypeOK, CallInv, CaptureEnds, [Next]_vars PROVE CaptureEnds'
  BY Zenon
<1> USE EntryFacts, CacheAssumption DEF sched, device
<1>1. ASSUME UNCHANGED <<capturing, recorded>>,
             \A t \in Thread : In(t, "ended")' => In(t, "ended") /\ call'[t].s = call[t].s
      PROVE  CaptureEnds'
  BY Zenon, <1>1 DEF CaptureEnds
<1>2. ASSUME NEW t \in Thread, NEW op \in Op, NEW s \in Stream \cup {Null},
             NEW e \in Event \cup {Null}, Enters(t, op, s, e), op # "ended"
      PROVE  \A u \in Thread : In(u, "ended")' => In(u, "ended") /\ call'[u].s = call[u].s
  BY Zenon, <1>2, CallsTyped DEF In
<1>3. ASSUME NEW t \in Thread, Returns(t)
      PROVE  \A u \in Thread : In(u, "ended")' => In(u, "ended") /\ call'[u].s = call[u].s
  BY Zenon, <1>3, CallsTyped DEF In
<1>4. CASE Scheduler \/ UNCHANGED vars \/ \E s \in Stream : StreamCreate(s) \/ Finish(s)
  <2>1. UNCHANGED <<call, capturing, recorded>>
    BY Zenon, <1>4 DEF Scheduler, CloseGate, Abort, KeepCaptured, SyncBegin, SyncReturns, SyncEnd,
                Forget, OpenGate, vars, StreamCreate, Finish
  <2> QED BY Zenon, <1>1, <2>1 DEF In
<1>5. ASSUME NEW t \in Thread, NEW s \in Stream \cup {Null}, Launch(t, s) PROVE CaptureEnds'
  BY Zenon, <1>1, <1>2, <1>5 DEF Launch, Op
<1>6. ASSUME NEW t \in Thread, NEW s \in Stream,
             BeginCapture(t, s) \/ EndCapture(t, s) \/ Destroy(t, s)
      PROVE  CaptureEnds'
  <2>1. \E op \in Op : op # "ended" /\ Enters(t, op, s, Null)
    BY Zenon, <1>6 DEF BeginCapture, EndCapture, Destroy, Op
  <2>2. UNCHANGED <<capturing, recorded>>
    BY Zenon, <1>6 DEF BeginCapture, EndCapture, Destroy
  <2> QED BY Zenon, <1>1, <1>2, <2>1, <2>2
<1>7. ASSUME NEW t \in Thread, NEW e \in Event, NEW s \in Stream, EventRecord(t, e, s)
      PROVE  CaptureEnds'
  <2>1. \A u \in Thread : In(u, "ended")' => In(u, "ended") /\ call'[u].s = call[u].s
    BY Zenon, <1>2, <1>7 DEF EventRecord, Op
  <2>2. capturing' = capturing /\ recorded' = [recorded EXCEPT ![e] = capturing[s]]
    BY Zenon, <1>7 DEF EventRecord
  <2> QED BY Zenon, <2>1, <2>2 DEF CaptureEnds, TypeOK
<1>8. ASSUME NEW t \in Thread, NEW e \in Event, NEW s \in Stream, EventWait(t, s, e)
      PROVE  CaptureEnds'
  <2>1. \A u \in Thread : In(u, "ended")' => In(u, "ended") /\ call'[u].s = call[u].s
    BY Zenon, <1>2, <1>8 DEF EventWait, Op
  <2>2. recorded' = recorded /\ capturing' = [capturing EXCEPT ![s] = recorded[e]]
    BY Zenon, <1>8 DEF EventWait
  <2>3. \A u \in Thread : call[u].s # s
    BY Zenon, <1>8 DEF EventWait, Usable
  <2>4. \A u \in Thread : In(u, "ended") => call[u].s \in Stream
    BY Zenon DEF In, CallInv, TypeOK
  <2> QED BY Zenon, <2>1, <2>2, <2>3, <2>4 DEF CaptureEnds, TypeOK
<1>9. ASSUME NEW t \in Thread, NEW e \in Event, EventCreate(t, e) PROVE CaptureEnds'
  BY Zenon, <1>9 DEF EventCreate, CaptureEnds, TypeOK, In
<1>10. ASSUME NEW t \in Thread, NEW e \in Event, EventDestroy(t, e) PROVE CaptureEnds'
  BY Zenon, <1>10 DEF EventDestroy, CaptureEnds, In
<1>11. ASSUME NEW t \in Thread, \/ LaunchDelivered(t) \/ Unmark(t) \/ RecordNoted(t)
                                \/ WaitNoted(t) \/ Destroyed(t)
       PROVE  CaptureEnds'
  <2>1. Returns(t) /\ UNCHANGED <<capturing, recorded>>
    BY Zenon, <1>11 DEF LaunchDelivered, Unmark, RecordNoted, WaitNoted, Destroyed
  <2> QED BY Zenon, <1>1, <1>3, <2>1
<1>12. ASSUME NEW t \in Thread, CaptureBegun(t) PROVE CaptureEnds'
  <2> DEFINE s == call[t].s
  <2>1. s \in Heads /\ s \in Stream
    BY Zenon, <1>12 DEF CaptureBegun, In, CallInv
  <2>2. /\ Returns(t) /\ recorded' = recorded
        /\ capturing' = capturing \/ capturing' = [capturing EXCEPT ![s] = s]
    BY Zenon, <1>12 DEF CaptureBegun
  <2>3. \A u \in Thread : In(u, "ended")' => /\ In(u, "ended")
                                             /\ call'[u].s = call[u].s
                                             /\ call[u].s \in Stream
    BY Zenon, <1>3, <2>2 DEF In, CallInv, TypeOK
  <2>4. \A u \in Thread : In(u, "ended") => call[u].s # s
    BY Zenon, <1>12, <2>1 DEF In, CallInv, CaptureBegun
  <2> QED BY <2>1, <2>2, <2>3, <2>4 DEF CaptureEnds, TypeOK
<1>13. ASSUME NEW t \in Thread, CaptureEnded(t) PROVE CaptureEnds'
  <2> DEFINE s == call[t].s
  <2>1. s \in Stream
    BY Zenon, <1>13 DEF CaptureEnded, In, CallInv
  <2>2. /\ recorded' = recorded
        /\ \A x \in Stream : capturing'[x] = IF capturing[x] = s THEN Null ELSE capturing[x]
    BY Zenon, <1>13 DEF CaptureEnded
  <2>3. \A u \in Thread : call'[u].op = "ended" => /\ call'[u].s = call[u].s
                                                   /\ u = t \/ call[u].op = "ended"
    <3>1. CASE Returns(t)
      BY Zenon, <3>1, <1>3 DEF In
    <3>2. CASE call' = [call EXCEPT ![t].op = "ended"]
      BY <3>2 DEF TypeOK
    <3> QED BY Zenon, <1>13, <3>1, <3>2 DEF CaptureEnded
  <2>4. \A u \in Thread : call[u].op = "ended" => call[u].s \in Stream
    BY Zenon DEF CallInv, TypeOK
  <2>5. ASSUME NEW u \in Thread, In(u, "ended")' PROVE (capturing[call[u].s] # call[u].s)'
    <3>1. call'[u].s = call[u].s /\ call[u].s \in Stream
      BY Zenon, <2>1, <2>3, <2>4, <2>5 DEF In
    <3>2. CASE u = t
      BY Zenon, <2>1, <2>2, <3>1, <3>2
    <3>3. CASE call[u].op = "ended"
      BY <2>2, <3>1, <3>3 DEF CaptureEnds, In
    <3> QED BY Zenon, <2>3, <2>5, <3>2, <3>3 DEF In
  <2> QED BY Zenon, <2>2, <2>5 DEF CaptureEnds
<1> QED
  BY <1>4, <1>5, <1>6, <1>7, <1>8, <1>9, <1>10, <1>11, <1>12, <1>13, Zenon
     DEF Next, Calls, Goes

\* A capture is open on head h, or about to be.
CaptureOpen(h) == capturing[h] = h \/ \E t \in Thread : In(t, "begin") /\ call[t].s = h

\* The scheduler thread synchronises the stream, or has done so and not removed
\* its entry.
Syncing(h) == spc \in {"sync", "synced"} /\ cache[i] = h
Marked(h) == Contains(h) /\ stream_map[h].capture

\* A capture is opened by rtStreamBeginCapture and by nothing else.
LEMMA OpenedByBegin ==
  ASSUME TypeOK, CallInv, [Next]_vars, NEW h \in Heads, CaptureOpen(h)'
  PROVE  CaptureOpen(h) \/ \E t \in Thread : BeginCapture(t, h)
<1> USE EntryFacts, CacheAssumption DEF sched, device
<1>1. ASSUME NEW t \in Thread, NEW op \in Op, NEW s \in Stream \cup {Null},
             NEW e \in Event \cup {Null}, Enters(t, op, s, e), op # "begin",
             capturing'[h] = h => capturing[h] = h
      PROVE  CaptureOpen(h)
  BY <1>1, CallsTyped DEF In, CaptureOpen
<1>2. ASSUME NEW t \in Thread, Returns(t),
             capturing'[h] = h => capturing[h] = h \/ (In(t, "begin") /\ call[t].s = h)
      PROVE  CaptureOpen(h)
  BY <1>2, CallsTyped DEF In, CaptureOpen
<1>3. CASE UNCHANGED <<call, capturing>>
  BY Zenon, <1>3 DEF In, CaptureOpen
<1>4. CASE Scheduler \/ UNCHANGED vars \/ \E s \in Stream : StreamCreate(s) \/ Finish(s)
  <2>1. UNCHANGED <<call, capturing>>
    BY Zenon, <1>4 DEF Scheduler, CloseGate, Abort, KeepCaptured, SyncBegin, SyncReturns, SyncEnd,
                Forget, OpenGate, vars, StreamCreate, Finish
  <2> QED BY Zenon, <1>3, <2>1
<1>5. ASSUME NEW t \in Thread, NEW s \in Stream \cup {Null}, Launch(t, s)
      PROVE  CaptureOpen(h)
  BY Zenon, <1>1, <1>5 DEF Launch, Op
<1>6. ASSUME NEW t \in Thread, NEW s \in Stream, BeginCapture(t, s)
      PROVE  CaptureOpen(h) \/ BeginCapture(t, h)
  <2>1. /\ capturing' = capturing /\ call'[t].s = s
        /\ \A u \in Thread : u # t => call'[u] = call[u]
    BY <1>6, CallsTyped DEF BeginCapture, Op
  <2> QED BY Zenon, <1>6, <2>1 DEF CaptureOpen, In
<1>7. ASSUME NEW t \in Thread, NEW s \in Stream, EndCapture(t, s) \/ Destroy(t, s)
      PROVE  CaptureOpen(h)
  <2>1. \E op \in Op : op # "begin" /\ Enters(t, op, s, Null)
    BY Zenon, <1>7 DEF EndCapture, Destroy, Op
  <2>2. capturing' = capturing
    BY Zenon, <1>7 DEF EndCapture, Destroy
  <2> QED BY Zenon, <1>1, <2>1, <2>2
<1>8. ASSUME NEW t \in Thread, NEW e \in Event, NEW s \in Stream, EventRecord(t, e, s)
      PROVE  CaptureOpen(h)
  BY Zenon, <1>1, <1>8 DEF EventRecord, Op
<1>9. ASSUME NEW t \in Thread, NEW e \in Event, NEW s \in Stream, EventWait(t, s, e)
      PROVE  CaptureOpen(h)
  <2>1. capturing'[h] = h => capturing[h] = h
    BY Zenon, <1>9 DEF EventWait, TypeOK
  <2> QED BY Zenon, <1>1, <1>9, <2>1 DEF EventWait, Op
<1>10. ASSUME NEW t \in Thread, NEW e \in Event, EventCreate(t, e) \/ EventDestroy(t, e)
       PROVE  CaptureOpen(h)
  BY Zenon, <1>10 DEF EventCreate, EventDestroy, CaptureOpen, In
<1>11. ASSUME NEW t \in Thread, \/ LaunchDelivered(t) \/ Unmark(t) \/ RecordNoted(t)
                                \/ WaitNoted(t) \/ Destroyed(t)
       PROVE  CaptureOpen(h)
  <2>1. Returns(t) /\ capturing' = capturing
    BY Zenon, <1>11 DEF LaunchDelivered, Unmark, RecordNoted, WaitNoted, Destroyed
  <2> QED BY Zenon, <1>2, <2>1
<1>12. ASSUME NEW t \in Thread, CaptureBegun(t) PROVE CaptureOpen(h)
  <2>1. capturing'[h] = h => capturing[h] = h \/ (In(t, "begin") /\ call[t].s = h)
    BY Zenon, <1>12 DEF CaptureBegun, TypeOK
  <2> QED BY Zenon, <1>2, <1>12, <2>1 DEF CaptureBegun
<1>13. ASSUME NEW t \in Thread, CaptureEnded(t) PROVE CaptureOpen(h)
  <2>1. capturing'[h] = h => capturing[h] = h
    BY Zenon, <1>13 DEF CaptureEnded
  <2>2. CASE Returns(t)
    BY Zenon, <1>2, <2>1, <2>2
  <2>3. CASE call' = [call EXCEPT ![t].op = "ended"]
    <3>1. /\ call'[t].op = "ended"
          /\ \A u \in Thread : u # t => call'[u] = call[u]
      BY <2>3 DEF TypeOK
    <3> QED BY Zenon, <2>1, <3>1 DEF CaptureOpen, In
  <2> QED BY Zenon, <1>13, <2>2, <2>3 DEF CaptureEnded
<1> QED
  BY <1>4, <1>5, <1>6, <1>7, <1>8, <1>9, <1>10, <1>11, <1>12, <1>13, Zenon
     DEF Next, Calls, Goes

\* The mark of a head stream is taken back by nothing as long as its capture is
\* open: not by Unmark, which belongs to a capture that has ended, and not by
\* the scheduler thread, which passes marked streams over.
LEMMA MarkKept ==
  ASSUME TypeOK, CallInv, LoopInv, CaptureEnds, [Next]_vars, NEW h \in Heads,
         \A s \in Heads : s = h,
         CaptureOpen(h), Marked(h), ~Syncing(h)
  PROVE  Marked(h)'
<1> USE EntryFacts, CacheAssumption DEF sched, device
<1>0. h \in Stream /\ h # Null
  BY Zenon
<1>1. ASSUME stream_map'[h] = stream_map[h] PROVE Marked(h)'
  BY Zenon, <1>1 DEF Marked, Contains
<1>2. CASE SyncEnd
  BY Zenon, <1>0, <1>1, <1>2 DEF SyncEnd, TypeOK, Syncing
<1>3. CASE \/ CloseGate \/ Abort \/ KeepCaptured \/ SyncBegin \/ SyncReturns \/ Forget
           \/ OpenGate \/ UNCHANGED vars
           \/ \E s \in Stream : StreamCreate(s) \/ Finish(s)
           \/ \E t \in Thread, e \in Event : EventCreate(t, e) \/ EventDestroy(t, e)
           \/ \E t \in Thread, s \in Stream, e \in Event :
                EventRecord(t, e, s) \/ EventWait(t, s, e)
           \/ \E t \in Thread : \/ LaunchDelivered(t) \/ CaptureBegun(t)
                                \/ CaptureEnded(t) \/ Destroyed(t)
  BY Zenon, <1>1, <1>3 DEF CloseGate, Abort, KeepCaptured, SyncBegin, SyncReturns, Forget, OpenGate, vars,
       StreamCreate, Finish, EventCreate, EventDestroy, EventRecord, EventWait,
       LaunchDelivered, CaptureBegun, CaptureEnded, Destroyed
<1>4. ASSUME NEW t \in Thread, NEW s \in Stream \cup {Null}, Launch(t, s) PROVE Marked(h)'
  BY <1>0, <1>1, <1>4, MapsTyped DEF Launch, Marked, Records
<1>5. ASSUME NEW t \in Thread, NEW s \in Stream, BeginCapture(t, s) PROVE Marked(h)'
  <2>1. s = h /\ [ptr |-> h, capture |-> TRUE] \in Entry
    BY Zenon, <1>5 DEF BeginCapture
  <2>2. stream_map'[h] = [ptr |-> h, capture |-> TRUE]
    BY <1>0, <1>5, <2>1, MapsTyped DEF BeginCapture
  <2> QED BY <1>0, <2>2 DEF Marked, Contains
<1>6. ASSUME NEW t \in Thread, NEW s \in Stream, EndCapture(t, s) PROVE Marked(h)'
  BY <1>0, <1>1, <1>6, MapsTyped DEF EndCapture, Marked, Records
<1>7. ASSUME NEW t \in Thread, NEW s \in Stream, Destroy(t, s) PROVE Marked(h)'
  <2>1. s # h
    BY Zenon, <1>0, <1>7 DEF Destroy, Usable, CaptureOpen
  <2> QED BY <1>0, <1>1, <1>7, <2>1, DestroyRemoves
<1>8. ASSUME NEW t \in Thread, Unmark(t) PROVE Marked(h)'
  <2>1. call[t].op = "ended" /\ call[t].s = h
    BY Zenon, <1>8 DEF Unmark, In, CallInv
  <2>2. capturing[h] # h
    BY Zenon, <2>1 DEF CaptureEnds, In
  <2>3. PICK u \in Thread : call[u].op = "begin" /\ call[u].s = h
    BY Zenon, <2>2 DEF CaptureOpen, In
  <2> QED BY Zenon, <1>0, <2>1, <2>3 DEF CallInv
<1>9. ASSUME NEW t \in Thread, RecordNoted(t) PROVE Marked(h)'
  <2>1. call[t].s \in Stream \cup {Null}
    BY Zenon DEF TypeOK
  <2> QED BY <1>0, <1>1, <1>9, <2>1, MapsTyped DEF RecordNoted, Marked
<1>10. ASSUME NEW t \in Thread, WaitNoted(t) PROVE Marked(h)'
  <2> DEFINE s == call[t].s
             head == event_map[call[t].e]
  <2>1. s \in Stream /\ head \in Stream \cup {Null}
    BY Zenon, <1>10 DEF WaitNoted, In, CallInv, TypeOK
  <2>2. CASE head = Null
    BY <1>0, <1>1, <1>10, <2>1, <2>2, MapsTyped DEF WaitNoted, Marked
  <2>3. CASE head # Null
    <3>1. [ptr |-> head, capture |-> TRUE] \in Entry
      BY Zenon, <2>1
    <3>2. stream_map'[h] = IF h = s THEN [ptr |-> head, capture |-> TRUE] ELSE stream_map[h]
      BY <1>0, <1>10, <2>1, <2>3, <3>1, MapsTyped DEF WaitNoted
    <3>3. CASE h = s
      BY <1>0, <2>1, <3>2, <3>3 DEF Marked, Contains
    <3> QED BY Zenon, <1>1, <3>2, <3>3
  <2> QED BY Zenon, <2>2, <2>3
<1> QED
  BY <1>2, <1>3, <1>4, <1>5, <1>6, <1>7, <1>8, <1>9, <1>10, Zenon
     DEF Next, Scheduler, Calls, Goes

\* A head stream is marked, and not being synchronised, from before its capture
\* begins until after it has ended, if it is the only head.
LEMMA CaptureNext ==
  TypeOK /\ CallInv /\ LoopInv /\ CaptureInv /\ [Next]_vars => CaptureInv'
<1> SUFFICES ASSUME TypeOK, CallInv, LoopInv, CaptureInv, [Next]_vars PROVE CaptureInv'
  BY Zenon
<1> USE CacheAssumption DEF sched
<1>1. CaptureEnds /\ CaptureEnds'
  <2>1. CaptureEnds
    BY Zenon DEF CaptureInv, CaptureEnds
  <2> QED BY Zenon, <2>1, CaptureEndsNext
<1>2. ASSUME \A s, u \in Heads : s = u, NEW h \in Heads, CaptureOpen(h)'
      PROVE  Marked(h)' /\ ~Syncing(h)'
  <2>1. CASE CaptureOpen(h)
    <3>1. Marked(h) /\ ~Syncing(h)
      BY Zenon, <1>2, <2>1 DEF CaptureInv, CaptureOpen, Marked, Syncing
    <3>2. Marked(h)'
      <4>1. \A s \in Heads : s = h
        BY Zenon, <1>2
      <4> QED BY Zenon, <1>1, <2>1, <3>1, <4>1, MarkKept
    <3>3. CASE Quiet
      BY Zenon, <3>1, <3>2, <3>3 DEF Quiet, Syncing
    <3>4. CASE SyncBegin \/ SyncReturns
      BY Zenon, <3>1, <3>2, <3>4 DEF SyncBegin, SyncReturns, Marked, Syncing
    <3>5. CASE spc' \notin {"sync", "synced"}
      BY Zenon, <3>2, <3>5 DEF Syncing
    <3>6. CASE Scheduler
      BY Zenon, <3>4, <3>5, <3>6 DEF Scheduler, CloseGate, Abort, KeepCaptured, SyncEnd, Forget,
                              OpenGate, LeaveLoop
    <3>7. CASE \E s \in Stream \cup {Null} : Passes(s)
      BY Zenon, <3>5, <3>7 DEF Passes
    <3>8. CASE \E t \in Thread, s \in Stream : Destroy(t, s)
      BY Zenon, <3>5, <3>8 DEF Destroy, Admitted
    <3> QED BY Zenon, StepKinds, <3>3, <3>6, <3>7, <3>8
  <2>2. ASSUME NEW t \in Thread, BeginCapture(t, h)
        PROVE  Marked(h)' /\ ~Syncing(h)'
    <3>1. h \in Stream /\ h # Null /\ [ptr |-> h, capture |-> TRUE] \in Entry
      BY Zenon, EntryFacts
    <3>2. stream_map'[h] = [ptr |-> h, capture |-> TRUE] /\ spc' = "slice"
      BY Zenon, <2>2, <3>1, MapsTyped DEF BeginCapture, Admitted
    <3> QED BY <3>1, <3>2, EntryFacts DEF Marked, Contains, Syncing
  <2> QED BY Zenon, <1>2, <2>1, <2>2, OpenedByBegin
<1> QED BY Zenon, <1>1, <1>2 DEF CaptureInv, CaptureEnds, CaptureOpen, Marked, Syncing

-----------------------------------------------------------------------------
(* Work on record. *)

InCache(x) == \E k \in 1 .. Len(cache) : cache[k] = x
InWindow(x) == \E k \in Window : cache[k] = x

\* A stream leaves the window only when it is synchronised or destroyed, and a
\* place outside the window never becomes the only one of a stream.
LEMMA WindowKept ==
  ASSUME TypeOK, CallInv, LoopInv, [Next]_vars, NEW x \in Stream
  PROVE  /\ InWindow(x) => \/ InWindow(x)'
                           \/ SyncEnd /\ x = cache[i]
                           \/ \E t \in Thread : Destroy(t, x)
         /\ InCache(x)' => \/ InWindow(x)'
                           \/ InCache(x) /\ ~InWindow(x)
                           \/ SyncEnd /\ x = cache[i]
         /\ \A s \in Stream \cup {Null} : Passes(s) => (InCache(x)' => InWindow(x)')
<1> USE EntryFacts DEF sched
<1>0. /\ Len(cache) \in Nat /\ Len(cache') \in Nat
      /\ i \in Nat \ {0} /\ remaining \in Nat /\ remaining < i /\ i <= Len(cache) + 1
      /\ \A k \in Window : k \in 1 .. Len(cache)
  <2>1. TypeOK'
    BY Zenon, TypeNext
  <2>2. cache' \in Seq(Stream \cup {Null})
    BY Zenon, <2>1 DEF TypeOK
  <2> QED BY <2>2, CacheElements DEF TypeOK, LoopInv, Window
<1>1. ASSUME Window' = 1 .. Len(cache') PROVE InCache(x)' <=> InWindow(x)'
  BY Zenon, <1>1 DEF InCache, InWindow
<1>2. ASSUME NEW s \in Stream \cup {Null}, Passes(s)
      PROVE  (InWindow(x) => InWindow(x)') /\ (InCache(x)' => InWindow(x)')
  <2>1. Window = 1 .. Len(cache) /\ Window' = 1 .. Len(cache')
    BY <1>0, <1>2 DEF Window, Passes, LoopInv
  <2>2. \A k \in 1 .. Len(cache) : k \in 1 .. Len(cache') /\ cache'[k] = cache[k]
    BY <1>0, <1>2, AfterElements DEF Passes
  <2> QED BY Zenon, <1>1, <2>1, <2>2 DEF InWindow
<1> SUFFICES /\ InWindow(x) => \/ InWindow(x)'
                               \/ SyncEnd /\ x = cache[i]
                               \/ \E t \in Thread : Destroy(t, x)
             /\ InCache(x)' => \/ InWindow(x)'
                               \/ InCache(x) /\ ~InWindow(x)
                               \/ SyncEnd /\ x = cache[i]
  BY Zenon, <1>2
<1>3. CASE Quiet \/ CloseGate \/ SyncBegin \/ SyncReturns \/ OpenGate
  <2>1. UNCHANGED <<cache, i, remaining>>
    BY Zenon, <1>3 DEF Quiet, CloseGate, SyncBegin, SyncReturns, OpenGate
  <2>2. (InWindow(x)' <=> InWindow(x)) /\ (InCache(x)' <=> InCache(x))
    BY Zenon, <2>1 DEF InWindow, InCache, Window
  <2> QED BY Zenon, <2>2
<1>4. ASSUME NEW t \in Thread, NEW s \in Stream, Destroy(t, s)
      PROVE  (InWindow(x) /\ x # s => InWindow(x)') /\ (InCache(x)' => InWindow(x)')
  <2>1. Window = 1 .. Len(cache) /\ Window' = 1 .. Len(cache')
    BY <1>0, <1>4 DEF Window, Destroy, Admitted, LoopInv
  <2>2. ASSUME NEW k \in 1 .. Len(cache), cache[k] # s
        PROVE  \E j \in 1 .. Len(cache') : cache'[j] = cache[k]
    <3>1. CASE cache' = cache
      BY Zenon, <3>1
    <3>2. ASSUME NEW p \in 1 .. Len(CacheAfter(s)), CacheAfter(s)[p] = s,
                 Len(cache') = Len(CacheAfter(s)) - 1,
                 \A n \in 1 .. Len(CacheAfter(s)) - 1 :
                   cache'[n] = IF n < p THEN CacheAfter(s)[n] ELSE CacheAfter(s)[n + 1]
          PROVE  \E j \in 1 .. Len(cache') : cache'[j] = cache[k]
      <4> DEFINE c == CacheAfter(s)
      <4>1. /\ Len(c) = IF Records(s) THEN Len(cache) + 1 ELSE Len(cache)
            /\ \A n \in 1 .. Len(cache) : c[n] = cache[n]
        BY Zenon, AfterElements
      <4>2. /\ p \in 1 .. Len(c) /\ c[p] = s /\ Len(cache') = Len(c) - 1
            /\ \A n \in 1 .. Len(c) - 1 : cache'[n] = IF n < p THEN c[n] ELSE c[n + 1]
        BY Zenon, <3>2
      <4> HIDE DEF c
      <4>3. k # p
        BY Zenon, <2>2, <4>1, <4>2
      <4>4. CASE k < p
        <5>1. k \in 1 .. Len(cache') /\ cache'[k] = cache[k]
          BY <1>0, <4>1, <4>2, <4>4
        <5> QED BY Zenon, <5>1
      <4>5. CASE k > p
        <5>1. k - 1 \in 1 .. Len(cache') /\ cache'[k - 1] = cache[k]
          BY <1>0, <4>1, <4>2, <4>5
        <5> QED BY Zenon, <5>1
      <4> QED BY <1>0, <4>1, <4>2, <4>3, <4>4, <4>5
    <3> QED BY Zenon, <1>4, <3>1, <3>2, DestroyRemoves
  <2> QED BY Zenon, <1>1, <2>1, <2>2 DEF InWindow
<1>5. CASE Abort
  <2>1. cache' = cache /\ Window' = 1 .. Len(cache')
    BY <1>0, <1>5 DEF Abort, LeaveLoop, Window
  <2> QED BY Zenon, <1>0, <1>1, <2>1 DEF InWindow
<1>6. CASE KeepCaptured
  <2>1. InWindow(x) => InWindow(x)'
    <3> SUFFICES ASSUME NEW k \in Window, cache[k] = x PROVE InWindow(x)'
      BY Zenon DEF InWindow
    <3>1. CASE k = i
      <4>1. remaining + 1 \in Window' /\ cache'[remaining + 1] = x
        BY Zenon, <1>6, <3>1, KeepElements
      <4> QED BY Zenon, <4>1 DEF InWindow
    <3>2. CASE k # i
      <4>1. k \in Window' /\ cache'[k] = x
        BY Zenon, <1>0, <1>6, <3>2, KeepElements
      <4> QED BY Zenon, <4>1 DEF InWindow
    <3> QED BY Zenon, <3>1, <3>2
  <2>2. InCache(x)' => InCache(x)
    BY Zenon, <1>6, KeepElements DEF InCache
  <2> QED BY Zenon, <2>1, <2>2
<1>7. CASE SyncEnd
  <2>1. cache' = cache /\ i' = i + 1 /\ remaining' = remaining
    BY Zenon, <1>7 DEF SyncEnd
  <2>2. \A k \in Window : k # i => k \in Window'
    BY <1>0, <2>1 DEF Window
  <2>3. InWindow(x) => InWindow(x)' \/ x = cache[i]
    BY Zenon, <2>1, <2>2 DEF InWindow
  <2>4. InCache(x)' => InCache(x)
    BY Zenon, <2>1 DEF InCache
  <2> QED BY Zenon, <1>7, <2>3, <2>4
<1>8. CASE Forget
  <2>1. InWindow(x) => InWindow(x)'
    BY Zenon, <1>8, ForgetElements DEF InWindow
  <2>2. Window' = 1 .. Len(cache')
    BY Zenon, <1>8, ForgetElements
  <2> QED BY Zenon, <1>1, <2>1, <2>2
<1> QED
  BY Zenon, StepKinds, <1>3, <1>2, <1>4, <1>5, <1>6, <1>7, <1>8 DEF Scheduler

\* An entry goes only when its stream is synchronised or destroyed.  Outside
\* core_limiter one is made only by an event hook on the stream.
LEMMA EntryKept ==
  ASSUME TypeOK, CallInv, LoopInv, [Next]_vars, NEW x \in Stream
  PROVE  /\ Contains(x) => \/ Contains(x)'
                           \/ SyncEnd /\ x = cache[i]
                           \/ \E t \in Thread : Destroy(t, x)
         /\ Contains(x)' => \/ Contains(x)
                            \/ \E s \in Stream \cup {Null} : Passes(s)
                            \/ \E u \in Thread : call[u].op \in {"record", "wait"} /\ call[u].s = x
<1> USE EntryFacts DEF sched, device
<1>0. Contains(x) <=> stream_map[x] # Absent
  BY Zenon DEF Contains
<1>1. Contains(x)' <=> stream_map'[x] # Absent
  BY Zenon DEF Contains
<1>2. Quiet \/ (\E s \in Stream \cup {Null} : Passes(s)) =>
        (Contains(x) => Contains(x)')
  BY Zenon, <1>0, <1>1 DEF Quiet, Passes
<1>3. ASSUME NEW t \in Thread, NEW s \in Stream, Destroy(t, s)
      PROVE  (Contains(x)' => Contains(x)) /\ (x # s => (Contains(x) => Contains(x)'))
  BY Zenon, <1>0, <1>1, <1>3, DestroyRemoves
<1>4. CASE Scheduler
  <2>1. CASE SyncEnd
    BY Zenon, <1>0, <1>1, <2>1 DEF SyncEnd, TypeOK
  <2>2. CASE ~SyncEnd
    <3>1. stream_map' = stream_map
      BY Zenon, <1>4, <2>2 DEF Scheduler, CloseGate, Abort, KeepCaptured, SyncBegin, SyncReturns,
         Forget, OpenGate
    <3> QED BY Zenon, <1>0, <1>1, <3>1
  <2> QED BY Zenon, <2>1, <2>2
<1>5. ASSUME NEW t \in Thread, RecordNoted(t) \/ WaitNoted(t)
      PROVE  Contains(x)' => Contains(x) \/ (call[t].op \in {"record", "wait"} /\ call[t].s = x)
  <2> DEFINE s == call[t].s
  <2>1. s \in Stream /\ event_map[call[t].e] \in Stream \cup {Null}
    BY Zenon, <1>5 DEF RecordNoted, WaitNoted, In, CallInv, TypeOK
  <2>2. x # s => stream_map'[x] = stream_map[x]
    BY <1>5, <2>1, MapsTyped DEF RecordNoted, WaitNoted
  <2> QED BY Zenon, <1>0, <1>1, <1>5, <2>2 DEF RecordNoted, WaitNoted, In
<1>6. ASSUME NEW t \in Thread, Unmark(t) PROVE Contains(x)' => Contains(x)
  <2>1. ASSUME NEW k \in DOMAIN cache, \A j \in 1 .. k : Contains(cache[j]), cache[k] = x
        PROVE  Contains(x)
    <3>1. k \in 1 .. k
      BY CacheElements
    <3> QED BY Zenon, <2>1, <3>1
  <2> QED BY Zenon, <1>0, <1>1, <1>6, <2>1 DEF Unmark
<1>7. ASSUME Spares PROVE Contains(x)' => Contains(x)
  BY Zenon, <1>0, <1>1, <1>7 DEF Spares
<1>8. ASSUME NEW t \in Thread, Destroyed(t) PROVE Contains(x)' => Contains(x)
  BY Zenon, <1>0, <1>1, <1>8 DEF Destroyed
<1>9. ASSUME NEW t \in Thread, NEW s \in Stream \cup {Null}, Launch(t, s) PROVE Passes(s)
  BY <1>9, MapsTyped DEF Launch, Admitted, Passes
<1>10. ASSUME NEW t \in Thread, NEW s \in Stream, BeginCapture(t, s) PROVE Passes(s)
  BY <1>10, MapsTyped DEF BeginCapture, Admitted, Passes
<1>11. ASSUME NEW t \in Thread, NEW s \in Stream, EndCapture(t, s) PROVE Passes(s)
  BY <1>11, MapsTyped DEF EndCapture, Admitted, Passes
<1>12. Contains(x) => \/ Contains(x)'
                      \/ SyncEnd /\ x = cache[i]
                      \/ \E t \in Thread : Destroy(t, x)
  BY Zenon, StepKinds, <1>2, <1>3, <1>4
<1>13. Contains(x)' => \/ Contains(x)
                       \/ \E s \in Stream \cup {Null} : Passes(s)
                       \/ \E u \in Thread : call[u].op \in {"record", "wait"} /\ call[u].s = x
  <2>1. CASE Scheduler
    BY Zenon, <1>0, <1>1, <1>4, <2>1 DEF Scheduler, CloseGate, Abort, KeepCaptured, SyncBegin,
       SyncReturns, SyncEnd, Forget, OpenGate, TypeOK
  <2> QED
    BY SparingSteps, <1>3, <1>5, <1>6, <1>7, <1>8, <1>9, <1>10, <1>11, <2>1, Zenon
       DEF Next, Calls, Goes
<1> QED BY Zenon, <1>12, <1>13

\* Work comes onto a stream by a launch; a stream that has some loses it together
\* with the note that it is not on record.
LEMMA WorkByLaunch ==
  ASSUME TypeOK, [Next]_vars, NEW x \in busy' \ escaped'
  PROVE  x \in busy \ escaped \/ \E t \in Thread : LaunchDelivered(t)
<1> USE DEF sched, device
<1>1. CASE UNCHANGED <<busy, escaped>>
  BY Zenon, <1>1
<1>2. CASE Scheduler \/ UNCHANGED vars \/ \E s \in Stream : StreamCreate(s) \/ Finish(s)
  BY Zenon, <1>2 DEF Scheduler, CloseGate, Abort, KeepCaptured, SyncBegin, SyncReturns, SyncEnd,
              Forget, OpenGate, vars, StreamCreate, Finish
<1>3. ASSUME NEW t \in Thread, Calls(t) PROVE UNCHANGED <<busy, escaped>>
  BY Zenon, <1>3 DEF Calls, Launch, BeginCapture, EndCapture, Destroy, EventRecord, EventWait,
              EventCreate, EventDestroy
<1>4. ASSUME NEW t \in Thread, Goes(t)
      PROVE  x \in busy \ escaped \/ LaunchDelivered(t)
  BY Zenon, <1>4 DEF Goes, CaptureBegun, CaptureEnded, Unmark, RecordNoted, WaitNoted, Destroyed
<1> QED BY <1>1, <1>2, <1>3, <1>4, Zenon DEF Next

\* Work that is delivered in time is delivered on a stream that the scheduler
\* thread is going to wait for.
LEMMA DeliveredAwaited ==
  ASSUME NEW t \in Thread, LaunchDelivered(t), NEW x \in busy' \ escaped',
         x \notin busy \ escaped
  PROVE  x = call[t].s /\ Awaited(x)
<1>1. \/ UNCHANGED <<busy, escaped>>
      \/ /\ busy' = busy \cup {call[t].s}
         /\ escaped' = IF Awaited(call[t].s) THEN escaped ELSE escaped \cup {call[t].s}
  BY Zenon DEF LaunchDelivered
<1>2. CASE Awaited(call[t].s) BY Zenon, <1>1, <1>2
<1>3. CASE ~Awaited(call[t].s) BY Zenon, <1>1, <1>3
<1> QED BY Zenon, <1>2, <1>3

\* rtStreamDestroy is left only through the device, and a launch is entered only
\* through core_limiter.
LEMMA CallMoves ==
  ASSUME TypeOK, [Next]_vars, NEW u \in Thread
  PROVE  /\ call[u].op = "destroy" => call'[u] = call[u] \/ Destroyed(u)
         /\ call'[u].op = "launch" => \/ call'[u] = call[u]
                                      \/ \E s \in Stream \cup {Null} : Launch(u, s)
<1> USE DEF sched, device
<1>1. CASE Scheduler \/ UNCHANGED vars \/ \E s \in Stream : StreamCreate(s) \/ Finish(s)
  BY Zenon, <1>1 DEF Scheduler, CloseGate, Abort, KeepCaptured, SyncBegin, SyncReturns, SyncEnd,
              Forget, OpenGate, vars, StreamCreate, Finish
<1>2. ASSUME NEW t \in Thread, NEW op \in Op, NEW s \in Stream \cup {Null},
             NEW e \in Event \cup {Null}, Enters(t, op, s, e)
      PROVE  /\ call[u].op = "destroy" => call'[u] = call[u]
             /\ call'[u].op = "launch" /\ op # "launch" => call'[u] = call[u]
             /\ u # t => call'[u] = call[u]
  BY <1>2, CallsTyped DEF Idle
<1>3. ASSUME NEW t \in Thread, Returns(t)
      PROVE  /\ call[t].op # "destroy" /\ call[u].op = "destroy" => call'[u] = call[u]
             /\ call'[u].op = "launch" => call'[u] = call[u]
             /\ u # t => call'[u] = call[u]
  BY Zenon, <1>3, CallsTyped
<1>4. ASSUME NEW t \in Thread, NEW s \in Stream \cup {Null}, Launch(t, s)
      PROVE  /\ call[u].op = "destroy" => call'[u] = call[u]
             /\ call'[u] = call[u] \/ Launch(u, s)
  BY Zenon, <1>2, <1>4 DEF Launch, Op
<1>5. ASSUME NEW t \in Thread, NEW s \in Stream,
             BeginCapture(t, s) \/ EndCapture(t, s) \/ Destroy(t, s)
      PROVE  /\ call[u].op = "destroy" => call'[u] = call[u]
             /\ call'[u].op = "launch" => call'[u] = call[u]
  <2>1. \E op \in Op : op # "launch" /\ Enters(t, op, s, Null)
    BY Zenon, <1>5 DEF BeginCapture, EndCapture, Destroy, Op
  <2> QED BY Zenon, <1>2, <2>1
<1>6. ASSUME NEW t \in Thread, NEW s \in Stream, NEW e \in Event,
             EventRecord(t, e, s) \/ EventWait(t, s, e)
      PROVE  /\ call[u].op = "destroy" => call'[u] = call[u]
             /\ call'[u].op = "launch" => call'[u] = call[u]
  <2>1. \E op \in Op : op # "launch" /\ Enters(t, op, s, e)
    BY Zenon, <1>6 DEF EventRecord, EventWait, Op
  <2> QED BY Zenon, <1>2, <2>1
<1>7. ASSUME NEW t \in Thread, NEW e \in Event, EventCreate(t, e) \/ EventDestroy(t, e)
      PROVE  call' = call
  BY Zenon, <1>7 DEF EventCreate, EventDestroy
<1>8. ASSUME NEW t \in Thread, \/ LaunchDelivered(t) \/ CaptureBegun(t) \/ Unmark(t)
                               \/ RecordNoted(t) \/ WaitNoted(t)
      PROVE  /\ call[u].op = "destroy" => call'[u] = call[u]
             /\ call'[u].op = "launch" => call'[u] = call[u]
  <2>1. Returns(t) /\ call[t].op # "destroy"
    BY Zenon, <1>8 DEF LaunchDelivered, CaptureBegun, Unmark, RecordNoted, WaitNoted, In
  <2> QED BY Zenon, <1>3, <2>1
<1>9. ASSUME NEW t \in Thread, CaptureEnded(t)
      PROVE  /\ call[u].op = "destroy" => call'[u] = call[u]
             /\ call'[u].op = "launch" => call'[u] = call[u]
  <2>1. call[t].op = "end"
    BY Zenon, <1>9 DEF CaptureEnded, In
  <2>2. CASE Returns(t)
    BY Zenon, <1>3, <2>1, <2>2
  <2>3. CASE call' = [call EXCEPT ![t].op = "ended"]
    BY Zenon, <2>1, <2>3 DEF TypeOK
  <2> QED BY Zenon, <1>9, <2>2, <2>3 DEF CaptureEnded
<1>10. ASSUME NEW t \in Thread, Destroyed(t)
       PROVE  /\ call[u].op = "destroy" => call'[u] = call[u] \/ Destroyed(u)
              /\ call'[u].op = "launch" => call'[u] = call[u]
  BY Zenon, <1>3, <1>10 DEF Destroyed
<1> QED
  BY <1>1, <1>4, <1>5, <1>6, <1>7, <1>8, <1>9, <1>10, Zenon DEF Next, Calls, Goes

\* Recorded work stays in the scheduler's window until it is waited for.
LEMMA AccountNext ==
  TypeOK /\ CallInv /\ LoopInv /\ AccountInv /\ [Next]_vars => AccountInv'
<1> SUFFICES ASSUME TypeOK, CallInv, LoopInv, AccountInv, [Next]_vars PROVE AccountInv'
  BY Zenon
<1> USE EntryFacts DEF sched, device
<1>1. \A x \in busy \ escaped : Destroying(x) \/ (Contains(x) /\ InWindow(x))
  BY Zenon DEF AccountInv, InWindow
<1>2. \A t \in Thread : In(t, "launch") /\ Contains(call[t].s) /\ InCache(call[t].s)
                          => InWindow(call[t].s)
  BY Zenon DEF AccountInv, InWindow, InCache
<1>3. ASSUME NEW x \in busy' \ escaped' PROVE Destroying(x)' \/ (Contains(x)' /\ InWindow(x)')
  <2>0. x \in Stream
    BY Zenon, TypeNext, <1>3 DEF TypeOK
  <2>1. ASSUME NEW t \in Thread, LaunchDelivered(t), x \notin busy \ escaped
        PROVE  Contains(x)' /\ InWindow(x)'
    <3>1. x = call[t].s /\ OnRecord(x)
      BY Zenon, <1>3, <2>1, DeliveredAwaited DEF Awaited
    <3>2. InCache(x)
      BY Zenon, <3>1, CacheElements DEF OnRecord, Range, InCache
    <3>3. Contains(x) /\ InWindow(x)
      BY Zenon, <1>2, <2>1, <3>1, <3>2 DEF LaunchDelivered, OnRecord
    <3>4. UNCHANGED <<cache, stream_map, i, remaining>>
      BY Zenon, <2>1 DEF LaunchDelivered
    <3> QED BY Zenon, <3>3, <3>4 DEF Contains, InWindow, Window
  <2>2. ASSUME x \in busy \ escaped, Destroying(x)
        PROVE  Destroying(x)'
    <3>1. PICK u \in Thread : call[u].op = "destroy" /\ call[u].s = x
      BY Zenon, <2>2 DEF Destroying
    <3>2. ~Destroyed(u)
      BY Zenon, <1>3, <3>1 DEF Destroyed
    <3>3. call'[u] = call[u]
      BY Zenon, <3>1, <3>2, CallMoves
    <3> QED BY Zenon, <3>1, <3>3 DEF Destroying
  <2>3. ASSUME x \in busy \ escaped, Contains(x), InWindow(x)
        PROVE  Destroying(x)' \/ (Contains(x)' /\ InWindow(x)')
    <3>1. ~(SyncEnd /\ x = cache[i])
      BY Zenon, <2>3 DEF SyncEnd, AccountInv
    <3>2. ASSUME NEW t \in Thread, Destroy(t, x) PROVE Destroying(x)'
      <4>1. "destroy" \in Op
        BY Zenon DEF Op
      <4> QED BY Zenon, <2>0, <3>2, <4>1, DestroyingSteps DEF Destroy
    <3> QED BY Zenon, <2>0, <2>3, <3>1, <3>2, WindowKept, EntryKept
  <2>4. x \in busy \ escaped \/ \E t \in Thread : LaunchDelivered(t)
    BY Zenon, <1>3, WorkByLaunch
  <2> QED BY Zenon, <1>1, <2>1, <2>2, <2>3, <2>4
<1>4. ASSUME NEW t \in Thread, NEW x \in Stream, call'[t].op = "launch", call'[t].s = x,
             Contains(x)', InCache(x)'
      PROVE  InWindow(x)'
  <2>1. CASE \E s \in Stream \cup {Null} : Passes(s)
    BY Zenon, <1>4, <2>1, WindowKept
  <2>2. ASSUME ~\E s \in Stream \cup {Null} : Passes(s) PROVE InWindow(x)'
    <3>1. \A s \in Stream \cup {Null} : ~Launch(t, s)
      BY <2>2, MapsTyped DEF Launch, Admitted, Passes
    <3>2. call[t].op = "launch" /\ call[t].s = x
      BY Zenon, <1>4, <3>1, CallMoves
    <3>3. Contains(x)
      BY <1>4, <2>2, <3>2, EntryKept DEF CallInv
    <3>4. InCache(x) => InWindow(x)
      BY Zenon, <1>2, <3>2, <3>3 DEF In
    <3>5. ~(SyncEnd /\ x = cache[i])
      BY Zenon, <1>4 DEF SyncEnd, TypeOK, Contains
    <3> QED BY Zenon, <1>4, <3>4, <3>5, WindowKept
  <2> QED BY Zenon, <2>1, <2>2
<1>5. ASSUME NEW t \in Thread
      PROVE  (In(t, "launch") /\ Contains(call[t].s) /\ InCache(call[t].s)
                => InWindow(call[t].s))'
  <2>1. call'[t].s \in Stream \cup {Null}
    BY Zenon, TypeNext DEF TypeOK
  <2> QED BY Zenon, <1>4, <2>1 DEF In, Contains, InCache, InWindow
<1>6. ASSUME spc' = "synced", cache'[i'] \in busy' \ escaped' PROVE FALSE
  <2>1. CASE SyncReturns
    BY Zenon, <1>6, <2>1 DEF SyncReturns
  <2>2. CASE ~SyncReturns
    <3>1. spc = "synced" /\ cache' = cache /\ i' = i
      BY Zenon, <1>6, <2>2, StepKinds DEF Quiet, Passes, Destroy, Admitted, Scheduler, CloseGate,
         Abort, KeepCaptured, SyncBegin, SyncEnd, Forget, OpenGate, LeaveLoop
    <3>2. cache[i] \notin busy \ escaped
      BY Zenon, <3>1 DEF AccountInv
    <3>3. PICK t \in Thread : LaunchDelivered(t)
      BY Zenon, <1>6, <3>1, <3>2, WorkByLaunch
    <3> QED BY Zenon, <1>6, <3>1, <3>2, <3>3, DeliveredAwaited DEF Awaited
  <2> QED BY Zenon, <2>1, <2>2
<1> QED BY Zenon, <1>3, <1>5, <1>6 DEF AccountInv, InWindow, InCache

-----------------------------------------------------------------------------
(* The theorems. *)

\* A process that has used no stream yet.
LEMMA CacheInit == Init => CacheInv
<1> SUFFICES ASSUME Init PROVE CacheInv
  BY Zenon
<1> USE CacheAssumption, EntryFacts DEF Init
<1>1. cache \in Seq(Stream \cup {Null}) /\ Len(cache) = 0
  OBVIOUS
<1>2. \A t \in Thread : call[t].op = "none" /\ call[t].s = Null /\ call[t].e = Null
  BY Zenon DEF Idle
<1>3. TypeOK
  <2>1. call \in [Thread -> [op : Op, s : Stream \cup {Null}, e : Event \cup {Null}]]
    BY Zenon DEF Idle, Op
  <2> QED BY <1>1, <2>1 DEF TypeOK
<1>4. CallInv
  BY Zenon, <1>2 DEF CallInv
<1>5. LoopInv
  BY <1>1 DEF LoopInv
<1>6. Window = {}
  BY <1>1 DEF Window
<1>7. MappedInv /\ LiveInv
  BY <1>1, <1>6 DEF MappedInv, LiveInv
<1>8. CaptureInv
  BY Zenon, <1>2 DEF CaptureInv, In
<1>9. AccountInv
  BY Zenon, <1>2 DEF AccountInv, In
<1> QED BY Zenon, <1>3, <1>4, <1>5, <1>7, <1>8, <1>9 DEF CacheInv

\* Hooks, scheduler thread and device keep cache, entries and work consistent in
\* every interleaving, whatever the number of streams, events and threads (the
\* inductive invariant of core_limiter.c, event.c and graph.c together).
THEOREM CacheInvHolds == Spec => []CacheInv
<1>1. CacheInv /\ [Next]_vars => CacheInv'
  BY Zenon, TypeNext, CallNext, LoopNext, MappedNext, LiveNext, CaptureNext, AccountNext
     DEF CacheInv
<1> QED BY <1>1, CacheInit, PTL DEF Spec

\* The cache never grows beyond MAX_STREAMS_PER_PROCESS and the counters of
\* synchronize_and_clear_streams stay within it.
THEOREM TypeOKHolds == Spec => []TypeOK
<1>1. CacheInv => TypeOK
  BY Zenon DEF CacheInv
<1> QED BY <1>1, CacheInvHolds, PTL

\* Outside the loop the cache holds no stream twice and stream_map knows every
\* stream in it, unless NULL was launched on (restore_streams, remove_stream,
\* synchronize_and_clear_streams).
THEOREM CacheMappedHolds == Spec => []CacheMapped
<1>1. ASSUME CacheInv, spc \in {"slice", "end"}, Null \notin Range(cache)
      PROVE  IsInjective(cache) /\ \A s \in Range(cache) : Contains(s)
  <2>1. TypeOK /\ LoopInv /\ MappedInv
    BY Zenon, <1>1 DEF CacheInv
  <2>2. DOMAIN cache = 1 .. Len(cache)
    BY Zenon, <2>1, CacheElements
  <2>3. Window = 1 .. Len(cache)
    BY Zenon, <1>1, <2>1, WholeWindow DEF LoopInv
  <2>4. \A k \in 1 .. Len(cache) : cache[k] # Null
    BY Zenon, <1>1, <2>2 DEF Range
  <2>5. /\ \A k \in 1 .. Len(cache) : Contains(cache[k])
        /\ \A j, k \in 1 .. Len(cache) : cache[j] = cache[k] => j = k
    BY Zenon, <2>1, <2>3, <2>4 DEF MappedInv
  <2> QED BY Zenon, <2>2, <2>5 DEF IsInjective, Range
<1>2. CacheInv => CacheMapped
  BY Zenon, <1>1 DEF CacheMapped
<1> QED BY <1>2, CacheInvHolds, PTL

\* The scheduler thread never synchronises a destroyed stream (remove_stream
\* before the real rtStreamDestroy).
THEOREM NoSyncAfterDestroyHolds == Spec => []NoSyncAfterDestroy
<1>1. CacheInv => NoSyncAfterDestroy
  <2> SUFFICES ASSUME CacheInv, spc = "sync" PROVE cache[i] \in live
    BY Zenon DEF NoSyncAfterDestroy
  <2>1. i \in 1 .. Len(cache) /\ Contains(cache[i])
    BY CacheElements DEF CacheInv, LoopInv, TypeOK
  <2> QED BY Zenon, <2>1 DEF CacheInv, LiveInv
<1> QED BY <1>1, CacheInvHolds, PTL

\* The head stream is never synchronised during a capture, if it is the only
\* head (set_stream_capture before rtStreamBeginCapture and after
\* rtStreamEndCapture).
THEOREM HeadNotSyncedHolds == Spec => []HeadNotSynced
<1>1. CacheInv => HeadNotSynced
  <2> SUFFICES ASSUME CacheInv, spc = "sync", \A s, u \in Heads : s = u,
                      capturing[cache[i]] = cache[i]
               PROVE  FALSE
    BY Zenon DEF HeadNotSynced
  <2>1. i \in 1 .. Len(cache) /\ Contains(cache[i])
    BY CacheElements DEF CacheInv, LoopInv, TypeOK
  <2>2. cache[i] \in Stream /\ cache[i] # Null
    BY Zenon, <2>1, CacheElements DEF CacheInv, Contains
  <2>3. cache[i] \in Heads
    BY Zenon, <2>2 DEF CacheInv, CaptureInv
  <2> QED BY Zenon, <2>3 DEF CacheInv, CaptureInv
<1> QED BY <1>1, CacheInvHolds, PTL

\* Work that is delivered in time stays on record until the scheduler has waited
\* for it, unless its stream is destroyed or joins a capture while it is
\* synchronised (core_limiter, restore_streams, synchronize_and_clear_streams).
THEOREM WorkAccountedHolds == Spec => []WorkAccounted
<1>1. CacheInv => WorkAccounted
  <2> SUFFICES ASSUME CacheInv, NEW s \in busy \ escaped
               PROVE  OnRecord(s) \/ Destroying(s)
    BY Zenon DEF WorkAccounted
  <2>1. \A k \in Window : k \in DOMAIN cache
    BY CacheElements DEF CacheInv, TypeOK, LoopInv, Window
  <2> QED BY Zenon, <2>1 DEF CacheInv, AccountInv, OnRecord, Range
<1> QED BY <1>1, CacheInvHolds, PTL
=============================================================================
