--------------------------- MODULE StreamCacheLoop ---------------------------
(***************************************************************************)
(* What the steps of StreamCache do to the cache, the two maps and the     *)
(* scheduler's loop over them: the first half of the inductive step of     *)
(* CacheInv.                                                               *)
(***************************************************************************)
EXTENDS StreamCache, WellFoundedInduction, TLAPS

-----------------------------------------------------------------------------
(* Sequences. *)

\* Every set of numbers that is not empty has a least one.
LEMMA Least ==
  ASSUME NEW T, T \subseteq Nat, T # {}
  PROVE  \E x \in T : \A y \in T : x <= y
<1> DEFINE R == OpToRel(<, Nat)
<1>1. IsWellFoundedOn(R, Nat)
  BY Zenon, NatLessThanWellFounded
<1>2. \A x, y \in Nat : y < x => <<y, x>> \in R
  BY Zenon DEF OpToRel
<1> HIDE DEF R
<1>3. \E x \in T : \A y \in T : ~(<<y, x>> \in R)
  BY <1>1, WFMin, Zenon
<1>4. \E x \in T : \A y \in T : ~(y < x)
  BY <1>2, <1>3, Zenon
<1> QED BY <1>4

\* The elements of a cache whose tail was moved up (the provers do not find them
\* by themselves).
LEMMA ConcatElements ==
  ASSUME NEW S, NEW a \in Seq(S), NEW b \in Seq(S)
  PROVE  /\ a \o b \in Seq(S)
         /\ Len(a \o b) = Len(a) + Len(b)
         /\ \A k \in 1 .. Len(a) + Len(b) : (a \o b)[k] =
              IF k <= Len(a) THEN a[k] ELSE b[k - Len(a)]
<1>1. a \o b \in Seq(S)
  OBVIOUS
<1>2. Len(a \o b) = Len(a) + Len(b)
  OBVIOUS
<1>3. \A k \in 1 .. Len(a) + Len(b) : (a \o b)[k] =
        IF k <= Len(a) THEN a[k] ELSE b[k - Len(a)]
  OBVIOUS
<1> QED BY Zenon, <1>1, <1>2, <1>3

\* The cache after one of its places is overwritten.
LEMMA ExceptElements ==
  ASSUME NEW S, NEW a \in Seq(S), NEW k \in 1 .. Len(a), NEW v \in S
  PROVE  /\ [a EXCEPT ![k] = v] \in Seq(S)
         /\ Len([a EXCEPT ![k] = v]) = Len(a)
         /\ \A j \in 1 .. Len(a) :
              [a EXCEPT ![k] = v][j] = IF j = k THEN v ELSE a[j]
<1> DEFINE b == [a EXCEPT ![k] = v]
<1>1. Len(a) \in Nat
  OBVIOUS
<1>2. b \in [1 .. Len(a) -> S] /\ \A j \in 1 .. Len(a) : b[j] = IF j = k THEN v ELSE a[j]
  OBVIOUS
<1> HIDE DEF b
<1>3. b \in Seq(S)
  BY <1>1, <1>2
<1>4. Len(b) = Len(a)
  BY <1>1, <1>2, <1>3
<1> QED BY Zenon, <1>2, <1>3, <1>4 DEF b

\* The loop of remove_stream finds the stream if the cache has it.
LEMMA FirstOfFound ==
  ASSUME NEW S, NEW seq \in Seq(S), NEW s, NEW p \in 1 .. Len(seq), seq[p] = s
  PROVE  FirstOf(seq, s) \in 1 .. Len(seq) /\ seq[FirstOf(seq, s)] = s
<1> DEFINE T == {k \in 1 .. Len(seq) : seq[k] = s}
<1>1. DOMAIN seq = 1 .. Len(seq) /\ Len(seq) \in Nat
  OBVIOUS
<1>2. \E k \in T : \A j \in T : k <= j
  <2>1. T \subseteq Nat /\ T # {}
    BY <1>1
  <2> HIDE DEF T
  <2> QED BY <2>1, Least, Zenon
<1>3. \E k \in DOMAIN seq : seq[k] = s /\ \A j \in 1 .. k - 1 : seq[j] # s
  BY <1>1, <1>2
<1> QED BY <1>1, <1>3, Zenon DEF FirstOf

\* What is left after the place of the stream is closed up (remove_stream).
LEMMA WithoutElements ==
  ASSUME NEW S, NEW seq \in Seq(S), NEW p \in 1 .. Len(seq)
  PROVE  /\ Without(seq, p) \in Seq(S)
         /\ Len(Without(seq, p)) = Len(seq) - 1
         /\ \A k \in 1 .. Len(seq) - 1 :
              Without(seq, p)[k] = IF k < p THEN seq[k] ELSE seq[k + 1]
<1> DEFINE a == SubSeq(seq, 1, p - 1)
           b == SubSeq(seq, p + 1, Len(seq))
<1>1. Len(seq) \in Nat /\ \A k \in 1 .. Len(seq) : seq[k] \in S
  OBVIOUS
<1>2. /\ a \in Seq(S)
      /\ Len(a) = p - 1
      /\ \A k \in 1 .. p - 1 : a[k] = seq[k]
  <2>1. \A k \in 1 .. p - 1 : seq[k] \in S
    BY <1>1
  <2> HIDE DEF a
  <2>2. /\ a \in Seq(S)
        /\ Len(a) = IF 1 <= p - 1 THEN (p - 1) - 1 + 1 ELSE 0
        /\ \A k \in 1 .. (p - 1) - 1 + 1 : a[k] = seq[1 + k - 1]
    BY <2>1 DEF a
  <2> QED BY <2>2
<1>3. /\ b \in Seq(S)
      /\ Len(b) = Len(seq) - p
      /\ \A k \in 1 .. Len(seq) - p : b[k] = seq[p + k]
  <2>1. \A k \in p + 1 .. Len(seq) : seq[k] \in S
    BY <1>1
  <2> HIDE DEF b
  <2>2. /\ b \in Seq(S)
        /\ Len(b) = IF p + 1 <= Len(seq) THEN Len(seq) - (p + 1) + 1 ELSE 0
        /\ \A k \in 1 .. Len(seq) - (p + 1) + 1 : b[k] = seq[(p + 1) + k - 1]
    BY <1>1, <2>1 DEF b
  <2> QED BY <1>1, <2>2
<1> HIDE DEF a, b
<1> DEFINE w == Without(seq, p)
<1>4. w = a \o b
  BY Zenon DEF Without, a, b
<1> HIDE DEF w
<1>5. /\ w \in Seq(S)
      /\ Len(w) = Len(a) + Len(b)
      /\ \A k \in 1 .. Len(a) + Len(b) : w[k] =
           IF k <= Len(a) THEN a[k] ELSE b[k - Len(a)]
  BY Zenon, <1>2, <1>3, <1>4, ConcatElements
<1>6. ASSUME NEW k \in 1 .. Len(seq) - 1
      PROVE  w[k] = IF k < p THEN seq[k] ELSE seq[k + 1]
  <2>1. w[k] = IF k <= p - 1 THEN a[k] ELSE b[k - (p - 1)]
    <3>1. k \in 1 .. Len(a) + Len(b)
      BY <1>1, <1>2, <1>3
    <3>2. w[k] = IF k <= Len(a) THEN a[k] ELSE b[k - Len(a)]
      BY <1>5, <3>1, Zenon
    <3> QED BY <1>2, <3>2, Zenon
  <2>2. CASE k < p
    BY <1>2, <2>1, <2>2
  <2>3. CASE k >= p
    <3>1. k - (p - 1) \in 1 .. Len(seq) - p /\ p + (k - (p - 1)) = k + 1
      BY <1>1, <2>3
    <3> QED BY <1>3, <2>1, <2>3, <3>1
  <2> QED BY <1>1, <2>2, <2>3
<1>7. Len(w) = Len(seq) - 1
  BY <1>1, <1>2, <1>3, <1>5
<1> QED BY Zenon, <1>5, <1>6, <1>7 DEF w

-----------------------------------------------------------------------------
(* The operations on the cache and the maps. *)

\* The cache as a function on 1 .. num_streams.
LEMMA CacheElements ==
  ASSUME TypeOK
  PROVE  /\ Len(cache) \in Nat
         /\ DOMAIN cache = 1 .. Len(cache)
         /\ \A k \in 1 .. Len(cache) : cache[k] \in Stream \cup {Null}
  BY DEF TypeOK

\* restore_streams appends the stream or does nothing, and stays within the
\* capacity.
LEMMA AfterElements ==
  ASSUME TypeOK, NEW s \in Stream \cup {Null}
  PROVE  /\ CacheAfter(s) \in Seq(Stream \cup {Null})
         /\ Len(CacheAfter(s)) <= Capacity
         /\ Len(CacheAfter(s)) =
              IF Records(s) THEN Len(cache) + 1 ELSE Len(cache)
         /\ \A k \in 1 .. Len(cache) : CacheAfter(s)[k] = cache[k]
         /\ Records(s) => CacheAfter(s)[Len(cache) + 1] = s
<1>1. Len(cache) \in Nat /\ Len(cache) <= Capacity /\ Capacity \in Nat
  BY Zenon, CacheElements, CacheAssumption DEF TypeOK
<1>2. CASE Records(s)
  <2>1. CacheAfter(s) = Append(cache, s)
    BY Zenon, <1>2 DEF CacheAfter
  <2>2. Len(cache) < Capacity
    BY Zenon, <1>2 DEF Records
  <2>3. /\ Append(cache, s) \in Seq(Stream \cup {Null})
        /\ Len(Append(cache, s)) = Len(cache) + 1
        /\ \A k \in 1 .. Len(cache) : Append(cache, s)[k] = cache[k]
        /\ Append(cache, s)[Len(cache) + 1] = s
    BY DEF TypeOK
  <2> QED BY <1>1, <1>2, <2>1, <2>2, <2>3
<1>3. CASE ~Records(s)
  BY Zenon, <1>1, <1>3 DEF CacheAfter, TypeOK
<1> QED BY Zenon, <1>2, <1>3

\* Entries are not the absence of one.
LEMMA EntryFacts ==
  /\ Plain \in Entry /\ Plain # Absent
  /\ \A p \in Stream \cup {Null} :
       [ptr |-> p, capture |-> TRUE] \in Entry /\ [ptr |-> p, capture |-> TRUE] # Absent
  /\ Absent # Null /\ Absent \notin Stream /\ Null \notin Stream
<1>1. Plain \in Entry
  BY Zenon DEF Plain, Entry
<1>2. \A p \in Stream \cup {Null} : [ptr |-> p, capture |-> TRUE] \in Entry
  BY Zenon DEF Entry
<1>3. Absent \notin Entry /\ Absent # Null /\ Absent \notin Stream /\ Null \notin Stream
  BY Zenon, CacheAssumption DEF Entry
<1> QED BY <1>1, <1>2, <1>3, Zenon

\* hashmap_put, restore_streams and add_stream change the entry of one stream.
LEMMA MapsTyped ==
  ASSUME TypeOK, NEW s \in Stream \cup {Null}
  PROVE  /\ \A v \in Entry : /\ Put(stream_map, s, v) \in [Stream -> Entry \cup {Absent}]
                             /\ \A x \in Stream :
                                  Put(stream_map, s, v)[x] =
                                    IF x = s THEN v ELSE stream_map[x]
         /\ MapAfter(s) \in [Stream -> Entry \cup {Absent}]
         /\ \A x \in Stream : MapAfter(s)[x] =
              IF x = s /\ Records(s) THEN Plain ELSE stream_map[x]
         /\ MapAdded(s) \in [Stream -> Entry \cup {Absent}]
         /\ \A x \in Stream : MapAdded(s)[x] =
              IF x = s /\ ~Contains(s) THEN Plain ELSE stream_map[x]
<1>1. ASSUME NEW v \in Entry
      PROVE  /\ Put(stream_map, s, v) \in [Stream -> Entry \cup {Absent}]
             /\ \A x \in Stream : Put(stream_map, s, v)[x] =
                                    IF x = s THEN v ELSE stream_map[x]
  BY Zenon, EntryFacts DEF Put, TypeOK
<1>2. stream_map \in [Stream -> Entry \cup {Absent}]
  BY Zenon DEF TypeOK
<1> QED BY Zenon, <1>1, <1>2, EntryFacts DEF MapAfter, MapAdded

\* What a hook's first and second half do to the calls.
LEMMA CallsTyped ==
  ASSUME TypeOK, NEW t \in Thread
  PROVE  /\ \A op \in Op, s \in Stream \cup {Null}, e \in Event \cup {Null} :
              Enters(t, op, s, e) =>
                /\ call[t] = Idle
                /\ call' \in [Thread -> [op : Op, s : Stream \cup {Null},
                                         e : Event \cup {Null}]]
                /\ call'[t].op = op /\ call'[t].s = s /\ call'[t].e = e
                /\ \A u \in Thread : u # t => call'[u] = call[u]
         /\ Returns(t) =>
              /\ call' \in [Thread -> [op : Op, s : Stream \cup {Null},
                                       e : Event \cup {Null}]]
              /\ call'[t].op = "none" /\ call'[t].s = Null /\ call'[t].e = Null
              /\ \A u \in Thread : u # t => call'[u] = call[u]
<1> DEFINE C == [op : Op, s : Stream \cup {Null}, e : Event \cup {Null}]
<1>1. call \in [Thread -> C]
  BY Zenon DEF TypeOK
<1>2. ASSUME NEW op \in Op, NEW s \in Stream \cup {Null}, NEW e \in Event \cup {Null},
             Enters(t, op, s, e)
      PROVE  /\ call[t] = Idle
             /\ call' \in [Thread -> C]
             /\ call'[t].op = op /\ call'[t].s = s /\ call'[t].e = e
             /\ \A u \in Thread : u # t => call'[u] = call[u]
  <2>1. [op |-> op, s |-> s, e |-> e] \in C
    BY Zenon
  <2> HIDE DEF C
  <2>2. call[t] = Idle /\ call' = [call EXCEPT ![t] = [op |-> op, s |-> s, e |-> e]]
    BY Zenon, <1>2 DEF Enters
  <2> QED BY Zenon, <1>1, <2>1, <2>2
<1>3. ASSUME Returns(t)
      PROVE  /\ call' \in [Thread -> C]
             /\ call'[t].op = "none" /\ call'[t].s = Null /\ call'[t].e = Null
             /\ \A u \in Thread : u # t => call'[u] = call[u]
  <2>1. Idle \in C
    BY Zenon DEF Idle, Op
  <2> HIDE DEF C
  <2>2. call' = [call EXCEPT ![t] = Idle]
    BY Zenon, <1>3 DEF Returns
  <2> QED BY Zenon, <1>1, <2>1, <2>2 DEF Idle
<1> QED BY <1>2, <1>3, Zenon

\* rtStreamDestroy takes one place of the stream out of the cache and drops its
\* entry, or finds it neither in the cache nor fit for it.
LEMMA DestroyRemoves ==
  ASSUME TypeOK, NEW t \in Thread, NEW s \in Stream, Destroy(t, s)
  PROVE  /\ cache' \in Seq(Stream \cup {Null}) /\ Len(cache') <= Capacity
         /\ stream_map' \in [Stream -> Entry \cup {Absent}]
         /\ \A x \in Stream : x # s => stream_map'[x] = stream_map[x]
         /\ \/ /\ cache' = cache /\ stream_map' = stream_map
               /\ \A k \in 1 .. Len(cache) : cache[k] # s
            \/ /\ stream_map'[s] = Absent
               /\ \E p \in 1 .. Len(CacheAfter(s)) :
                    /\ CacheAfter(s)[p] = s
                    /\ Len(cache') = Len(CacheAfter(s)) - 1
                    /\ \A k \in 1 .. Len(CacheAfter(s)) - 1 :
                         cache'[k] = IF k < p THEN CacheAfter(s)[k]
                                     ELSE CacheAfter(s)[k + 1]
<1> DEFINE c == CacheAfter(s)
<1>1. /\ c \in Seq(Stream \cup {Null})
      /\ Len(c) \in Nat /\ DOMAIN c = 1 .. Len(c) /\ Len(c) <= Capacity
      /\ \A k \in 1 .. Len(cache) : k \in 1 .. Len(c) /\ c[k] = cache[k]
  <2>1. Len(cache) \in Nat
    BY Zenon, CacheElements
  <2> QED BY <2>1, AfterElements
<1> HIDE DEF c
<1>2. stream_map \in [Stream -> Entry \cup {Absent}] /\ cache \in Seq(Stream \cup {Null})
      /\ Len(cache) <= Capacity
  BY Zenon DEF TypeOK
<1>3. CASE s \in Range(c)
  <2>1. PICK q \in 1 .. Len(c) : c[q] = s
    BY Zenon, <1>1, <1>3 DEF Range
  <2> DEFINE p == FirstOf(c, s)
  <2>2. p \in 1 .. Len(c) /\ c[p] = s
    BY Zenon, <1>1, <2>1, FirstOfFound
  <2>3. cache' = Without(c, p) /\ stream_map' = [stream_map EXCEPT ![s] = Absent]
    BY Zenon, <1>3 DEF Destroy, c
  <2> HIDE DEF p
  <2>4. /\ cache' \in Seq(Stream \cup {Null})
        /\ Len(cache') = Len(c) - 1
        /\ \A k \in 1 .. Len(c) - 1 : cache'[k] = IF k < p THEN c[k] ELSE c[k + 1]
    BY Zenon, <1>1, <2>2, <2>3, WithoutElements
  <2>5. /\ stream_map' \in [Stream -> Entry \cup {Absent}]
        /\ stream_map'[s] = Absent
        /\ \A x \in Stream : x # s => stream_map'[x] = stream_map[x]
    BY Zenon, <1>2, <2>3
  <2>6. Len(cache') <= Capacity
    BY <1>1, <2>4, CacheAssumption
  <2> QED BY Zenon, <2>2, <2>4, <2>5, <2>6 DEF c
<1>4. CASE s \notin Range(c)
  <2>1. cache' = cache /\ stream_map' = stream_map
    BY Zenon, <1>4 DEF Destroy, c
  <2>2. \A k \in 1 .. Len(cache) : cache[k] # s
    BY Zenon, <1>1, <1>4 DEF Range
  <2> QED BY Zenon, <1>2, <2>1, <2>2
<1> QED BY Zenon, <1>3, <1>4

-----------------------------------------------------------------------------
(* Types. *)

\* Every step keeps the cache within MAX_STREAMS_PER_PROCESS and the maps, the
\* loop counters and the calls well typed.
LEMMA TypeNext == TypeOK /\ LoopInv /\ CallInv /\ [Next]_vars => TypeOK'
<1> SUFFICES ASSUME TypeOK, LoopInv, CallInv, [Next]_vars PROVE TypeOK'
  BY Zenon
<1> USE CacheAssumption DEF sched, device
<1>0. /\ Len(cache) \in Nat
      /\ DOMAIN cache = 1 .. Len(cache)
      /\ \A k \in 1 .. Len(cache) : cache[k] \in Stream \cup {Null}
  BY Zenon, CacheElements
<1>1. CASE CloseGate BY Zenon, <1>1 DEF CloseGate, TypeOK
<1>2. CASE Abort BY <1>2 DEF Abort, LeaveLoop, TypeOK
<1>3. CASE KeepCaptured
  <2>1. i \in 1 .. Len(cache) /\ remaining + 1 \in 1 .. Len(cache)
    BY <1>0, <1>3 DEF KeepCaptured, TypeOK
  <2>2. cache' \in Seq(Stream \cup {Null}) /\ Len(cache') = Len(cache)
    BY <1>0, <1>3, <2>1, ExceptElements DEF KeepCaptured, TypeOK
  <2>3. i' \in 1 .. Capacity + 1 /\ remaining' \in 0 .. Capacity /\ remaining' < i'
    BY <1>0, <1>3, <2>1 DEF KeepCaptured, TypeOK
  <2> QED BY Zenon, <1>3, <2>2, <2>3 DEF KeepCaptured, TypeOK
<1>4. CASE SyncBegin \/ SyncReturns
  <2>1. spc' \in {"sync", "synced"} /\ escaped' \subseteq Stream
    BY Zenon, <1>4 DEF SyncBegin, SyncReturns, TypeOK
  <2> QED BY Zenon, <1>4, <2>1 DEF SyncBegin, SyncReturns, TypeOK
<1>5. CASE SyncEnd
  <2>1. i \in 1 .. Len(cache) /\ cache[i] \in Stream
    BY <1>0, <1>5 DEF SyncEnd, LoopInv, Contains, TypeOK
  <2>2. i' \in 1 .. Capacity + 1 /\ remaining' < i'
    BY <1>0, <1>5, <2>1 DEF SyncEnd, TypeOK
  <2>3. stream_map' \in [Stream -> Entry \cup {Absent}]
    BY Zenon, <1>5 DEF SyncEnd, TypeOK
  <2> QED BY Zenon, <1>5, <2>1, <2>2, <2>3 DEF SyncEnd, TypeOK
<1>6. CASE Forget
  <2>1. remaining <= Len(cache) /\ remaining \in Nat
    BY <1>0, <1>6 DEF Forget, TypeOK, LoopInv
  <2>2. \A k \in 1 .. remaining : cache[k] \in Stream \cup {Null}
    BY <1>0, <2>1
  <2> DEFINE c == SubSeq(cache, 1, remaining)
  <2>3. c \in Seq(Stream \cup {Null}) /\ Len(c) = IF 1 <= remaining THEN remaining - 1 + 1 ELSE 0
    BY <2>1, <2>2
  <2> HIDE DEF c
  <2>4. Len(c) <= Capacity
    BY <1>0, <2>1, <2>3 DEF TypeOK
  <2>5. cache' = c
    BY Zenon, <1>6 DEF Forget, c
  <2> QED BY <1>6, <2>3, <2>4, <2>5 DEF Forget, LeaveLoop, TypeOK
<1>7. CASE OpenGate BY Zenon, <1>7 DEF OpenGate, TypeOK
<1>8. ASSUME NEW t \in Thread, NEW s \in Stream \cup {Null}, Launch(t, s) PROVE TypeOK'
  <2>1. "launch" \in Op
    BY Zenon DEF Op
  <2> QED BY Zenon, <1>8, <2>1, AfterElements, MapsTyped, CallsTyped DEF Launch, TypeOK
<1>9. ASSUME NEW t \in Thread, NEW s \in Stream, BeginCapture(t, s) PROVE TypeOK'
  <2>1. "begin" \in Op /\ [ptr |-> s, capture |-> TRUE] \in Entry
    BY Zenon DEF Op, Entry
  <2> QED BY Zenon, <1>9, <2>1, AfterElements, MapsTyped, CallsTyped DEF BeginCapture, TypeOK
<1>10. ASSUME NEW t \in Thread, NEW s \in Stream, EndCapture(t, s) PROVE TypeOK'
  <2>1. "end" \in Op
    BY Zenon DEF Op
  <2> QED BY Zenon, <1>10, <2>1, AfterElements, MapsTyped, CallsTyped DEF EndCapture, TypeOK
<1>11. ASSUME NEW t \in Thread, NEW s \in Stream, Destroy(t, s) PROVE TypeOK'
  <2>1. "destroy" \in Op
    BY Zenon DEF Op
  <2>2. /\ cache' \in Seq(Stream \cup {Null}) /\ Len(cache') <= Capacity
        /\ stream_map' \in [Stream -> Entry \cup {Absent}]
    BY Zenon, <1>11, DestroyRemoves
  <2> QED BY Zenon, <1>11, <2>1, <2>2, CallsTyped DEF Destroy, TypeOK
<1>12. ASSUME NEW t \in Thread, NEW e \in Event, NEW s \in Stream, EventRecord(t, e, s)
       PROVE  TypeOK'
  <2>1. "record" \in Op
    BY Zenon DEF Op
  <2> QED BY Zenon, <1>12, <2>1, CallsTyped DEF EventRecord, TypeOK
<1>13. ASSUME NEW t \in Thread, NEW e \in Event, NEW s \in Stream, EventWait(t, s, e)
       PROVE  TypeOK'
  <2>1. "wait" \in Op
    BY Zenon DEF Op
  <2> QED BY Zenon, <1>13, <2>1, CallsTyped DEF EventWait, TypeOK
<1>14. ASSUME NEW t \in Thread, NEW e \in Event, EventCreate(t, e) PROVE TypeOK'
  BY Zenon, <1>14 DEF EventCreate, TypeOK
<1>15. ASSUME NEW t \in Thread, NEW e \in Event, EventDestroy(t, e) PROVE TypeOK'
  BY Zenon, <1>15 DEF EventDestroy, TypeOK
<1>16. ASSUME NEW t \in Thread, LaunchDelivered(t) PROVE TypeOK'
  BY <1>16, CallsTyped DEF LaunchDelivered, TypeOK, CallInv
<1>17. ASSUME NEW t \in Thread, CaptureBegun(t) PROVE TypeOK'
  <2>1. capturing' \in [Stream -> Stream \cup {Null}]
    BY Zenon, <1>17 DEF CaptureBegun, TypeOK
  <2> QED BY Zenon, <1>17, <2>1, CallsTyped DEF CaptureBegun, TypeOK
<1>18. ASSUME NEW t \in Thread, CaptureEnded(t) PROVE TypeOK'
  <2>1. capturing' \in [Stream -> Stream \cup {Null}]
    BY Zenon, <1>18 DEF CaptureEnded, TypeOK
  <2>2. call' \in [Thread -> [op : Op, s : Stream \cup {Null}, e : Event \cup {Null}]]
    <3>1. CASE Returns(t)
      BY Zenon, <3>1, CallsTyped
    <3>2. CASE call' = [call EXCEPT ![t].op = "ended"]
      <4>1. call[t] \in [op : Op, s : Stream \cup {Null}, e : Event \cup {Null}]
        BY Zenon DEF TypeOK
      <4>2. [call[t] EXCEPT !.op = "ended"] \in
              [op : Op, s : Stream \cup {Null}, e : Event \cup {Null}]
        BY <4>1 DEF Op
      <4> QED BY Zenon, <3>2, <4>2 DEF TypeOK
    <3> QED BY Zenon, <1>18, <3>1, <3>2 DEF CaptureEnded
  <2> QED BY Zenon, <1>18, <2>1, <2>2 DEF CaptureEnded, TypeOK
<1>19. ASSUME NEW t \in Thread, Unmark(t) PROVE TypeOK'
  <2>1. stream_map' \in [Stream -> Entry \cup {Absent}]
    BY Zenon, <1>19, EntryFacts DEF Unmark, TypeOK
  <2> QED BY Zenon, <1>19, <2>1, CallsTyped DEF Unmark, TypeOK
<1>20. ASSUME NEW t \in Thread, RecordNoted(t) PROVE TypeOK'
  <2> DEFINE s == call[t].s
  <2>1. s \in Stream /\ call[t].e \in Event
    BY Zenon, <1>20 DEF RecordNoted, In, CallInv, TypeOK
  <2>2. MapAdded(s) \in [Stream -> Entry \cup {Absent}] /\ MapAdded(s)[s] \in Entry
    BY <2>1, MapsTyped, EntryFacts DEF TypeOK, Contains
  <2>3. MapAdded(s)[s].ptr \in Stream \cup {Null}
    BY Zenon, <2>2 DEF Entry
  <2>4. event_map' \in [Event -> Stream \cup {Null, Absent}]
    BY Zenon, <1>20, <2>1, <2>3 DEF RecordNoted, TypeOK
  <2> QED BY Zenon, <1>20, <2>2, <2>4, CallsTyped DEF RecordNoted, TypeOK
<1>21. ASSUME NEW t \in Thread, WaitNoted(t) PROVE TypeOK'
  <2> DEFINE s == call[t].s
             head == event_map[call[t].e]
  <2>1. s \in Stream /\ head \in Stream \cup {Null}
    BY Zenon, <1>21 DEF WaitNoted, In, CallInv, TypeOK
  <2>2. [ptr |-> head, capture |-> TRUE] \in Entry
    BY Zenon, <2>1 DEF Entry
  <2>3. stream_map' \in [Stream -> Entry \cup {Absent}]
    BY Zenon, <1>21, <2>1, <2>2, MapsTyped DEF WaitNoted
  <2> QED BY Zenon, <1>21, <2>3, CallsTyped DEF WaitNoted, TypeOK
<1>22. ASSUME NEW t \in Thread, Destroyed(t) PROVE TypeOK'
  BY Zenon, <1>22, CallsTyped DEF Destroyed, TypeOK
<1>23. ASSUME NEW s \in Stream, StreamCreate(s) PROVE TypeOK'
  BY Zenon, <1>23 DEF StreamCreate, TypeOK
<1>24. ASSUME NEW s \in Stream, Finish(s) PROVE TypeOK'
  BY Zenon, <1>24 DEF Finish, TypeOK
<1>25. CASE UNCHANGED vars BY Zenon, <1>25 DEF vars, TypeOK
<1> QED
  BY Zenon, <1>1, <1>2, <1>3, <1>4, <1>5, <1>6, <1>7, <1>8, <1>9, <1>10, <1>11, <1>12,
     <1>13, <1>14, <1>15, <1>16, <1>17, <1>18, <1>19, <1>20, <1>21, <1>22,
     <1>23, <1>24, <1>25, Zenon DEF Next, Scheduler, Calls, Goes

-----------------------------------------------------------------------------
(* Calls. *)

\* A hook keeps its stream, and the event it uses, for itself: the program uses
\* a stream in one thread at a time and destroys no event in use.
LEMMA CallNext == TypeOK /\ CallInv /\ CaptureInv /\ [Next]_vars => CallInv'
<1> SUFFICES ASSUME TypeOK, CallInv, CaptureInv, [Next]_vars PROVE CallInv'
  BY Zenon
<1> USE CacheAssumption DEF sched, device
<1>1. ASSUME NEW t \in Thread, NEW op \in Op, NEW s \in Stream \cup {Null},
             NEW e \in Event \cup {Null}, Enters(t, op, s, e),
             s # Null => Usable(s),
             s = Null => op = "launch",
             op # "none",
             op \in {"begin", "end", "ended"} => s \in Heads,
             op \in {"record", "wait"} => e \in Event /\ event_map[e] # Absent,
             UNCHANGED <<live, event_map>>
      PROVE  CallInv'
  <2>1. /\ call'[t].op = op /\ call'[t].s = s /\ call'[t].e = e
        /\ \A u \in Thread : u # t => call'[u] = call[u]
    BY <1>1, CallsTyped
  <2>2. s # Null => s \in live /\ \A u \in Thread : call[u].s # s
    BY Zenon, <1>1 DEF Usable
  <2> QED BY <1>1, <2>1, <2>2 DEF CallInv
<1>2. ASSUME NEW t \in Thread, Returns(t),
             \A u \in Thread : u # t /\ call[u].s # Null => call[u].s \in live',
             \A e \in Event : event_map[e] # Absent => event_map'[e] # Absent
      PROVE  CallInv'
  <2>1. /\ call'[t].op = "none" /\ call'[t].s = Null /\ call'[t].e = Null
        /\ \A u \in Thread : u # t => call'[u] = call[u]
    BY Zenon, <1>2, CallsTyped
  <2> QED BY <1>2, <2>1 DEF CallInv
<1>3. CASE /\ UNCHANGED call /\ live \subseteq live'
           /\ \A u \in Thread : call[u].op \in {"record", "wait"} =>
                event_map'[call[u].e] # Absent
  BY Zenon, <1>3 DEF CallInv
<1>4. CASE Scheduler \/ UNCHANGED vars \/ \E s \in Stream : StreamCreate(s) \/ Finish(s)
  <2>1. UNCHANGED <<call, event_map>> /\ live \subseteq live'
    BY Zenon, <1>4 DEF Scheduler, CloseGate, Abort, KeepCaptured, SyncBegin, SyncReturns, SyncEnd,
                Forget, OpenGate, vars, StreamCreate, Finish
  <2> QED BY Zenon, <1>3, <2>1 DEF CallInv
<1>5. ASSUME NEW t \in Thread, NEW s \in Stream \cup {Null}, Launch(t, s) PROVE CallInv'
  BY Zenon, <1>1, <1>5 DEF Launch, Op
<1>6. ASSUME NEW t \in Thread, NEW s \in Stream, BeginCapture(t, s) PROVE CallInv'
  BY Zenon, <1>1, <1>6 DEF BeginCapture, Op
<1>7. ASSUME NEW t \in Thread, NEW s \in Stream, EndCapture(t, s) PROVE CallInv'
  <2>1. s \in Heads
    BY Zenon, <1>7 DEF EndCapture, CaptureInv
  <2> QED BY Zenon, <1>1, <1>7, <2>1 DEF EndCapture, Op
<1>8. ASSUME NEW t \in Thread, NEW s \in Stream, Destroy(t, s) PROVE CallInv'
  BY Zenon, <1>1, <1>8 DEF Destroy, Op
<1>9. ASSUME NEW t \in Thread, NEW e \in Event, NEW s \in Stream, EventRecord(t, e, s)
      PROVE  CallInv'
  BY Zenon, <1>1, <1>9 DEF EventRecord, Op
<1>10. ASSUME NEW t \in Thread, NEW e \in Event, NEW s \in Stream, EventWait(t, s, e)
       PROVE  CallInv'
  BY Zenon, <1>1, <1>10 DEF EventWait, Op
<1>11. ASSUME NEW t \in Thread, NEW e \in Event, EventCreate(t, e) PROVE CallInv'
  <2>1. \A x \in Event : event_map[x] # Absent => event_map'[x] # Absent
    BY Zenon, <1>11 DEF EventCreate, TypeOK
  <2> QED BY Zenon, <1>3, <1>11, <2>1 DEF EventCreate, CallInv
<1>12. ASSUME NEW t \in Thread, NEW e \in Event, EventDestroy(t, e) PROVE CallInv'
  <2>1. \A x \in Event : x # e => event_map'[x] = event_map[x]
    BY Zenon, <1>12 DEF EventDestroy, TypeOK
  <2>2. \A u \in Thread : call[u].e # e
    BY Zenon, <1>12 DEF EventDestroy
  <2> QED BY Zenon, <1>3, <1>12, <2>1, <2>2 DEF EventDestroy, CallInv
<1>13. ASSUME NEW t \in Thread,
              LaunchDelivered(t) \/ CaptureBegun(t) \/ Unmark(t) \/ WaitNoted(t)
       PROVE  CallInv'
  <2>1. Returns(t) /\ UNCHANGED <<live, event_map>>
    BY Zenon, <1>13 DEF LaunchDelivered, CaptureBegun, Unmark, WaitNoted
  <2> QED BY Zenon, <1>2, <2>1 DEF CallInv
<1>14. ASSUME NEW t \in Thread, CaptureEnded(t) PROVE CallInv'
  <2>1. CASE Returns(t)
    BY Zenon, <1>2, <1>14, <2>1 DEF CaptureEnded, CallInv
  <2>2. CASE call' = [call EXCEPT ![t].op = "ended"]
    <3>1. /\ call'[t].op = "ended" /\ call'[t].s = call[t].s
          /\ \A u \in Thread : u # t => call'[u] = call[u]
      BY <2>2 DEF TypeOK
    <3>2. call[t].op = "end" /\ UNCHANGED <<live, event_map>>
      BY Zenon, <1>14 DEF CaptureEnded, In
    <3> QED BY <3>1, <3>2 DEF CallInv
  <2> QED BY Zenon, <1>14, <2>1, <2>2 DEF CaptureEnded
<1>15. ASSUME NEW t \in Thread, RecordNoted(t) PROVE CallInv'
  <2> DEFINE s == call[t].s
  <2>1. s \in Stream /\ call[t].e \in Event
    BY Zenon, <1>15 DEF RecordNoted, In, CallInv, TypeOK
  <2>2. MapAdded(s)[s] \in Entry
    BY <2>1, MapsTyped, EntryFacts DEF TypeOK, Contains
  <2>3. MapAdded(s)[s].ptr \in Stream \cup {Null}
    BY Zenon, <2>2 DEF Entry
  <2>4. \A x \in Event : event_map[x] # Absent => event_map'[x] # Absent
    BY Zenon, <1>15, <2>1, <2>3 DEF RecordNoted, TypeOK
  <2> QED BY Zenon, <1>2, <1>15, <2>4 DEF RecordNoted, CallInv
<1>16. ASSUME NEW t \in Thread, Destroyed(t) PROVE CallInv'
  <2>1. Returns(t) /\ live' = live \ {call[t].s} /\ event_map' = event_map
    BY Zenon, <1>16 DEF Destroyed
  <2>2. \A u \in Thread : u # t /\ call[u].s # Null => call[u].s \in live'
    BY Zenon, <2>1 DEF CallInv
  <2> QED BY Zenon, <1>2, <2>1, <2>2
<1> QED
  BY Zenon, <1>4, <1>5, <1>6, <1>7, <1>8, <1>9, <1>10, <1>11, <1>12, <1>13, <1>14,
     <1>15, <1>16, Zenon DEF Next, Calls, Goes

-----------------------------------------------------------------------------
(* The scheduler's loop. *)

\* A step that leaves the cache and the loop alone and drops no entry.
Quiet ==
  /\ UNCHANGED <<cache, sched>>
  /\ \A x \in Stream : stream_map[x] # Absent => stream_map'[x] # Absent

\* A step that passes core_limiter with stream s.
Passes(s) ==
  /\ spc = "slice"
  /\ UNCHANGED sched
  /\ cache' = CacheAfter(s)
  /\ \A x \in Stream : stream_map[x] # Absent => stream_map'[x] # Absent
  /\ Records(s) /\ s \in Stream => stream_map'[s] # Absent

\* What a step may do to the cache and the entries: nothing that matters, record
\* a stream, remove one, or a turn of the scheduler's loop.
LEMMA StepKinds ==
  ASSUME TypeOK, CallInv, [Next]_vars
  PROVE  \/ Quiet
         \/ \E s \in Stream \cup {Null} : Passes(s)
         \/ \E t \in Thread, s \in Stream : Destroy(t, s)
         \/ Scheduler
<1> USE EntryFacts DEF sched, device
<1>1. ASSUME NEW t \in Thread, NEW s \in Stream \cup {Null}, Launch(t, s) PROVE Passes(s)
  BY <1>1, MapsTyped DEF Launch, Admitted, Passes
<1>2. ASSUME NEW t \in Thread, NEW s \in Stream, BeginCapture(t, s) PROVE Passes(s)
  BY <1>2, MapsTyped DEF BeginCapture, Admitted, Passes
<1>3. ASSUME NEW t \in Thread, NEW s \in Stream, EndCapture(t, s) PROVE Passes(s)
  BY <1>3, MapsTyped DEF EndCapture, Admitted, Passes
<1>4. CASE \/ UNCHANGED vars
           \/ \E s \in Stream : StreamCreate(s) \/ Finish(s)
           \/ \E t \in Thread, e \in Event : EventCreate(t, e) \/ EventDestroy(t, e)
           \/ \E t \in Thread, s \in Stream, e \in Event :
                EventRecord(t, e, s) \/ EventWait(t, s, e)
           \/ \E t \in Thread : \/ LaunchDelivered(t) \/ CaptureBegun(t)
                                \/ CaptureEnded(t) \/ Destroyed(t)
  BY <1>4 DEF Quiet, vars, StreamCreate, Finish, EventCreate, EventDestroy, EventRecord,
              EventWait, LaunchDelivered, CaptureBegun, CaptureEnded, Destroyed
<1>5. ASSUME NEW t \in Thread, Unmark(t) PROVE Quiet
  BY Zenon, <1>5 DEF Unmark, Quiet, TypeOK
<1>6. ASSUME NEW t \in Thread, RecordNoted(t) PROVE Quiet
  <2>1. call[t].s \in Stream \cup {Null}
    BY Zenon DEF TypeOK
  <2> QED BY <1>6, <2>1, MapsTyped DEF RecordNoted, Quiet
<1>7. ASSUME NEW t \in Thread, WaitNoted(t) PROVE Quiet
  <2> DEFINE head == event_map[call[t].e]
  <2>1. call[t].s \in Stream \cup {Null} /\ head \in Stream \cup {Null}
    BY Zenon, <1>7 DEF WaitNoted, In, CallInv, TypeOK
  <2> QED BY <1>7, <2>1, MapsTyped DEF WaitNoted, Quiet
<1> QED
  BY <1>1, <1>2, <1>3, <1>4, <1>5, <1>6, <1>7, Zenon DEF Next, Calls, Goes

\* The loop never runs past the cache or over a NULL, and an entry stays while
\* its stream is synchronised.
LEMMA LoopNext == TypeOK /\ CallInv /\ LoopInv /\ [Next]_vars => LoopInv'
<1> SUFFICES ASSUME TypeOK, CallInv, LoopInv, [Next]_vars PROVE LoopInv'
  BY Zenon
<1> USE DEF sched
<1>0. /\ Len(cache) \in Nat
      /\ \A k \in 1 .. Len(cache) : cache[k] \in Stream \cup {Null}
      /\ i \in Nat \ {0} /\ remaining \in Nat /\ remaining < i
  BY CacheElements DEF TypeOK
<1>1. CASE Quiet
  BY <1>0, <1>1 DEF Quiet, LoopInv, Contains
<1>2. ASSUME NEW s \in Stream \cup {Null}, Passes(s) PROVE LoopInv'
  <2>1. Len(cache') \in Nat
    BY <1>0, <1>2, AfterElements DEF Passes
  <2>2. spc' = "slice" /\ i' = 1 /\ remaining' = 0
    BY Zenon, <1>2 DEF Passes, LoopInv
  <2> QED BY <2>1, <2>2 DEF LoopInv
<1>3. ASSUME NEW t \in Thread, NEW s \in Stream, Destroy(t, s) PROVE LoopInv'
  <2>1. Len(cache') \in Nat
    BY <1>3, DestroyRemoves
  <2>2. spc' = "slice" /\ i' = 1 /\ remaining' = 0
    BY Zenon, <1>3 DEF Destroy, Admitted, LoopInv
  <2> QED BY <2>1, <2>2 DEF LoopInv
<1>4. CASE CloseGate BY Zenon, <1>4 DEF CloseGate, LoopInv
<1>5. CASE Abort BY <1>0, <1>5 DEF Abort, LeaveLoop, LoopInv
<1>6. CASE KeepCaptured
  <2>1. i \in 1 .. Len(cache) /\ remaining + 1 \in 1 .. Len(cache)
    BY <1>0, <1>6 DEF KeepCaptured
  <2>2. /\ Len(cache') = Len(cache)
        /\ \A k \in 1 .. Len(cache) :
             cache'[k] = IF k = remaining + 1 THEN cache[i] ELSE cache[k]
    BY <1>0, <1>6, <2>1, ExceptElements DEF KeepCaptured, TypeOK
  <2>3. cache[i] # Null /\ i' = i + 1 /\ spc' = "loop"
    BY Zenon, <1>6 DEF KeepCaptured, Contains
  <2>4. ASSUME NEW k \in 1 .. i PROVE cache'[k] # Null
    <3>1. k \in 1 .. Len(cache)
      BY <2>1
    <3>2. k # i => k \in 1 .. i - 1
      BY <1>0
    <3>3. cache[k] # Null
      BY Zenon, <2>3, <3>2 DEF LoopInv
    <3> QED BY Zenon, <2>2, <2>3, <3>1, <3>3
  <2> QED BY <1>0, <2>1, <2>2, <2>3, <2>4 DEF LoopInv
<1>7. CASE SyncBegin \/ SyncReturns
  BY Zenon, <1>7 DEF SyncBegin, SyncReturns, LoopInv, Contains
<1>8. CASE SyncEnd
  <2>1. i \in 1 .. Len(cache) /\ cache[i] # Null
    BY <1>0, <1>8 DEF SyncEnd, LoopInv, Contains
  <2> QED BY <1>0, <1>8, <2>1 DEF SyncEnd, LoopInv
<1>9. CASE Forget
  <2>1. Len(cache') \in Nat
    BY <1>9, TypeNext DEF TypeOK
  <2>2. spc' = "end" /\ i' = 1 /\ remaining' = 0
    BY Zenon, <1>9 DEF Forget, LeaveLoop
  <2> QED BY <2>1, <2>2 DEF LoopInv
<1>10. CASE OpenGate BY Zenon, <1>10 DEF OpenGate, LoopInv
<1> QED
  BY StepKinds, <1>1, <1>2, <1>3, <1>4, <1>5, <1>6, <1>7, <1>8, <1>9, <1>10, Zenon
     DEF Scheduler

\* Outside the loop the window is the whole cache.
LEMMA WholeWindow ==
  ASSUME TypeOK, i = 1, remaining = 0
  PROVE  Window = 1 .. Len(cache)
  BY CacheElements DEF Window

\* What the loop leaves behind: the first remaining_count places.
LEMMA ForgetElements ==
  ASSUME TypeOK, LoopInv, Forget
  PROVE  /\ Len(cache') = remaining
         /\ \A k \in 1 .. remaining : k \in 1 .. Len(cache) /\ cache'[k] = cache[k]
         /\ Window = 1 .. remaining /\ Window' = 1 .. remaining
         /\ i = Len(cache) + 1
<1>0. /\ Len(cache) \in Nat
      /\ \A k \in 1 .. Len(cache) : cache[k] \in Stream \cup {Null}
      /\ i \in Nat \ {0} /\ remaining \in Nat /\ remaining < i
  BY CacheElements DEF TypeOK
<1>1. i = Len(cache) + 1
  BY <1>0 DEF Forget, LoopInv
<1>2. \A k \in 1 .. remaining : k \in 1 .. Len(cache) /\ cache[k] \in Stream \cup {Null}
  BY <1>0, <1>1
<1> DEFINE c == SubSeq(cache, 1, remaining)
<1>3. /\ Len(c) = IF 1 <= remaining THEN remaining - 1 + 1 ELSE 0
      /\ \A k \in 1 .. remaining - 1 + 1 : c[k] = cache[1 + k - 1]
  BY <1>0, <1>2
<1> HIDE DEF c
<1>4. cache' = c /\ i' = 1 /\ remaining' = 0
  BY Zenon DEF Forget, LeaveLoop, c
<1>5. Len(c) = remaining /\ \A k \in 1 .. remaining : c[k] = cache[k]
  BY <1>0, <1>3
<1> QED BY <1>0, <1>1, <1>2, <1>4, <1>5 DEF Window

\* A place of the window after a captured stream is kept comes from a place of
\* the window before, each from one of its own.
LEMMA KeepElements ==
  ASSUME TypeOK, LoopInv, KeepCaptured
  PROVE  /\ Len(cache') = Len(cache)
         /\ \A k \in 1 .. Len(cache) :
              cache'[k] = IF k = remaining + 1 THEN cache[i] ELSE cache[k]
         /\ i \in 1 .. Len(cache) /\ i \in Window
         /\ remaining + 1 \in 1 .. Len(cache) /\ remaining + 1 \in Window'
         /\ \A k \in Window' : k \in 1 .. Len(cache)
         /\ \A k \in Window' : k # remaining + 1 => k \in Window /\ k # i
         /\ \A k \in Window : k # i => k \in Window' /\ k # remaining + 1
<1>0. /\ Len(cache) \in Nat
      /\ \A k \in 1 .. Len(cache) : cache[k] \in Stream \cup {Null}
      /\ i \in Nat \ {0} /\ remaining \in Nat /\ remaining < i
  BY CacheElements DEF TypeOK
<1>1. i \in 1 .. Len(cache) /\ remaining + 1 \in 1 .. Len(cache)
  BY <1>0 DEF KeepCaptured
<1>2. /\ Len(cache') = Len(cache)
      /\ \A k \in 1 .. Len(cache) :
           cache'[k] = IF k = remaining + 1 THEN cache[i] ELSE cache[k]
  BY <1>0, <1>1, ExceptElements DEF KeepCaptured, TypeOK
<1>3. Window' = 1 .. remaining + 1 \cup i + 1 .. Len(cache)
  BY Zenon, <1>2 DEF Window, KeepCaptured
<1>4. Window = 1 .. remaining \cup i .. Len(cache)
  BY Zenon DEF Window
<1> QED BY <1>0, <1>1, <1>2, <1>3, <1>4

\* Without a NULL in the cache the loop never stops half way: every stream it
\* has still to look at has an entry, and none comes twice.
LEMMA MappedNext == TypeOK /\ CallInv /\ LoopInv /\ MappedInv /\ [Next]_vars => MappedInv'
<1> SUFFICES ASSUME TypeOK, CallInv, LoopInv, MappedInv, [Next]_vars,
                    \A k \in 1 .. Len(cache') : cache'[k] # Null
             PROVE  /\ \A k \in Window' : Contains(cache[k])'
                    /\ \A j, k \in Window' : cache'[j] = cache'[k] => j = k
  BY Zenon DEF MappedInv
<1> USE DEF sched
<1>0. /\ Len(cache) \in Nat
      /\ \A k \in 1 .. Len(cache) : cache[k] \in Stream \cup {Null}
      /\ i \in Nat \ {0} /\ remaining \in Nat /\ remaining < i /\ i <= Len(cache) + 1
      /\ \A k \in Window : k \in 1 .. Len(cache)
  BY CacheElements DEF TypeOK, LoopInv, Window
<1>1. CASE Quiet
  <2>1. Window' = Window /\ cache' = cache
    BY Zenon, <1>1 DEF Quiet, Window
  <2> QED BY <1>0, <1>1, <2>1 DEF Quiet, MappedInv, Contains
<1>2. ASSUME NEW s \in Stream \cup {Null}, Passes(s)
      PROVE  /\ \A k \in Window' : Contains(cache[k])'
             /\ \A j, k \in Window' : cache'[j] = cache'[k] => j = k
  <2>1. /\ Len(cache') = IF Records(s) THEN Len(cache) + 1 ELSE Len(cache)
        /\ \A k \in 1 .. Len(cache) : cache'[k] = cache[k]
        /\ Records(s) => cache'[Len(cache) + 1] = s
    BY Zenon, <1>2, AfterElements DEF Passes
  <2>2. \A k \in 1 .. Len(cache) : cache[k] # Null
    BY <1>0, <2>1
  <2>3. Window = 1 .. Len(cache) /\ Window' = 1 .. Len(cache')
    BY <1>0, <1>2, <2>1 DEF Window, Passes, LoopInv
  <2>4. \A k \in 1 .. Len(cache) : Contains(cache[k])
    BY Zenon, <2>2, <2>3 DEF MappedInv
  <2>5. \A j, k \in 1 .. Len(cache) : cache[j] = cache[k] => j = k
    BY Zenon, <2>2, <2>3 DEF MappedInv
  <2>6. Records(s) => s \in Stream /\ ~Contains(s)
    BY <1>0, <2>1 DEF Records
  <2>7. \A k \in 1 .. Len(cache) : Contains(cache[k])'
    BY Zenon, <1>0, <1>2, <2>1, <2>4 DEF Contains, Passes
  <2>8. Records(s) => Contains(s)'
    BY Zenon, <1>2, <2>6, EntryFacts DEF Contains, Passes
  <2> QED BY <1>0, <2>1, <2>3, <2>4, <2>5, <2>6, <2>7, <2>8
<1>3. ASSUME NEW t \in Thread, NEW s \in Stream, Destroy(t, s)
      PROVE  /\ \A k \in Window' : Contains(cache[k])'
             /\ \A j, k \in Window' : cache'[j] = cache'[k] => j = k
  <2>1. Window = 1 .. Len(cache) /\ Window' = 1 .. Len(cache')
    <3>1. Len(cache') \in Nat
      BY <1>3, DestroyRemoves
    <3> QED BY <1>0, <1>3, <3>1 DEF Window, Destroy, Admitted, LoopInv
  <2>2. CASE cache' = cache /\ stream_map' = stream_map
    BY <1>0, <2>1, <2>2 DEF MappedInv, Contains
  <2>3. ASSUME NEW p \in 1 .. Len(CacheAfter(s)),
               stream_map'[s] = Absent,
               CacheAfter(s)[p] = s,
               Len(cache') = Len(CacheAfter(s)) - 1,
               \A k \in 1 .. Len(CacheAfter(s)) - 1 :
                 cache'[k] = IF k < p THEN CacheAfter(s)[k] ELSE CacheAfter(s)[k + 1]
        PROVE  /\ \A k \in Window' : Contains(cache[k])'
               /\ \A j, k \in Window' : cache'[j] = cache'[k] => j = k
    <3> DEFINE c == CacheAfter(s)
    <3>1. /\ Len(c) = IF Records(s) THEN Len(cache) + 1 ELSE Len(cache)
          /\ \A k \in 1 .. Len(cache) : c[k] = cache[k]
          /\ Records(s) => c[Len(cache) + 1] = s
      BY Zenon, AfterElements
    <3>a. /\ p \in 1 .. Len(c) /\ c[p] = s
          /\ Len(cache') = Len(c) - 1
          /\ \A k \in 1 .. Len(c) - 1 : cache'[k] = IF k < p THEN c[k] ELSE c[k + 1]
      BY Zenon, <2>3
    <3> HIDE DEF c
    <3>2. \A k \in 1 .. Len(cache) : cache[k] # Null
      <4> SUFFICES ASSUME NEW k \in 1 .. Len(cache), cache[k] = Null PROVE FALSE
        BY Zenon
      <4>1. k # p
        BY Zenon, <3>1, <3>a, EntryFacts
      <4>2. CASE k < p
        <5>1. k \in 1 .. Len(cache') /\ cache'[k] = Null
          BY <1>0, <3>1, <3>a, <4>2
        <5> QED BY Zenon, <5>1
      <4>3. CASE k > p
        <5>1. k - 1 \in 1 .. Len(cache') /\ cache'[k - 1] = Null
          BY <1>0, <3>1, <3>a, <4>3
        <5> QED BY Zenon, <5>1
      <4> QED BY <1>0, <3>1, <4>1, <4>2, <4>3
    <3>3. \A k \in 1 .. Len(cache) : Contains(cache[k])
      BY Zenon, <2>1, <3>2 DEF MappedInv
    <3>4. \A j, k \in 1 .. Len(cache) : cache[j] = cache[k] => j = k
      BY Zenon, <2>1, <3>2 DEF MappedInv
    <3>5. \A j, k \in 1 .. Len(c) : c[j] = c[k] => j = k
      BY <1>0, <3>1, <3>3, <3>4 DEF Records
    <3>6. \A j, k \in 1 .. Len(cache') : cache'[j] = cache'[k] => j = k
      <4> SUFFICES ASSUME NEW j \in 1 .. Len(cache'), NEW k \in 1 .. Len(cache'),
                          cache'[j] = cache'[k]
                   PROVE  j = k
        BY Zenon
      <4> DEFINE from(n) == IF n < p THEN n ELSE n + 1
      <4>1. /\ from(j) \in 1 .. Len(c) /\ cache'[j] = c[from(j)]
            /\ from(k) \in 1 .. Len(c) /\ cache'[k] = c[from(k)]
        BY <1>0, <3>1, <3>a
      <4>2. from(j) = from(k)
        BY Zenon, <3>5, <4>1
      <4> QED BY <1>0, <3>1, <3>a, <4>2
    <3>7. ASSUME NEW k \in 1 .. Len(cache') PROVE Contains(cache[k])'
      <4>1. PICK j \in 1 .. Len(c) : j # p /\ cache'[k] = c[j]
        <5>1. CASE k < p
          <6>1. k \in 1 .. Len(c) /\ cache'[k] = c[k]
            BY <1>0, <3>1, <3>a, <5>1
          <6> QED BY <5>1, <6>1
        <5>2. CASE k >= p
          <6>1. k + 1 \in 1 .. Len(c) /\ k + 1 # p /\ cache'[k] = c[k + 1]
            BY <1>0, <3>1, <3>a, <5>2
          <6> QED BY Zenon, <6>1
        <5> QED BY <3>1, <5>1, <5>2
      <4>2. c[j] # s /\ j \in 1 .. Len(cache)
        BY <1>0, <3>1, <3>a, <3>5, <4>1
      <4>3. c[j] \in Stream /\ stream_map[c[j]] # Absent
        BY Zenon, <1>0, <3>1, <3>3, <4>2 DEF Contains
      <4>4. stream_map'[c[j]] # Absent
        BY Zenon, <1>3, <4>2, <4>3, DestroyRemoves
      <4> QED BY Zenon, <4>1, <4>3, <4>4, EntryFacts DEF Contains
    <3> QED BY Zenon, <2>1, <3>6, <3>7
  <2> QED BY Zenon, <1>3, <2>2, <2>3, DestroyRemoves
<1>4. CASE CloseGate \/ SyncBegin \/ SyncReturns \/ OpenGate
  <2>1. UNCHANGED <<cache, stream_map, i, remaining>>
    BY Zenon, <1>4 DEF CloseGate, SyncBegin, SyncReturns, OpenGate
  <2> QED BY <2>1 DEF Window, MappedInv, Contains
<1>5. CASE Abort
  <2>1. cache' = cache /\ i \in Window /\ ~Contains(cache[i])
    BY <1>0, <1>5 DEF Abort, Window
  <2> QED BY Zenon, <2>1 DEF MappedInv
<1>6. CASE KeepCaptured
  <2>1. \A k \in 1 .. Len(cache) : cache[k] # Null
    <3> SUFFICES ASSUME NEW k \in 1 .. Len(cache), cache[k] = Null PROVE FALSE
      BY Zenon
    <3>1. k # remaining + 1 => cache'[k] = Null
      BY Zenon, <1>6, KeepElements
    <3>2. k = remaining + 1 => k \in 1 .. i - 1 \/ k = i
      BY <1>0
    <3>3. cache[i] # Null
      BY Zenon, <1>6 DEF KeepCaptured, Contains
    <3> QED BY Zenon, <1>6, <3>1, <3>2, <3>3, KeepElements DEF LoopInv
  <2>2. /\ \A k \in Window : Contains(cache[k])
        /\ \A j, k \in Window : cache[j] = cache[k] => j = k
    BY Zenon, <2>1 DEF MappedInv
  <2>3. \A k \in Window' : k \in 1 .. Len(cache)
    BY Zenon, <1>6, KeepElements
  <2>4. stream_map' = stream_map
    BY Zenon, <1>6 DEF KeepCaptured
  <2>5. \A k \in Window' : Contains(cache'[k])
    BY Zenon, <1>6, <2>2, <2>3, KeepElements
  <2>6. \A j, k \in Window' : cache'[j] = cache'[k] => j = k
    BY Zenon, <1>6, <2>2, <2>3, KeepElements
  <2> QED BY Zenon, <2>4, <2>5, <2>6 DEF Contains
<1>7. CASE SyncEnd
  <2>1. cache' = cache /\ i' = i + 1 /\ remaining' = remaining
    BY Zenon, <1>7 DEF SyncEnd
  <2>2. i \in 1 .. Len(cache) /\ cache[i] \in Stream
    BY <1>0, <1>7 DEF SyncEnd, LoopInv, Contains
  <2>3. i \in Window /\ \A k \in Window' : k \in Window /\ k # i
    BY <1>0, <2>1, <2>2 DEF Window
  <2>4. /\ \A k \in Window : Contains(cache[k])
        /\ \A j, k \in Window : cache[j] = cache[k] => j = k
    BY Zenon, <2>1 DEF MappedInv
  <2>5. \A x \in Stream : x # cache[i] => stream_map'[x] = stream_map[x]
    BY Zenon, <1>7 DEF SyncEnd, TypeOK
  <2>6. ASSUME NEW k \in Window' PROVE Contains(cache[k])'
    <3>1. cache[k] # cache[i] /\ Contains(cache[k]) /\ cache[k] \in Stream
      BY Zenon, <1>0, <2>3, <2>4 DEF Contains
    <3> QED BY Zenon, <2>1, <2>5, <3>1 DEF Contains
  <2> QED BY Zenon, <2>1, <2>3, <2>4, <2>6
<1>8. CASE Forget
  <2>1. \A k \in 1 .. Len(cache) : cache[k] # Null
    BY <1>0, <1>8, ForgetElements DEF LoopInv
  <2>2. stream_map' = stream_map
    BY Zenon, <1>8 DEF Forget
  <2>3. /\ \A k \in Window : Contains(cache[k])
        /\ \A j, k \in Window : cache[j] = cache[k] => j = k
    BY Zenon, <2>1 DEF MappedInv
  <2> QED BY Zenon, <1>8, <2>2, <2>3, ForgetElements DEF Contains
<1> QED
  BY StepKinds, <1>1, <1>2, <1>3, <1>4, <1>5, <1>6, <1>7, <1>8, Zenon DEF Scheduler
=============================================================================
