----------------------------- MODULE StreamCache -----------------------------
(***************************************************************************)
(* How one vCANN-RT process keeps account of the work it delivers          *)
(* (core_limiter.c, ascend/event.c, ascend/graph.c, utils/hash_map.c).     *)
(* Every launch passes core_limiter, which records the stream in           *)
(* g_cache_streams and stream_map; at the end of a slice the scheduler     *)
(* thread takes g_sched_mutex, synchronises the recorded streams and       *)
(* forgets them, except those a graph capture is using.  The event hooks   *)
(* follow a capture from its head stream to the streams that join it.      *)
(*                                                                         *)
(* The hooks take no lock.  Each of them is one step here: what two        *)
(* threads do to one bucket of a hash map at the same time is not          *)
(* modelled.                                                               *)
(***************************************************************************)
EXTENDS Naturals, Sequences, Functions

CONSTANTS
  Stream, Event, Thread,  \* handles, and the threads that use them
  Heads,                  \* streams on which captures are begun
  Capacity,               \* MAX_STREAMS_PER_PROCESS
  Null,                   \* the NULL stream, and the NULL pointer
  Absent                  \* no entry in a hash map

ASSUME CacheAssumption ==
  /\ Capacity \in Nat \ {0}
  /\ Null \notin Stream
  /\ Absent \notin Stream \cup {Null}
  /\ Absent \notin [ptr : Stream \cup {Null}, capture : BOOLEAN]
  /\ Heads \subseteq Stream

VARIABLES
  cache,       \* g_cache_streams
  stream_map,  \* stream -> Absent or [ptr, capture]; ptr is the head stream
  event_map,   \* event -> Absent or ptr
  call,        \* call[t]: the hook thread t is in, after its first half
  spc, i, remaining,  \* scheduler thread: where, loop index, remaining_count
  live,        \* device: streams that exist
  capturing,   \* device: stream -> head of the capture it belongs to, or Null
  recorded,    \* device: event -> capture it was recorded in, or Null
  busy,        \* device: streams with unfinished work
  escaped      \* ghost: streams with work that was delivered when the scheduler
               \* was not going to wait for it any more, or that joined a
               \* capture while they were synchronised

sched == <<spc, i, remaining>>
device == <<live, capturing, recorded, busy>>
vars == <<cache, stream_map, event_map, call, sched, device, escaped>>

Entry == [ptr : Stream \cup {Null}, capture : BOOLEAN]
Plain == [ptr |-> Null, capture |-> FALSE]
Idle == [op |-> "none", s |-> Null, e |-> Null]
Op == {"none", "launch", "begin", "end", "ended", "record", "wait", "destroy"}

TypeOK ==
  /\ cache \in Seq(Stream \cup {Null}) /\ Len(cache) <= Capacity
  /\ stream_map \in [Stream -> Entry \cup {Absent}]
  /\ event_map \in [Event -> Stream \cup {Null, Absent}]
  /\ call \in [Thread -> [op : Op, s : Stream \cup {Null}, e : Event \cup {Null}]]
  /\ spc \in {"slice", "loop", "sync", "synced", "end"}
  /\ i \in 1 .. Capacity + 1 /\ remaining \in 0 .. Capacity
  /\ remaining < i
  /\ live \subseteq Stream /\ busy \subseteq live
  /\ capturing \in [Stream -> Stream \cup {Null}]
  /\ recorded \in [Event -> Stream \cup {Null}]
  /\ escaped \subseteq Stream

Init ==
  /\ cache = <<>>
  /\ stream_map = [s \in Stream |-> Absent]
  /\ event_map = [e \in Event |-> Absent]
  /\ call = [t \in Thread |-> Idle]
  /\ spc = "slice" /\ i = 1 /\ remaining = 0
  /\ live = {} /\ busy = {} /\ escaped = {}
  /\ capturing = [s \in Stream |-> Null]
  /\ recorded = [e \in Event |-> Null]

-----------------------------------------------------------------------------
(* Hash maps and the cache. *)

\* hashmap_contains, hashmap_get: a NULL key is never found.
Contains(s) == s # Null /\ stream_map[s] # Absent

\* hashmap_put: a NULL key is refused.
Put(map, s, value) == IF s = Null THEN map ELSE [map EXCEPT ![s] = value]

\* The scheduler thread will visit the stream ...
OnRecord(s) == Contains(s) /\ s \in Range(cache)

\* ... and wait for what is delivered on it now: not between the return of
\* rtStreamSynchronize and the removal of the entry.
Awaited(s) == OnRecord(s) /\ ~(spc = "synced" /\ cache[i] = s)

\* Mutant: the capacity is not checked.
RecordsAlways(s) == ~Contains(s)

\* restore_streams gives way when the stream is known or the cache is full.
Records(s) == ~Contains(s) /\ Len(cache) < Capacity
CacheAfter(s) == IF Records(s) THEN Append(cache, s) ELSE cache
MapAfter(s) == IF Records(s) THEN Put(stream_map, s, Plain) ELSE stream_map

\* core_limiter: the caller waits until the scheduler thread gives the mutex
\* away, then records its stream.
Admitted == spc = "slice"

\* A thread calls a hook on a stream, or goes on after the mutex.
Enters(t, op, s, e) ==
  /\ call[t] = Idle
  /\ call' = [call EXCEPT ![t] = [op |-> op, s |-> s, e |-> e]]
In(t, op) == call[t].op = op
Returns(t) == call' = [call EXCEPT ![t] = Idle]

\* The program uses a stream in one thread at a time.
Usable(s) == s \in live /\ \A t \in Thread : call[t].s # s

-----------------------------------------------------------------------------
(* Launches: kernel.c, task.c, graph.c. *)

\* The stream is NULL in rtsModelExecute.
Launch(t, s) ==
  /\ s = Null \/ Usable(s)
  /\ Admitted
  /\ Enters(t, "launch", s, Null)
  /\ cache' = CacheAfter(s)
  /\ stream_map' = MapAfter(s)
  /\ UNCHANGED <<event_map, sched, device, escaped>>

\* The work is delivered after the mutex was released.  In a capture it goes
\* into the graph.  On the NULL stream it is never waited for, since stream_map
\* refuses the key, and is not followed here.
LaunchDelivered(t) ==
  LET s == call[t].s
  IN  /\ In(t, "launch")
      /\ Returns(t)
      /\ IF s = Null \/ capturing[s] # Null
         THEN UNCHANGED <<busy, escaped>>
         ELSE /\ busy' = busy \cup {s}
              /\ escaped' = IF Awaited(s) THEN escaped ELSE escaped \cup {s}
      /\ UNCHANGED <<cache, stream_map, event_map, sched, live, capturing, recorded>>

-----------------------------------------------------------------------------
(* Captures: graph.c. *)

\* Mutant: the stream is recorded and not marked.
BeginUnmarked(t, s) ==
  /\ s \in Heads /\ Usable(s) /\ capturing[s] = Null
  /\ Admitted
  /\ Enters(t, "begin", s, Null)
  /\ cache' = CacheAfter(s)
  /\ stream_map' = MapAfter(s)
  /\ UNCHANGED <<event_map, sched, device, escaped>>

\* rtStreamBeginCapture marks the stream first ...
BeginCapture(t, s) ==
  /\ s \in Heads /\ Usable(s) /\ capturing[s] = Null
  /\ Admitted
  /\ Enters(t, "begin", s, Null)
  /\ cache' = CacheAfter(s)
  /\ stream_map' = Put(stream_map, s, [ptr |-> s, capture |-> TRUE])
  /\ UNCHANGED <<event_map, sched, device, escaped>>

\* ... and keeps the mark when the device refuses.
CaptureBegun(t) ==
  LET s == call[t].s
  IN  /\ In(t, "begin")
      /\ Returns(t)
      /\ \/ capturing' = [capturing EXCEPT ![s] = s]
         \/ UNCHANGED capturing
      /\ UNCHANGED <<cache, stream_map, event_map, sched, live, recorded, busy, escaped>>

EndCapture(t, s) ==
  /\ Usable(s) /\ capturing[s] = s
  /\ Admitted
  /\ Enters(t, "end", s, Null)
  /\ cache' = CacheAfter(s)
  /\ stream_map' = MapAfter(s)
  /\ UNCHANGED <<event_map, sched, device, escaped>>

\* The device ends the capture of the head and of all that joined it; when it
\* reports an error the marks stay.
CaptureEnded(t) ==
  /\ In(t, "end")
  /\ \/ call' = [call EXCEPT ![t].op = "ended"]
     \/ Returns(t)
  /\ capturing' = [s \in Stream |->
                     IF capturing[s] = call[t].s THEN Null ELSE capturing[s]]
  /\ UNCHANGED <<cache, stream_map, event_map, sched, live, recorded, busy, escaped>>

\* Mutant: the entries are removed instead of reset.
UnmarkDrops(t) ==
  LET head == call[t].s
      reached == {k \in DOMAIN cache : \A j \in 1 .. k : Contains(cache[j])}
  IN  /\ In(t, "ended")
      /\ Returns(t)
      /\ stream_map' = [s \in Stream |->
           IF (\E k \in reached : cache[k] = s) /\ stream_map[s].ptr = head
           THEN Absent ELSE stream_map[s]]
      /\ UNCHANGED <<cache, event_map, sched, device, escaped>>

\* set_stream_capture(false), without the mutex: it walks the cache and returns
\* at the first stream that stream_map does not know.
Unmark(t) ==
  LET head == call[t].s
      reached == {k \in DOMAIN cache : \A j \in 1 .. k : Contains(cache[j])}
  IN  /\ In(t, "ended")
      /\ Returns(t)
      /\ stream_map' = [s \in Stream |->
           IF (\E k \in reached : cache[k] = s) /\ stream_map[s].ptr = head
           THEN Plain ELSE stream_map[s]]
      /\ UNCHANGED <<cache, event_map, sched, device, escaped>>

-----------------------------------------------------------------------------
(* Events: event.c.  The device acts first, the hook follows. *)

\* add_stream: known to stream_map, but not in the cache.
MapAdded(s) == IF Contains(s) THEN stream_map ELSE Put(stream_map, s, Plain)

\* rtEventCreate and its variants, set_event_create_status
EventCreate(t, e) ==
  /\ call[t] = Idle /\ event_map[e] = Absent
  /\ event_map' = [event_map EXCEPT ![e] = Null]
  /\ recorded' = [recorded EXCEPT ![e] = Null]
  /\ UNCHANGED <<cache, stream_map, call, sched, live, capturing, busy, escaped>>

\* rtEventDestroy, set_event_destroy_status
EventDestroy(t, e) ==
  /\ call[t] = Idle /\ event_map[e] # Absent
  /\ \A u \in Thread : call[u].e # e
  /\ event_map' = [event_map EXCEPT ![e] = Absent]
  /\ UNCHANGED <<cache, stream_map, call, sched, device, escaped>>

EventRecord(t, e, s) ==
  /\ Usable(s) /\ event_map[e] # Absent
  /\ Enters(t, "record", s, e)
  /\ recorded' = [recorded EXCEPT ![e] = capturing[s]]
  /\ UNCHANGED <<cache, stream_map, event_map, sched, live, capturing, busy, escaped>>

\* set_event_record_status: the event takes the head of the stream; it keeps
\* the head of an earlier capture when the stream has none.
RecordNoted(t) ==
  LET s == call[t].s
      e == call[t].e
      head == MapAdded(s)[s].ptr
  IN  /\ In(t, "record")
      /\ Returns(t)
      /\ stream_map' = MapAdded(s)
      /\ event_map' = IF head = Null THEN event_map
                      ELSE [event_map EXCEPT ![e] = head]
      /\ UNCHANGED <<cache, sched, device, escaped>>

\* Waiting for an event of a capture joins it; the device refuses to mix two
\* captures, or a capture with work outside of it.
EventWait(t, s, e) ==
  /\ Usable(s) /\ event_map[e] # Absent
  /\ capturing[s] \in {Null, recorded[e]}
  /\ recorded[e] # Null => capturing[recorded[e]] = recorded[e]
  /\ Enters(t, "wait", s, e)
  /\ capturing' = [capturing EXCEPT ![s] = recorded[e]]
  /\ UNCHANGED <<cache, stream_map, event_map, sched, live, recorded, busy, escaped>>

\* set_event_wait_status: the stream is marked when the event has a head.
WaitNoted(t) ==
  LET s == call[t].s
      head == event_map[call[t].e]
  IN  /\ In(t, "wait")
      /\ Returns(t)
      /\ stream_map' = IF head = Null THEN MapAdded(s)
                       ELSE Put(stream_map, s, [ptr |-> head, capture |-> TRUE])
      /\ UNCHANGED <<cache, event_map, sched, device, escaped>>

-----------------------------------------------------------------------------
(* Streams come and go. *)

\* Not hooked; a handle may be used again after its stream was destroyed.
StreamCreate(s) ==
  /\ s \notin live
  /\ live' = live \cup {s}
  /\ UNCHANGED <<cache, stream_map, event_map, call, sched, capturing, recorded,
                 busy, escaped>>

\* remove_stream: the first place of the stream in the cache is closed up and
\* its entry dropped; a stream that is not in the cache keeps its entry.
Without(seq, k) == SubSeq(seq, 1, k - 1) \o SubSeq(seq, k + 1, Len(seq))
FirstOf(seq, s) == CHOOSE k \in DOMAIN seq :
                     seq[k] = s /\ \A j \in 1 .. k - 1 : seq[j] # s

\* Mutant: the stream is not removed from the cache.
DestroyKeeps(t, s) ==
  /\ Usable(s) /\ capturing[s] = Null
  /\ Admitted
  /\ Enters(t, "destroy", s, Null)
  /\ cache' = CacheAfter(s)
  /\ stream_map' = MapAfter(s)
  /\ UNCHANGED <<event_map, sched, device, escaped>>

\* rtStreamDestroy: core_limiter records the stream, then removes it.
Destroy(t, s) ==
  /\ Usable(s) /\ capturing[s] = Null
  /\ Admitted
  /\ Enters(t, "destroy", s, Null)
  /\ IF s \in Range(CacheAfter(s))
     THEN /\ cache' = Without(CacheAfter(s), FirstOf(CacheAfter(s), s))
          /\ stream_map' = [stream_map EXCEPT ![s] = Absent]
     ELSE UNCHANGED <<cache, stream_map>>
  /\ UNCHANGED <<event_map, sched, device, escaped>>

Destroyed(t) ==
  LET s == call[t].s
  IN  /\ In(t, "destroy")
      /\ Returns(t)
      /\ live' = live \ {s}
      /\ busy' = busy \ {s}
      /\ escaped' = escaped \ {s}
      /\ UNCHANGED <<cache, stream_map, event_map, sched, capturing, recorded>>

-----------------------------------------------------------------------------
(* The scheduler thread: compensate_delta_time after a slice, with the mutex. *)

CloseGate ==
  /\ spc = "slice"
  /\ spc' = "loop"
  /\ UNCHANGED <<cache, stream_map, event_map, call, i, remaining, device, escaped>>

LeaveLoop == spc' = "end" /\ i' = 1 /\ remaining' = 0

\* synchronize_and_clear_streams returns at a stream without an entry, such as
\* NULL, and leaves num_streams as it was.
Abort ==
  /\ spc = "loop" /\ i <= Len(cache)
  /\ ~Contains(cache[i])
  /\ LeaveLoop
  /\ UNCHANGED <<cache, stream_map, event_map, call, device, escaped>>

KeepCaptured ==
  /\ spc = "loop" /\ i <= Len(cache)
  /\ Contains(cache[i]) /\ stream_map[cache[i]].capture
  /\ cache' = [cache EXCEPT ![remaining + 1] = cache[i]]
  /\ remaining' = remaining + 1
  /\ i' = i + 1
  /\ UNCHANGED <<stream_map, event_map, call, spc, device, escaped>>

SyncBegin ==
  /\ spc = "loop" /\ i <= Len(cache)
  /\ Contains(cache[i]) /\ ~stream_map[cache[i]].capture
  /\ spc' = "sync"
  /\ UNCHANGED <<cache, stream_map, event_map, call, i, remaining, device, escaped>>

\* rtStreamSynchronize returns when the stream has no work left, or at once
\* with an error when it is being captured ...
SyncReturns ==
  /\ spc = "sync"
  /\ cache[i] \notin busy \/ capturing[cache[i]] # Null
  /\ spc' = "synced"
  /\ escaped' = escaped \cup ({cache[i]} \cap busy)
  /\ UNCHANGED <<cache, stream_map, event_map, call, i, remaining, device>>

\* ... and the entry is removed in both cases, with whatever was delivered on
\* the stream in between.
SyncEnd ==
  /\ spc = "synced"
  /\ stream_map' = [stream_map EXCEPT ![cache[i]] = Absent]
  /\ spc' = "loop"
  /\ i' = i + 1
  /\ UNCHANGED <<cache, event_map, call, remaining, device, escaped>>

\* Mutant: num_streams is not lowered.
ForgetNothing ==
  /\ spc = "loop" /\ i > Len(cache)
  /\ LeaveLoop
  /\ UNCHANGED <<cache, stream_map, event_map, call, device, escaped>>

Forget ==
  /\ spc = "loop" /\ i > Len(cache)
  /\ cache' = SubSeq(cache, 1, remaining)
  /\ LeaveLoop
  /\ UNCHANGED <<stream_map, event_map, call, device, escaped>>

\* The next slice.
OpenGate ==
  /\ spc = "end"
  /\ spc' = "slice"
  /\ UNCHANGED <<cache, stream_map, event_map, call, i, remaining, device, escaped>>

\* The device finishes the work of a stream.
Finish(s) ==
  /\ s \in busy
  /\ busy' = busy \ {s}
  /\ escaped' = escaped \ {s}
  /\ UNCHANGED <<cache, stream_map, event_map, call, sched, live, capturing, recorded>>

Scheduler ==
  \/ CloseGate \/ Abort \/ KeepCaptured \/ SyncBegin \/ SyncReturns \/ SyncEnd
  \/ Forget \/ OpenGate

Goes(t) ==
  \/ LaunchDelivered(t) \/ CaptureBegun(t) \/ CaptureEnded(t) \/ Unmark(t)
  \/ RecordNoted(t) \/ WaitNoted(t) \/ Destroyed(t)

Calls(t) ==
  \/ Launch(t, Null)
  \/ \E s \in Stream : \/ Launch(t, s) \/ BeginCapture(t, s) \/ EndCapture(t, s)
                        \/ Destroy(t, s)
                        \/ \E e \in Event : EventRecord(t, e, s) \/ EventWait(t, s, e)
  \/ \E e \in Event : EventCreate(t, e) \/ EventDestroy(t, e)

Next ==
  \/ Scheduler
  \/ \E t \in Thread : Calls(t) \/ Goes(t)
  \/ \E s \in Stream : StreamCreate(s) \/ Finish(s)

Spec == Init /\ [][Next]_vars

-----------------------------------------------------------------------------
\* Outside the scheduler's loop, and unless the NULL stream was launched on,
\* the cache has no stream twice and stream_map knows every stream in it, so
\* that the loop never stops half way (restore_streams, remove_stream,
\* synchronize_and_clear_streams).
CacheMapped ==
  spc \in {"slice", "end"} /\ Null \notin Range(cache) =>
    IsInjective(cache) /\ \A s \in Range(cache) : Contains(s)

\* The scheduler thread never synchronises a stream that was destroyed, although
\* it does so long after the last launch on it (remove_stream before the real
\* rtStreamDestroy).
NoSyncAfterDestroy == spc = "sync" => cache[i] \in live

\* When captures are begun on one stream only, this head stream is never
\* synchronised during a capture, which would invalidate the capture
\* (set_stream_capture before rtStreamBeginCapture and after
\* rtStreamEndCapture).
HeadNotSynced ==
  spc = "sync" /\ (\A s, u \in Heads : s = u) => capturing[cache[i]] # cache[i]

Destroying(s) == \E t \in Thread : call[t].op = "destroy" /\ call[t].s = s

\* Work that was delivered while the scheduler thread was still going to wait for
\* its stream stays on record until it has waited, whatever the hooks do without
\* the mutex meanwhile, unless the stream is destroyed or joins a capture while
\* it is synchronised ("The delivered stream needs to be recorded because the
\* execution time needs to be collected later", core_limiter).  Nothing is said
\* of work that comes too late: on a stream that an event hook met first
\* (add_stream) or that found the cache full, or by a launch that the end of the
\* slice overtook between core_limiter and the device.
WorkAccounted == \A s \in busy \ escaped : OnRecord(s) \/ Destroying(s)
-----------------------------------------------------------------------------
(***************************************************************************)
(* The inductive invariant behind these properties.                        *)
(***************************************************************************)

\* The places of the cache that the scheduler has kept or not looked at yet:
\* all of them outside its loop.
Window == 1 .. remaining \cup i .. Len(cache)

\* A hook holds its stream, and an event it uses, for itself.
CallInv ==
  /\ \A t \in Thread :
       /\ call[t].s # Null => call[t].s \in live
       /\ call[t].s = Null => call[t].op \in {"none", "launch"}
       /\ call[t].op = "none" => call[t].s = Null
       /\ call[t].op \in {"begin", "end", "ended"} => call[t].s \in Heads
       /\ call[t].op \in {"record", "wait"} =>
            call[t].e \in Event /\ event_map[call[t].e] # Absent
  /\ \A t, u \in Thread : t # u => call[t].s = Null \/ call[t].s # call[u].s

\* The loop starts at the front, has not passed a NULL, and the stream that is
\* synchronised has an entry until it is removed.
LoopInv ==
  /\ i <= Len(cache) + 1
  /\ spc \in {"slice", "end"} => i = 1 /\ remaining = 0
  /\ \A k \in 1 .. i - 1 : cache[k] # Null
  /\ spc \in {"sync", "synced"} => i <= Len(cache) /\ Contains(cache[i])

\* Without a NULL in the cache, the places of the window hold different streams,
\* each with an entry.
MappedInv ==
  (\A k \in 1 .. Len(cache) : cache[k] # Null) =>
    /\ \A k \in Window : Contains(cache[k])
    /\ \A j, k \in Window : cache[j] = cache[k] => j = k

\* A cached stream with an entry exists and is not being destroyed.
LiveInv ==
  \A k \in 1 .. Len(cache) : Contains(cache[k]) =>
    cache[k] \in live /\ ~Destroying(cache[k])

\* Captures belong to head streams.  A head is marked from before its capture
\* begins until after it has ended.
CaptureInv ==
  /\ \A s \in Stream : capturing[s] \in Heads \cup {Null}
  /\ \A e \in Event : recorded[e] \in Heads \cup {Null}
  /\ \A t \in Thread : In(t, "ended") => capturing[call[t].s] # call[t].s
  /\ (\A s, u \in Heads : s = u) =>
       \A h \in Heads :
         capturing[h] = h \/ (\E t \in Thread : In(t, "begin") /\ call[t].s = h)
           => /\ Contains(h) /\ stream_map[h].capture
              /\ ~(spc \in {"sync", "synced"} /\ cache[i] = h)

\* Recorded work is still in the window, and so is the stream of a launch on its
\* way to the device if its entry has not been removed.  The stream that is about
\* to be removed has no work but what came too late.
AccountInv ==
  /\ \A s \in busy \ escaped :
       Destroying(s) \/ (Contains(s) /\ \E k \in Window : cache[k] = s)
  /\ \A t \in Thread :
       LET s == call[t].s
       IN  In(t, "launch") /\ Contains(s) /\ (\E k \in 1 .. Len(cache) : cache[k] = s)
             => \E k \in Window : cache[k] = s
  /\ spc = "synced" => cache[i] \notin busy \ escaped

\* Every step of the hooks, the scheduler thread and the device keeps the cache
\* and stream_map consistent with each other and with the work on the device
\* (core_limiter.c, event.c, graph.c together).
CacheInv ==
  /\ TypeOK
  /\ CallInv
  /\ LoopInv
  /\ MappedInv
  /\ LiveInv
  /\ CaptureInv
  /\ AccountInv
=============================================================================
