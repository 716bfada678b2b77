--------------------------- MODULE PairCalmProofs ---------------------------
(***************************************************************************)
(* The calm machine, for every number of ranks and every number of rounds: *)
(* the ranks of an instance stay in lockstep, the pair never fails, and a   *)
(* READY instance is passed over at most once.                              *)
(***************************************************************************)
EXTENDS PairSchedProofs, PairTurns

\* Abbreviations that every proof looks through.
USE DEF turns, round, closing, held, Everyone, AfterHeartbeat, NextGrant,
        CrossRound

\* Where an opened worker can be.
Awake == {"idle", "exec"} \cup EnterPc \cup LeavePc

-----------------------------------------------------------------------------
(***************************************************************************)
(* What a step of one worker leaves alone.                                  *)
(***************************************************************************)

\* On a calm machine two workers of an instance have different ranks.
LEMMA OneSlot ==
  ASSUME StillInv, NEW c \in Ctx, NEW d \in Ctx, c # d,
         instance[c] = instance[d]
  PROVE  rank[c] # rank[d]
  BY Zenon DEF StillInv, Calm, SameSlot

\* A worker that moves to another label of enter or leave disturbs nobody's
\* slot.
LEMMA StillMoves ==
  ASSUME TypeOK, StillInv, NEW c \in Ctx, NEW l \in Awake,
         pc' = [pc EXCEPT ![c] = l], late' = {},
         UNCHANGED <<status, deadline, primary_stale, cpc, closer, session,
                     fresh, online>>
  PROVE  StillInv'
<1>1. \A d \in Ctx : pc'[d] = IF d = c THEN l ELSE pc[d]
  BY Zenon DEF TypeOK
<1>2. l \notin {"new", "gone", "dead"} \cup OpenPc
  BY Zenon DEF Awake, OpenPc, EnterPc, LeavePc
<1>3. ASSUME NEW d \in Ctx
      PROVE  /\ pc'[d] \notin {"new", "gone", "dead"} \cup OpenPc
             /\ closer'[d] = "no"
             /\ session'[instance[d]][rank[d]] = d
             /\ fresh'[instance[d]][rank[d]]
  <2>1. /\ pc[d] \notin {"new", "gone", "dead"} \cup OpenPc
        /\ closer[d] = "no"
        /\ session[instance[d]][rank[d]] = d
        /\ fresh[instance[d]][rank[d]]
    BY Zenon DEF StillInv
  <2> QED BY Zenon, <1>1, <1>2, <2>1
<1>4. \A i \in Inst : online'[i] = {k \in Rank : \E d \in Ctx : At(d, i, k)}
  BY Zenon DEF StillInv
<1>5. Calm'
  BY Zenon DEF StillInv, Calm, SameSlot
<1> QED BY Zenon, <1>3, <1>4, <1>5 DEF StillInv, At

\* A worker keeps its place when its group, its bits and its round are as they
\* were.
LEMMA PlaceKept ==
  ASSUME NEW d \in Ctx, Place(d),
         pc'[d] = pc[d], next_seq'[d] = next_seq[d],
         state'[instance[d]] = state[instance[d]],
         forward_seq'[instance[d]] = forward_seq[instance[d]],
         rank[d] \in ready'[instance[d]] <=> rank[d] \in ready[instance[d]],
         rank[d] \in complete'[instance[d]] <=>
           rank[d] \in complete[instance[d]],
         rank[d] \in exited'[instance[d]] <=> rank[d] \in exited[instance[d]]
  PROVE  Place(d)'
  BY Zenon DEF Place

\* The others stay where they are, in the same round and with the same bits.
OthersKept(c) ==
  \A d \in Ctx : d # c =>
    /\ pc'[d] = pc[d]
    /\ next_seq'[d] = next_seq[d]
    /\ active_seq'[d] = active_seq[d]
    /\ last_seq'[instance[d]][rank[d]] = last_seq[instance[d]][rank[d]]
    /\ rank[d] \in ready'[instance[d]] <=> rank[d] \in ready[instance[d]]
    /\ rank[d] \in complete'[instance[d]] <=> rank[d] \in complete[instance[d]]
    /\ rank[d] \in exited'[instance[d]] <=> rank[d] \in exited[instance[d]]

\* A mask that gains at most the bit of c.
OwnBit(mask, mask1, c) ==
  \/ mask1 = mask
  \/ mask1 = [mask EXCEPT ![instance[c]] = @ \cup {rank[c]}]

\* A slot word that changes at most for c, as do the words of a context.
OwnSlot(c) ==
  \/ last_seq' = last_seq
  \/ last_seq' = [last_seq EXCEPT ![instance[c]][rank[c]] = next_seq[c]]

OwnWord(word, word1, c) == \A d \in Ctx : d # c => word1[d] = word[d]

\* Setting one's own bit in a mask leaves the bits of the others alone.
LEMMA OwnBitKept ==
  ASSUME NEW mask \in [Inst -> SUBSET Rank], NEW mask1, NEW c \in Ctx,
         OwnBit(mask, mask1, c)
  PROVE  /\ \A i \in Inst : mask[i] \subseteq mask1[i]
         /\ \A d \in Ctx :
              (instance[d] = instance[c] => rank[d] # rank[c]) =>
                (rank[d] \in mask1[instance[d]] <=> rank[d] \in mask[instance[d]])
<1>1. CASE mask1 = mask
  BY Zenon, <1>1, CtxAssumption
<1>2. CASE mask1 = [mask EXCEPT ![instance[c]] = @ \cup {rank[c]}]
  <2>1. \A i \in Inst :
          mask1[i] = IF i = instance[c] THEN mask[i] \cup {rank[c]} ELSE mask[i]
    BY Zenon, <1>2
  <2> QED BY Zenon, <2>1, CtxAssumption
<1> QED BY Zenon, <1>1, <1>2 DEF OwnBit

\* Nor does the round stored in one's own slot touch the slots of the others.
LEMMA OwnSlotKept ==
  ASSUME TypeOK, StillInv, NEW c \in Ctx, OwnSlot(c), NEW d \in Ctx, d # c
  PROVE  last_seq'[instance[d]][rank[d]] = last_seq[instance[d]][rank[d]]
<1>1. /\ instance[c] \in Inst /\ rank[c] \in Rank
      /\ instance[d] \in Inst /\ rank[d] \in Rank
      /\ last_seq \in [Inst -> [Rank -> Nat]]
  BY Zenon, CtxAssumption DEF TypeOK
<1>2. instance[d] # instance[c] \/ rank[d] # rank[c]
  BY Zenon, OneSlot
<1>3. CASE last_seq' = [last_seq EXCEPT ![instance[c]][rank[c]] = next_seq[c]]
  <2>1. CASE instance[d] # instance[c] BY Zenon, <1>1, <1>3, <2>1
  <2>2. CASE instance[d] = instance[c] /\ rank[d] # rank[c]
    BY Zenon, <1>1, <1>3, <2>2
  <2> QED BY Zenon, <1>2, <2>1, <2>2
<1> QED BY Zenon, <1>3 DEF OwnSlot

\* What a worker does to its own slot, context and bits, the others do not see.
LEMMA OthersKeep ==
  ASSUME TypeOK, StillInv, NEW c \in Ctx, NEW l, pc' = [pc EXCEPT ![c] = l],
         OwnWord(next_seq, next_seq', c), OwnWord(active_seq, active_seq', c),
         OwnSlot(c), OwnBit(ready, ready', c),
         OwnBit(complete, complete', c), OwnBit(exited, exited', c)
  PROVE  /\ OthersKept(c)
         /\ \A i \in Inst : ready[i] \subseteq ready'[i]
         /\ \A i \in Inst : exited[i] \subseteq exited'[i]
<1>1. \A d \in Ctx : d # c => pc'[d] = pc[d]
  BY Zenon DEF TypeOK
<1>2. \A d \in Ctx : d # c /\ instance[d] = instance[c] => rank[d] # rank[c]
  BY Zenon, OneSlot
<1>3. ASSUME NEW d \in Ctx, d # c
      PROVE  last_seq'[instance[d]][rank[d]] = last_seq[instance[d]][rank[d]]
  BY Zenon, <1>3, OwnSlotKept
<1>4. /\ ready \in [Inst -> SUBSET Rank]
      /\ complete \in [Inst -> SUBSET Rank]
      /\ exited \in [Inst -> SUBSET Rank]
  BY Zenon DEF TypeOK
<1>5. /\ \A i \in Inst : ready[i] \subseteq ready'[i]
      /\ \A d \in Ctx : d # c =>
           (rank[d] \in ready'[instance[d]] <=> rank[d] \in ready[instance[d]])
  BY Zenon, <1>2, <1>4, OwnBitKept
<1>6. \A d \in Ctx : d # c => (rank[d] \in complete'[instance[d]] <=>
                               rank[d] \in complete[instance[d]])
  BY Zenon, <1>2, <1>4, OwnBitKept
<1>7. /\ \A i \in Inst : exited[i] \subseteq exited'[i]
      /\ \A d \in Ctx : d # c =>
           (rank[d] \in exited'[instance[d]] <=> rank[d] \in exited[instance[d]])
  BY Zenon, <1>2, <1>4, OwnBitKept
<1> QED BY Zenon, <1>1, <1>3, <1>5, <1>6, <1>7 DEF OthersKept, OwnWord

\* A worker that moves within the round of its group: the group keeps its
\* state, and only the label and the bits of that worker matter.
LEMMA Moves ==
  ASSUME TypeOK', LockstepInv, NEW c \in Ctx, OthersKept(c),
         \A i \in Inst : ready[i] \subseteq ready'[i],
         \A i \in Inst : exited[i] \subseteq exited'[i],
         UNCHANGED <<state, forward_seq, owner, cpc, online>>,
         StillInv', Place(c)', InRound(c)', online[instance[c]] = Rank,
         pc'[c] # "init",
         pc'[c] = "publish" =>
           ready'[instance[c]] = Rank /\ ready[instance[c]] # Rank,
         pc'[c] = "reset" =>
           exited'[instance[c]] = Rank /\ exited[instance[c]] # Rank
  PROVE  LockstepInv'
<1>0. /\ StillInv /\ AloneInv /\ WholeInv
      /\ \A d \in Ctx : Place(d) /\ InRound(d)
  BY Zenon DEF LockstepInv
<1>1. \A d \in Ctx : Place(d)' /\ InRound(d)'
  <2>1. ASSUME NEW d \in Ctx, d # c PROVE Place(d)'
    BY Zenon, <1>0, <2>1, PlaceKept DEF OthersKept
  <2>2. ASSUME NEW d \in Ctx, d # c PROVE InRound(d)'
    BY Zenon, <1>0, <2>2 DEF OthersKept, InRound
  <2> QED BY Zenon, <2>1, <2>2
<1>2. ASSUME NEW d \in Ctx, pc'[d] = "publish"
      PROVE  ready'[instance[d]] = Rank
  <2>1. instance[d] \in Inst /\ ready'[instance[d]] \subseteq Rank
    BY Zenon, CtxAssumption DEF TypeOK
  <2>2. d # c => ready[instance[d]] = Rank
    BY Zenon, <1>0, <1>2 DEF AloneInv, OthersKept
  <2> QED BY Zenon, <1>2, <2>1, <2>2
<1>3. ASSUME NEW d \in Ctx, pc'[d] = "reset"
      PROVE  exited'[instance[d]] = Rank
  <2>1. instance[d] \in Inst /\ exited'[instance[d]] \subseteq Rank
    BY Zenon, CtxAssumption DEF TypeOK
  <2>2. d # c => exited[instance[d]] = Rank
    BY Zenon, <1>0, <1>3 DEF AloneInv, OthersKept
  <2> QED BY Zenon, <1>3, <2>1, <2>2
<1>4. ASSUME NEW d \in Ctx, d # c, instance[d] = instance[c], pc'[d] = pc'[c]
      PROVE  pc'[c] \notin {"init", "publish", "reset"}
  <2>1. pc[d] = pc'[c]
    BY Zenon, <1>4 DEF OthersKept
  <2>2. pc'[c] # "publish"
    BY Zenon, <1>0, <1>4, <2>1 DEF AloneInv
  <2>3. pc'[c] # "reset"
    BY Zenon, <1>0, <1>4, <2>1 DEF AloneInv
  <2> QED BY Zenon, <2>2, <2>3
<1>5. AloneInv'
  <2>1. ASSUME NEW d \in Ctx, NEW e \in Ctx, d # e, instance[d] = instance[e],
               pc'[d] = pc'[e], pc'[d] \in {"init", "publish", "reset"}
        PROVE  FALSE
    <3>1. CASE d # c /\ e # c
      <4>1. pc'[d] = pc[d] /\ pc'[e] = pc[e]
        BY Zenon, <3>1 DEF OthersKept
      <4> QED BY Zenon, <1>0, <2>1, <4>1 DEF AloneInv
    <3>2. CASE d = c \/ e = c BY Zenon, <1>4, <2>1, <3>2
    <3> QED BY Zenon, <3>1, <3>2
  <2> QED BY Zenon, <1>2, <1>3, <2>1 DEF AloneInv
<1>6. WholeInv'
  <2>1. ASSUME NEW d \in Ctx, pc'[d] # "idle" PROVE online'[instance[d]] = Rank
    <3>1. CASE d = c BY Zenon, <3>1
    <3>2. CASE d # c BY Zenon, <1>0, <2>1, <3>2 DEF WholeInv, OthersKept
    <3> QED BY Zenon, <3>1, <3>2
  <2> QED BY Zenon, <1>0, <2>1 DEF WholeInv
<1> QED BY Zenon, <1>1, <1>5, <1>6 DEF LockstepInv

\* The same, from what the action assigns.
LEMMA MoveTo ==
  ASSUME TypeOK, TypeOK', LockstepInv, NEW c \in Ctx, NEW l \in Awake,
         pc' = [pc EXCEPT ![c] = l],
         UNCHANGED <<status, deadline, primary_stale, cpc, closer, session,
                     fresh, online, late, state, forward_seq, owner>>,
         OwnWord(next_seq, next_seq', c), OwnWord(active_seq, active_seq', c),
         OwnSlot(c), OwnBit(ready, ready', c),
         OwnBit(complete, complete', c), OwnBit(exited, exited', c),
         Place(c)', InRound(c)', online[instance[c]] = Rank,
         l # "init",
         l = "publish" =>
           ready'[instance[c]] = Rank /\ ready[instance[c]] # Rank,
         l = "reset" =>
           exited'[instance[c]] = Rank /\ exited[instance[c]] # Rank
  PROVE  LockstepInv'
<1>1. StillInv /\ late' = {}
  BY Zenon DEF LockstepInv, StillInv
<1>2. StillInv'
  BY Zenon, <1>1, StillMoves
<1>3. /\ OthersKept(c)
      /\ \A i \in Inst : ready[i] \subseteq ready'[i]
      /\ \A i \in Inst : exited[i] \subseteq exited'[i]
  BY Zenon, <1>1, OthersKeep
<1>4. pc'[c] = l
  BY Zenon DEF TypeOK
<1> QED BY Zenon, <1>2, <1>3, <1>4, Moves

\* What holds of a worker on a calm machine, in the form the actions need it.
LEMMA Known ==
  ASSUME IInv, LockstepInv, NEW c \in Ctx
  PROVE  /\ TypeOK
         /\ Place(c) /\ InRound(c)
         /\ status = "RUNNING" /\ deadline # "passed" /\ ~primary_stale
         /\ ~Stopping(c)
         /\ session[instance[c]][rank[c]] = c
         /\ instance[c] \in Inst /\ rank[c] \in Rank
         /\ pc[c] # "idle" => online[instance[c]] = Rank
<1>1. StillInv /\ WholeInv /\ Place(c) /\ InRound(c) /\ TypeOK
  BY Zenon DEF IInv, LockstepInv
<1>2. closer[c] = "no" /\ session[instance[c]][rank[c]] = c
  BY Zenon, <1>1 DEF StillInv
<1>3. status = "RUNNING" /\ deadline # "passed" /\ ~primary_stale
  BY Zenon, <1>1 DEF StillInv
<1> QED BY Zenon, <1>1, <1>2, <1>3, CtxAssumption DEF WholeInv, Stopping

-----------------------------------------------------------------------------
(***************************************************************************)
(* ps_enter_forward, within a round.                                        *)
(***************************************************************************)

\* Wherever a worker stands when the engine sends the next step, its next
\* round is the round its group will open or has opened.
LEMMA EnterBeginCalm ==
  ASSUME IInv, LockstepInv, TypeOK', NEW c \in Ctx, EnterBegin(c)
  PROVE  LockstepInv'
<1> USE Known
<1>1. /\ pc[c] = "idle"
      /\ pc' = [pc EXCEPT ![c] = "claim"]
      /\ next_seq' = [next_seq EXCEPT ![c] = @ + 1]
      /\ UNCHANGED <<shared, group, slots, closing, active_seq, coord>>
      /\ active_seq[c] = 0
  BY Zenon DEF EnterBegin, MayEnter, Goto
<1>2. online[instance[c]] = Rank
  BY Zenon DEF EnterBegin, MayEnter, LockstepInv, StillInv, Calm
<1>3. pc'[c] = "claim" /\ next_seq'[c] = next_seq[c] + 1
  BY Zenon, <1>1 DEF TypeOK
<1>4. Place(c)'
  BY Zenon, <1>1, <1>3 DEF Place, TypeOK, group
<1>5. InRound(c)'
  BY Zenon, <1>1, <1>3 DEF InRound
<1>6. OwnWord(next_seq, next_seq', c)
  BY Zenon, <1>1 DEF OwnWord, TypeOK
<1>7. "claim" \in Awake
  BY Zenon DEF Awake, EnterPc
<1> QED
  BY Zenon, <1>1, <1>2, <1>4, <1>5, <1>6, <1>7, MoveTo
     DEF shared, group, slots, coord, OwnWord, OwnSlot, OwnBit

\* A worker that only moves to another label.
LEMMA Relabel ==
  ASSUME IInv, LockstepInv, TypeOK', NEW c \in Ctx, NEW l \in Awake,
         pc[c] # "idle", l \notin {"init", "publish", "reset"},
         pc' = [pc EXCEPT ![c] = l],
         UNCHANGED <<status, deadline, primary_stale, owner, cpc, group, slots,
                     closer, next_seq, active_seq>>,
         Place(c)', InRound(c)'
  PROVE  LockstepInv'
  BY Zenon, Known, MoveTo DEF group, slots, OwnWord, OwnSlot, OwnBit

\* A worker finds its group COLLECTING its own round.
LEMMA MatchCalm ==
  ASSUME IInv, LockstepInv, TypeOK', NEW c \in Ctx, Match(c)
  PROVE  LockstepInv'
<1> USE Known
<1>1. pc[c] = "match" /\ forward_seq[instance[c]] = next_seq[c]
  BY Zenon DEF Match, Place
<1>2. /\ pc' = [pc EXCEPT ![c] = "ready"]
      /\ last_seq' = [last_seq EXCEPT ![instance[c]][rank[c]] = next_seq[c]]
      /\ UNCHANGED <<status, turns, group, session, fresh, closing, held, coord>>
  BY Zenon, <1>1 DEF Match, Goto
<1>3. pc'[c] = "ready" /\ last_seq'[instance[c]][rank[c]] = next_seq[c]
  BY <1>2 DEF TypeOK
<1>4. Place(c)'
  BY Zenon, <1>1, <1>2, <1>3 DEF Place, group
<1>5. InRound(c)'
  BY Zenon, <1>1, <1>2, <1>3 DEF InRound
<1>6. "ready" \in Awake
  BY Zenon DEF Awake, EnterPc
<1> QED
  BY Zenon, <1>1, <1>2, <1>4, <1>5, <1>6, MoveTo
     DEF group, coord, OwnWord, OwnSlot, OwnBit

\* The READY bit of a worker is not yet set when the worker sets it.
LEMMA SetReadyCalm ==
  ASSUME IInv, LockstepInv, TypeOK', NEW c \in Ctx, SetReady(c)
  PROVE  LockstepInv'
<1> USE Known
<1> DEFINE i == instance[c]
           l == IF ready'[i] = Rank THEN "publish" ELSE "await"
<1>1. /\ pc[c] = "ready" /\ rank[c] \notin ready[i] /\ state[i] = "COLLECTING"
      /\ next_seq[c] = forward_seq[i]
  BY Zenon DEF SetReady, Place
<1>2. /\ pc' = [pc EXCEPT ![c] = l]
      /\ ready' = [ready EXCEPT ![i] = @ \cup {rank[c]}]
      /\ UNCHANGED <<status, turns, state, forward_seq, complete, exited,
                     online, late, slots, closing, held, coord>>
  BY Zenon, <1>1 DEF SetReady, Goto
<1> HIDE DEF l
<1>3. pc'[c] = l /\ rank[c] \in ready'[i]
  BY Zenon, <1>2 DEF TypeOK
<1>4. /\ l \in {"publish", "await"}
      /\ l = "publish" => ready'[i] = Rank /\ ready[i] # Rank
  BY Zenon, <1>1 DEF l
<1>5. Place(c)'
  BY Zenon, <1>1, <1>2, <1>3, <1>4 DEF Place
<1>6. InRound(c)'
  BY Zenon, <1>1, <1>2, <1>3, <1>4 DEF InRound, slots
<1>7. l \in Awake
  BY Zenon, <1>4 DEF Awake, EnterPc
<1>8. l # "init" /\ l # "reset"
  BY Zenon, <1>4
<1> HIDE DEF i
<1> QED
  BY Zenon, <1>1, <1>2, <1>4, <1>5, <1>6, <1>7, <1>8, MoveTo
     DEF slots, coord, OwnWord, OwnSlot, OwnBit, i

\* The primary is alive and the pair runs: the worker looks at the group next.
LEMMA AwaitCalm ==
  ASSUME IInv, LockstepInv, TypeOK', NEW c \in Ctx, Await(c)
  PROVE  LockstepInv'
<1> USE Known
<1>1. /\ pc[c] = "await"
      /\ pc' = [pc EXCEPT ![c] = "poll"]
      /\ UNCHANGED <<status, turns, group, slots, closing, held, coord>>
  BY Zenon DEF Await, Goto
<1>2. pc'[c] = "poll"
  BY Zenon, <1>1 DEF TypeOK
<1>3. Place(c)'
  BY Zenon, <1>1, <1>2 DEF Place, group
<1>4. InRound(c)'
  BY Zenon, <1>1, <1>2 DEF InRound, slots
<1>5. "poll" \in Awake
  BY Zenon DEF Awake, EnterPc
<1> QED BY Zenon, <1>1, <1>3, <1>4, <1>5, Relabel DEF coord

\* A waiting worker finds its own round, and its slot is its own when the grant
\* comes.
LEMMA PollCalm ==
  ASSUME IInv, LockstepInv, TypeOK', NEW c \in Ctx, Poll(c)
  PROVE  LockstepInv'
<1> USE Known
<1> DEFINE i == instance[c]
<1>1. /\ pc[c] = "poll"
      /\ next_seq[c] = forward_seq[i]
      /\ state[i] \in {"COLLECTING", "READY", "RUNNING"}
  BY Zenon DEF Poll, Place
<1>2. ValidLocalWorker(c, next_seq[c])
  BY Zenon, <1>1 DEF ValidLocalWorker, InRound
<1>3. /\ UNCHANGED <<status, turns, group, slots, closing, next_seq, coord>>
      /\ \/ /\ state[i] = "RUNNING"
            /\ active_seq' = [active_seq EXCEPT ![c] = next_seq[c]]
            /\ pc' = [pc EXCEPT ![c] = "exec"]
         \/ active_seq' = active_seq /\ pc' = [pc EXCEPT ![c] = "await"]
  BY Zenon, <1>1, <1>2 DEF Poll, Goto
<1>4. CASE active_seq' = active_seq /\ pc' = [pc EXCEPT ![c] = "await"]
  <2>1. pc'[c] = "await"
    BY Zenon, <1>4 DEF TypeOK
  <2>2. Place(c)'
    BY Zenon, <1>1, <1>3, <2>1 DEF Place, group
  <2>3. InRound(c)'
    BY Zenon, <1>1, <1>3, <1>4, <2>1 DEF InRound, slots
  <2>4. "await" \in Awake
    BY Zenon DEF Awake, EnterPc
  <2> QED BY Zenon, <1>1, <1>3, <1>4, <2>2, <2>3, <2>4, Relabel DEF coord
<1>5. CASE /\ state[i] = "RUNNING"
           /\ active_seq' = [active_seq EXCEPT ![c] = next_seq[c]]
           /\ pc' = [pc EXCEPT ![c] = "exec"]
  <2>1. pc'[c] = "exec" /\ active_seq'[c] = next_seq[c]
    BY Zenon, <1>5 DEF TypeOK
  <2>2. Place(c)'
    BY Zenon, <1>1, <1>3, <1>5, <2>1 DEF Place, group
  <2>3. InRound(c)'
    BY Zenon, <1>1, <1>3, <2>1 DEF InRound, slots
  <2>4. "exec" \in Awake
    BY Zenon DEF Awake
  <2>5. OwnWord(active_seq, active_seq', c)
    BY Zenon, <1>5 DEF OwnWord, TypeOK
  <2> QED
    BY Zenon, <1>1, <1>3, <1>5, <2>2, <2>3, <2>4, <2>5, MoveTo
       DEF group, slots, coord, OwnWord, OwnSlot, OwnBit
<1> QED BY Zenon, <1>3, <1>4, <1>5

-----------------------------------------------------------------------------
(***************************************************************************)
(* ps_leave_forward, within a round.                                        *)
(***************************************************************************)

\* The deadline has not passed when the forward ends.
LEMMA LeaveBeginCalm ==
  ASSUME IInv, LockstepInv, TypeOK', NEW c \in Ctx, LeaveBegin(c)
  PROVE  LockstepInv'
<1> USE Known
<1>1. /\ pc[c] = "exec"
      /\ pc' = [pc EXCEPT ![c] = "fence"]
      /\ UNCHANGED <<status, turns, group, slots, closing, held, coord>>
  BY Zenon DEF LeaveBegin, Goto
<1>2. pc'[c] = "fence"
  BY Zenon, <1>1 DEF TypeOK
<1>3. Place(c)'
  BY Zenon, <1>1, <1>2 DEF Place, group
<1>4. InRound(c)'
  BY Zenon, <1>1, <1>2 DEF InRound, slots
<1>5. "fence" \in Awake
  BY Zenon DEF Awake, LeavePc
<1> QED BY Zenon, <1>1, <1>3, <1>4, <1>5, Relabel DEF coord

\* The round, the grant and the slot are the ones the worker entered with.
LEMMA FenceCalm ==
  ASSUME IInv, LockstepInv, TypeOK', NEW c \in Ctx, Fence(c)
  PROVE  LockstepInv'
<1> USE Known
<1> DEFINE i == instance[c]
<1>1. /\ pc[c] = "fence"
      /\ state[i] = "RUNNING" /\ rank[c] \notin complete[i]
      /\ next_seq[c] = forward_seq[i]
  BY Zenon DEF Fence, Place
<1>2. active_seq[c] = next_seq[c] /\ last_seq[i][rank[c]] = next_seq[c]
  BY Zenon, <1>1 DEF InRound
<1>3. owner = i /\ grant_id[i] = active_grant_id[c]
  BY Zenon, <1>1 DEF IInv, EngagedInv, Engaged, Executing, GrantInv
<1>4. /\ pc' = [pc EXCEPT ![c] = "finish"]
      /\ UNCHANGED <<status, turns, group, slots, closing, held, coord>>
  BY Zenon, <1>1, <1>2, <1>3 DEF Fence, Goto, ValidLocalWorker
<1>5. pc'[c] = "finish"
  BY Zenon, <1>4 DEF TypeOK
<1>6. Place(c)'
  BY Zenon, <1>1, <1>4, <1>5 DEF Place, group
<1>7. InRound(c)'
  BY Zenon, <1>2, <1>4, <1>5 DEF InRound, slots
<1>8. "finish" \in Awake
  BY Zenon DEF Awake, LeavePc
<1> QED BY Zenon, <1>1, <1>4, <1>6, <1>7, <1>8, Relabel DEF coord

\* The COMPLETE bit of a worker is not yet set when the worker sets it.
LEMMA SetCompleteCalm ==
  ASSUME IInv, LockstepInv, TypeOK', NEW c \in Ctx, SetComplete(c)
  PROVE  LockstepInv'
<1> USE Known
<1> DEFINE i == instance[c]
           l == IF complete'[i] = Rank THEN "complete" ELSE "drain"
<1>1. /\ pc[c] = "finish" /\ rank[c] \notin complete[i] /\ state[i] = "RUNNING"
      /\ next_seq[c] = forward_seq[i]
  BY Zenon DEF SetComplete, Place
<1>2. /\ pc' = [pc EXCEPT ![c] = l]
      /\ complete' = [complete EXCEPT ![i] = @ \cup {rank[c]}]
      /\ UNCHANGED <<status, turns, state, forward_seq, ready, exited,
                     online, late, slots, closing, held, coord>>
  BY Zenon, <1>1 DEF SetComplete, Goto
<1> HIDE DEF l
<1>3. pc'[c] = l /\ rank[c] \in complete'[i]
  BY Zenon, <1>2 DEF TypeOK
<1>4. l \in {"complete", "drain"}
  BY Zenon DEF l
<1>5. Place(c)'
  BY Zenon, <1>1, <1>2, <1>3, <1>4 DEF Place
<1>6. InRound(c)'
  BY Zenon, <1>1, <1>2, <1>3, <1>4 DEF InRound, slots
<1>7. l \in Awake
  BY Zenon, <1>4 DEF Awake, LeavePc
<1>8. l \notin {"init", "publish", "reset"}
  BY Zenon, <1>4
<1> HIDE DEF i
<1> QED
  BY Zenon, <1>1, <1>2, <1>5, <1>6, <1>7, <1>8, MoveTo
     DEF slots, coord, OwnWord, OwnSlot, OwnBit, i

\* The pair runs: the worker looks for DRAINING next.
LEMMA DrainCalm ==
  ASSUME IInv, LockstepInv, TypeOK', NEW c \in Ctx, Drain(c)
  PROVE  LockstepInv'
<1> USE Known
<1>1. /\ pc[c] = "drain"
      /\ pc' = [pc EXCEPT ![c] = "exit"]
      /\ UNCHANGED <<shared, group, slots, closing, held, coord>>
  BY Zenon DEF Drain, Goto
<1>2. pc'[c] = "exit"
  BY Zenon, <1>1 DEF TypeOK
<1>3. Place(c)'
  BY Zenon, <1>1, <1>2 DEF Place, group
<1>4. InRound(c)'
  BY Zenon, <1>1, <1>2 DEF InRound, slots
<1>5. "exit" \in Awake
  BY Zenon DEF Awake, LeavePc
<1> QED BY Zenon, <1>1, <1>3, <1>4, <1>5, Relabel DEF shared, coord

\* A worker leaves its own round, and one of them is the last.
LEMMA ExitCalm ==
  ASSUME IInv, LockstepInv, TypeOK', NEW c \in Ctx, Exit(c)
  PROVE  LockstepInv'
<1> USE Known
<1> DEFINE i == instance[c]
           l == IF exited[i] \cup {rank[c]} = Rank THEN "reset" ELSE "idle"
<1>1. /\ pc[c] = "exit"
      /\ next_seq[c] = forward_seq[i] /\ active_seq[c] = forward_seq[i]
      /\ \/ state[i] = "RUNNING" /\ rank[c] \in complete[i]
         \/ state[i] = "COMPLETE"
         \/ state[i] = "DRAINING" /\ rank[c] \notin exited[i]
  <2>1. pc[c] = "exit" BY Zenon DEF Exit
  <2>2. active_seq[c] = next_seq[c] BY Zenon, <2>1 DEF InRound
  <2> QED BY Zenon, <2>1, <2>2 DEF Place
<1>2. /\ UNCHANGED <<status, turns, state, forward_seq, ready, complete,
                     online, late, slots, closing, next_seq, coord>>
      /\ \/ /\ state[i] = "DRAINING"
            /\ exited' = [exited EXCEPT ![i] = @ \cup {rank[c]}]
            /\ pc' = [pc EXCEPT ![c] = l]
            /\ active_seq' = [active_seq EXCEPT ![c] = 0]
         \/ /\ state[i] \in {"RUNNING", "COMPLETE"}
            /\ pc' = [pc EXCEPT ![c] = "drain"]
            /\ UNCHANGED <<exited, active_seq>>
  BY Zenon, <1>1 DEF Exit, Goto
<1> HIDE DEF l
<1>3. CASE /\ state[i] \in {"RUNNING", "COMPLETE"}
           /\ pc' = [pc EXCEPT ![c] = "drain"]
           /\ UNCHANGED <<exited, active_seq>>
  <2>1. pc'[c] = "drain"
    BY Zenon, <1>3 DEF TypeOK
  <2>2. Place(c)'
    BY Zenon, <1>1, <1>2, <1>3, <2>1 DEF Place
  <2>3. InRound(c)'
    BY Zenon, <1>1, <1>2, <1>3, <2>1 DEF InRound, slots
  <2>4. "drain" \in Awake
    BY Zenon DEF Awake, LeavePc
  <2> QED
    BY Zenon, <1>1, <1>2, <1>3, <2>2, <2>3, <2>4, MoveTo
       DEF slots, coord, OwnWord, OwnSlot, OwnBit
<1>4. CASE /\ state[i] = "DRAINING"
           /\ exited' = [exited EXCEPT ![i] = @ \cup {rank[c]}]
           /\ pc' = [pc EXCEPT ![c] = l]
           /\ active_seq' = [active_seq EXCEPT ![c] = 0]
  <2>1. /\ pc'[c] = l /\ active_seq'[c] = 0
        /\ exited'[i] = exited[i] \cup {rank[c]}
    BY Zenon, <1>4 DEF TypeOK
  <2>2. /\ l \in {"reset", "idle"}
        /\ l = "reset" => exited'[i] = Rank /\ exited[i] # Rank
    BY Zenon, <1>1, <1>4, <2>1 DEF l
  <2>3. rank[c] \in exited'[i]
    BY Zenon, <2>1
  <2>4. Place(c)'
    BY Zenon, <1>1, <1>2, <1>4, <2>1, <2>2, <2>3 DEF Place
  <2>5. InRound(c)'
    BY Zenon, <1>2, <2>1, <2>2 DEF InRound, slots
  <2>6. l \in Awake
    BY Zenon, <2>2 DEF Awake, LeavePc
  <2>7. l # "init" /\ l # "publish"
    BY Zenon, <2>2
  <2>8. OwnWord(active_seq, active_seq', c)
    BY Zenon, <1>4 DEF OwnWord, TypeOK
  <2> HIDE DEF i
  <2> QED
    BY Zenon, <1>1, <1>2, <1>4, <2>2, <2>4, <2>5, <2>6, <2>7, <2>8, MoveTo
       DEF slots, coord, OwnWord, OwnSlot, OwnBit, i
<1> QED BY Zenon, <1>2, <1>3, <1>4

-----------------------------------------------------------------------------
(***************************************************************************)
(* The steps of a worker that change the state of its group.                *)
(***************************************************************************)

\* The other contexts, and the other group, stay as they are.
ContextsKept(c) ==
  \A d \in Ctx : d # c =>
    /\ pc'[d] = pc[d]
    /\ next_seq'[d] = next_seq[d]
    /\ active_seq'[d] = active_seq[d]
    /\ last_seq'[instance[d]][rank[d]] = last_seq[instance[d]][rank[d]]

GroupKept(j) ==
  /\ state'[j] = state[j]
  /\ forward_seq'[j] = forward_seq[j]
  /\ ready'[j] = ready[j]
  /\ complete'[j] = complete[j]
  /\ exited'[j] = exited[j]

\* A worker that changes the state of its group, once its instance is known to
\* be in place.
LEMMA GroupMoves ==
  ASSUME IInv, LockstepInv, StillInv', NEW c \in Ctx,
         ContextsKept(c),
         \A j \in Inst : j # instance[c] => GroupKept(j),
         \A d \in Ctx : instance[d] = instance[c] =>
           /\ Place(d)'
           /\ pc'[d] \notin {"publish", "reset"}
           /\ d # c => pc[d] # "init",
         InRound(c)',
         online[instance[c]] = Rank,
         UNCHANGED <<online, owner, cpc>>,
         owner = instance[c] /\ cpc = "drain" =>
           state'[instance[c]] = "COMPLETE"
  PROVE  LockstepInv'
<1>0. /\ AloneInv /\ WholeInv /\ CoordInv
      /\ \A d \in Ctx : Place(d) /\ InRound(d)
      /\ \A d \in Ctx : instance[d] \in Inst
  BY Zenon, CtxAssumption DEF LockstepInv, IInv
<1>1. ASSUME NEW d \in Ctx PROVE Place(d)'
  <2>1. CASE instance[d] # instance[c]
    <3>1. pc'[d] = pc[d] /\ next_seq'[d] = next_seq[d]
      BY Zenon, <2>1 DEF ContextsKept
    <3> QED BY Zenon, <1>0, <2>1, <3>1, PlaceKept DEF GroupKept
  <2> QED BY Zenon, <2>1
<1>2. ASSUME NEW d \in Ctx PROVE InRound(d)'
  <2>1. CASE d # c
    BY ZenonT(40), <1>0, <2>1 DEF ContextsKept, InRound
  <2> QED BY Zenon, <2>1
<1>3. ASSUME NEW d \in Ctx, instance[d] # instance[c]
      PROVE  pc'[d] = pc[d] /\ GroupKept(instance[d])
  BY Zenon, <1>0, <1>3 DEF ContextsKept
<1>4. AloneInv'
  <2>1. ASSUME NEW d \in Ctx, pc'[d] = "publish"
        PROVE  ready'[instance[d]] = Rank
    <3>1. instance[d] # instance[c] BY Zenon, <2>1
    <3>2. pc[d] = "publish" /\ ready'[instance[d]] = ready[instance[d]]
      BY Zenon, <1>3, <2>1, <3>1 DEF GroupKept
    <3> QED BY Zenon, <1>0, <3>2 DEF AloneInv
  <2>2. ASSUME NEW d \in Ctx, pc'[d] = "reset"
        PROVE  exited'[instance[d]] = Rank
    <3>1. instance[d] # instance[c] BY Zenon, <2>2
    <3>2. pc[d] = "reset" /\ exited'[instance[d]] = exited[instance[d]]
      BY Zenon, <1>3, <2>2, <3>1 DEF GroupKept
    <3> QED BY Zenon, <1>0, <3>2 DEF AloneInv
  <2>3. ASSUME NEW d \in Ctx, NEW e \in Ctx, d # e, instance[d] = instance[e],
               pc'[d] = pc'[e], pc'[d] \in {"init", "publish", "reset"}
        PROVE  FALSE
    <3>1. CASE instance[d] # instance[c]
      BY Zenon, <1>0, <1>3, <2>3, <3>1 DEF AloneInv
    <3>2. CASE instance[d] = instance[c]
      <4>1. pc'[d] = "init" /\ pc'[e] = "init"
        BY Zenon, <2>3, <3>2
      <4>2. \A e1 \in Ctx : instance[e1] = instance[c] /\ e1 # c =>
              pc'[e1] # "init"
        BY Zenon DEF ContextsKept
      <4> QED BY Zenon, <2>3, <3>2, <4>1, <4>2
    <3> QED BY Zenon, <3>1, <3>2
  <2> QED BY Zenon, <2>1, <2>2, <2>3 DEF AloneInv
<1>5. WholeInv'
  <2>1. ASSUME NEW d \in Ctx, pc'[d] # "idle" PROVE online'[instance[d]] = Rank
    <3>1. CASE instance[d] # instance[c]
      BY Zenon, <1>0, <1>3, <2>1, <3>1 DEF WholeInv
    <3> QED BY Zenon, <3>1
  <2>2. ASSUME NEW j \in Inst, state'[j] \notin {"IDLE", "OFFLINE"}
        PROVE  online'[j] = Rank
    <3>1. CASE j # instance[c]
      BY Zenon, <1>0, <2>2, <3>1 DEF WholeInv, GroupKept
    <3> QED BY Zenon, <3>1
  <2>3. ASSUME cpc' = "drain" PROVE state'[owner'] = "COMPLETE"
    BY Zenon, <1>0, <2>3 DEF WholeInv, CoordInv, GroupKept
  <2> QED BY Zenon, <2>1, <2>2, <2>3 DEF WholeInv
<1> QED BY Zenon, <1>1, <1>2, <1>4, <1>5 DEF LockstepInv

\* What the words of a worker that moves leave alone.
LEMMA ContextsKeep ==
  ASSUME TypeOK, StillInv, NEW c \in Ctx, NEW l, pc' = [pc EXCEPT ![c] = l],
         next_seq' = next_seq, active_seq' = active_seq, OwnSlot(c)
  PROVE  ContextsKept(c)
<1>1. \A d \in Ctx : d # c => pc'[d] = pc[d]
  BY Zenon DEF TypeOK
<1>2. ASSUME NEW d \in Ctx, d # c
      PROVE  last_seq'[instance[d]][rank[d]] = last_seq[instance[d]][rank[d]]
  BY Zenon, <1>2, OwnSlotKept
<1> QED BY Zenon, <1>1, <1>2 DEF ContextsKept

\* The table read by the state of the group: between rounds,
LEMMA StandsOutside ==
  ASSUME NEW d \in Ctx, Place(d),
         \/ state[instance[d]] = "IDLE"
         \/ state[instance[d]] = "INITIALIZING" /\ pc[d] # "init"
  PROVE  \/ pc[d] = "idle" /\ next_seq[d] = forward_seq[instance[d]]
         \/ pc[d] = "claim" /\ next_seq[d] = forward_seq[instance[d]] + 1
  BY Zenon DEF Place

\* with the READY bit set,
LEMMA StandsReady ==
  ASSUME NEW d \in Ctx, Place(d),
         \/ /\ state[instance[d]] = "COLLECTING"
            /\ rank[d] \in ready[instance[d]] /\ pc[d] # "publish"
         \/ state[instance[d]] = "READY"
  PROVE  pc[d] \in {"await", "poll"} /\ next_seq[d] = forward_seq[instance[d]]
  BY Zenon DEF Place

\* with the COMPLETE bit set,
LEMMA StandsComplete ==
  ASSUME NEW d \in Ctx, Place(d),
         \/ /\ state[instance[d]] = "RUNNING"
            /\ rank[d] \in complete[instance[d]] /\ pc[d] # "complete"
         \/ state[instance[d]] = "COMPLETE"
  PROVE  pc[d] \in {"drain", "exit"} /\ next_seq[d] = forward_seq[instance[d]]
  BY Zenon DEF Place

\* and with the EXIT bit set.
LEMMA StandsExited ==
  ASSUME NEW d \in Ctx, Place(d), state[instance[d]] = "DRAINING",
         rank[d] \in exited[instance[d]], pc[d] # "reset"
  PROVE  \/ pc[d] = "idle" /\ next_seq[d] = forward_seq[instance[d]]
         \/ pc[d] = "claim" /\ next_seq[d] = forward_seq[instance[d]] + 1
  BY Zenon DEF Place

\* The worker that finds the group IDLE is alone in INITIALIZING it; one that
\* finds it COLLECTING has come to the right round.
LEMMA ClaimCalm ==
  ASSUME IInv, LockstepInv, TypeOK', NEW c \in Ctx, Claim(c)
  PROVE  LockstepInv'
<1> USE Known
<1> DEFINE i == instance[c]
<1>1. /\ pc[c] = "claim"
      /\ state[i] \notin CrossRound
      /\ state[i] \in {"IDLE", "INITIALIZING", "DRAINING"} =>
           next_seq[c] = forward_seq[i] + 1
      /\ state[i] = "COLLECTING" =>
           next_seq[c] = forward_seq[i] /\ rank[c] \notin ready[i]
  BY Zenon DEF Claim, Place
<1>2. /\ UNCHANGED <<status, turns, round, slots, closing, held, coord>>
      /\ \/ /\ state[i] = "IDLE"
            /\ state' = [state EXCEPT ![i] = "INITIALIZING"]
            /\ pc' = [pc EXCEPT ![c] = "init"]
         \/ /\ state[i] = "COLLECTING"
            /\ state' = state
            /\ pc' = [pc EXCEPT ![c] = "match"]
  BY Zenon, <1>1 DEF Claim, Goto
<1>3. CASE /\ state[i] = "COLLECTING"
           /\ state' = state
           /\ pc' = [pc EXCEPT ![c] = "match"]
  <2>1. pc'[c] = "match"
    BY Zenon, <1>3 DEF TypeOK
  <2>2. Place(c)'
    BY Zenon, <1>1, <1>2, <1>3, <2>1 DEF Place
  <2>3. InRound(c)'
    BY Zenon, <1>1, <1>2, <2>1 DEF InRound
  <2>4. "match" \in Awake
    BY Zenon DEF Awake, EnterPc
  <2> QED BY Zenon, <1>1, <1>2, <1>3, <2>2, <2>3, <2>4, Relabel DEF coord, group
<1>4. CASE /\ state[i] = "IDLE"
           /\ state' = [state EXCEPT ![i] = "INITIALIZING"]
           /\ pc' = [pc EXCEPT ![c] = "init"]
  <2>1. /\ pc'[c] = "init" /\ state'[i] = "INITIALIZING"
        /\ \A j \in Inst : j # i => state'[j] = state[j]
        /\ \A d \in Ctx : d # c => pc'[d] = pc[d]
    BY ZenonT(40), <1>4 DEF TypeOK
  <2>2. StillInv /\ late' = {} /\ WholeInv
    BY Zenon, <1>2 DEF LockstepInv, StillInv
  <2>3. "init" \in Awake
    BY Zenon DEF Awake, EnterPc
  <2>4. StillInv'
    BY Zenon, <1>2, <1>4, <2>2, <2>3, StillMoves DEF slots, coord
  <2>5. ContextsKept(c)
    BY Zenon, <1>2, <1>4, <2>2, ContextsKeep DEF slots, OwnSlot
  <2>6. \A j \in Inst : j # i => GroupKept(j)
    BY Zenon, <1>2, <2>1 DEF GroupKept
  <2>7. ASSUME NEW d \in Ctx, instance[d] = i
        PROVE  /\ Place(d)'
               /\ pc'[d] \notin {"publish", "reset"}
               /\ d # c => pc[d] # "init"
    <3>1. CASE d = c
      BY Zenon, <1>1, <1>2, <1>4, <2>1, <3>1 DEF Place
    <3>2. CASE d # c
      <4>1. \/ pc[d] = "idle" /\ next_seq[d] = forward_seq[i]
            \/ pc[d] = "claim" /\ next_seq[d] = forward_seq[i] + 1
        <5>1. Place(d) /\ state[instance[d]] = "IDLE"
          BY Zenon, <1>4, <2>7
        <5> QED BY ZenonT(40), <2>7, <5>1, StandsOutside
      <4>2. pc'[d] = pc[d] /\ next_seq'[d] = next_seq[d]
        BY Zenon, <1>2, <2>1, <3>2
      <4> QED BY Zenon, <1>2, <2>1, <2>7, <4>1, <4>2 DEF Place
    <3> QED BY Zenon, <3>1, <3>2
  <2>8. InRound(c)'
    BY Zenon, <1>1, <1>2, <2>1 DEF InRound
  <2>9. cpc = "drain" => owner # i
    BY Zenon, <1>4, <2>2 DEF WholeInv
  <2> QED
    BY Zenon, <1>1, <1>2, <2>4, <2>5, <2>6, <2>7, <2>8, <2>9, GroupMoves
       DEF coord
<1> QED BY Zenon, <1>2, <1>3, <1>4

\* The winner opens the round that every other rank of the instance is about to
\* enter or waits to enter.
LEMMA InitRoundCalm ==
  ASSUME IInv, LockstepInv, TypeOK', NEW c \in Ctx, InitRound(c)
  PROVE  LockstepInv'
<1> USE Known
<1> DEFINE i == instance[c]
<1>1. /\ pc[c] = "init" /\ state[i] = "INITIALIZING"
      /\ next_seq[c] = forward_seq[i] + 1
  BY Zenon DEF InitRound, Place
<1>2. /\ forward_seq' = [forward_seq EXCEPT ![i] = next_seq[c]]
      /\ ready' = [ready EXCEPT ![i] = {}]
      /\ complete' = [complete EXCEPT ![i] = {}]
      /\ exited' = [exited EXCEPT ![i] = {}]
      /\ late' = late \ {i}
      /\ state' = [state EXCEPT ![i] = "COLLECTING"]
      /\ last_seq' = [last_seq EXCEPT ![i][rank[c]] = next_seq[c]]
      /\ pc' = [pc EXCEPT ![c] = "ready"]
      /\ UNCHANGED <<shared, online, session, fresh, closing, held, coord>>
  BY Zenon DEF InitRound, Goto
<1>3. /\ forward_seq'[i] = next_seq[c]
      /\ ready'[i] = {}
      /\ state'[i] = "COLLECTING"
      /\ pc'[c] = "ready"
      /\ \A d \in Ctx : d # c => pc'[d] = pc[d]
  BY SMTT(30), <1>2 DEF TypeOK
<1>4. last_seq'[i][rank[c]] = next_seq[c]
  BY SMTT(30), <1>2 DEF TypeOK
<1>5. \A j \in Inst : j # i => GroupKept(j)
  BY SMTT(30), <1>2 DEF GroupKept, TypeOK
<1>6. StillInv /\ late' = {} /\ WholeInv /\ AloneInv
  BY Zenon, <1>2 DEF LockstepInv, StillInv
<1>7. "ready" \in Awake
  BY Zenon DEF Awake, EnterPc
<1>8. StillInv'
  BY Zenon, <1>2, <1>6, <1>7, StillMoves DEF shared, coord
<1>9. ContextsKept(c)
  BY Zenon, <1>2, <1>6, ContextsKeep DEF OwnSlot
<1>10. ASSUME NEW d \in Ctx, instance[d] = i
       PROVE  /\ Place(d)'
              /\ pc'[d] \notin {"publish", "reset"}
              /\ d # c => pc[d] # "init"
  <2>1. CASE d = c
    BY Zenon, <1>2, <1>3, <2>1 DEF Place
  <2>2. CASE d # c
    <3>1. pc[d] # "init"
      BY Zenon, <1>1, <1>6, <1>10, <2>2 DEF AloneInv
    <3>2. \/ pc[d] = "idle" /\ next_seq[d] = forward_seq[i]
          \/ pc[d] = "claim" /\ next_seq[d] = forward_seq[i] + 1
      BY Zenon, <1>1, <1>10, <3>1, StandsOutside
    <3>3. pc'[d] = pc[d] /\ next_seq'[d] = next_seq[d]
      BY Zenon, <1>2, <1>3, <2>2
    <3>4. forward_seq'[i] = forward_seq[i] + 1
      BY Zenon, <1>1, <1>3
    <3>5. /\ state'[instance[d]] = "COLLECTING"
          /\ rank[d] \notin ready'[instance[d]]
          /\ \/ /\ pc'[d] = "idle"
                /\ next_seq'[d] + 1 = forward_seq'[instance[d]]
             \/ pc'[d] = "claim" /\ next_seq'[d] = forward_seq'[instance[d]]
      BY Zenon, <1>3, <1>10, <3>2, <3>3, <3>4
    <3> QED BY Zenon, <3>1, <3>5 DEF Place
  <2> QED BY Zenon, <2>1, <2>2
<1>11. InRound(c)'
  BY Zenon, <1>1, <1>2, <1>3, <1>4 DEF InRound
<1>12. cpc = "drain" => owner # i
  BY Zenon, <1>1, <1>6 DEF WholeInv
<1> QED
  BY Zenon, <1>1, <1>2, <1>5, <1>8, <1>9, <1>10, <1>11, <1>12, GroupMoves
     DEF shared, coord

\* When the last rank arrives, all of them wait for the grant.
LEMMA PublishReadyCalm ==
  ASSUME IInv, LockstepInv, TypeOK', NEW c \in Ctx, PublishReady(c)
  PROVE  LockstepInv'
<1> USE Known
<1> DEFINE i == instance[c]
<1>1. /\ pc[c] = "publish" /\ state[i] = "COLLECTING"
      /\ next_seq[c] = forward_seq[i]
  BY Zenon DEF PublishReady, Place
<1>2. /\ state' = [state EXCEPT ![i] = "READY"]
      /\ pc' = [pc EXCEPT ![c] = "await"]
      /\ UNCHANGED <<status, turns, round, slots, closing, held, coord>>
  BY Zenon, <1>1 DEF PublishReady, Goto
<1>3. /\ state'[i] = "READY"
      /\ pc'[c] = "await"
      /\ \A d \in Ctx : d # c => pc'[d] = pc[d]
  BY Zenon, <1>2 DEF TypeOK
<1>4. \A j \in Inst : j # i => GroupKept(j)
  BY Zenon, <1>2 DEF GroupKept, TypeOK
<1>5. StillInv /\ late' = {} /\ WholeInv /\ AloneInv
  BY Zenon, <1>2 DEF LockstepInv, StillInv
<1>6. "await" \in Awake
  BY Zenon DEF Awake, EnterPc
<1>7. StillInv'
  BY Zenon, <1>2, <1>5, <1>6, StillMoves DEF slots, coord
<1>8. ContextsKept(c)
  BY Zenon, <1>2, <1>5, ContextsKeep DEF slots, OwnSlot
<1>9. ready[i] = Rank
  BY Zenon, <1>1, <1>5 DEF AloneInv
<1>10. ASSUME NEW d \in Ctx, instance[d] = i
       PROVE  /\ Place(d)'
              /\ pc'[d] \notin {"publish", "reset"}
              /\ d # c => pc[d] # "init"
  <2>1. CASE d = c
    BY Zenon, <1>1, <1>2, <1>3, <2>1 DEF Place
  <2>2. CASE d # c
    <3>1. pc[d] # "publish"
      BY Zenon, <1>1, <1>5, <1>10, <2>2 DEF AloneInv
    <3>2. pc[d] \in {"await", "poll"} /\ next_seq[d] = forward_seq[i]
      <4>1. rank[d] \in ready[instance[d]] BY Zenon, <1>9, <1>10
      <4> QED BY Zenon, <1>1, <1>10, <3>1, <4>1, StandsReady
    <3>3. pc'[d] = pc[d] /\ next_seq'[d] = next_seq[d]
      BY Zenon, <1>2, <1>3, <2>2
    <3> QED BY Zenon, <1>2, <1>3, <1>10, <3>2, <3>3 DEF Place
  <2> QED BY Zenon, <2>1, <2>2
<1>11. InRound(c)'
  BY Zenon, <1>1, <1>2, <1>3 DEF InRound, slots
<1>12. cpc = "drain" => owner # i
  BY Zenon, <1>1, <1>5 DEF WholeInv
<1> QED
  BY Zenon, <1>1, <1>2, <1>4, <1>7, <1>8, <1>10, <1>11, <1>12, GroupMoves
     DEF coord

\* When the last rank finishes, all of them wait for DRAINING.
LEMMA PublishCompleteCalm ==
  ASSUME IInv, LockstepInv, TypeOK', NEW c \in Ctx, PublishComplete(c)
  PROVE  LockstepInv'
<1> USE Known
<1> DEFINE i == instance[c]
<1>1. /\ pc[c] = "complete" /\ state[i] = "RUNNING"
      /\ next_seq[c] = forward_seq[i]
  BY Zenon DEF PublishComplete, Place
<1>2. /\ state' = [state EXCEPT ![i] = "COMPLETE"]
      /\ pc' = [pc EXCEPT ![c] = "drain"]
      /\ UNCHANGED <<status, turns, round, slots, closing, held, coord>>
  BY Zenon, <1>1 DEF PublishComplete, Goto
<1>3. /\ state'[i] = "COMPLETE"
      /\ pc'[c] = "drain"
      /\ \A d \in Ctx : d # c => pc'[d] = pc[d]
  BY Zenon, <1>2 DEF TypeOK
<1>4. \A j \in Inst : j # i => GroupKept(j)
  BY Zenon, <1>2 DEF GroupKept, TypeOK
<1>5. StillInv /\ late' = {} /\ LastInv
  BY Zenon, <1>2 DEF LockstepInv, StillInv, IInv
<1>6. "drain" \in Awake
  BY Zenon DEF Awake, LeavePc
<1>7. StillInv'
  BY Zenon, <1>2, <1>5, <1>6, StillMoves DEF slots, coord
<1>8. ContextsKept(c)
  BY Zenon, <1>2, <1>5, ContextsKeep DEF slots, OwnSlot
<1>9. complete[i] = Rank
  BY Zenon, <1>1, <1>5 DEF LastInv
<1>10. ASSUME NEW d \in Ctx, instance[d] = i
       PROVE  /\ Place(d)'
              /\ pc'[d] \notin {"publish", "reset"}
              /\ d # c => pc[d] # "init"
  <2>1. CASE d = c
    BY Zenon, <1>1, <1>2, <1>3, <2>1 DEF Place
  <2>2. CASE d # c
    <3>1. pc[d] # "complete"
      BY Zenon, <1>1, <1>5, <1>10, <2>2 DEF LastInv
    <3>2. pc[d] \in {"drain", "exit"} /\ next_seq[d] = forward_seq[i]
      <4>1. /\ Place(d) /\ state[instance[d]] = "RUNNING"
            /\ rank[d] \in complete[instance[d]]
        BY Zenon, <1>1, <1>9, <1>10
      <4> QED BY Zenon, <1>10, <3>1, <4>1, StandsComplete
    <3>3. pc'[d] = pc[d] /\ next_seq'[d] = next_seq[d]
      BY Zenon, <1>2, <1>3, <2>2
    <3> QED BY Zenon, <1>2, <1>3, <1>10, <3>2, <3>3 DEF Place
  <2> QED BY Zenon, <2>1, <2>2
<1>11. InRound(c)'
  BY Zenon, <1>1, <1>2, <1>3 DEF InRound, slots
<1> QED
  BY Zenon, <1>1, <1>2, <1>3, <1>4, <1>7, <1>8, <1>10, <1>11, GroupMoves
     DEF coord

\* When the last rank is out, all of them are between rounds: the fast ones wait
\* for the group to be IDLE before they compare sequence numbers.
LEMMA ResetRoundCalm ==
  ASSUME IInv, LockstepInv, TypeOK', NEW c \in Ctx, ResetRound(c)
  PROVE  LockstepInv'
<1> USE Known
<1> DEFINE i == instance[c]
<1>1. /\ pc[c] = "reset" /\ state[i] = "DRAINING"
      /\ next_seq[c] = forward_seq[i]
  BY Zenon DEF ResetRound, Place
<1>2. /\ ready' = [ready EXCEPT ![i] = {}]
      /\ complete' = [complete EXCEPT ![i] = {}]
      /\ late' = late \ {i}
      /\ state' = [state EXCEPT ![i] = "IDLE"]
      /\ pc' = [pc EXCEPT ![c] = "idle"]
      /\ UNCHANGED <<shared, forward_seq, exited, online, slots, closing, held,
                     coord>>
  BY Zenon DEF ResetRound, Return, Goto
<1>3. /\ state'[i] = "IDLE"
      /\ pc'[c] = "idle"
      /\ \A d \in Ctx : d # c => pc'[d] = pc[d]
  BY ZenonT(40), <1>2 DEF TypeOK
<1>4. \A j \in Inst : j # i => GroupKept(j)
  BY ZenonT(40), <1>2 DEF GroupKept, TypeOK
<1>5. StillInv /\ late' = {} /\ WholeInv /\ AloneInv
  BY Zenon, <1>2 DEF LockstepInv, StillInv
<1>6. "idle" \in Awake
  BY Zenon DEF Awake
<1>7. StillInv'
  BY Zenon, <1>2, <1>5, <1>6, StillMoves DEF shared, slots, coord
<1>8. ContextsKept(c)
  BY Zenon, <1>2, <1>5, ContextsKeep DEF slots, OwnSlot
<1>9. exited[i] = Rank
  BY Zenon, <1>1, <1>5 DEF AloneInv
<1>10. ASSUME NEW d \in Ctx, instance[d] = i
       PROVE  /\ Place(d)'
              /\ pc'[d] \notin {"publish", "reset"}
              /\ d # c => pc[d] # "init"
  <2>1. CASE d = c
    BY Zenon, <1>1, <1>2, <1>3, <2>1 DEF Place
  <2>2. CASE d # c
    <3>1. pc[d] # "reset"
      BY Zenon, <1>1, <1>5, <1>10, <2>2 DEF AloneInv
    <3>2. \/ pc[d] = "idle" /\ next_seq[d] = forward_seq[i]
          \/ pc[d] = "claim" /\ next_seq[d] = forward_seq[i] + 1
      <4>1. /\ Place(d) /\ state[instance[d]] = "DRAINING"
            /\ rank[d] \in exited[instance[d]]
        BY Zenon, <1>1, <1>9, <1>10
      <4>2. \/ pc[d] = "idle" /\ next_seq[d] = forward_seq[instance[d]]
            \/ pc[d] = "claim" /\ next_seq[d] = forward_seq[instance[d]] + 1
        BY Zenon, <3>1, <4>1, StandsExited
      <4> QED BY Zenon, <1>10, <4>2
    <3>3. pc'[d] = pc[d] /\ next_seq'[d] = next_seq[d]
      BY Zenon, <1>2, <1>3, <2>2
    <3> QED BY Zenon, <1>2, <1>3, <1>10, <3>2, <3>3 DEF Place
  <2> QED BY Zenon, <2>1, <2>2
<1>11. InRound(c)'
  BY Zenon, <1>1, <1>2, <1>3 DEF InRound, slots
<1>12. cpc = "drain" => owner # i
  BY Zenon, <1>1, <1>5 DEF WholeInv
<1> QED
  BY Zenon, <1>1, <1>2, <1>4, <1>7, <1>8, <1>10, <1>11, <1>12, GroupMoves
     DEF shared, coord

-----------------------------------------------------------------------------
(***************************************************************************)
(* The coordinator.                                                         *)
(***************************************************************************)

\* A step of the coordinator that changes no group, no slot and no context.
LEMMA CoordKeeps ==
  ASSUME LockstepInv,
         UNCHANGED <<state, forward_seq, ready, complete, exited, online, late,
                     slots, local>>,
         status' = "RUNNING", deadline' # "passed", ~primary_stale',
         cpc' \notin {"off", "stopped"},
         cpc' = "drain" => state[owner'] = "COMPLETE"
  PROVE  LockstepInv'
<1>0. /\ StillInv /\ AloneInv /\ WholeInv
      /\ \A d \in Ctx : Place(d) /\ InRound(d)
  BY Zenon DEF LockstepInv
<1>1. StillInv'
  <2>1. Calm'
    BY Zenon, <1>0 DEF StillInv, Calm, SameSlot
  <2> QED BY Zenon, <1>0, <2>1 DEF StillInv, slots, local, At
<1>2. ASSUME NEW d \in Ctx PROVE Place(d)' /\ InRound(d)'
  <2>1. Place(d)'
    BY Zenon, <1>0, PlaceKept DEF local
  <2> QED BY Zenon, <1>0, <2>1 DEF InRound, slots, local
<1>3. AloneInv'
  BY Zenon, <1>0 DEF AloneInv, local
<1>4. WholeInv'
  BY Zenon, <1>0 DEF WholeInv, local
<1> QED BY Zenon, <1>1, <1>2, <1>3, <1>4 DEF LockstepInv

\* A step of the coordinator that moves the state of group i.
LEMMA CoordChanges ==
  ASSUME IInv, LockstepInv, NEW i \in Inst,
         UNCHANGED <<shared, forward_seq, ready, complete, online, late, slots,
                     local>>,
         \A j \in Inst : j # i => GroupKept(j),
         \A d \in Ctx : instance[d] = i =>
           Place(d)' /\ pc[d] \notin {"publish", "reset"},
         online[i] = Rank,
         cpc' \notin {"off", "stopped", "drain"}
  PROVE  LockstepInv'
<1>0. /\ StillInv /\ AloneInv /\ WholeInv
      /\ \A d \in Ctx : Place(d) /\ InRound(d)
      /\ \A d \in Ctx : instance[d] \in Inst
  BY Zenon, CtxAssumption DEF LockstepInv
<1>1. StillInv'
  <2>1. Calm'
    BY Zenon, <1>0 DEF StillInv, Calm, SameSlot
  <2> QED BY Zenon, <1>0, <2>1 DEF StillInv, shared, slots, local, At
<1>2. ASSUME NEW d \in Ctx PROVE Place(d)' /\ InRound(d)'
  <2>1. CASE instance[d] # i
    <3>1. pc'[d] = pc[d] /\ next_seq'[d] = next_seq[d]
      BY Zenon DEF local
    <3>2. GroupKept(instance[d])
      BY Zenon, <1>0, <2>1
    <3> QED BY Zenon, <1>0, <3>1, <3>2, PlaceKept DEF GroupKept, InRound, slots, local
  <2>2. CASE instance[d] = i
    BY Zenon, <1>0, <2>2 DEF InRound, slots, local
  <2> QED BY Zenon, <2>1, <2>2
<1>3. AloneInv'
  <2>1. ASSUME NEW d \in Ctx, pc[d] = "reset" PROVE exited'[instance[d]] = Rank
    <3>1. instance[d] # i
      BY Zenon, <2>1
    <3>2. exited'[instance[d]] = exited[instance[d]]
      BY Zenon, <1>0, <3>1 DEF GroupKept
    <3> QED BY Zenon, <1>0, <2>1, <3>2 DEF AloneInv
  <2> QED BY Zenon, <1>0, <2>1 DEF AloneInv, local
<1>4. WholeInv'
  <2>1. ASSUME NEW j \in Inst, state'[j] \notin {"IDLE", "OFFLINE"}
        PROVE  online'[j] = Rank
    BY Zenon, <1>0, <2>1 DEF WholeInv, GroupKept
  <2> QED BY Zenon, <1>0, <2>1 DEF WholeInv, local
<1> QED BY Zenon, <1>1, <1>2, <1>3, <1>4 DEF LockstepInv

\* Every rank of an instance that has opened a round is alive.
LEMMA AllAlive ==
  ASSUME LockstepInv, NEW i \in Inst, state[i] \notin {"IDLE", "OFFLINE"}
  PROVE  online[i] = Rank /\ GroupWorkersAlive(i, Rank)
<1>1. online[i] = Rank /\ StillInv
  BY Zenon DEF LockstepInv, WholeInv
<1>2. ASSUME NEW k \in Rank PROVE WorkerAlive(i, k)
  <2>1. k \in {k1 \in Rank : \E c \in Ctx : At(c, i, k1)}
    BY Zenon, <1>1 DEF StillInv
  <2>2. PICK c \in Ctx : instance[c] = i /\ rank[c] = k
    BY Zenon, <2>1 DEF At
  <2>3. session[i][k] = c /\ fresh[i][k]
    BY Zenon, <1>1, <2>2 DEF StillInv
  <2> QED BY Zenon, <2>3, CtxAssumption DEF WorkerAlive
<1> QED BY Zenon, <1>1, <1>2 DEF GroupWorkersAlive

\* recycle_complete: nobody is dead or late, and a group that is done is
\* COMPLETE until it drains.
LEMMA RecycleCalm ==
  ASSUME IInv, LockstepInv, Recycle
  PROVE  LockstepInv'
<1>1. /\ status = "RUNNING" /\ deadline # "passed" /\ ~primary_stale
      /\ owner \in Inst
  BY Zenon DEF LockstepInv, StillInv, IInv, CoordInv, Recycle, CoordAt
<1>2. state[owner] \in {"RUNNING", "COMPLETE"} => GroupWorkersAlive(owner, Rank)
  BY Zenon, <1>1, AllAlive
<1>3. /\ UNCHANGED <<status, turns, group, slots, local>>
      /\ cpc' = "tick" \/ (cpc' = "drain" /\ state[owner] = "COMPLETE")
  BY Zenon, <1>1, <1>2 DEF Recycle
<1> QED BY Zenon, <1>1, <1>3, CoordKeeps DEF group

\* recycle_complete: every rank of a COMPLETE group waits for DRAINING.
LEMMA StartDrainingCalm ==
  ASSUME IInv, LockstepInv, StartDraining
  PROVE  LockstepInv'
<1>1. cpc = "drain" /\ owner \in Inst /\ state[owner] = "COMPLETE" /\ TypeOK
  BY Zenon DEF StartDraining, CoordAt, IInv, CoordInv, LockstepInv, WholeInv
<1>2. /\ exited' = [exited EXCEPT ![owner] = {}]
      /\ state' = [state EXCEPT ![owner] = "DRAINING"]
      /\ cpc' = "release"
      /\ UNCHANGED <<shared, forward_seq, ready, complete, online, late, slots,
                     local>>
  BY Zenon DEF StartDraining
<1>3. exited'[owner] = {} /\ state'[owner] = "DRAINING"
  BY Zenon, <1>1, <1>2 DEF TypeOK
<1>4. \A j \in Inst : j # owner => GroupKept(j)
  BY Zenon, <1>1, <1>2 DEF GroupKept, TypeOK
<1>5. online[owner] = Rank
  BY Zenon, <1>1, AllAlive
<1>6. ASSUME NEW d \in Ctx, instance[d] = owner
      PROVE  Place(d)' /\ pc[d] \notin {"publish", "reset"}
  <2>1. Place(d) /\ state[instance[d]] = "COMPLETE"
    BY Zenon, <1>1, <1>6 DEF LockstepInv
  <2>2. pc[d] \in {"drain", "exit"} /\ next_seq[d] = forward_seq[instance[d]]
    BY Zenon, <2>1, StandsComplete
  <2>3. /\ state'[instance[d]] = "DRAINING"
        /\ rank[d] \notin exited'[instance[d]]
        /\ pc'[d] \in {"drain", "exit"}
        /\ next_seq'[d] = forward_seq'[instance[d]]
    BY Zenon, <1>2, <1>3, <1>6, <2>2 DEF local
  <2> QED BY Zenon, <2>2, <2>3 DEF Place
<1> QED BY Zenon, <1>1, <1>2, <1>4, <1>5, <1>6, CoordChanges

\* dispatch_next: every rank of a READY group waits for the grant.
LEMMA SelectCalm ==
  ASSUME IInv, LockstepInv, Select
  PROVE  LockstepInv'
<1> DEFINE i == Preferred
<1>1. /\ cpc = "select" /\ owner = NoOwner /\ TypeOK /\ StillInv /\ CompleteInv
  BY Zenon DEF Select, CoordAt, IInv, CoordInv, LockstepInv
<1>2. i \in Inst /\ NoOwner \notin Inst
  BY DEF Preferred, Inst, NoOwner
<1>3. UNCHANGED <<shared, round, slots, local>>
  BY Zenon DEF Select
<1>4. CASE state' = state /\ cpc' = "tick"
  <2>1. /\ status' = "RUNNING" /\ deadline' # "passed" /\ ~primary_stale'
        /\ UNCHANGED <<group, slots, local>>
    BY Zenon, <1>1, <1>3, <1>4 DEF StillInv, shared, group
  <2> QED BY Zenon, <1>4, <2>1, CoordKeeps DEF group
<1>5. CASE /\ state[i] = "READY"
           /\ state' = [state EXCEPT ![i] = "RUNNING"]
           /\ cpc' = "grant"
  <2>1. state'[i] = "RUNNING" /\ complete[i] = {}
    <3>1. owner # i
      BY Zenon, <1>1, <1>2
    <3>2. complete[i] = {}
      BY Zenon, <1>1, <1>2, <1>5, <3>1 DEF CompleteInv
    <3> QED BY Zenon, <1>1, <1>2, <1>5, <3>2 DEF TypeOK
  <2>2. \A j \in Inst : j # i => GroupKept(j)
    BY Zenon, <1>1, <1>2, <1>3, <1>5 DEF GroupKept, TypeOK
  <2>3. online[i] = Rank
    BY Zenon, <1>2, <1>5, AllAlive
  <2>4. ASSUME NEW d \in Ctx, instance[d] = i
        PROVE  Place(d)' /\ pc[d] \notin {"publish", "reset"}
    <3>1. Place(d) /\ state[instance[d]] = "READY"
      BY Zenon, <1>5, <2>4 DEF LockstepInv
    <3>2. pc[d] \in {"await", "poll"} /\ next_seq[d] = forward_seq[instance[d]]
      BY Zenon, <3>1, StandsReady
    <3>3. /\ state'[instance[d]] = "RUNNING"
          /\ rank[d] \notin complete'[instance[d]]
          /\ pc'[d] \in {"await", "poll"}
          /\ next_seq'[d] = forward_seq'[instance[d]]
      BY Zenon, <1>3, <2>1, <2>4, <3>2 DEF local
    <3> QED BY Zenon, <3>2, <3>3 DEF Place
  <2> HIDE DEF i
  <2> QED BY Zenon, <1>2, <1>3, <1>5, <2>2, <2>3, <2>4, CoordChanges
<1> QED BY Zenon, <1>4, <1>5 DEF Select

\* The other steps of the coordinator look, or change the turn only.
LEMMA CoordCalm ==
  ASSUME IInv, LockstepInv, Coordinator
  PROVE  LockstepInv'
<1>0. /\ status = "RUNNING" /\ deadline # "passed" /\ ~primary_stale
      /\ late = {}
      /\ ~Stopping(Creator)
  BY Zenon, CtxAssumption DEF LockstepInv, StillInv, Stopping
<1>1. CASE Tick
  <2>1. /\ UNCHANGED <<status, deadline, group, slots, local>>
        /\ primary_stale' = FALSE
        /\ cpc' \in {"recycle", "scan0"}
    BY Zenon, <1>1 DEF Tick
  <2> QED BY Zenon, <1>0, <2>1, CoordKeeps DEF group
<1>2. CASE CoordStop
  BY Zenon, <1>0, <1>2 DEF CoordStop
<1>3. CASE ReleaseOwner
  <2>1. /\ UNCHANGED <<status, primary_stale, group, slots, local>>
        /\ deadline' = "none"
        /\ cpc' = "recheck"
    BY Zenon, <1>3 DEF ReleaseOwner
  <2> QED BY Zenon, <1>0, <2>1, CoordKeeps DEF group
<1>4. CASE Recheck
  <2>1. /\ UNCHANGED <<shared, group, slots, local>>
        /\ cpc' \in {"scan0", "tick"}
    BY Zenon, <1>4 DEF Recheck
  <2> QED BY Zenon, <1>0, <2>1, CoordKeeps DEF shared, group
<1>5. ASSUME NEW i \in Inst, Scan(i) PROVE LockstepInv'
  <2>1. ~BarrierBroken(i)
    BY Zenon, <1>0 DEF BarrierBroken
  <2>2. /\ UNCHANGED <<status, turns, group, slots, local>>
        /\ cpc' \in {"scan1", "tick", "select"}
    BY Zenon, <1>5, <2>1 DEF Scan
  <2> QED BY Zenon, <1>0, <2>2, CoordKeeps DEF group
<1>6. CASE Grant
  <2>1. /\ UNCHANGED <<status, primary_stale, state, forward_seq, ready,
                       complete, exited, online, late, slots, local>>
        /\ deadline' = "armed"
        /\ cpc' = "tick"
    BY Zenon, <1>6 DEF Grant
  <2> QED BY Zenon, <1>0, <2>1, CoordKeeps DEF group
<1> QED
  BY Zenon, <1>1, <1>2, <1>3, <1>4, <1>5, <1>6, RecycleCalm, StartDrainingCalm,
     SelectCalm DEF Coordinator, Inst

-----------------------------------------------------------------------------
(***************************************************************************)
(* The calm machine as a whole.                                             *)
(***************************************************************************)

\* Nothing else happens on a calm machine: no worker opens, closes or is
\* closed, no heartbeat of a worker expires, and no hazard strikes.
LEMMA NothingElse ==
  ASSUME IInv, LockstepInv, Environment \/ \E c \in Ctx :
           \/ OpenSteps(c) \/ CloseSteps(c) \/ EnterTwice(c) \/ LeaveForeign(c)
           \/ Abort(c) \/ CloseBegin(c)
  PROVE  /\ UNCHANGED <<shared, group, session, last_seq, local, coord>>
         /\ \A c \in Ctx : fresh'[instance[c]][rank[c]]
<1>0. /\ Env = {} /\ ~primary_stale /\ cpc # "stopped"
      /\ \A c \in Ctx : /\ pc[c] \notin {"new", "gone", "dead"} \cup OpenPc
                        /\ closer[c] = "no"
                        /\ fresh[instance[c]][rank[c]]
      /\ Creator \in Ctx
      /\ fresh \in [Inst -> [Rank -> BOOLEAN]]
  BY Zenon, CtxAssumption DEF LockstepInv, StillInv, Calm, IInv, TypeOK
<1>1. ASSUME NEW c \in Ctx,
             \/ OpenSteps(c) \/ CloseSteps(c) \/ EnterTwice(c) \/ LeaveForeign(c)
             \/ Abort(c) \/ CloseBegin(c) \/ Heartbeat(c) \/ Crash(c)
      PROVE  FALSE
  <2>1. CASE OpenSteps(c)
    BY Zenon, <1>0, <2>1 DEF OpenSteps, OpenCheck, RegisterSlot, RegisterOnline,
         Opened, OpenFailure, OpenPc
  <2>2. CASE CloseSteps(c)
    BY Zenon, <1>0, <2>2 DEF CloseSteps, CloseCheck, CloseOffline, CloseSlot,
         CloseLast, StoreOffline, Shutdown
  <2>3. CASE EnterTwice(c) \/ LeaveForeign(c) \/ Abort(c) \/ CloseBegin(c)
    BY Zenon, <1>0, <2>3 DEF EnterTwice, LeaveForeign, Abort, CloseBegin
  <2>4. CASE Heartbeat(c) \/ Crash(c)
    BY Zenon, <1>0, <2>4 DEF Heartbeat, Crash
  <2> QED BY Zenon, <1>1, <2>1, <2>2, <2>3, <2>4
<1>2. ASSUME NEW i \in Inst, NEW k \in Rank, HeartbeatExpires(i, k)
      PROVE  /\ UNCHANGED <<shared, group, session, last_seq, local, coord>>
             /\ \A c \in Ctx : fresh'[instance[c]][rank[c]]
  <2>1. ASSUME NEW c \in Ctx PROVE ~(instance[c] = i /\ rank[c] = k)
    BY Zenon, <1>0, <1>2 DEF HeartbeatExpires, Beating, Open
  <2>2. fresh' = [fresh EXCEPT ![i][k] = FALSE]
    BY Zenon, <1>2 DEF HeartbeatExpires
  <2>3. ASSUME NEW c \in Ctx PROVE fresh'[instance[c]][rank[c]]
    <3>1. instance[c] \in Inst /\ rank[c] \in Rank
      BY Zenon, CtxAssumption
    <3>2. CASE instance[c] # i BY Zenon, <1>0, <2>2, <3>1, <3>2
    <3>3. CASE instance[c] = i /\ rank[c] # k
      BY Zenon, <1>0, <2>2, <3>1, <3>3
    <3> QED BY Zenon, <2>1, <3>2, <3>3
  <2> QED BY Zenon, <1>2, <2>3 DEF HeartbeatExpires
<1>3. ~PrimaryExpires /\ ~DeadlinePasses /\ \A i \in Inst : ~BarrierAges(i)
  BY Zenon, <1>0 DEF PrimaryExpires, DeadlinePasses, BarrierAges
<1> QED BY Zenon, <1>1, <1>2, <1>3 DEF Environment

\* Every step of the calm machine keeps the ranks in lockstep.
LEMMA LockstepNext == IInv /\ LockstepInv /\ [Next]_vars => LockstepInv'
<1> SUFFICES ASSUME IInv, LockstepInv, [Next]_vars PROVE LockstepInv'
  BY Zenon
<1>0. TypeOK'
  BY Zenon, TypeNext DEF IInv
<1>1. ASSUME UNCHANGED <<shared, group, session, last_seq, local, coord>>,
             \A c \in Ctx : fresh'[instance[c]][rank[c]]
      PROVE  LockstepInv'
  <2>0. /\ StillInv /\ AloneInv /\ WholeInv
        /\ \A d \in Ctx : Place(d) /\ InRound(d)
    BY Zenon DEF LockstepInv
  <2>1. StillInv'
    <3>1. Calm'
      BY Zenon, <2>0 DEF StillInv, Calm, SameSlot
    <3> QED BY Zenon, <1>1, <2>0, <3>1 DEF StillInv, shared, group, local, coord, At
  <2>2. ASSUME NEW d \in Ctx PROVE Place(d)' /\ InRound(d)'
    <3>1. Place(d)'
      BY Zenon, <1>1, <2>0, PlaceKept DEF group, local
    <3> QED BY Zenon, <1>1, <2>0, <3>1 DEF InRound, local
  <2>3. AloneInv'
    BY Zenon, <1>1, <2>0 DEF AloneInv, group, local
  <2>4. WholeInv'
    BY Zenon, <1>1, <2>0 DEF WholeInv, shared, group, local, coord
  <2> QED BY Zenon, <2>1, <2>2, <2>3, <2>4 DEF LockstepInv
<1>2. CASE UNCHANGED vars
  <2>1. \A c \in Ctx : fresh[instance[c]][rank[c]]
    BY Zenon DEF LockstepInv, StillInv
  <2> QED BY Zenon, <1>1, <1>2, <2>1 DEF vars, slots
<1>3. CASE Environment \/ \E c \in Ctx :
             \/ OpenSteps(c) \/ CloseSteps(c) \/ EnterTwice(c) \/ LeaveForeign(c)
             \/ Abort(c) \/ CloseBegin(c)
  BY Zenon, <1>1, <1>3, NothingElse
<1>4. ASSUME NEW c \in Ctx, EnterSteps(c) PROVE LockstepInv'
  BY Zenon, <1>0, <1>4, ClaimCalm, InitRoundCalm, MatchCalm, SetReadyCalm,
     PublishReadyCalm, AwaitCalm, PollCalm DEF EnterSteps
<1>5. ASSUME NEW c \in Ctx, LeaveSteps(c) PROVE LockstepInv'
  BY Zenon, <1>0, <1>5, FenceCalm, SetCompleteCalm, PublishCompleteCalm,
     DrainCalm, ExitCalm, ResetRoundCalm DEF LeaveSteps
<1>6. ASSUME NEW c \in Ctx, EnterBegin(c) \/ LeaveBegin(c) PROVE LockstepInv'
  BY Zenon, <1>0, <1>6, EnterBeginCalm, LeaveBeginCalm
<1>7. CASE Coordinator
  BY Zenon, <1>7, CoordCalm
<1> QED BY Zenon, <1>2, <1>3, <1>4, <1>5, <1>6, <1>7 DEF Next, Engine

\* The state in which every worker has been opened satisfies both invariants.
LEMMA StartedInv == Calm /\ Started(Ctx) => IInv /\ LockstepInv
<1> SUFFICES ASSUME Calm, Started(Ctx) PROVE IInv /\ LockstepInv
  BY Zenon
<1>1. /\ status = "RUNNING" /\ owner = NoOwner /\ deadline = "none"
      /\ ~primary_stale /\ next_grant_id = 0 /\ late = {} /\ cpc = "tick"
      /\ scanned = NoneReady /\ selected = 0
      /\ NoOwner \notin Inst
  BY DEF Started, Inst, NoOwner
<1>2. /\ \A c \in Ctx : /\ pc[c] = "idle" /\ closer[c] = "no"
                        /\ next_seq[c] = 0 /\ active_seq[c] = 0
                        /\ active_grant_id[c] = 0
      /\ \A i \in Inst : /\ state[i] \in {"IDLE", "OFFLINE"}
                         /\ forward_seq[i] = 0
                         /\ online[i] = {k \in Rank : \E c \in Ctx : At(c, i, k)}
  BY Zenon DEF Started
<1>3. ASSUME NEW c \in Ctx
      PROVE  /\ state[instance[c]] = "IDLE"
             /\ session[instance[c]][rank[c]] = c
             /\ fresh[instance[c]][rank[c]]
  <2>1. /\ instance[c] \in Inst /\ rank[c] \in Rank
        /\ At(c, instance[c], rank[c])
    BY Zenon, CtxAssumption DEF At
  <2>2. \A d \in Ctx : At(d, instance[c], rank[c]) <=> d = c
    BY Zenon DEF Calm, SameSlot, At
  <2>3. (CHOOSE d \in Ctx : At(d, instance[c], rank[c])) = c
    BY Zenon, <2>2
  <2>4. session[instance[c]][rank[c]] = c
    BY Zenon, <2>1, <2>3 DEF Started
  <2>5. fresh[instance[c]][rank[c]] /\ state[instance[c]] = "IDLE"
    BY Zenon, <2>1 DEF Started
  <2> QED BY Zenon, <2>4, <2>5
<1>4. TypeOK
  <2> USE CtxAssumption, Labels
  <2>1. /\ status \in {"RUNNING", "SHUTDOWN"} \cup Reason
        /\ owner \in Inst \cup {NoOwner}
        /\ last_owner \in Inst \cup {NoOwner}
        /\ deadline \in {"none", "armed", "passed"}
        /\ primary_stale \in BOOLEAN
        /\ next_grant_id \in Nat
        /\ late \in SUBSET Inst
        /\ cpc \in CoordPc
        /\ selected \in Inst
        /\ scanned \in [Inst -> Nat \cup {NotReady}]
    BY Zenon DEF Started, CoordPc, Inst, NoneReady
  <2>2. /\ state \in [Inst -> RoundState]
        /\ forward_seq \in [Inst -> Nat]
        /\ grant_id \in [Inst -> Nat]
        /\ ready \in [Inst -> SUBSET Rank]
        /\ complete \in [Inst -> SUBSET Rank]
        /\ exited \in [Inst -> SUBSET Rank]
        /\ online \in [Inst -> SUBSET Rank]
        /\ publish \in [Inst -> Nat]
    BY Zenon DEF Started
  <2>3. session \in [Inst -> [Rank -> Ctx \cup {NoSession}]]
    <3>1. ASSUME NEW i \in Inst, NEW k \in Rank
          PROVE  (IF \E c \in Ctx : At(c, i, k)
                    THEN CHOOSE c \in Ctx : At(c, i, k) ELSE NoSession)
                   \in Ctx \cup {NoSession}
      BY Zenon
    <3> QED BY Zenon, <3>1 DEF Started
  <2>4. /\ last_seq \in [Inst -> [Rank -> Nat]]
        /\ fresh \in [Inst -> [Rank -> BOOLEAN]]
    BY Zenon DEF Started
  <2>5. /\ pc \in [Ctx -> Pc]
        /\ closer \in [Ctx -> Closer]
        /\ saw_idle \in SUBSET Ctx
        /\ next_seq \in [Ctx -> Nat]
        /\ active_seq \in [Ctx -> Nat]
        /\ active_grant_id \in [Ctx -> Nat]
    BY Zenon DEF Started, Closer
  <2> QED BY Zenon, <2>1, <2>2, <2>3, <2>4, <2>5 DEF TypeOK
<1>5. CoordInv
  BY Zenon, <1>1, <1>2, CtxAssumption DEF CoordInv, OpenPc
<1>6. GrantInv
  BY <1>1, <1>2 DEF GrantInv, EnterPc, Got
<1>7. SessionInv /\ EngagedInv /\ LastInv /\ GrantConsumedOnce
  BY Zenon, <1>1, <1>2 DEF SessionInv, EngagedInv, LastInv, GrantConsumedOnce,
       Engaged, Executing, Got
<1>8. CompleteInv
  BY Zenon, <1>1, <1>2 DEF CompleteInv
<1>9. StillInv
  BY Zenon, <1>1, <1>2, <1>3 DEF StillInv, OpenPc
<1>10. AloneInv /\ WholeInv
  BY Zenon, <1>1, <1>2 DEF AloneInv, WholeInv
<1>11. ASSUME NEW c \in Ctx PROVE Place(c) /\ InRound(c)
  <2>1. instance[c] \in Inst
    BY Zenon, CtxAssumption
  <2>2. /\ pc[c] = "idle" /\ state[instance[c]] = "IDLE"
        /\ next_seq[c] = forward_seq[instance[c]] /\ active_seq[c] = 0
    BY <1>2, <1>3, <2>1
  <2>3. Place(c) BY Zenon, <2>2 DEF Place
  <2>4. InRound(c) BY Zenon, <2>2 DEF InRound
  <2> QED BY Zenon, <2>3, <2>4
<1> QED
  BY Zenon, <1>4, <1>5, <1>6, <1>7, <1>8, <1>9, <1>10, <1>11 DEF IInv, LockstepInv

\* On a calm machine the ranks of an instance stay in lockstep, for every
\* number of ranks and rounds (ps_enter_forward, ps_leave_forward, the
\* coordinator).
THEOREM Lockstep == CalmSpec => []LockstepInv
  BY StartedInv, IInvNext, LockstepNext, PTL DEF CalmSpec

\* On a calm machine the pair never fails: none of the fences, duplicate-rank
\* checks, barrier timeouts and liveness checks of pair_sched.c is a false alarm.
THEOREM CalmNeverFails == CalmSpec => []NoFailure
<1>1. LockstepInv => NoFailure
  BY Zenon DEF LockstepInv, StillInv, NoFailure
<1> QED BY <1>1, Lockstep, PTL

\* While one rank executes a round, every other rank of its instance is in the
\* same round, between its READY bit and its EXIT bit.
THEOREM CalmStaysTogether == CalmSpec => []StaysTogether
<1>1. LockstepInv => StaysTogether
  <2> SUFFICES ASSUME LockstepInv, NEW c \in Ctx, NEW d \in Ctx,
                      Executing(c), instance[c] = instance[d]
               PROVE  next_seq[c] = next_seq[d] /\ pc[d] \in RoundPc
    BY Zenon DEF StaysTogether
  <2>1. Place(c) /\ Place(d)
    BY Zenon DEF LockstepInv
  <2>2. state[instance[c]] = "RUNNING" /\ next_seq[c] = forward_seq[instance[c]]
    BY Zenon, <2>1 DEF Executing, Place
  <2>3. /\ next_seq[d] = forward_seq[instance[d]]
        /\ pc[d] \in {"await", "poll", "exec", "fence", "finish", "complete",
                      "drain", "exit"}
    BY Zenon, <2>1, <2>2 DEF Place
  <2> QED BY Zenon, <2>2, <2>3 DEF RoundPc, LeavePc
<1> QED BY <1>1, Lockstep, PTL

-----------------------------------------------------------------------------
(***************************************************************************)
(* Turns.                                                                   *)
(***************************************************************************)

\* What a worker of instance i can do to the words the coordinator chooses by.
Works(i) ==
  /\ UNCHANGED <<owner, last_owner, cpc, scanned, selected>>
  /\ \A j \in Inst : j # i => /\ state'[j] = state[j]
                              /\ publish'[j] = publish[j]
                              /\ ready'[j] = ready[j]
  /\ \/ /\ state'[i] = state[i] /\ publish'[i] = publish[i]
        /\ state[i] = "READY" => ready'[i] = ready[i]
     \/ state[i] # "READY" /\ state'[i] \notin {"COLLECTING", "READY"}
     \/ /\ state[i] = "COLLECTING" /\ state'[i] = "READY"
        /\ publish'[i] = publish[i] /\ ready'[i] = Rank
     \/ /\ state[i] # "READY" /\ state'[i] = "COLLECTING"
        /\ publish'[i] \in Stamp(i)

\* On a calm machine that is all a worker does.
LEMMA WorkerWorks ==
  ASSUME IInv, LockstepInv, NEW c \in Ctx,
         \/ EnterSteps(c) \/ LeaveSteps(c) \/ EnterBegin(c) \/ LeaveBegin(c)
  PROVE  Works(instance[c])
<1> DEFINE i == instance[c]
<1>0. /\ TypeOK /\ Place(c) /\ i \in Inst /\ AloneInv
      /\ status = "RUNNING"
  BY Zenon, Known DEF LockstepInv
<1>1. ASSUME UNCHANGED <<owner, last_owner, coord, state, publish, ready>>
      PROVE  Works(i)
  BY Zenon, <1>1 DEF Works, coord
<1>2. CASE \/ EnterBegin(c) \/ LeaveBegin(c) \/ Match(c) \/ Await(c) \/ Poll(c)
           \/ Fence(c) \/ SetComplete(c) \/ Drain(c) \/ Exit(c)
  <2>1. UNCHANGED <<owner, last_owner, coord, state, publish, ready>>
    BY Zenon, <1>2 DEF EnterBegin, LeaveBegin, Match, Await, Poll, Fence,
         SetComplete, Drain, Exit, shared, group
  <2> QED BY Zenon, <1>1, <2>1
<1>3. CASE Claim(c)
  <2>1. /\ pc[c] = "claim"
        /\ UNCHANGED <<turns, round, coord>>
        /\ state' = state \/ (state[i] = "IDLE" /\
                              state' = [state EXCEPT ![i] = "INITIALIZING"])
    BY Zenon, <1>3 DEF Claim
  <2>2. CASE state' = state
    BY Zenon, <1>1, <2>1, <2>2
  <2>3. CASE state[i] = "IDLE" /\ state' = [state EXCEPT ![i] = "INITIALIZING"]
    <3>1. /\ state'[i] = "INITIALIZING"
          /\ \A j \in Inst : j # i => state'[j] = state[j]
      BY Zenon, <1>0, <2>3 DEF TypeOK
    <3> QED BY Zenon, <2>1, <2>3, <3>1 DEF Works, coord
  <2> QED BY Zenon, <2>1, <2>2, <2>3
<1>4. CASE InitRound(c)
  <2>1. /\ pc[c] = "init"
        /\ \E t \in Stamp(i) : publish' = [publish EXCEPT ![i] = t]
        /\ ready' = [ready EXCEPT ![i] = {}]
        /\ state' = [state EXCEPT ![i] = "COLLECTING"]
        /\ UNCHANGED <<shared, coord>>
    BY Zenon, <1>4 DEF InitRound
  <2>2. state[i] # "READY"
    BY Zenon, <1>0, <2>1 DEF Place
  <2>3. PICK t \in Stamp(i) : publish' = [publish EXCEPT ![i] = t]
    BY Zenon, <2>1
  <2>4. /\ state'[i] = "COLLECTING" /\ publish'[i] \in Stamp(i)
        /\ \A j \in Inst : j # i => /\ state'[j] = state[j]
                                    /\ publish'[j] = publish[j]
                                    /\ ready'[j] = ready[j]
    BY Zenon, <1>0, <2>1, <2>3 DEF TypeOK
  <2> QED BY Zenon, <2>1, <2>2, <2>4 DEF Works, shared, coord
<1>5. CASE SetReady(c)
  <2>1. /\ pc[c] = "ready"
        /\ ready' = [ready EXCEPT ![i] = @ \cup {rank[c]}]
        /\ UNCHANGED <<turns, state, publish, coord>>
    BY Zenon, <1>5 DEF SetReady
  <2>2. state[i] # "READY"
    BY Zenon, <1>0, <2>1 DEF Place
  <2>3. \A j \in Inst : j # i => ready'[j] = ready[j]
    BY Zenon, <1>0, <2>1 DEF TypeOK
  <2> QED BY Zenon, <2>1, <2>2, <2>3 DEF Works, coord
<1>6. CASE PublishReady(c)
  <2>1. pc[c] = "publish" /\ UNCHANGED <<turns, round, coord>>
    BY Zenon, <1>6 DEF PublishReady
  <2>2. state[i] = "COLLECTING" /\ ready[i] = Rank
    BY Zenon, <1>0, <2>1 DEF Place, AloneInv
  <2>3. state' = [state EXCEPT ![i] = "READY"]
    BY Zenon, <1>6, <2>2 DEF PublishReady
  <2>4. /\ state'[i] = "READY"
        /\ \A j \in Inst : j # i => state'[j] = state[j]
    BY Zenon, <1>0, <2>3 DEF TypeOK
  <2> QED BY Zenon, <2>1, <2>2, <2>4 DEF Works, coord
<1>7. CASE PublishComplete(c)
  <2>1. pc[c] = "complete" /\ UNCHANGED <<turns, round, coord>>
    BY Zenon, <1>7 DEF PublishComplete
  <2>2. state[i] = "RUNNING"
    BY Zenon, <1>0, <2>1 DEF Place
  <2>3. state' = [state EXCEPT ![i] = "COMPLETE"]
    BY Zenon, <1>7, <2>2 DEF PublishComplete
  <2>4. /\ state'[i] = "COMPLETE"
        /\ \A j \in Inst : j # i => state'[j] = state[j]
    BY Zenon, <1>0, <2>3 DEF TypeOK
  <2> QED BY Zenon, <2>1, <2>2, <2>4 DEF Works, coord
<1>8. CASE ResetRound(c)
  <2>1. /\ pc[c] = "reset"
        /\ publish' = [publish EXCEPT ![i] = 0]
        /\ ready' = [ready EXCEPT ![i] = {}]
        /\ state' = [state EXCEPT ![i] = "IDLE"]
        /\ UNCHANGED <<shared, coord>>
    BY Zenon, <1>8 DEF ResetRound
  <2>2. state[i] # "READY"
    BY Zenon, <1>0, <2>1 DEF Place
  <2>3. /\ state'[i] = "IDLE"
        /\ \A j \in Inst : j # i => /\ state'[j] = state[j]
                                    /\ publish'[j] = publish[j]
                                    /\ ready'[j] = ready[j]
    BY Zenon, <1>0, <2>1 DEF TypeOK
  <2> QED BY Zenon, <2>1, <2>2, <2>3 DEF Works, shared, coord
<1> QED
  BY Zenon, <1>2, <1>3, <1>4, <1>5, <1>6, <1>7, <1>8 DEF EnterSteps, LeaveSteps

\* The passing-over count of a step that selects nobody.
LEMMA NotPassed ==
  ASSUME TurnsInv, CountPasses, cpc # "select" \/ cpc' # "grant"
  PROVE  /\ passed' \in [Inst -> {0, 1}]
         /\ \A i \in Inst : passed'[i] = 1 =>
              passed[i] = 1 /\ state'[i] = "READY"
<1>1. \A i \in Inst : ~Selects(1 - i)
  BY Zenon DEF Selects
<1>2. \A i \in Inst : passed[i] \in {0, 1}
  BY Zenon DEF TurnsInv
<1>3. \A i \in Inst : passed'[i] = IF state'[i] # "READY" THEN 0 ELSE passed[i]
  BY Zenon, <1>1 DEF CountPasses
<1> QED BY <1>2, <1>3 DEF CountPasses

\* The work of the instances does not change whose turn is next: a round opened
\* while the other instance waits is stamped later, or the same.
LEMMA WorksInOrder ==
  ASSUME TypeOK, TurnsInv, CountPasses, NEW i \in Inst, Works(i)
  PROVE  TurnsInv'
<1>0. ScanInv /\ \A j \in Inst : passed[j] = 1 => Behind(j)
  BY Zenon DEF TurnsInv
<1>1. /\ passed' \in [Inst -> {0, 1}]
      /\ \A j \in Inst : passed'[j] = 1 => passed[j] = 1 /\ state'[j] = "READY"
  BY Zenon, NotPassed DEF Works
<1>2. \A t \in Stamp(i) : t # 0 /\ (publish[1 - i] # 0 => publish[1 - i] <= t)
  <2>1. publish[1 - i] \in Nat
    BY DEF TypeOK, Inst
  <2> QED BY <2>1 DEF Stamp
<1>3. ASSUME NEW j \in Inst
      PROVE  /\ state'[j] \in {"COLLECTING", "READY"} => publish'[j] # 0
             /\ state'[j] = "READY" => ready'[j] = Rank
             /\ scanned'[j] # NotReady =>
                  state'[j] = "READY" /\ scanned'[j] = publish'[j]
  <2>1. CASE j # i BY Zenon, <1>0, <2>1 DEF Works, ScanInv
  <2>2. CASE j = i
    <3>1. /\ state[i] \in {"COLLECTING", "READY"} => publish[i] # 0
          /\ state[i] = "READY" => ready[i] = Rank
          /\ scanned[i] # NotReady =>
               state[i] = "READY" /\ scanned[i] = publish[i]
      BY Zenon, <1>0 DEF ScanInv
    <3> QED BY Zenon, <1>2, <2>2, <3>1 DEF Works
  <2> QED BY Zenon, <2>1, <2>2
<1>4. ASSUME NEW j \in Inst, passed'[j] = 1 PROVE Behind(j)'
  <2>1. Behind(j) /\ state[j] = "READY" /\ state'[j] = "READY"
    BY Zenon, <1>0, <1>1, <1>4 DEF Behind
  <2>2. publish'[j] = publish[j] /\ publish[j] # 0
    BY Zenon, <1>0, <2>1 DEF Works, ScanInv
  <2>3. ASSUME state'[1 - j] \in {"COLLECTING", "READY"}
        PROVE  publish'[j] <= publish'[1 - j]
    <3>1. 1 - j \in Inst /\ 1 - (1 - j) = j
      BY DEF Inst
    <3>2. CASE 1 - j # i
      BY Zenon, <2>1, <2>2, <2>3, <3>1, <3>2 DEF Behind, Works
    <3>3. CASE 1 - j = i
      <4>1. 1 - i = j BY Zenon, <3>1, <3>3
      <4> QED BY Zenon, <1>2, <2>1, <2>2, <2>3, <3>3, <4>1 DEF Behind, Works
    <3> QED BY Zenon, <3>2, <3>3
  <2> QED BY Zenon, <2>1, <2>2, <2>3 DEF Behind, Works
<1> QED BY Zenon, <1>1, <1>3, <1>4 DEF TurnsInv, ScanInv

\* A step that leaves the groups and the last owner alone, moves the
\* coordinator and selects nobody.
LEMMA LooksInOrder ==
  ASSUME TurnsInv, CountPasses, UNCHANGED <<state, publish, ready, owner, last_owner>>,
         cpc # "grant", cpc' # "grant",
         scanned' = NoneReady \/ scanned' = scanned,
         cpc' \in {"scan1", "select"} => cpc' = cpc /\ scanned' = scanned
  PROVE  TurnsInv'
<1>0. ScanInv /\ \A j \in Inst : passed[j] = 1 => Behind(j)
  BY Zenon DEF TurnsInv
<1>1. /\ passed' \in [Inst -> {0, 1}]
      /\ \A j \in Inst : passed'[j] = 1 => passed[j] = 1 /\ state'[j] = "READY"
  BY Zenon, NotPassed
<1>2. \A j \in Inst : scanned'[j] \in {NotReady, scanned[j]}
  BY Zenon DEF NoneReady
<1>3. ScanInv'
  BY Zenon, <1>0, <1>2 DEF ScanInv
<1>4. ASSUME NEW j \in Inst, passed'[j] = 1 PROVE Behind(j)'
  <2>1. Behind(j)
    BY Zenon, <1>0, <1>1, <1>4
  <2> QED BY Zenon, <2>1 DEF Behind
<1> QED BY Zenon, <1>1, <1>3, <1>4 DEF TurnsInv

\* recycle_complete: the owner that is released has been the last to run.
LEMMA ReleasesInOrder ==
  ASSUME IInv, TurnsInv, CountPasses, ReleaseOwner
  PROVE  TurnsInv'
<1>0. ScanInv /\ \A j \in Inst : passed[j] = 1 => Behind(j)
  BY Zenon DEF TurnsInv
<1>1. /\ cpc = "release" /\ cpc' = "recheck" /\ owner \in Inst
      /\ last_owner' = owner /\ owner' = NoOwner
      /\ UNCHANGED <<state, publish, ready, scanned, selected>>
  BY Zenon DEF ReleaseOwner, CoordAt, IInv, CoordInv, group
<1>2. /\ passed' \in [Inst -> {0, 1}]
      /\ \A j \in Inst : passed'[j] = 1 => passed[j] = 1 /\ state'[j] = "READY"
  BY Zenon, <1>1, NotPassed
<1>3. ScanInv'
  BY Zenon, <1>0, <1>1 DEF ScanInv
<1>4. ASSUME NEW j \in Inst, passed'[j] = 1 PROVE Behind(j)'
  <2>1. Behind(j)
    BY Zenon, <1>0, <1>2, <1>4
  <2>2. owner = 1 - j
    BY <1>1, <2>1 DEF Behind, Inst
  <2>3. owner' # j
    BY <1>1 DEF Inst, NoOwner
  <2> QED BY Zenon, <1>1, <2>1, <2>2, <2>3 DEF Behind
<1> QED BY Zenon, <1>2, <1>3, <1>4 DEF TurnsInv

\* dispatch_next: a READY instance is seen.
LEMMA ScansInOrder ==
  ASSUME IInv, LockstepInv, TurnsInv, CountPasses, NEW i \in Inst, Scan(i)
  PROVE  TurnsInv'
<1>0. ScanInv /\ TypeOK /\ \A j \in Inst : passed[j] = 1 => Behind(j)
  BY Zenon DEF TurnsInv, IInv
<1>1. /\ cpc = IF i = 0 THEN "scan0" ELSE "scan1"
      /\ UNCHANGED <<state, publish, ready, owner, last_owner, selected>>
  BY Zenon DEF Scan, CoordAt, group
<1>2. /\ passed' \in [Inst -> {0, 1}]
      /\ \A j \in Inst : passed'[j] = 1 => passed[j] = 1 /\ state'[j] = "READY"
  BY Zenon, <1>1, NotPassed
<1>3. ~BarrierBroken(i)
  BY Zenon DEF BarrierBroken, LockstepInv, StillInv
<1>4. /\ scanned' = [scanned EXCEPT ![i] =
                       IF GroupReady(i) THEN publish[i] ELSE NotReady]
      /\ cpc' \in {"scan1", "tick", "select"}
      /\ i = 0 => cpc' = "scan1"
      /\ i # 0 => cpc' # "scan1"
  BY Zenon, <1>3 DEF Scan
<1>5. /\ scanned'[i] = IF GroupReady(i) THEN publish[i] ELSE NotReady
      /\ \A j \in Inst : j # i => scanned'[j] = scanned[j]
  BY Zenon, <1>0, <1>4 DEF TypeOK
<1>6. GroupReady(i) <=> state[i] = "READY"
  <2>1. state[i] = "READY" => online[i] = Rank /\ GroupWorkersAlive(i, Rank)
    BY Zenon, AllAlive
  <2> QED BY Zenon, <1>0, <2>1 DEF GroupReady, ScanInv
<1>7. ScanInv'
  BY Zenon, <1>0, <1>1, <1>5, <1>6 DEF ScanInv
<1>8. ASSUME NEW j \in Inst, passed'[j] = 1 PROVE Behind(j)'
  <2>1. Behind(j) /\ state[j] = "READY"
    BY Zenon, <1>0, <1>2, <1>8 DEF Behind
  <2>2. ASSUME cpc' = "select" \/ (cpc' = "scan1" /\ j = 0)
        PROVE  scanned'[j] = publish[j]
    <3>1. CASE j = i BY Zenon, <1>5, <1>6, <2>1, <3>1
    <3>2. CASE j # i
      <4>1. j = 0 /\ cpc = "scan1"
        BY <1>1, <1>4, <2>2, <3>2 DEF Inst
      <4> QED BY Zenon, <1>5, <2>1, <3>2, <4>1 DEF Behind
    <3> QED BY Zenon, <3>1, <3>2
  <2>3. cpc # "grant" /\ cpc' # "grant"
    BY Zenon, <1>1, <1>4
  <2> QED BY Zenon, <1>1, <2>1, <2>2, <2>3 DEF Behind
<1> QED BY Zenon, <1>2, <1>7, <1>8 DEF TurnsInv

\* dispatch_next: an instance that has been passed over is chosen.
LEMMA SelectsInOrder ==
  ASSUME IInv, TurnsInv, CountPasses, Select
  PROVE  TurnsInv'
<1> DEFINE i == Preferred
<1>0. ScanInv /\ TypeOK /\ \A j \in Inst : passed[j] = 1 => Behind(j)
  BY Zenon DEF TurnsInv, IInv
<1>1. /\ cpc = "select" /\ owner = NoOwner /\ owner' = NoOwner
      /\ scanned' = NoneReady /\ selected' = i
      /\ UNCHANGED <<publish, ready, last_owner>>
      /\ \/ /\ state[i] = "READY"
            /\ state' = [state EXCEPT ![i] = "RUNNING"]
            /\ cpc' = "grant"
         \/ state' = state /\ cpc' = "tick"
  BY Zenon DEF Select, CoordAt, IInv, CoordInv, shared
<1>2. i \in Inst /\ \A j \in Inst : 1 - j \in Inst /\ j # 1 - j
  BY DEF Preferred, Inst
<1>3. CASE state' = state /\ cpc' = "tick"
  BY Zenon, <1>1, <1>3, LooksInOrder
<1>4. CASE /\ state[i] = "READY"
           /\ state' = [state EXCEPT ![i] = "RUNNING"]
           /\ cpc' = "grant"
  <2>1. /\ state'[i] = "RUNNING"
        /\ \A j \in Inst : j # i => state'[j] = state[j]
    BY Zenon, <1>0, <1>2, <1>4 DEF TypeOK
  <2>2. ASSUME NEW j \in Inst, passed[j] = 1 PROVE i = j
    <3>1. /\ scanned[j] = publish[j] /\ last_owner = 1 - j
          /\ state[1 - j] = "READY" => publish[j] <= publish[1 - j]
      BY Zenon, <1>0, <1>1, <2>2 DEF Behind
    <3>2. /\ scanned[1 - j] # NotReady =>
               scanned[1 - j] = publish[1 - j] /\ publish[j] <= publish[1 - j]
      BY Zenon, <1>0, <1>2, <3>1 DEF ScanInv
    <3>3. publish[j] \in Nat /\ publish[1 - j] \in Nat
      BY Zenon, <1>0, <1>2 DEF TypeOK
    <3>4. CASE j = 0 BY <3>1, <3>2, <3>3, <3>4 DEF Preferred, Inst, NotReady
    <3>5. CASE j = 1 BY <3>1, <3>2, <3>3, <3>5 DEF Preferred, Inst, NotReady
    <3> QED BY Zenon, <3>4, <3>5 DEF Inst
  <2> HIDE DEF i
  <2>3. ASSUME NEW j \in Inst
        PROVE  passed'[j] = IF j # i /\ state[j] = "READY" THEN 1 ELSE 0
    <3>1. passed'[j] = IF state'[j] # "READY" THEN 0
                       ELSE IF Selects(1 - j) /\ passed[j] < 2 THEN passed[j] + 1
                                                               ELSE passed[j]
      BY Zenon DEF CountPasses
    <3>2. CASE j = i BY Zenon, <2>1, <3>1, <3>2
    <3>3. CASE j # i
      <4>1. Selects(1 - j)
        BY <1>1, <1>2, <1>4, <3>3 DEF Selects, Inst
      <4>2. passed[j] = 0
        BY Zenon, <2>2, <3>3 DEF TurnsInv
      <4> QED BY <2>1, <3>1, <3>3, <4>1, <4>2
    <3> QED BY Zenon, <3>2, <3>3
  <2>4. passed' \in [Inst -> {0, 1}]
    BY Zenon, <2>3 DEF CountPasses
  <2>5. ScanInv'
    BY Zenon, <1>0, <1>1, <2>1 DEF ScanInv, NoneReady
  <2>6. ASSUME NEW j \in Inst, passed'[j] = 1 PROVE Behind(j)'
    <3>1. j # i /\ state[j] = "READY"
      BY <2>3, <2>6
    <3>2. i = 1 - j /\ NoOwner # j
      BY <1>2, <3>1 DEF Inst, NoOwner
    <3>3. state'[j] = "READY" /\ state'[1 - j] = "RUNNING"
      BY Zenon, <2>1, <3>1, <3>2
    <3> QED BY Zenon, <1>1, <1>4, <3>2, <3>3 DEF Behind
  <2> QED BY Zenon, <2>4, <2>5, <2>6 DEF TurnsInv
<1> QED BY Zenon, <1>1, <1>3, <1>4

\* dispatch_next: the owner is the selected instance.
LEMMA GrantsInOrder ==
  ASSUME IInv, TurnsInv, CountPasses, Grant
  PROVE  TurnsInv'
<1>0. ScanInv /\ TypeOK /\ \A j \in Inst : passed[j] = 1 => Behind(j)
  BY Zenon DEF TurnsInv, IInv
<1>1. /\ cpc = "grant" /\ cpc' = "tick" /\ owner' = selected
      /\ UNCHANGED <<state, publish, ready, last_owner, scanned, selected>>
  BY Zenon DEF Grant, CoordAt
<1>2. /\ passed' \in [Inst -> {0, 1}]
      /\ \A j \in Inst : passed'[j] = 1 => passed[j] = 1 /\ state'[j] = "READY"
  BY Zenon, <1>1, NotPassed
<1>3. ScanInv'
  BY Zenon, <1>0, <1>1 DEF ScanInv
<1>4. ASSUME NEW j \in Inst, passed'[j] = 1 PROVE Behind(j)'
  <2>1. Behind(j)
    BY Zenon, <1>0, <1>2, <1>4
  <2>2. owner' = 1 - j
    BY Zenon, <1>1, <2>1 DEF Behind
  <2>3. owner' # j /\ owner' # NoOwner
    BY <2>2 DEF Inst, NoOwner
  <2> QED BY Zenon, <1>1, <2>1, <2>3 DEF Behind
<1> QED BY Zenon, <1>2, <1>3, <1>4 DEF TurnsInv

\* recycle_complete: a group that drains was not READY.
LEMMA DrainsInOrder ==
  ASSUME IInv, LockstepInv, TurnsInv, CountPasses, StartDraining
  PROVE  TurnsInv'
<1>0. ScanInv /\ TypeOK /\ \A j \in Inst : passed[j] = 1 => Behind(j)
  BY Zenon DEF TurnsInv, IInv
<1>1. /\ cpc = "drain" /\ cpc' = "release"
      /\ owner \in Inst /\ state[owner] = "COMPLETE"
      /\ state' = [state EXCEPT ![owner] = "DRAINING"]
      /\ UNCHANGED <<shared, publish, ready, scanned, selected>>
  BY Zenon DEF StartDraining, CoordAt, IInv, CoordInv, LockstepInv, WholeInv
<1>2. /\ state'[owner] = "DRAINING"
      /\ \A j \in Inst : j # owner => state'[j] = state[j]
  BY Zenon, <1>0, <1>1 DEF TypeOK
<1>3. /\ passed' \in [Inst -> {0, 1}]
      /\ \A j \in Inst : passed'[j] = 1 => passed[j] = 1 /\ state'[j] = "READY"
  BY Zenon, <1>1, NotPassed
<1>4. ScanInv'
  BY Zenon, <1>0, <1>1, <1>2 DEF ScanInv
<1>5. ASSUME NEW j \in Inst, passed'[j] = 1 PROVE Behind(j)'
  <2>1. Behind(j) /\ state'[j] = "READY"
    BY Zenon, <1>0, <1>3, <1>5
  <2>2. 1 - j \in Inst
    BY DEF Inst
  <2>3. state'[1 - j] \in {"COLLECTING", "READY"} => state[1 - j] = state'[1 - j]
    BY Zenon, <1>2, <2>2
  <2> QED BY Zenon, <1>1, <2>1, <2>3 DEF Behind, shared
<1> QED BY Zenon, <1>3, <1>4, <1>5 DEF TurnsInv

\* Every step of the calm machine keeps the order of turns.
LEMMA TurnsInvNext ==
  IInv /\ LockstepInv /\ TurnsInv /\ [TurnsNext]_<<vars, passed>> => TurnsInv'
<1> SUFFICES ASSUME IInv, LockstepInv, TurnsInv, [TurnsNext]_<<vars, passed>>
             PROVE  TurnsInv'
  BY Zenon
<1>0. ScanInv /\ TypeOK /\ \A j \in Inst : passed[j] = 1 => Behind(j)
  BY Zenon DEF TurnsInv, IInv
<1>1. CASE UNCHANGED <<vars, passed>>
  BY Zenon, <1>1 DEF TurnsInv, ScanInv, Behind, vars, shared, group, coord
<1> SUFFICES ASSUME Next, CountPasses PROVE TurnsInv'
  BY Zenon, <1>1 DEF TurnsNext
<1>2. ASSUME NEW c \in Ctx,
             \/ EnterSteps(c) \/ LeaveSteps(c) \/ EnterBegin(c) \/ LeaveBegin(c)
      PROVE  TurnsInv'
  <2>1. instance[c] \in Inst
    BY Zenon, CtxAssumption
  <2> QED BY Zenon, <1>0, <1>2, <2>1, WorkerWorks, WorksInOrder
<1>3. CASE Environment \/ \E c \in Ctx :
             \/ OpenSteps(c) \/ CloseSteps(c) \/ EnterTwice(c) \/ LeaveForeign(c)
             \/ Abort(c) \/ CloseBegin(c)
  <2>1. UNCHANGED <<shared, group, coord>>
    BY Zenon, <1>3, NothingElse
  <2>2. Works(0) /\ 0 \in Inst
    BY Zenon, <2>1 DEF Works, shared, group, coord, Inst
  <2> QED BY Zenon, <1>0, <2>2, WorksInOrder
<1>4. CASE Coordinator
  <2>1. CASE Tick
    <3>1. /\ UNCHANGED <<state, publish, ready, owner, last_owner>>
          /\ cpc = "tick" /\ cpc' \in {"recycle", "scan0"}
          /\ scanned' = NoneReady
      BY Zenon, <2>1 DEF Tick, CoordAt, group
    <3> QED BY Zenon, <3>1, LooksInOrder
  <2>2. CASE CoordStop
    <3>1. /\ UNCHANGED <<state, publish, ready, owner, last_owner, scanned>>
          /\ cpc = "tick" /\ cpc' = "stopped"
      BY Zenon, <2>2 DEF CoordStop, CoordAt, shared, group
    <3> QED BY Zenon, <3>1, LooksInOrder
  <2>3. CASE Recycle
    <3>1. /\ UNCHANGED <<state, publish, ready, owner, last_owner, scanned>>
          /\ cpc = "recycle" /\ cpc' \in {"tick", "drain"}
      BY Zenon, <2>3 DEF Recycle, CoordAt, group
    <3> QED BY Zenon, <3>1, LooksInOrder
  <2>4. CASE Recheck
    <3>1. /\ UNCHANGED <<state, publish, ready, owner, last_owner, scanned>>
          /\ cpc = "recheck" /\ cpc' \in {"scan0", "tick"}
      BY Zenon, <2>4 DEF Recheck, CoordAt, shared, group
    <3> QED BY Zenon, <3>1, LooksInOrder
  <2> QED
    BY Zenon, <1>4, <2>1, <2>2, <2>3, <2>4, DrainsInOrder, ReleasesInOrder,
       ScansInOrder, SelectsInOrder, GrantsInOrder DEF Coordinator, Inst
<1> QED BY Zenon, <1>2, <1>3, <1>4 DEF Next, Engine

\* Nobody has been passed over when the traffic starts.
LEMMA TurnsInvInit == Calm /\ Started(Ctx) /\ NonePassed => TurnsInv
<1> SUFFICES ASSUME Started(Ctx), NonePassed PROVE TurnsInv
  BY Zenon
<1>1. \A i \in Inst : state[i] \in {"IDLE", "OFFLINE"} /\ scanned[i] = NotReady
  BY Zenon DEF Started, NoneReady
<1>2. \A i \in Inst : passed[i] = 0
  BY Zenon DEF NonePassed
<1>3. passed \in [Inst -> {0, 1}]
  BY Zenon DEF NonePassed
<1> QED BY <1>1, <1>2, <1>3 DEF TurnsInv, ScanInv

\* An instance that has been passed over while READY is the next to be
\* granted, for every number of ranks and rounds (dispatch_next).
THEOREM TurnsKept == CalmTurns => []TurnsInv
<1>1. TurnsNext => Next
  BY Zenon DEF TurnsNext
<1>2. [TurnsNext]_<<vars, passed>> => [Next]_vars
  BY Zenon, <1>1
<1> QED
  BY <1>2, StartedInv, IInvNext, LockstepNext, TurnsInvInit, TurnsInvNext, PTL
     DEF CalmTurns

\* A READY instance is passed over at most once, for every number of ranks and
\* rounds (publish_ns and the last_owner tie-break of dispatch_next).
THEOREM CalmPassedOverOnce == CalmTurns => []PassedOverOnce
<1>1. TurnsInv => PassedOverOnce
  BY DEF TurnsInv, PassedOverOnce
<1> QED BY <1>1, TurnsKept, PTL
=============================================================================
