------------------------------ MODULE PairTurns ------------------------------
(***************************************************************************)
(* PairSched with a history variable that counts how often a READY         *)
(* instance is passed over, on a calm machine.                             *)
(***************************************************************************)
EXTENDS PairCalm

VARIABLE passed  \* passed[i]: rounds the other instance got while i was READY
                 \* (2: twice or more)

Selects(i) == cpc = "select" /\ cpc' = "grant" /\ selected' = i

CountPasses ==
  passed' = [i \in Inst |->
    IF state'[i] # "READY" THEN 0
    ELSE IF Selects(1 - i) /\ passed[i] < 2 THEN passed[i] + 1 ELSE passed[i]]

TurnsNext == Next /\ CountPasses

NonePassed == passed = [i \in Inst |-> 0]

CalmTurns ==
  Calm /\ Started(Ctx) /\ NonePassed /\ [][TurnsNext]_<<vars, passed>>

\* An instance whose round is READY is passed over at most once: by a round
\* published earlier, or by one that the coordinator had seen first
\* (dispatch_next, publish_ns and the last_owner tie-break).
PassedOverOnce == \A i \in Inst : passed[i] <= 1

\* What the coordinator has seen READY is READY still, under the same stamp.
ScanInv ==
  /\ \A i \in Inst : state[i] \in {"COLLECTING", "READY"} => publish[i] # 0
  /\ \A i \in Inst : state[i] = "READY" => ready[i] = Rank
  /\ \A i \in Inst : scanned[i] # NotReady =>
       state[i] = "READY" /\ scanned[i] = publish[i]

\* The other instance has had its turn: it is behind i in both orders by which
\* the coordinator chooses, and the coordinator does not overlook i.
Behind(i) ==
  /\ state[i] = "READY"
  /\ owner # i
  /\ cpc = "grant" => selected = 1 - i
  /\ owner = NoOwner /\ cpc # "grant" => last_owner = 1 - i
  /\ state[1 - i] \in {"COLLECTING", "READY"} => publish[i] <= publish[1 - i]
  /\ cpc = "select" \/ (cpc = "scan1" /\ i = 0) => scanned[i] = publish[i]

\* An instance that has been passed over is next (dispatch_next).
TurnsInv ==
  /\ ScanInv
  /\ passed \in [Inst -> {0, 1}]
  /\ \A i \in Inst : passed[i] = 1 => Behind(i)
=============================================================================
