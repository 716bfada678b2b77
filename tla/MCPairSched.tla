----------------------------- MODULE MCPairSched -----------------------------
(***************************************************************************)
(* Instances of PairSched for TLC.  A context is named by its instance and *)
(* rank; a second context on a slot is a restarted worker.                 *)
(***************************************************************************)
EXTENDS PairCalm

\* ctx -> instance and rank, for contexts <<instance, rank, incarnation>>
MCInstance == [c \in Ctx |-> c[1]]
MCRank == [c \in Ctx |-> c[2]]
MCCreator == <<0, 0, 1>>

TwoByTwo == {<<i, k, 1>> : i \in {0, 1}, k \in {0, 1}}
TwoByOne == {<<i, 0, 1>> : i \in {0, 1}}

\* Instance B restarts its only worker once.
RestartB == TwoByOne \cup {<<1, 0, 2>>}

\* Every worker, or the workers of B.
All == Ctx
OnlyB == {c \in Ctx : c[1] = 1}

\* Rounds of A and of B.
Seq11 == [i \in Inst |-> 1]
Seq12 == [i \in Inst |-> IF i = 0 THEN 1 ELSE 2]
Seq22 == [i \in Inst |-> 2]

\* The state in which every first incarnation has been opened and none has
\* entered: the state in which traffic starts.
First == {c \in Ctx : c[3] = 1}

StartedInit == Started(First)

\* Runs that do not tell failure reasons apart look through this view.
Outcome == IF status \in Reason THEN "FAILED" ELSE status
View == <<Outcome, owner, last_owner, deadline, primary_stale, next_grant_id,
          group, slots, local, coord>>

StartedSpec == StartedInit /\ [][Next]_vars

\* Both ranks of A; B is not started.
OneByTwo == {<<0, k, 1>> : k \in {0, 1}}

\* Threads and clocks run on while processes crash; engines may stop sending
\* steps.
CrashSpec == StartedSpec /\ Threads /\ Clocks
\* The same from an empty segment.
OpenCrashSpec == Spec /\ Threads /\ Clocks
=============================================================================
