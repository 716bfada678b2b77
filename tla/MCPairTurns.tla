----------------------------- MODULE MCPairTurns -----------------------------
(***************************************************************************)
(* Instances of PairTurns for TLC.                                         *)
(*                                                                         *)
(* An instance must be able to run for ever, or the other one could not be *)
(* starved, so the counters that only grow are brought back while their    *)
(* instance is between rounds.  The code compares the sequence numbers of  *)
(* an instance with each other, grants with each other and for being 0,    *)
(* and the publish stamps of the two instances with each other, so that a  *)
(* state and its renumbered copy have the same steps.                      *)
(***************************************************************************)
EXTENDS MCPairSched, PairTurns

\* Instance i has used up its sequence numbers and is between rounds.
Worn(i) ==
  /\ state[i] = "IDLE"
  /\ forward_seq[i] = MaxSeq[i]
  /\ \A c \in Ctx : instance[c] = i =>
       pc[c] = "idle" /\ active_seq[c] = 0 /\ next_seq[c] = MaxSeq[i]

OneIfAny(n) == IF n > 0 THEN 1 ELSE n

\* Its sequence numbers start again, and the one grant and the one stamp that
\* may be in use, the other instance's, become the first ones.
Renumber(i) ==
  /\ Worn(i)
  /\ forward_seq' = [forward_seq EXCEPT ![i] = 0]
  /\ last_seq' = [last_seq EXCEPT ![i] = [k \in Rank |-> 0]]
  /\ next_seq' = [c \in Ctx |-> IF instance[c] = i THEN 0 ELSE next_seq[c]]
  /\ grant_id' = [j \in Inst |-> OneIfAny(grant_id[j])]
  /\ active_grant_id' = [c \in Ctx |-> OneIfAny(active_grant_id[c])]
  /\ next_grant_id' = OneIfAny(grant_id[1 - i])
  /\ publish' = [j \in Inst |-> OneIfAny(publish[j])]
  /\ scanned' = [j \in Inst |-> OneIfAny(scanned[j])]
  /\ UNCHANGED <<status, owner, last_owner, deadline, primary_stale, state, ready,
                 complete, exited, online, late, session, fresh, pc, closing,
                 active_seq, cpc, selected, passed>>

TurnsSpec ==
  /\ StartedInit
  /\ NonePassed
  /\ [][TurnsNext \/ \E i \in Inst : Renumber(i)]_<<vars, passed>>
  /\ Threads
=============================================================================
