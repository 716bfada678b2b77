----------------------------- MODULE PairRounds ------------------------------
(***************************************************************************)
(* What the pair scheduler promises: execution rounds of two instances,    *)
(* one at a time.  A round is granted to one instance; each rank of that   *)
(* instance starts it at most once and stops it by finishing, failing or   *)
(* dying; the turn passes on only when every rank has started the round    *)
(* and none is executing any more.                                         *)
(***************************************************************************)
EXTENDS Integers

CONSTANTS Ctx, Rank, instance, rank

Inst == {0, 1}
NoTurn == -1

VARIABLES
  turn,       \* the instance whose round it is
  started,    \* the ranks that have started the round
  executing   \* the contexts inside their round

rvars == <<turn, started, executing>>

Init ==
  /\ turn = NoTurn
  /\ started = {}
  /\ executing = {}

GrantRound(i) ==
  /\ turn = NoTurn
  /\ executing = {}
  /\ turn' = i
  /\ started' = {}
  /\ UNCHANGED executing

Start(c) ==
  /\ turn = instance[c]
  /\ rank[c] \notin started
  /\ started' = started \cup {rank[c]}
  /\ executing' = executing \cup {c}
  /\ UNCHANGED turn

Stop(c) ==
  /\ c \in executing
  /\ executing' = executing \ {c}
  /\ UNCHANGED <<turn, started>>

PassOn ==
  /\ turn # NoTurn
  /\ started = Rank
  /\ executing = {}
  /\ turn' = NoTurn
  /\ started' = {}
  /\ UNCHANGED executing

Next ==
  \/ \E i \in Inst : GrantRound(i)
  \/ \E c \in Ctx : Start(c) \/ Stop(c)
  \/ PassOn

Spec == Init /\ [][Next]_rvars
=============================================================================
