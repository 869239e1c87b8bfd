--------------------------- MODULE MCLocalExecutor ---------------------------
(* Small instances of LocalExecutor for TLC.  Names and ports stand for      *)
(* themselves: every deployment has a name of its own, all have one port.  *)
EXTENDS LocalExecutor, TLC

OwnNames == [d \in Deployments |-> d]
OnePort == [d \in Deployments |-> 8081]

\* Anything but reuse of pids; anything but crashes; reuse after crashes; and
\* an orderly world.
MCWorlds == {{"overlap", "slow", "die", "fault", "crash"},
             {"overlap", "slow", "die", "fault", "reuse"},
             {"reuse", "crash"},
             {"die", "reuse"}}

\* Nothing out of the ordinary.
CalmWorld == {{}}

Symmetry == Permutations(Runners) \cup Permutations(Pids) \cup Permutations(Deployments)
=============================================================================
