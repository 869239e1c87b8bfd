---------------------------- MODULE MCSSHExecutor ----------------------------
(* Small instances of SSHExecutor for TLC.  Names and ports stand for      *)
(* themselves: every deployment has a name of its own, all have one port.  *)
EXTENDS SSHExecutor, TLC

OwnNames == [d \in Deployments |-> d]
OnePort == [d \in Deployments |-> 8081]

\* Anything but reuse of pids; the same with commands that are answered;
\* that without crashes; and an orderly world, with reuse.
MCWorlds == {{"overlap", "slow", "die", "fault", "crash"},
             {"overlap", "slow", "die", "crash"},
             {"overlap", "slow", "die"},
             {"die", "reuse"}}

Symmetry == Permutations(Runners) \cup Permutations(Pids) \cup Permutations(Deployments)
=============================================================================
