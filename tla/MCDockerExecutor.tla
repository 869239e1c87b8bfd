--------------------------- MODULE MCDockerExecutor ---------------------------
(* Small instances of DockerExecutor for TLC: d1 and d2 share a name, d3   *)
(* has its own.                                                            *)
EXTENDS DockerExecutor, TLC

CONSTANTS d1, d2, d3

MCNameOf == (d1 :> "a") @@ (d2 :> "a") @@ (d3 :> "b")

MCWorlds == {{"overlap", "die", "fault", "busy", "crash"},
             {"die", "fault", "busy"}}

Symmetry == Permutations(Runners) \cup Permutations({d1, d2})
=============================================================================
