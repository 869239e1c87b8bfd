--------------------------- MODULE MCControlPlane ---------------------------
(* Small instances of ControlPlane for TLC: every deployment is on the one *)
(* machine and runs the one model.                                         *)
EXTENDS ControlPlane, TLC

MCMachineOf == [d \in Deployments |-> CHOOSE m \in Machines : TRUE]
MCModelOf == [d \in Deployments |-> CHOOSE m \in Models : TRUE]

\* Handlers are interchangeable, and so are the random ids.
Symmetry == Permutations(Handlers) \cup Permutations(Deployments)
=============================================================================
