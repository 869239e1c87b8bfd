------------------------------- MODULE MCFleet -------------------------------
(* Small instances of Fleet for TLC: every deployment is on the one        *)
(* machine, runs the one model, and has the one name.                      *)
EXTENDS Fleet

MCMachineOf == [d \in Deployments |-> CHOOSE m \in Machines : TRUE]
MCModelOf == [d \in Deployments |-> CHOOSE m \in Models : TRUE]
MCNameOf == [d \in Deployments |-> CHOOSE n \in Names : TRUE]
=============================================================================
