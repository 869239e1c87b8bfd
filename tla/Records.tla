------------------------------ MODULE Records ------------------------------
(***************************************************************************)
(* What the control plane promises to those who only read the records of   *)
(* deployments (the gateway, the user interface): records change one at a  *)
(* time, and a status that says how a server fares is only written once    *)
(* the start commands of that deployment have run.  ControlPlane           *)
(* implements this specification (KeepsPromise); Gateway builds on it.     *)
(***************************************************************************)

CONSTANTS
  Deployments,  \* the random ids of deployments
  Contents      \* what a record may be, a subset of the contents below

VARIABLES
  rec,      \* the file deployments/<id>.json: its status, or what else it is
  executed  \* the deployments whose start commands have run once

\* The statuses that are written without looking at any server...
Unearned == {"planned", "deploying", "stopped"}
\* ...those that follow from start commands or a health check...
Earned == {"running", "failed", "degraded", "unhealthy"}
\* ...and no file, or one that does not parse.
Unreadable == {"absent", "torn"}

ASSUME RecordsAssumption ==
  Contents \subseteq Unearned \cup Earned \cup Unreadable

\* The handler that starts d has run its commands.
RunCommands(d) ==
  /\ executed' = executed \cup {d}
  /\ UNCHANGED rec

\* A handler or the scheduler writes or removes the record of d.
Write(d, s) ==
  /\ s \in Earned => d \in executed
  /\ rec' = [rec EXCEPT ![d] = s]
  /\ UNCHANGED executed

RecordsInit ==
  /\ rec = [d \in Deployments |-> "absent"]
  /\ executed = {}

RecordsNext ==
  \E d \in Deployments :
    \/ RunCommands(d)
    \/ \E s \in Contents : Write(d, s)

RecordsSpec == RecordsInit /\ [][RecordsNext]_<<rec, executed>>
=============================================================================
