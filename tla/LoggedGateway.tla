--------------------------- MODULE LoggedGateway ---------------------------
(***************************************************************************)
(* The gateway with the event log: every chat request that has come as far *)
(* as the lookup calls LogGateway once, when it is refused or when the     *)
(* answer has come.                                                        *)
(***************************************************************************)
EXTENDS Gateway, EventLog

\* The request of q is refused or answered, or its time has run out.
Decided(q) ==
  at[q] \in {"lookup", "forward", "await"} /\ at'[q] \in {"refused", "answered", "lost"}

LogGateway == IF \E q \in Clients : Decided(q) THEN Log ELSE UNCHANGED events

LoggedInit == Init /\ EventLogInit

LoggedNext == Next /\ LogGateway

LoggedSpec == LoggedInit /\ [][LoggedNext]_<<vars, events>>
=============================================================================
