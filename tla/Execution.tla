------------------------------ MODULE Execution ------------------------------
(***************************************************************************)
(* What the handlers of the control plane may expect of an executor, over  *)
(* ssh, local or docker: a server only appears while a Start of its name   *)
(* is under way, one may go at any time, and a request ends with a result. *)
(* How far a result can be believed depends on the executor and on what    *)
(* may go wrong around it: that is trust.                                  *)
(***************************************************************************)
CONSTANTS
  Names,    \* what servers are told apart by
  NoName,   \* no server, none of the names
  Runners   \* the handler goroutines

VARIABLES
  req,   \* the request each runner has made, with its result once it has one
  live,  \* the names that have a live server
  trust  \* which results can be believed

\* "started": a Start that reports success has a live server at that moment.
\* "stopped": a Stop that reports success has left no live server.
\* "stops":   a Stop reports success.
Trusts == {"started", "stopped", "stops"}

NoReq == [op |-> "none", name |-> NoName, result |-> "none"]

\* r waits for the result of a request of this kind.
Waits(r, op) == req[r].op = op /\ req[r].result = "none"

-----------------------------------------------------------------------------
Begin(r, op, n) ==
  /\ req[r] = NoReq
  /\ req' = [req EXCEPT ![r] = [op |-> op, name |-> n, result |-> "none"]]
  /\ UNCHANGED live

\* The server of a Start under way comes up.
Launch(n) ==
  /\ \E r \in Runners : Waits(r, "start") /\ req[r].name = n
  /\ live' = live \cup {n}
  /\ UNCHANGED req

\* A server ends: stopped, crashed, or killed by anyone.
End(n) ==
  /\ live' = live \ {n}
  /\ UNCHANGED req

\* The request ends, and with it perhaps what it was waiting for.
FinishStart(r, result) ==
  /\ Waits(r, "start")
  /\ live' \in {live, live \cup {req[r].name}}
  /\ result = "started" /\ "started" \in trust => req[r].name \in live'
  /\ req' = [req EXCEPT ![r].result = result]

FinishStop(r, result) ==
  /\ Waits(r, "stop")
  /\ live' \in {live, live \ {req[r].name}}
  /\ result = "stopped" /\ "stopped" \in trust => req[r].name \notin live'
  /\ result = "failed" => "stops" \notin trust
  /\ req' = [req EXCEPT ![r].result = result]

Return(r) ==
  /\ req[r].result # "none"
  /\ req' = [req EXCEPT ![r] = NoReq]
  /\ UNCHANGED live

\* The control plane dies; the servers do not.
Crash ==
  /\ req' = [r \in Runners |-> NoReq]
  /\ UNCHANGED live

-----------------------------------------------------------------------------
Init ==
  /\ req = [r \in Runners |-> NoReq]
  /\ live = {}
  /\ trust \in SUBSET Trusts

Step(r) ==
  \/ \E op \in {"start", "stop"}, n \in Names : Begin(r, op, n)
  \/ \E result \in {"started", "failed"} : FinishStart(r, result)
  \/ \E result \in {"stopped", "failed"} : FinishStop(r, result)
  \/ Return(r)

Next ==
  /\ \/ \E n \in Names : Launch(n) \/ End(n)
     \/ \E r \in Runners : Step(r)
     \/ Crash
  /\ UNCHANGED trust

Spec == Init /\ [][Next]_<<req, live, trust>>
=============================================================================
