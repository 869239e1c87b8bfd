--------------------------- MODULE DockerExecutor ---------------------------
(***************************************************************************)
(* Executor.StartDocker and StopDocker: the deployments of a docker host,  *)
(* each in a container named after the deployment's name.  Every docker    *)
(* command is a step; the daemon and its containers change in between.     *)
(* Nothing in the code removes a container: a deployment that is stopped   *)
(* or deleted leaves its container behind, and a deployment of that name   *)
(* finds it.                                                               *)
(*                                                                         *)
(* What may happen besides the commands themselves varies with the world:  *)
(*   "overlap"  requests for one name overlap                              *)
(*   "die"      a server may exit by itself                                *)
(*   "fault"    a command may fail, before or after the daemon has run it  *)
(*   "busy"     the port may be taken when a container wants to bind it    *)
(*   "crash"    the control plane may die and be started again             *)
(***************************************************************************)
EXTENDS Naturals

CONSTANTS
  Deployments,  \* deployments of this docker host
  NameOf,       \* Deployment.Name, which makes the container's name
  Runners,      \* the handler goroutines
  Worlds        \* the worlds to consider

ASSUME DockerAssumption ==
  /\ DOMAIN NameOf = Deployments
  /\ "none" \notin Deployments \cup {NameOf[d] : d \in Deployments}
  /\ Worlds \subseteq SUBSET {"overlap", "die", "fault", "busy", "crash"}

VARIABLES
  pc,         \* the command each runner is about to give
  dep,        \* the deployment of its request
  steady,     \* history: its container has run ever since it began
  container,  \* the state of the container of each name
  config,     \* the deployment whose image, port and model it was created with
  world       \* what may happen in this behaviour

vars == <<pc, dep, steady, container, config, world>>

Names == {NameOf[d] : d \in Deployments}
Absent == "absent"

Name(r) == NameOf[dep[r]]
Exists(r) == container[Name(r)] # Absent
Running(r) == container[Name(r)] = "running"
Faulty == "fault" \in world

Goto(r, label) == pc' = [pc EXCEPT ![r] = label]

\* A command of r failed: the daemon could not be asked, or did not answer.
NoAnswer(r) == Faulty /\ Goto(r, "noanswer")
NotStopped(r) == Faulty /\ Goto(r, "notstopped")

\* The container of name n is now in state s.
Becomes(n, s) == container' = [container EXCEPT ![n] = s]

-----------------------------------------------------------------------------
Begin(r, op, d) ==
  /\ pc[r] = "idle"
  /\ "overlap" \notin world =>
       \A q \in Runners : pc[q] # "idle" => Name(q) # NameOf[d]
  /\ dep' = [dep EXCEPT ![r] = d]
  /\ Goto(r, IF op = "start" THEN "find" ELSE "findstop")
  /\ UNCHANGED <<container, config, world>>

Return(r) ==
  /\ pc[r] \in {"started", "failed", "noanswer", "stopped", "notstopped"}
  /\ Goto(r, "idle")
  /\ dep' = [dep EXCEPT ![r] = "none"]
  /\ UNCHANGED <<container, config, world>>

-----------------------------------------------------------------------------
(* StartDocker                                                             *)

MutantFind(r) ==  \* a container is always created
  /\ pc[r] = "find"
  /\ Goto(r, "pull")
  /\ UNCHANGED <<dep, container, config, world>>

\* ContainerExists: docker ps -a.
Find(r) ==
  /\ pc[r] = "find"
  /\ \/ Goto(r, IF Exists(r) THEN "running" ELSE "pull")
     \/ NoAnswer(r)
  /\ UNCHANGED <<dep, container, config, world>>

\* ContainerRunning: docker ps.  A container that runs is left as it is.
FindRunning(r) ==
  /\ pc[r] = "running"
  /\ \/ Goto(r, IF Running(r) THEN "started" ELSE "restart")
     \/ NoAnswer(r)
  /\ UNCHANGED <<dep, container, config, world>>

MutantRestart(r) ==  \* the outcome of docker start is not waited for
  /\ pc[r] = "restart"
  /\ Becomes(Name(r), "restarting")
  /\ Goto(r, "started")
  /\ UNCHANGED <<dep, config, world>>

\* docker start: fine if it is running already; it may not get its port.
Restart(r) ==
  /\ pc[r] = "restart"
  /\ \/ /\ Becomes(Name(r), "running")
        /\ Goto(r, "started")
     \/ /\ "busy" \in world /\ ~Running(r)
        /\ Goto(r, "failed")
        /\ UNCHANGED container
     \/ NoAnswer(r) /\ container' \in {container, [container EXCEPT ![Name(r)] = "running"]}
  /\ UNCHANGED <<dep, config, world>>

PullImage(r) ==
  /\ pc[r] = "pull"
  /\ \/ Goto(r, "create")
     \/ NoAnswer(r)
  /\ UNCHANGED <<dep, container, config, world>>

\* docker run -d creates the container of dep[r].
Created(r, s) ==
  /\ ~Exists(r)
  /\ Becomes(Name(r), s)
  /\ config' = [config EXCEPT ![Name(r)] = dep[r]]

MutantCreateContainer(r) ==  \* "name already in use" taken for success
  /\ pc[r] = "create"
  /\ \/ Created(r, "running") /\ Goto(r, "verify")
     \/ Exists(r) /\ Goto(r, "verify") /\ UNCHANGED <<container, config>>
     \/ "busy" \in world /\ Created(r, "created") /\ Goto(r, "failed")
     \/ NoAnswer(r) /\ (Created(r, "running") \/ UNCHANGED <<container, config>>)
  /\ UNCHANGED <<dep, world>>

\* It fails if the name is taken, and leaves the container behind, created
\* but not running, if it does not get its port.
CreateContainer(r) ==
  /\ pc[r] = "create"
  /\ \/ Created(r, "running") /\ Goto(r, "verify")
     \/ Exists(r) /\ Goto(r, "failed") /\ UNCHANGED <<container, config>>
     \/ "busy" \in world /\ Created(r, "created") /\ Goto(r, "failed")
     \/ NoAnswer(r) /\ (Created(r, "running") \/ UNCHANGED <<container, config>>)
  /\ UNCHANGED <<dep, world>>

MutantVerify(r) ==  \* only the error of docker ps is looked at
  /\ pc[r] = "verify"
  /\ \/ Goto(r, "started")
     \/ NoAnswer(r)
  /\ UNCHANGED <<dep, container, config, world>>

\* Sleep 2 s, then ContainerRunning again.
Verify(r) ==
  /\ pc[r] = "verify"
  /\ \/ Goto(r, IF Running(r) THEN "started" ELSE "failed")
     \/ NoAnswer(r)
  /\ UNCHANGED <<dep, container, config, world>>

-----------------------------------------------------------------------------
(* StopDocker                                                              *)

FindStop(r) ==
  /\ pc[r] = "findstop"
  /\ \/ Goto(r, IF Exists(r) THEN "stop" ELSE "stopped")
     \/ NotStopped(r)
  /\ UNCHANGED <<dep, container, config, world>>

MutantStopContainer(r) ==  \* the error of docker stop is not looked at
  /\ pc[r] = "stop"
  /\ \/ Becomes(Name(r), "exited")
     \/ Faulty /\ UNCHANGED container
  /\ Goto(r, "stopped")
  /\ UNCHANGED <<dep, config, world>>

\* docker stop: ends the server, by force after a while; fine if it is not
\* running.
StopContainer(r) ==
  /\ pc[r] = "stop"
  /\ \/ /\ Becomes(Name(r), IF Running(r) THEN "exited" ELSE container[Name(r)])
        /\ Goto(r, "stopped")
     \/ /\ NotStopped(r)
        /\ container' \in {container} \cup
             (IF Running(r) THEN {[container EXCEPT ![Name(r)] = "exited"]} ELSE {})
  /\ UNCHANGED <<dep, config, world>>

-----------------------------------------------------------------------------
(* The docker host.                                                        *)

Exit(n) ==
  /\ "die" \in world
  /\ container[n] = "running"
  /\ Becomes(n, "exited")
  /\ UNCHANGED <<pc, dep, config, world>>

Crash ==
  /\ "crash" \in world
  /\ pc' = [r \in Runners |-> "idle"]
  /\ dep' = [r \in Runners |-> "none"]
  /\ UNCHANGED <<container, config, world>>

-----------------------------------------------------------------------------
Init ==
  /\ pc = [r \in Runners |-> "idle"]
  /\ dep = [r \in Runners |-> "none"]
  /\ steady = [r \in Runners |-> FALSE]
  /\ container = [n \in Names |-> Absent]
  /\ config = [n \in Names |-> "none"]
  /\ world \in Worlds

StartStep(r) ==
  \/ Find(r) \/ FindRunning(r) \/ Restart(r)
  \/ PullImage(r) \/ CreateContainer(r) \/ Verify(r)

StopStep(r) == FindStop(r) \/ StopContainer(r)

Step ==
  \/ \E r \in Runners :
       \/ \E op \in {"start", "stop"}, d \in Deployments : Begin(r, op, d)
       \/ StartStep(r) \/ StopStep(r) \/ Return(r)
  \/ \E n \in Names : Exit(n)
  \/ Crash

Watch ==
  steady' = [r \in Runners |->
    /\ pc'[r] # "idle"
    /\ container'[NameOf[dep'[r]]] = "running"
    /\ steady[r] \/ pc[r] = "idle"]

Next == Step /\ Watch

Spec == Init /\ [][Next]_vars

-----------------------------------------------------------------------------
(* Properties.                                                             *)

TypeOK ==
  /\ pc \in [Runners -> {"idle", "find", "running", "restart", "pull", "create", "verify",
                         "started", "failed", "noanswer",
                         "findstop", "stop", "stopped", "notstopped"}]
  /\ dep \in [Runners -> Deployments \cup {"none"}]
  /\ steady \in [Runners -> BOOLEAN]
  /\ container \in [Names -> {Absent, "created", "running", "exited"}]
  /\ config \in [Names -> Deployments \cup {"none"}]
  /\ world \in Worlds

(* A Start is safe to retry: if its container has run all the while and    *)
(* the daemon has answered, it does not fail, however requests overlap.    *)
SafeToRetry ==
  \A r \in Runners : pc[r] = "failed" => ~steady[r]

(* The executor does what Execution says: containers come to run only      *)
(* while a Start of their name is under way; a Start that reports success  *)
(* has its container running at that moment, whichever of its three ways   *)
(* it went; and at the moment a Stop reports success none is running, even *)
(* if requests overlap and commands fail.                                  *)
RequestOf(r) ==
  [op     |-> CASE pc[r] = "idle" -> "none"
                [] pc[r] \in {"findstop", "stop", "stopped", "notstopped"} -> "stop"
                [] OTHER -> "start",
   name   |-> IF pc[r] = "idle" THEN "none" ELSE Name(r),
   result |-> CASE pc[r] \in {"started", "stopped"} -> pc[r]
                [] pc[r] \in {"failed", "noanswer", "notstopped"} -> "failed"
                [] OTHER -> "none"]

Requests == [r \in Runners |-> RequestOf(r)]

RunningNames == {n \in Names : container[n] = "running"}

Trust == {"started", "stopped"} \cup (IF Faulty THEN {} ELSE {"stops"})

Promise == INSTANCE Execution WITH
  NoName <- "none", req <- Requests, live <- RunningNames, trust <- Trust

KeepsPromise == Promise!Spec

(* A Start that found no container and reports success runs its own image, *)
(* port and model, not those of a namesake created meanwhile.  (One that   *)
(* did find a container starts that one, whoever it was created for.)      *)
StartedOwn ==
  [][\A r \in Runners : pc[r] = "verify" /\ pc'[r] = "started" =>
       config[Name(r)] = dep[r]]_vars
=============================================================================
