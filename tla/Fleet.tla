-------------------------------- MODULE Fleet --------------------------------
(***************************************************************************)
(* The control plane and the executors together: ControlPlane, whose       *)
(* remote commands are a verdict only, and Execution, which says what they *)
(* have done when the verdict comes.  A handler at "execute" is a runner   *)
(* whose request is under way.                                             *)
(*                                                                         *)
(* Executors know deployments by their names, which nothing keeps unique:  *)
(* deployments of one name share a server.                                 *)
(*                                                                         *)
(* In a calm world starts and stops for one name do not overlap, and       *)
(* commands are answered, so that the results of an executor can be        *)
(* believed (see the trust of SSHExecutor and DockerExecutor).  In any     *)
(* other world nothing follows about the servers, and they are not         *)
(* followed.  Nor are they across a crash, which nothing in the code       *)
(* recovers from: Fleet has no crashes (ControlPlane has).                 *)
(***************************************************************************)
EXTENDS ControlPlane

CONSTANTS
  Names,   \* the names of deployments
  NameOf   \* Deployment.Name, unique or not

ASSUME FleetAssumption == NameOf \in [Deployments -> Names] /\ None \notin Names

VARIABLES
  req,   \* the executors' requests
  live,  \* the names that have a live server
  trust  \* which results can be believed

fvars == <<vars, req, live, trust>>

Executors == INSTANCE Execution WITH
  NoName <- None, Runners <- Handlers

Calm == trust = Executors!Trusts

-----------------------------------------------------------------------------
\* Nobody else starts or stops a deployment of the name of d.
Alone(h, d) ==
  \A g \in Handlers \ {h} :
    job[g].op \in {"start", "stop"} => NameOf[job[g].dep] # NameOf[d]

\* What a step of the control plane means to the executors: a handler comes
\* to its commands, learns their result, or returns.
Enters(h)  == pc[h] # "execute" /\ pc'[h] = "execute"
Leaves(h)  == pc[h] = "execute" /\ pc'[h] \in {"load", Idle}
Returns(h) == pc'[h] = Idle /\ req[h].result # "none"

\* The Success of a Start decides about the status; that of a Stop is not
\* looked at.
Learns(h) ==
  \/ job'[h].status = "running" /\ Executors!FinishStart(h, "started")
  \/ job'[h].status = "failed" /\ Executors!FinishStart(h, "failed")
  \/ \E result \in {"stopped", "failed"} : Executors!FinishStop(h, result)

Follow ==
  IF \E h \in Handlers : Enters(h) \/ Leaves(h) \/ Returns(h)
    THEN \E h \in Handlers :
           \/ Enters(h) /\ Executors!Begin(h, job'[h].op, NameOf[job'[h].dep])
           \/ Leaves(h) /\ Learns(h)
           \/ Returns(h) /\ Executors!Return(h)
    ELSE UNCHANGED <<req, live>>

\* A step of the control plane, and of the executors if they are followed.
Together == (IF Calm THEN Follow ELSE UNCHANGED <<req, live>>) /\ UNCHANGED trust

FleetRequest ==
  /\ \E h \in Handlers, d \in Deployments :
       \/ Create(h, d)
       \/ Start(h, d) /\ (Calm => Alone(h, d))
       \/ Stop(h, d) /\ (Calm => Alone(h, d))
  /\ Together

FleetHandlerStep(h) == HandlerStep(h) /\ Together

FleetSchedulerStep == SchedulerStep /\ Together

\* A server comes up or ends while nothing happens on the control plane.
ServerStep ==
  /\ Calm
  /\ \E n \in Names : Executors!Launch(n) \/ Executors!End(n)
  /\ UNCHANGED <<vars, trust>>

FleetInit ==
  /\ Init
  /\ Executors!Init
  /\ trust \in {{}, Executors!Trusts}

FleetNext ==
  \/ FleetRequest
  \/ Deletion /\ Together
  \/ \E h \in Handlers : FleetHandlerStep(h)
  \/ FleetSchedulerStep
  \/ (\E d \in Deployments, c \in Conditions : ServerChanges(d, c)) /\ Together
  \/ ServerStep

FleetSpec == FleetInit /\ [][FleetNext]_fvars

\* As in ControlPlane; servers owe nothing.
FleetFairSpec ==
  /\ FleetSpec
  /\ \A h \in Handlers : WF_fvars(FleetHandlerStep(h))
  /\ WF_fvars(FleetSchedulerStep)

-----------------------------------------------------------------------------
(* Properties.                                                             *)

\* The start commands of d run.
Starting(d) == \E h \in Handlers : pc[h] = "execute" /\ job[h].op = "start" /\ job[h].dep = d

\* What is recorded of d says that it has no server.
Down(d) ==
  \/ rec[d] \in {"planned", "stopped"}
  \/ rec[d] = Absent /\ d \notin executed /\ ~ Starting(d)

\* So says the record of every deployment of name n.
AllDown(n) == \A d \in Deployments : NameOf[d] = n => Down(d)

(* In a calm world a name has no live server once all its deployments are  *)
(* recorded planned or stopped (or never had a record, nor a start): no    *)
(* stop is forgotten, no server comes up behind its record, and none is    *)
(* left to nobody where deployments share a name and so a server.          *)
StoppedIsDown == Calm => \A n \in live : ~ AllDown(n)
=============================================================================
