----------------------- MODULE DockerExecutor_proofs -----------------------
(***************************************************************************)
(* TLAPS proofs of the properties of DockerExecutor, for any number of     *)
(* deployments and requests, however deployments share names.              *)
(*                                                                         *)
(* What has to be known in between: a request under way has a deployment;  *)
(* a container that has once been created stays, with its configuration,   *)
(* so a Start that is about to verify has its own; and a Start whose       *)
(* container has run all the while is not on the way that creates one.     *)
(***************************************************************************)
EXTENDS DockerExecutor, TLAPS

Labels == {"idle", "find", "running", "restart", "pull", "create", "verify",
           "started", "failed", "noanswer",
           "findstop", "stop", "stopped", "notstopped"}

HasRequest(r) == IF pc[r] = "idle" THEN dep[r] = "none" ELSE dep[r] \in Deployments

\* The container that r is about to verify is the one it has created.
Verifies(r) == pc[r] = "verify" => Exists(r) /\ config[Name(r)] = dep[r]

\* The container of r has run all the while: r has found it.
Finds(r) ==
  steady[r] =>
    /\ pc[r] \in Labels \ {"idle", "restart", "pull", "create", "verify", "failed"}
    /\ Running(r)

IInv ==
  /\ TypeOK
  /\ \A r \in Runners : HasRequest(r) /\ Verifies(r) /\ Finds(r)

-----------------------------------------------------------------------------
LEMMA InitInv == Init => IInv
BY DEF Init, IInv, TypeOK, Absent, HasRequest, Verifies, Finds

(* The types, and that a request has its deployment.                       *)
LEMMA TypeStep ==
  ASSUME IInv, Next
  PROVE  TypeOK' /\ \A r \in Runners : HasRequest(r)'
<1> USE DockerAssumption DEF TypeOK, HasRequest, Absent
<1>1. steady' \in [Runners -> BOOLEAN]
  BY DEF Next, Watch
<1>2. ASSUME NEW r \in Runners, NEW op \in {"start", "stop"}, NEW d \in Deployments,
             Begin(r, op, d)
      PROVE  TypeOK' /\ \A q \in Runners : HasRequest(q)'
  BY <1>1, <1>2 DEF IInv, Begin, Goto
<1>3. ASSUME NEW r \in Runners, Return(r)
      PROVE  TypeOK' /\ \A q \in Runners : HasRequest(q)'
  BY <1>1, <1>3 DEF IInv, Return, Goto
<1>4. ASSUME NEW r \in Runners, Find(r) \/ FindRunning(r) \/ PullImage(r) \/ Verify(r) \/ FindStop(r)
      PROVE  TypeOK' /\ \A q \in Runners : HasRequest(q)'
  BY <1>1, <1>4 DEF IInv, Find, FindRunning, PullImage, Verify, FindStop, NoAnswer, NotStopped, Goto
<1>5. ASSUME NEW r \in Runners, Restart(r) \/ StopContainer(r)
      PROVE  TypeOK' /\ \A q \in Runners : HasRequest(q)'
  BY <1>1, <1>5 DEF IInv, Restart, StopContainer, NoAnswer, NotStopped, Goto, Becomes
<1>6. ASSUME NEW r \in Runners, CreateContainer(r)
      PROVE  TypeOK' /\ \A q \in Runners : HasRequest(q)'
  BY <1>1, <1>6 DEF IInv, CreateContainer, Created, NoAnswer, Goto, Becomes
<1>7. ASSUME NEW n \in Names, Exit(n)
      PROVE  TypeOK' /\ \A q \in Runners : HasRequest(q)'
  BY <1>1, <1>7 DEF IInv, Exit, Becomes
<1>8. ASSUME Crash
      PROVE  TypeOK' /\ \A q \in Runners : HasRequest(q)'
  BY <1>1, <1>8 DEF IInv, Crash
<1> QED BY <1>2, <1>3, <1>4, <1>5, <1>6, <1>7, <1>8 DEF Next, Step, StartStep, StopStep

(* A container that is there stays there, as it was created.               *)
LEMMA ContainersStay ==
  ASSUME IInv, Next, NEW n \in Names, container[n] # Absent
  PROVE  container'[n] # Absent /\ config'[n] = config[n]
BY DockerAssumption
   DEF IInv, TypeOK, Absent, Next, Step, Begin, StartStep, Find, FindRunning, Restart, PullImage,
       CreateContainer, Created, Verify, StopStep, FindStop, StopContainer, Return, Exit,
       Crash, NoAnswer, NotStopped, Becomes, Exists, HasRequest

(* What r does by itself, or nothing but the crash does for it.            *)
LEMMA OthersStay ==
  ASSUME IInv, Next, NEW r \in Runners,
         ~ \E op \in {"start", "stop"}, d \in Deployments : Begin(r, op, d),
         ~ StartStep(r), ~ StopStep(r), ~ Return(r), ~ Crash
  PROVE  pc'[r] = pc[r] /\ dep'[r] = dep[r]
BY DEF IInv, TypeOK, Next, Step, Begin, StartStep, Find, FindRunning, Restart, PullImage,
       CreateContainer, Verify, StopStep, FindStop, StopContainer, Return, Exit,
       NoAnswer, NotStopped, Goto

LEMMA NameIsName ==
  ASSUME NEW r \in Runners, HasRequest(r), pc[r] # "idle"
  PROVE  Name(r) \in Names
BY DEF HasRequest, Name, Names

(* Only CreateContainer leads to the verification, with a container that   *)
(* it has created.                                                         *)
LEMMA VerifyStep ==
  ASSUME IInv, Next, NEW r \in Runners
  PROVE  Verifies(r)'
<1> USE DockerAssumption
<1>1. CASE CreateContainer(r)
  <2>1. Name(r) \in Names /\ dep'[r] = dep[r]
    BY <1>1, NameIsName DEF IInv, CreateContainer
  <2>2. ASSUME pc'[r] = "verify" PROVE Created(r, "running")
    BY <1>1, <2>2 DEF IInv, TypeOK, CreateContainer, Goto, NoAnswer
  <2> QED BY <2>1, <2>2 DEF IInv, TypeOK, Verifies, Created, Becomes, Exists, Name, Absent
<1>2. CASE pc[r] = "verify" /\ pc'[r] = "verify" /\ dep'[r] = dep[r]
  <2>1. Name(r) \in Names /\ Verifies(r)
    BY <1>2, NameIsName DEF IInv
  <2> QED BY <1>2, <2>1, ContainersStay DEF Verifies, Exists, Name
<1>3. CASE pc'[r] # "verify"
  BY <1>3 DEF Verifies
<1>4. CASE \/ \E op \in {"start", "stop"}, d \in Deployments : Begin(r, op, d)
           \/ Find(r) \/ FindRunning(r) \/ Restart(r) \/ PullImage(r) \/ Verify(r)
           \/ StopStep(r) \/ Return(r) \/ Crash
  <2>1. pc'[r] # "verify"
    BY <1>4 DEF IInv, TypeOK, Begin, Find, FindRunning, Restart, PullImage, Verify, StopStep,
       FindStop, StopContainer, Return, Crash, NoAnswer, NotStopped, Goto
  <2> QED BY <2>1 DEF Verifies
<1> QED BY <1>1, <1>2, <1>3, <1>4, OthersStay DEF StartStep

(* A container that runs is found, and found to be running.                *)
LEMMA FindStep ==
  ASSUME IInv, TypeOK', Next, NEW r \in Runners
  PROVE  Finds(r)'
<1> USE DockerAssumption
<1> SUFFICES ASSUME steady'[r] PROVE Finds(r)'
  BY DEF Finds
<1>1. /\ pc'[r] # "idle"
      /\ container'[NameOf[dep'[r]]] = "running"
      /\ steady[r] \/ pc[r] = "idle"
  BY DEF Next, Watch
<1>2. Running(r)' /\ pc'[r] \in Labels
  BY <1>1 DEF Running, Name, TypeOK, Labels
<1>3. CASE \E op \in {"start", "stop"}, d \in Deployments : Begin(r, op, d)
  BY <1>2, <1>3 DEF IInv, TypeOK, Begin, Goto, Finds, Labels
<1>4. CASE pc'[r] = pc[r] /\ dep'[r] = dep[r]
  BY <1>1, <1>2, <1>4 DEF IInv, Finds
<1>5. CASE StartStep(r) \/ StopStep(r)
  <2>1. pc[r] # "idle" /\ Finds(r) /\ Running(r)
    BY <1>1, <1>5 DEF IInv, Finds, StartStep, StopStep, Find, FindRunning, Restart, PullImage,
       CreateContainer, Verify, FindStop, StopContainer
  <2>2. pc'[r] \notin {"idle", "restart", "pull", "create", "verify", "failed"}
    BY <1>1, <1>5, <2>1 DEF IInv, TypeOK, Finds, Exists, Running, Absent, StartStep, StopStep, Find,
       FindRunning, Restart, PullImage, CreateContainer, Verify, FindStop, StopContainer,
       NoAnswer, NotStopped, Goto
  <2> QED BY <1>2, <2>2 DEF Finds
<1>6. CASE Return(r) \/ Crash
  BY <1>1, <1>6 DEF IInv, TypeOK, Return, Crash, Goto
<1> QED BY <1>3, <1>4, <1>5, <1>6, OthersStay

LEMMA NextInv == IInv /\ [Next]_vars => IInv'
<1>1. ASSUME IInv, Next PROVE IInv'
  BY <1>1, TypeStep, VerifyStep, FindStep DEF IInv
<1>2. ASSUME IInv, UNCHANGED vars PROVE IInv'
  BY <1>2 DEF IInv, vars, TypeOK, HasRequest, Verifies, Finds, Exists, Running, Name
<1> QED BY <1>1, <1>2

LEMMA Invariance == Spec => []IInv
BY InitInv, NextInv, PTL DEF Spec

-----------------------------------------------------------------------------
(* Every variable keeps to its values; in particular the container of a    *)
(* name is one that docker can report.                                     *)
THEOREM DockerTypeCorrect == Spec => []TypeOK
<1>1. IInv => TypeOK
  BY DEF IInv
<1> QED BY <1>1, Invariance, PTL

(* Starting a deployment again does not fail while its container runs all  *)
(* the while and the daemon answers, however many requests there are for   *)
(* the name, and whichever deployments share it.                           *)
THEOREM StartsAreSafeToRetry == Spec => []SafeToRetry
<1>1. IInv => SafeToRetry
  BY DEF IInv, Finds, Labels, SafeToRetry
<1> QED BY <1>1, Invariance, PTL

(* A start that creates a container and reports success has verified its   *)
(* own, never that of a deployment of the same name.                       *)
THEOREM CreatedIsOwn == Spec => StartedOwn
<1>1. IInv => [\A r \in Runners : pc[r] = "verify" /\ pc'[r] = "started" =>
                 config[Name(r)] = dep[r]]_vars
  BY DEF IInv, Verifies
<1> QED BY <1>1, Invariance, PTL DEF StartedOwn

-----------------------------------------------------------------------------
(* DockerExecutor implements Execution.                                    *)

RequestLabels(op) ==
  IF op = "start"
    THEN {"find", "running", "restart", "pull", "create", "verify",
          "started", "failed", "noanswer"}
    ELSE {"findstop", "stop", "stopped", "notstopped"}

Results == {"started", "failed", "noanswer", "stopped", "notstopped"}

ResultOf(label) == IF label \in {"started", "stopped"} THEN label ELSE "failed"

(* A request that goes on changes its result and nothing else.             *)
LEMMA RequestGoesOn ==
  ASSUME IInv, NEW r \in Runners, NEW op \in {"start", "stop"},
         NEW label \in RequestLabels(op), pc[r] \in RequestLabels(op) \ Results,
         Goto(r, label), dep' = dep
  PROVE  /\ Promise!Waits(r, op)
         /\ Requests[r].name = Name(r)
         /\ label \notin Results => Requests' = Requests
         /\ label \in Results =>
              Requests' = [Requests EXCEPT ![r].result = ResultOf(label)]
<1>1. pc' = [pc EXCEPT ![r] = label] /\ pc \in [Runners -> Labels] /\ pc[r] # "idle"
  BY DEF IInv, TypeOK, Labels, Goto, RequestLabels
<1>2. Requests[r] = [op |-> op, name |-> Name(r), result |-> "none"]
  BY DEF Requests, RequestOf, RequestLabels, Results
<1>3. \A q \in Runners \ {r} : RequestOf(q)' = RequestOf(q)
  BY <1>1 DEF RequestOf, Name
<1>4. RequestOf(r)' =
        [op |-> op, name |-> Name(r),
         result |-> IF label \in Results THEN ResultOf(label) ELSE "none"]
  BY <1>1 DEF RequestOf, Name, RequestLabels, Results, ResultOf
<1>5. label \notin Results => Requests' = Requests
  BY <1>2, <1>3, <1>4 DEF Requests
<1>6. ASSUME label \in Results
      PROVE  Requests' = [Requests EXCEPT ![r].result = ResultOf(label)]
  <2> DEFINE new == [op |-> op, name |-> Name(r), result |-> ResultOf(label)]
  <2>1. [Requests[r] EXCEPT !.result = ResultOf(label)] = new
    BY <1>2
  <2>2. Requests' = [Requests EXCEPT ![r] = new]
    BY <1>3, <1>4, <1>6 DEF Requests
  <2> QED BY <2>1, <2>2
<1> QED BY <1>1, <1>2, <1>5, <1>6 DEF Promise!Waits

(* What a command can do to the containers that run.                       *)
LEMMA RunningFacts ==
  ASSUME IInv, NEW n \in Names
  PROVE  /\ container' = container => RunningNames' = RunningNames
         /\ container' = [container EXCEPT ![n] = "running"] =>
              RunningNames' = RunningNames \cup {n}
         /\ \A s \in {"created", "exited"} :
              container' = [container EXCEPT ![n] = s] => RunningNames' = RunningNames \ {n}
         /\ container' = [container EXCEPT ![n] = container[n]] => RunningNames' = RunningNames
BY DEF IInv, TypeOK, RunningNames

LEMMA StartRefines ==
  ASSUME IInv, NEW r \in Runners, StartStep(r)
  PROVE  \/ \E n \in Names : Promise!Launch(n)
         \/ \E result \in {"started", "failed"} : Promise!FinishStart(r, result)
         \/ UNCHANGED <<Requests, RunningNames>>
<1>1. pc[r] \in RequestLabels("start") \ Results /\ dep' = dep
  BY DEF StartStep, Find, FindRunning, Restart, PullImage, CreateContainer, Verify,
         RequestLabels, Results
<1>2. Name(r) \in Names
  BY <1>1, NameIsName DEF IInv, RequestLabels
<1>3. PICK label \in RequestLabels("start") : Goto(r, label)
  BY DEF StartStep, Find, FindRunning, Restart, PullImage, CreateContainer, Verify,
         RequestLabels, NoAnswer
<1> DEFINE n == Name(r)
<1>4. /\ Promise!Waits(r, "start")
      /\ Requests[r].name = n
      /\ label \notin Results => Requests' = Requests
      /\ label \in Results => Requests' = [Requests EXCEPT ![r].result = ResultOf(label)]
  BY <1>1, <1>3, RequestGoesOn
<1>5. pc'[r] = label
  BY <1>3 DEF IInv, TypeOK, Goto
<1>6. /\ RunningNames' \in {RunningNames, RunningNames \cup {n}}
      /\ label = "started" => n \in RunningNames'
  <2>1. CASE Find(r) \/ FindRunning(r) \/ PullImage(r) \/ Verify(r)
    BY <1>2, <1>5, <2>1, RunningFacts
       DEF IInv, TypeOK, Find, FindRunning, PullImage, Verify, NoAnswer, Goto, Running, RunningNames
  <2>2. CASE Restart(r)
    BY <1>2, <1>5, <2>2, RunningFacts
       DEF IInv, TypeOK, Restart, NoAnswer, Goto, Becomes, RunningNames
  <2>3. CASE CreateContainer(r)
    <3>1. n \notin RunningNames \/ container' = container
      BY <1>2, <2>3 DEF CreateContainer, Created, Exists, Absent, RunningNames
    <3>2. label # "started"
      BY <1>5, <2>3 DEF IInv, TypeOK, CreateContainer, NoAnswer, Goto
    <3> QED BY <1>2, <2>3, <3>1, <3>2, RunningFacts
         DEF CreateContainer, Created, Becomes, NoAnswer
  <2> QED BY <2>1, <2>2, <2>3 DEF StartStep
<1>7. CASE label \in Results
  <2>1. ResultOf(label) \in {"started", "failed"}
    BY <1>3 DEF ResultOf, RequestLabels
  <2>2. ResultOf(label) = "started" => n \in RunningNames'
    BY <1>6 DEF ResultOf, RequestLabels
  <2>3. Promise!FinishStart(r, ResultOf(label))
    BY <1>4, <1>6, <1>7, <2>2 DEF Promise!FinishStart
  <2> QED BY <2>1, <2>3
<1>8. CASE label \notin Results
  <2>1. CASE RunningNames' = RunningNames
    BY <1>4, <1>8, <2>1
  <2>2. CASE RunningNames' = RunningNames \cup {n}
    BY <1>2, <1>4, <1>8, <2>2 DEF Promise!Launch
  <2> QED BY <1>6, <2>1, <2>2
<1> QED BY <1>7, <1>8

LEMMA StopRefines ==
  ASSUME IInv, NEW r \in Runners, StopStep(r)
  PROVE  \/ \E result \in {"stopped", "failed"} : Promise!FinishStop(r, result)
         \/ UNCHANGED <<Requests, RunningNames>>
<1>1. pc[r] \in RequestLabels("stop") \ Results /\ dep' = dep
  BY DEF StopStep, FindStop, StopContainer, RequestLabels, Results
<1>2. Name(r) \in Names
  BY <1>1, NameIsName DEF IInv, RequestLabels
<1>3. PICK label \in RequestLabels("stop") : Goto(r, label)
  BY DEF StopStep, FindStop, StopContainer, RequestLabels, NotStopped
<1> DEFINE n == Name(r)
<1>4. /\ Promise!Waits(r, "stop")
      /\ Requests[r].name = n
      /\ label \notin Results => Requests' = Requests
      /\ label \in Results => Requests' = [Requests EXCEPT ![r].result = ResultOf(label)]
  BY <1>1, <1>3, RequestGoesOn
<1>5. pc'[r] = label
  BY <1>3 DEF IInv, TypeOK, Goto
<1>6. CASE FindStop(r)
  <2>1. RunningNames' = RunningNames
    BY <1>2, <1>6, RunningFacts DEF FindStop
  <2>2. label = "stopped" => n \notin RunningNames'
    BY <1>5, <1>6, <2>1 DEF IInv, TypeOK, FindStop, NotStopped, Goto, Exists, Absent, RunningNames
  <2>3. label \in {"stop", "stopped"} \/ (label = "notstopped" /\ Faulty)
    BY <1>5, <1>6 DEF IInv, TypeOK, FindStop, NotStopped, Goto
  <2>4. CASE label \in Results
    BY <1>4, <2>1, <2>2, <2>3, <2>4 DEF Promise!FinishStop, ResultOf, Results, Trust
  <2> QED BY <1>4, <2>1, <2>4
<1>7. CASE StopContainer(r)
  <2>1. label = "stopped" \/ (label = "notstopped" /\ Faulty)
    BY <1>5, <1>7 DEF IInv, TypeOK, StopContainer, NotStopped, Goto
  <2>2. \/ RunningNames' = RunningNames
        \/ RunningNames' = RunningNames \ {n}
    BY <1>2, <1>7, RunningFacts DEF StopContainer, Becomes
  <2>3. label = "stopped" => n \notin RunningNames'
    BY <1>2, <1>5, <1>7 DEF IInv, TypeOK, StopContainer, NotStopped, Goto, Becomes, Running,
       RunningNames
  <2> QED BY <1>4, <2>1, <2>2, <2>3 DEF Promise!FinishStop, ResultOf, Results, Trust
<1> QED BY <1>6, <1>7 DEF StopStep

LEMMA BeginRefines ==
  ASSUME IInv, NEW r \in Runners, NEW op \in {"start", "stop"}, NEW d \in Deployments,
         Begin(r, op, d)
  PROVE  Promise!Begin(r, op, NameOf[d]) /\ NameOf[d] \in Names
<1>1. pc \in [Runners -> Labels] /\ dep \in [Runners -> Deployments \cup {"none"}]
  BY DEF IInv, TypeOK, Labels
<1>2. /\ pc[r] = "idle"
      /\ pc' = [pc EXCEPT ![r] = IF op = "start" THEN "find" ELSE "findstop"]
      /\ dep' = [dep EXCEPT ![r] = d]
  BY DEF Begin, Goto
<1>3. Requests[r] = Promise!NoReq
  BY <1>2 DEF Requests, RequestOf, Promise!NoReq
<1>4. RequestOf(r)' = [op |-> op, name |-> NameOf[d], result |-> "none"]
  BY <1>1, <1>2 DEF RequestOf, Name
<1>5. \A q \in Runners \ {r} : RequestOf(q)' = RequestOf(q)
  BY <1>1, <1>2 DEF RequestOf, Name
<1>6. Requests' = [Requests EXCEPT ![r] = [op |-> op, name |-> NameOf[d], result |-> "none"]]
  BY <1>4, <1>5 DEF Requests
<1> QED BY <1>3, <1>6 DEF Promise!Begin, Begin, RunningNames, Names

LEMMA ReturnRefines ==
  ASSUME IInv, NEW r \in Runners, Return(r)
  PROVE  Promise!Return(r)
<1>1. pc \in [Runners -> Labels] /\ dep \in [Runners -> Deployments \cup {"none"}]
  BY DEF IInv, TypeOK, Labels
<1>2. pc' = [pc EXCEPT ![r] = "idle"] /\ dep' = [dep EXCEPT ![r] = "none"]
  BY DEF Return, Goto
<1>3. Requests[r].result # "none"
  BY DEF Return, Requests, RequestOf
<1>4. RequestOf(r)' = Promise!NoReq
  BY <1>1, <1>2 DEF RequestOf, Promise!NoReq
<1>5. \A q \in Runners \ {r} : RequestOf(q)' = RequestOf(q)
  BY <1>1, <1>2 DEF RequestOf, Name
<1>6. Requests' = [Requests EXCEPT ![r] = Promise!NoReq]
  BY <1>4, <1>5 DEF Requests
<1> QED BY <1>3, <1>6 DEF Promise!Return, Return, RunningNames

(* Every step of the executor is a step of the promise, or none that its   *)
(* callers see.                                                            *)
LEMMA PromiseStep ==
  ASSUME IInv, [Next]_vars
  PROVE  [Promise!Next]_<<Requests, RunningNames, Trust>>
<1>1. ASSUME Next PROVE UNCHANGED Trust
  BY <1>1 DEF Next, Step, Begin, StartStep, Find, FindRunning, Restart, PullImage,
       CreateContainer, Verify, StopStep, FindStop, StopContainer, Return, Exit, Crash,
       Trust, Faulty
<1>2. ASSUME NEW r \in Runners, NEW op \in {"start", "stop"}, NEW d \in Deployments, Next,
             Begin(r, op, d)
      PROVE  Promise!Next
  BY <1>1, <1>2, BeginRefines DEF Promise!Next, Promise!Step
<1>3. ASSUME NEW r \in Runners, Next, StartStep(r)
      PROVE  [Promise!Next]_<<Requests, RunningNames, Trust>>
  BY <1>1, <1>3, StartRefines DEF Promise!Next, Promise!Step
<1>4. ASSUME NEW r \in Runners, Next, StopStep(r)
      PROVE  [Promise!Next]_<<Requests, RunningNames, Trust>>
  BY <1>1, <1>4, StopRefines DEF Promise!Next, Promise!Step
<1>5. ASSUME NEW r \in Runners, Next, Return(r)
      PROVE  Promise!Next
  BY <1>1, <1>5, ReturnRefines DEF Promise!Next, Promise!Step
<1>6. ASSUME NEW n \in Names, Next, Exit(n)
      PROVE  Promise!Next
  <2>1. Requests' = Requests
    BY <1>6 DEF Exit, Requests, RequestOf, Name
  <2>2. RunningNames' = RunningNames \ {n}
    BY <1>6, RunningFacts DEF Exit, Becomes
  <2> QED BY <1>1, <1>6, <2>1, <2>2 DEF Promise!Next, Promise!End
<1>7. ASSUME Next, Crash
      PROVE  Promise!Next
  <2>1. \A r \in Runners : RequestOf(r)' = Promise!NoReq
    BY <1>7 DEF Crash, RequestOf, Promise!NoReq
  <2>2. Requests' = [r \in Runners |-> Promise!NoReq]
    BY <2>1 DEF Requests
  <2> QED BY <1>1, <1>7, <2>2 DEF Crash, RunningNames, Promise!Next, Promise!Crash
<1>8. CASE UNCHANGED vars
  BY <1>8 DEF vars, Requests, RequestOf, Name, RunningNames, Trust, Faulty
<1> QED BY <1>2, <1>3, <1>4, <1>5, <1>6, <1>7, <1>8 DEF Next, Step

(* To its callers the docker executor is an implementation of Execution:   *)
(* a result can be believed at the moment it is given, however requests    *)
(* overlap, commands fail, and deployments share names.                    *)
THEOREM DockerKeepsPromise == Spec => KeepsPromise
<1>1. Init => Promise!Init
  <2> SUFFICES ASSUME Init PROVE Promise!Init
    OBVIOUS
  <2>1. \A r \in Runners : RequestOf(r) = Promise!NoReq
    BY DEF Init, RequestOf, Promise!NoReq
  <2>2. Requests = [r \in Runners |-> Promise!NoReq]
    BY <2>1 DEF Requests
  <2>3. RunningNames = {}
    BY DEF Init, RunningNames, Absent
  <2> QED BY <2>2, <2>3 DEF Promise!Init, Promise!Trusts, Trust
<1>2. IInv /\ [Next]_vars => [Promise!Next]_<<Requests, RunningNames, Trust>>
  BY PromiseStep
<1>3. Spec => Promise!Init /\ [][Promise!Next]_<<Requests, RunningNames, Trust>>
  BY <1>1, <1>2, Invariance, PTL DEF Spec
<1> QED BY <1>3 DEF KeepsPromise, Promise!Spec
=============================================================================
