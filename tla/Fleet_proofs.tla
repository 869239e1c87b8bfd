---------------------------- MODULE Fleet_proofs ----------------------------
(***************************************************************************)
(* TLAPS proofs about Fleet, for any number of deployments and handlers.   *)
(*                                                                         *)
(* Fleet composes two specifications, and does what each of them says:     *)
(* every step of it is a step of ControlPlane, whose invariants it         *)
(* inherits, and of Execution, or none that they see.  What they mean      *)
(* together is FleetInv: a handler and its executor agree on where they    *)
(* are, requests for deployments of one name take turns, and a server can  *)
(* only come up for a deployment whose record says neither planned nor     *)
(* stopped.                                                                *)
(***************************************************************************)
EXTENDS Fleet, ControlPlane_proofs

\* Only ids that have been generated are in use.
Known ==
  /\ \A d \in Deployments : rec[d] # Absent \/ seen[d] # Skip => d \in used
  /\ \A a \in Actors : job[a].dep \in used \cup {None}
  /\ executed \subseteq used

FleetTypeOK ==
  /\ req \in [Handlers -> [op     : {"none", "start", "stop"},
                           name   : Names \cup {None},
                           result : {"none", "started", "stopped", "failed"}]]
  /\ trust \in {{}, Executors!Trusts}

\* h has its executor at work exactly while it waits for it, and its result
\* from then on until it returns.
InStep(h) ==
  IF pc[h] = "execute"
    THEN req[h] = [op |-> job[h].op, name |-> NameOf[job[h].dep], result |-> "none"]
    ELSE IF pc[h] \in {"load", "save"} /\ job[h].status # "deploying"
           THEN req[h].op = job[h].op /\ req[h].result # "none"
           ELSE req[h] = Executors!NoReq

\* Requests for one deployment take turns, and so do starts and stops for one
\* name.
TakeTurns ==
  \A g, h \in Handlers : g # h /\ pc[g] # Idle /\ pc[h] # Idle =>
    /\ job[g].dep # job[h].dep
    /\ "create" \notin {job[g].op, job[h].op} => NameOf[job[g].dep] # NameOf[job[h].dep]

\* What a request knows of its deployment and of the server of that name.
Fits(h) ==
  /\ job[h].op = "create" => rec[job[h].dep] = Absent /\ job[h].dep \notin executed
  /\ job[h].op = "stop" /\ pc[h] \in {"load", "save"} => NameOf[job[h].dep] \notin live
  /\ job[h].op = "start" /\ pc[h] = "execute" => rec[job[h].dep] \notin {"planned", "stopped"}

\* A record can only say that there may be a server once commands have run.
Accounted ==
  \A d \in Deployments :
    rec[d] \notin {"planned", "stopped", Absent} => d \in executed \/ Starting(d)

FleetInv ==
  /\ FleetTypeOK
  /\ Calm =>
       /\ TakeTurns
       /\ \A h \in Handlers : InStep(h) /\ Fits(h)
       /\ Accounted
       /\ StoppedIsDown

-----------------------------------------------------------------------------
(* Every step of the fleet is one of the control plane, or none.           *)
LEMMA FleetStep ==
  ASSUME [FleetNext]_fvars
  PROVE  [Next]_vars /\ trust' = trust
<1> SUFFICES ASSUME FleetNext PROVE [Next]_vars /\ trust' = trust
  BY DEF fvars
<1>1. CASE FleetRequest
  BY <1>1 DEF FleetRequest, Together, Next, Request
<1>2. ASSUME NEW h \in Handlers, FleetHandlerStep(h)
      PROVE  [Next]_vars /\ trust' = trust
  BY <1>2 DEF FleetHandlerStep, Together, Next
<1>3. CASE \/ Deletion /\ Together
           \/ FleetSchedulerStep
           \/ (\E d \in Deployments, c \in Conditions : ServerChanges(d, c)) /\ Together
  BY <1>3 DEF FleetSchedulerStep, Together, Next
<1>4. CASE ServerStep
  BY <1>4 DEF ServerStep
<1> QED BY <1>1, <1>2, <1>3, <1>4 DEF FleetNext

(* The fleet is a control plane: what every executor promises is no more   *)
(* than ControlPlane leaves open about the outcome of the commands.        *)
THEOREM FleetIsControlPlane == FleetSpec => Spec
<1>1. FleetInit => Init
  BY DEF FleetInit
<1>2. [FleetNext]_fvars => [Next]_vars
  BY FleetStep
<1> QED BY <1>1, <1>2, PTL DEF FleetSpec, Spec

LEMMA FleetInvariance == FleetSpec => []IInv
BY FleetIsControlPlane, Invariance, PTL

(* Without disk errors no deployment of the fleet is stranded in           *)
(* "deploying", however long its executor takes.                           *)
THEOREM FleetNobodyStranded == Faults = {} => (FleetSpec => []DeployingHasHandler)
<1> SUFFICES ASSUME Faults = {} PROVE FleetSpec => []DeployingHasHandler
  OBVIOUS
<1> QED BY FleetIsControlPlane, NobodyStranded, PTL

LEMMA KnownStep ==
  ASSUME IInv, Known, [Next]_vars
  PROVE  Known' /\ used \subseteq used'
<1> USE NoJobFacts, ConstantsAssumption
<1>1. used \subseteq used'
  BY DEF Next, Request, HandlerStep, SchedulerStep, Deletion, vars, Create, Start,
     Stop, GetMachine, GetModel, Insert, Load, SaveStatus, RunStart, RunStop, CheckAll,
     CheckOne, Probe, EndCheckAll, ServerChanges, DeleteDeployment, DeleteMachine, DeleteModel, Crash
<1>2. IInv'
  BY NextInv
<1>3. ASSUME NEW d \in Deployments, rec'[d] # Absent
      PROVE  d \in used'
  <2>1. CASE rec'[d] = rec[d]
    BY <1>1, <1>3, <2>1 DEF Known
  <2>2. CASE rec'[d] # rec[d]
    <3>1. \E a \in Actors : job[a].dep = d
      BY <1>3, <2>2, WhoWrites
    <3> QED BY <1>1, <3>1 DEF Known
  <2> QED BY <2>1, <2>2
<1>4. ASSUME NEW d \in Deployments, seen'[d] # Skip
      PROVE  d \in used'
  <2>1. CASE seen'[d] = seen[d]
    BY <1>1, <1>4, <2>1 DEF Known
  <2>2. CASE CheckAll
    <3>1. rec[d] \in Checked
      BY <1>4, <2>2 DEF CheckAll
    <3> QED BY <1>1, <3>1 DEF Known, Checked, Absent
  <2>3. CASE \E e \in Deployments : CheckOne(e)
    BY <1>1, <1>4, <2>3 DEF CheckOne, Known, IInv, TypeOK
  <2>4. CASE Crash
    BY <1>4, <2>4 DEF Crash
  <2>5. \/ CheckAll \/ Crash \/ UNCHANGED seen
        \/ \E e \in Deployments : CheckOne(e)
    BY DEF Next, Request, HandlerStep, SchedulerStep, Deletion, vars, Create, Start,
       Stop, GetMachine, GetModel, Insert, Load, SaveStatus, RunStart, RunStop, Probe,
       EndCheckAll, ServerChanges, DeleteDeployment, DeleteMachine, DeleteModel
  <2> QED BY <2>1, <2>2, <2>3, <2>4, <2>5
<1>5. ASSUME NEW a \in Actors
      PROVE  job'[a].dep \in used' \cup {None}
  <2>1. CASE job'[a].dep = job[a].dep
    BY <1>1, <2>1 DEF Known
  <2>2. CASE job'[a].dep \in Deployments /\ job'[a].dep # job[a].dep
    <3> DEFINE d == job'[a].dep
    <3>1. \/ Create(a, d) \/ Start(a, d) \/ Stop(a, d)
          \/ CheckOne(d)
      <4> HIDE DEF d
      <4> QED BY <2>2, WhoTakes DEF d
    <3>2. CASE Create(a, d)
      BY <3>2 DEF Create
    <3>3. CASE Start(a, d) \/ Stop(a, d)
      <4>1. rec[d] # Absent
        BY <3>3 DEF Start, Stop, Readable, Status, Absent
      <4> QED BY <1>1, <2>2, <4>1 DEF Known
    <3>4. CASE CheckOne(d)
      BY <1>1, <2>2, <3>4 DEF CheckOne, Known
    <3> QED BY <3>1, <3>2, <3>3, <3>4
  <2> QED BY <1>2, <2>1, <2>2 DEF IInv, TypeOK, Jobs
<1>6. executed' \subseteq used'
  <2>1. executed' \subseteq executed \cup {job[a].dep : a \in {h \in Handlers : job[h].op = "start"}}
    BY DEF Next, Request, HandlerStep, SchedulerStep, Deletion, vars, Create, Start,
       Stop, GetMachine, GetModel, Insert, Load, SaveStatus, RunStart, RunStop, CheckAll,
       CheckOne, Probe, EndCheckAll, ServerChanges, DeleteDeployment, DeleteMachine, DeleteModel, Crash
  <2>2. ASSUME NEW h \in Handlers, job[h].op = "start"
        PROVE  job[h].dep \in used
    <3>1. HandlerJob(h)
      BY DEF IInv
    <3>2. job[h].dep \in Deployments
      BY <2>2, <3>1 DEF HandlerJob
    <3> QED BY <3>2 DEF Known, Actors
  <2> QED BY <1>1, <2>1, <2>2 DEF Known
<1> QED BY <1>1, <1>3, <1>4, <1>5, <1>6 DEF Known

LEMMA KnownInvariance == FleetSpec => []Known
<1>1. Init => Known
  BY NoJobFacts, ConstantsAssumption DEF Init, Known
<1> QED BY <1>1, KnownStep, FleetStep, FleetInvariance, PTL DEF FleetSpec, FleetInit

-----------------------------------------------------------------------------
(* The requests of the executors.                                          *)

(* Every step of the fleet is one of the executors, or none.               *)
LEMMA ExecutorsStep ==
  ASSUME IInv, [FleetNext]_fvars
  PROVE  [Executors!Next]_<<req, live, trust>>
<1> SUFFICES ASSUME FleetNext PROVE [Executors!Next]_<<req, live, trust>>
  BY DEF fvars
<1>1. trust' = trust /\ IInv'
  BY FleetStep, NextInv
<1>2. ASSUME Together
      PROVE  [Executors!Next]_<<req, live, trust>>
  <2>1. CASE UNCHANGED <<req, live>>
    BY <1>1, <2>1
  <2>2. ASSUME NEW h \in Handlers, Enters(h), Executors!Begin(h, job'[h].op, NameOf[job'[h].dep])
        PROVE  Executors!Next
    <3>1. job'[h].dep \in Deployments /\ job'[h].op \in {"start", "stop"}
      BY <1>1, <2>2 DEF Enters, IInv, HandlerJob, Idle
    <3>2. NameOf[job'[h].dep] \in Names
      BY <3>1, FleetAssumption
    <3> QED BY <1>1, <2>2, <3>1, <3>2 DEF Executors!Next, Executors!Step
  <2>3. ASSUME NEW h \in Handlers, Learns(h) \/ Executors!Return(h)
        PROVE  Executors!Next
    BY <1>1, <2>3 DEF Learns, Executors!Next, Executors!Step
  <2> QED BY <1>2, <2>1, <2>2, <2>3 DEF Together, Follow
<1>3. CASE ServerStep
  BY <1>1, <1>3 DEF ServerStep, Executors!Next
<1> QED BY <1>2, <1>3 DEF FleetNext, FleetRequest, FleetHandlerStep, FleetSchedulerStep

LEMMA FleetTypes ==
  ASSUME FleetTypeOK, [Executors!Next]_<<req, live, trust>>
  PROVE  FleetTypeOK'
<1>1. CASE UNCHANGED <<req, live, trust>>
  BY <1>1 DEF FleetTypeOK
<1>2. ASSUME NEW h \in Handlers, Executors!Step(h), trust' = trust
      PROVE  FleetTypeOK'
  BY <1>2 DEF FleetTypeOK, Executors!Step, Executors!Begin, Executors!FinishStart,
     Executors!FinishStop, Executors!Return, Executors!NoReq
<1>3. ASSUME req' = req \/ Executors!Crash, trust' = trust
      PROVE  FleetTypeOK'
  BY <1>3 DEF FleetTypeOK, Executors!Crash, Executors!NoReq
<1> QED BY <1>1, <1>2, <1>3 DEF Executors!Next, Executors!Launch, Executors!End

(* The fleet uses its executors as Execution says they may be used.        *)
THEOREM FleetUsesExecutors == FleetSpec => Executors!Spec
<1>1. FleetInit => Executors!Init
  BY DEF FleetInit
<1>2. IInv /\ [FleetNext]_fvars => [Executors!Next]_<<req, live, trust>>
  BY ExecutorsStep
<1> QED BY <1>1, <1>2, FleetInvariance, PTL DEF FleetSpec, Executors!Spec

(* At most one handler moves in a step, and only its request with it.      *)
LEMMA OneMoves ==
  ASSUME Calm, Together, \A g \in Handlers : InStep(g),
         NEW h \in Handlers, \A g \in Handlers \ {h} : pc'[g] = pc[g]
  PROVE  \/ Enters(h) /\ Executors!Begin(h, job'[h].op, NameOf[job'[h].dep])
         \/ Leaves(h) /\ Learns(h)
         \/ Returns(h) /\ Executors!Return(h)
         \/ ~Enters(h) /\ ~Leaves(h) /\ ~Returns(h) /\ UNCHANGED <<req, live>>
<1>1. ASSUME NEW g \in Handlers \ {h}
      PROVE  ~Enters(g) /\ ~Leaves(g) /\ ~Returns(g)
  <2>1. pc'[g] = pc[g] /\ InStep(g)
    OBVIOUS
  <2>2. pc[g] = Idle => req[g] = Executors!NoReq
    BY <2>1 DEF InStep, Idle
  <2> QED BY <2>1, <2>2 DEF Enters, Leaves, Returns, Executors!NoReq, Idle
<1> QED BY <1>1 DEF Together, Follow

LEMMA NobodyMoves ==
  ASSUME Calm, Together, \A g \in Handlers : InStep(g) /\ pc'[g] = pc[g]
  PROVE  UNCHANGED <<req, live>>
<1>1. ASSUME NEW g \in Handlers
      PROVE  ~Enters(g) /\ ~Leaves(g) /\ ~Returns(g)
  <2>1. pc'[g] = pc[g] /\ InStep(g)
    OBVIOUS
  <2>2. pc[g] = Idle => req[g] = Executors!NoReq
    BY <2>1 DEF InStep, Idle
  <2> QED BY <2>1, <2>2 DEF Enters, Leaves, Returns, Executors!NoReq, Idle
<1> QED BY <1>1 DEF Together, Follow

-----------------------------------------------------------------------------
(* The records and the servers.                                            *)

(* A handler touches the record of no deployment but its own, and the      *)
(* server of no other name (none at all, if it creates its deployment).    *)
(* What the other handlers know stays true; what is left to show is that a *)
(* server of its own name is still accounted for.                          *)
LEMMA HandlerFrame ==
  ASSUME Calm, IInv, FleetInv, NEW h \in Handlers, pc[h] # Idle,
         NEW d \in Deployments, job[h].dep = d,
         \A g \in Handlers \ {h} : pc'[g] = pc[g] /\ job'[g] = job[g] /\ req'[g] = req[g],
         pc'[h] # Idle => job'[h].dep = d /\ job'[h].op = job[h].op,
         \A e \in Deployments \ {d} :
           rec'[e] = rec[e] /\ (e \in executed' <=> e \in executed),
         live' \subseteq live \cup {NameOf[d]},
         live \subseteq live' \cup {NameOf[d]},
         job[h].op = "create" => live' = live,
         NameOf[d] \in live' => ~ AllDown(NameOf[d])',
         rec'[d] \notin {"planned", "stopped", Absent} => d \in executed' \/ Starting(d)',
         FleetTypeOK', InStep(h)', Fits(h)'
  PROVE  FleetInv'
<1>1. TakeTurns'
  BY DEF FleetInv, TakeTurns
<1>2. ASSUME NEW e \in Deployments \ {d}
      PROVE  /\ Starting(e)' <=> Starting(e)
             /\ Down(e)' <=> Down(e)
  <2>1. ASSUME NEW g \in Handlers
        PROVE  pc'[g] = "execute" /\ job'[g].op = "start" /\ job'[g].dep = e
               <=> pc[g] = "execute" /\ job[g].op = "start" /\ job[g].dep = e
    BY DEF Idle
  <2>2. Starting(e)' <=> Starting(e)
    BY <2>1 DEF Starting
  <2> QED BY <2>2 DEF Down
<1>3. StoppedIsDown'
  <2> SUFFICES ASSUME NEW n \in live' PROVE ~ AllDown(n)'
    BY DEF StoppedIsDown
  <2>1. CASE n = NameOf[d]
    BY <2>1
  <2>2. CASE n # NameOf[d]
    <3>1. PICK e \in Deployments : NameOf[e] = n /\ ~ Down(e)
      BY <2>2 DEF FleetInv, StoppedIsDown, AllDown
    <3> QED BY <1>2, <2>2, <3>1 DEF AllDown
  <2> QED BY <2>1, <2>2
<1>4. Accounted'
  <2> SUFFICES ASSUME NEW e \in Deployments, rec'[e] \notin {"planned", "stopped", Absent}
               PROVE  e \in executed' \/ Starting(e)'
    BY DEF Accounted
  <2> QED BY <1>2 DEF FleetInv, Accounted
<1>5. ASSUME NEW g \in Handlers \ {h}
      PROVE  InStep(g)' /\ Fits(g)'
  <2>1. InStep(g) /\ Fits(g) /\ HandlerJob(g) /\ HandlerJob(h)
    BY DEF FleetInv, IInv
  <2>2. InStep(g)'
    BY <2>1 DEF InStep
  <2>3. CASE pc[g] = Idle
    <3>1. job[g] = NoJob
      BY <2>1, <2>3 DEF HandlerJob, Idle
    <3> QED BY <2>2, <2>3, <3>1, NoJobFacts DEF Fits
  <2>4. CASE pc[g] # Idle
    <3>1. job[g].dep \in Deployments \ {d}
      BY <2>1, <2>4 DEF HandlerJob, FleetInv, TakeTurns
    <3>2. job[g].op = "stop" => (NameOf[job[g].dep] \in live' <=> NameOf[job[g].dep] \in live)
      BY <2>4, <3>1, FleetAssumption DEF FleetInv, TakeTurns
    <3> QED BY <2>1, <2>2, <3>1, <3>2 DEF Fits
  <2> QED BY <2>3, <2>4
<1> QED BY <1>1, <1>3, <1>4, <1>5 DEF FleetInv

(* Where no handler moves, records only go, or come to say what they say   *)
(* of deployments that have run.                                           *)
LEMMA StillFrame ==
  ASSUME Calm, IInv, FleetInv, UNCHANGED <<req, live, trust, executed>>,
         \A g \in Handlers : pc'[g] = pc[g] /\ job'[g] = job[g],
         \A d \in Deployments : \/ rec'[d] = rec[d]
                                \/ rec'[d] = Absent
                                \/ rec'[d] \notin {"planned", "stopped", Absent} /\ d \in executed
  PROVE  FleetInv'
<1>1. FleetTypeOK' /\ TakeTurns'
  BY DEF FleetInv, FleetTypeOK, TakeTurns
<1>2. ASSUME NEW d \in Deployments
      PROVE  Starting(d)' <=> Starting(d)
  BY DEF Starting
<1>3. Accounted'
  BY <1>2 DEF FleetInv, Accounted
<1>4. ASSUME NEW d \in Deployments, ~ Down(d)
      PROVE  ~ Down(d)'
  BY <1>2, <1>4 DEF FleetInv, Accounted, Down, Absent
<1>5. StoppedIsDown'
  BY <1>4 DEF FleetInv, StoppedIsDown, AllDown
<1>6. ASSUME NEW g \in Handlers
      PROVE  InStep(g)' /\ Fits(g)'
  <2>1. pc'[g] = pc[g] /\ job'[g] = job[g] /\ InStep(g) /\ Fits(g)
    BY DEF FleetInv
  <2>2. InStep(g)'
    BY <2>1 DEF InStep
  <2>3. job[g].op \in {"create", "start"} => job[g].dep \in Deployments
    BY NoJobFacts DEF IInv, HandlerJob
  <2> QED BY <2>1, <2>2, <2>3 DEF Fits, Absent
<1> QED BY <1>1, <1>3, <1>5, <1>6 DEF FleetInv

(* What the steps of a handler have in common.                             *)
LEMMA HandlerFacts ==
  ASSUME Calm, IInv, Known, FleetInv, NEW h \in Handlers, HandlerStep(h), Together
  PROVE  /\ pc[h] # Idle /\ HandlerJob(h) /\ InStep(h) /\ Fits(h)
         /\ HandlerJob(h)' /\ FleetTypeOK' /\ Calm'
         /\ job[h].dep \in Deployments
         /\ \A g \in Handlers \ {h} : pc'[g] = pc[g] /\ job'[g] = job[g]
         /\ \/ Enters(h) /\ Executors!Begin(h, job'[h].op, NameOf[job'[h].dep])
            \/ Leaves(h) /\ Learns(h)
            \/ Returns(h) /\ Executors!Return(h)
            \/ ~Enters(h) /\ ~Leaves(h) /\ ~Returns(h) /\ UNCHANGED <<req, live>>
<1> USE NoJobFacts, ConstantsAssumption
<1>1. HandlerJob(h) /\ InStep(h) /\ Fits(h)
  BY DEF IInv, FleetInv
<1>2. pc[h] # Idle
  BY DEF HandlerStep, GetMachine, GetModel, Insert, Load, SaveStatus, RunStart, RunStop, Idle
<1>3. job[h].dep \in Deployments
  BY <1>1, <1>2 DEF HandlerJob
<1>4. FleetNext
  BY DEF FleetNext, FleetHandlerStep
<1>5. HandlerJob(h)' /\ FleetTypeOK' /\ Calm'
  BY <1>4, FleetStep, NextInv, ExecutorsStep, FleetTypes DEF IInv, FleetInv, Calm
<1>6. h # Scheduler /\ pc \in [Actors -> Labels] /\ job \in [Actors -> Jobs]
  BY DEF IInv, TypeOK
<1>7. ASSUME NEW g \in Handlers \ {h}
      PROVE  pc'[g] = pc[g] /\ job'[g] = job[g]
  BY <1>6 DEF HandlerStep, GetMachine, GetModel, Insert, Load, SaveStatus, RunStart, RunStop,
     AfterUpdate, Return, CallUpdate, Goto, Actors
<1>8. \A g \in Handlers : InStep(g)
  BY DEF FleetInv
<1>9. \/ Enters(h) /\ Executors!Begin(h, job'[h].op, NameOf[job'[h].dep])
      \/ Leaves(h) /\ Learns(h)
      \/ Returns(h) /\ Executors!Return(h)
      \/ ~Enters(h) /\ ~Leaves(h) /\ ~Returns(h) /\ UNCHANGED <<req, live>>
  BY <1>7, <1>8, OneMoves
<1> QED BY <1>1, <1>2, <1>3, <1>5, <1>7, <1>9

(* Who learns a result had asked for it.                                   *)
LEMMA ResultFacts ==
  ASSUME Calm, FleetTypeOK, NEW h \in Handlers, InStep(h), pc[h] = "execute", Learns(h)
  PROVE  /\ req'[h].op = job[h].op /\ req'[h].result # "none"
         /\ \A g \in Handlers \ {h} : req'[g] = req[g]
         /\ job[h].op = "start" => live' \in {live, live \cup {NameOf[job[h].dep]}}
         /\ job[h].op = "stop" => live' = live \ {NameOf[job[h].dep]}
<1>1. /\ req[h] = [op |-> job[h].op, name |-> NameOf[job[h].dep], result |-> "none"]
      /\ DOMAIN req = Handlers
  BY DEF InStep, FleetTypeOK
<1>2. "stops" \in trust /\ "stopped" \in trust
  BY DEF Calm, Executors!Trusts
<1>3. ASSUME NEW result \in {"started", "failed"}, Executors!FinishStart(h, result)
      PROVE  /\ job[h].op = "start"
             /\ req' = [req EXCEPT ![h].result = result]
             /\ live' \in {live, live \cup {NameOf[job[h].dep]}}
  BY <1>1, <1>3 DEF Executors!FinishStart, Executors!Waits
<1>4. ASSUME NEW result \in {"stopped", "failed"}, Executors!FinishStop(h, result)
      PROVE  /\ job[h].op = "stop"
             /\ req' = [req EXCEPT ![h].result = result]
             /\ live' = live \ {NameOf[job[h].dep]}
  BY <1>1, <1>2, <1>4 DEF Executors!FinishStop, Executors!Waits
<1>5. \/ Executors!FinishStart(h, "started") \/ Executors!FinishStart(h, "failed")
      \/ \E result \in {"stopped", "failed"} : Executors!FinishStop(h, result)
  BY DEF Learns
<1>6. ASSUME NEW result \in {"started", "stopped", "failed"},
             req' = [req EXCEPT ![h].result = result]
      PROVE  /\ req'[h].op = job[h].op /\ req'[h].result # "none"
             /\ \A g \in Handlers \ {h} : req'[g] = req[g]
  BY <1>1, <1>6 DEF FleetTypeOK
<1> QED BY <1>3, <1>4, <1>5, <1>6

(* The steps of a handler that only read: it may come to its commands, or  *)
(* return.                                                                 *)
LEMMA LookUpFleet ==
  ASSUME Calm, IInv, Known, FleetInv, NEW h \in Handlers, Together,
         GetMachine(h) \/ GetModel(h) \/ Load(h)
  PROVE  FleetInv'
<1> USE NoJobFacts, ConstantsAssumption
<1> PICK d : job[h].dep = d
  OBVIOUS
<1>1. HandlerStep(h)
  BY DEF HandlerStep
<1>2. /\ pc[h] # Idle /\ HandlerJob(h) /\ InStep(h) /\ Fits(h)
      /\ HandlerJob(h)' /\ FleetTypeOK' /\ Calm'
      /\ d \in Deployments
      /\ \A g \in Handlers \ {h} : pc'[g] = pc[g] /\ job'[g] = job[g]
      /\ \/ Enters(h) /\ Executors!Begin(h, job'[h].op, NameOf[job'[h].dep])
         \/ Leaves(h) /\ Learns(h)
         \/ Returns(h) /\ Executors!Return(h)
         \/ ~Enters(h) /\ ~Leaves(h) /\ ~Returns(h) /\ UNCHANGED <<req, live>>
  BY <1>1, HandlerFacts
<1>3. /\ rec' = rec /\ executed' = executed
      /\ pc[h] \in {"machine", "model", "load"}
      /\ pc \in [Actors -> Labels] /\ job \in [Actors -> Jobs] /\ h \in Actors /\ h # Scheduler
  BY DEF GetMachine, GetModel, Load, IInv, TypeOK, Actors
<1>4. ~Leaves(h)
  BY <1>3 DEF Leaves
<1>5. pc'[h] # Idle => job'[h].dep = d /\ job'[h].op = job[h].op
  BY <1>2, <1>3 DEF GetMachine, GetModel, Load, AfterUpdate, Return, CallUpdate, Goto, Jobs, Idle
<1>6. live' = live
  BY <1>2, <1>4 DEF Executors!Begin, Executors!Return
<1>7. DOMAIN req = Handlers
  BY DEF FleetInv, FleetTypeOK
<1>8. \A g \in Handlers \ {h} : req'[g] = req[g]
  BY <1>2, <1>4, <1>7 DEF Executors!Begin, Executors!Return
<1>9. InStep(h)'
  <2>1. CASE pc'[h] = Idle
    <3>1. ~Enters(h)
      BY <2>1 DEF Enters, Idle
    <3>2. req'[h] = Executors!NoReq
      BY <1>2, <1>3, <1>4, <1>7, <2>1, <3>1
         DEF Executors!Return, Executors!NoReq, Returns, InStep
    <3> QED BY <2>1, <3>2 DEF InStep, Idle
  <2>2. CASE pc'[h] = "execute"
    <3>1. Enters(h) /\ ~Returns(h)
      BY <1>3, <2>2 DEF Enters, Returns, Idle
    <3>2. req'[h] = [op |-> job'[h].op, name |-> NameOf[job'[h].dep], result |-> "none"]
      BY <1>2, <1>4, <1>7, <3>1 DEF Executors!Begin
    <3> QED BY <2>2, <3>2 DEF InStep
  <2>3. CASE pc'[h] \notin {Idle, "execute"}
    <3>1. req' = req
      BY <1>2, <1>4, <2>3 DEF Enters, Returns
    <3>2. CASE Load(h)
      <4>1. pc'[h] = "save" /\ job' = job /\ pc[h] = "load"
        BY <1>3, <2>3, <3>2 DEF Load, AfterUpdate, Return, Goto, Actors
      <4> QED BY <1>2, <3>1, <4>1 DEF InStep
    <3>3. CASE GetMachine(h)
      <4>1. pc'[h] = "model" /\ pc[h] = "machine"
        BY <1>3, <2>3, <3>3 DEF GetMachine, Return, Goto
      <4> QED BY <1>2, <3>1, <4>1 DEF InStep
    <3>4. CASE GetModel(h)
      <4>1. /\ pc[h] = "model"
            /\ Return(h) \/ Goto(h, "insert") \/ CallUpdate(h, "deploying")
        BY <3>4 DEF GetModel
      <4>2. ~Return(h)
        BY <1>3, <2>3 DEF Return, Goto
      <4>3. \/ pc'[h] = "insert"
            \/ pc'[h] = "load" /\ job'[h].status = "deploying"
        BY <1>3, <4>1, <4>2 DEF CallUpdate, Goto, Jobs
      <4> QED BY <1>2, <3>1, <4>1, <4>3 DEF InStep
    <3> QED BY <3>2, <3>3, <3>4
  <2> QED BY <2>1, <2>2, <2>3
<1>10. Fits(h)'
  <2>1. CASE pc'[h] = Idle
    BY <1>2, <2>1 DEF HandlerJob, Fits, Idle
  <2>2. CASE pc'[h] # Idle /\ job'[h].dep = d /\ job'[h].op = job[h].op
    <3>1. job'[h].op = "stop" /\ pc'[h] \in {"load", "save"} => pc[h] = "load"
      BY <1>2, <1>3, <2>2 DEF GetMachine, GetModel, Load, HandlerJob, CallUpdate, Return, Goto, Idle
    <3>2. job'[h].op = "start" /\ pc'[h] = "execute" => rec[d] \notin {"planned", "stopped"}
      BY <1>2, <1>3, <2>2 DEF GetMachine, GetModel, Load, HandlerJob, CallUpdate, Return, Goto,
         Idle, Readable, Status
    <3> QED BY <1>2, <1>3, <1>6, <2>2, <3>1, <3>2 DEF Fits
  <2> QED BY <1>5, <2>1, <2>2
<1>11. ASSUME NEW e \in Deployments, Starting(e)
       PROVE  Starting(e)'
  BY <1>2, <1>3, <1>11 DEF Starting
<1>12. ASSUME NEW e \in Deployments, ~ Down(e)
       PROVE  ~ Down(e)'
  BY <1>3, <1>11, <1>12 DEF Down
<1>13. NameOf[d] \in live' => ~ AllDown(NameOf[d])'
  BY <1>6, <1>12 DEF FleetInv, StoppedIsDown, AllDown
<1>14. rec'[d] \notin {"planned", "stopped", Absent} => d \in executed' \/ Starting(d)'
  BY <1>2, <1>3, <1>11 DEF FleetInv, Accounted
<1>15. /\ \A e \in Deployments \ {d} : rec'[e] = rec[e] /\ (e \in executed' <=> e \in executed)
       /\ live' \subseteq live \cup {NameOf[d]} /\ live \subseteq live' \cup {NameOf[d]}
  BY <1>3, <1>6
<1> QED
  BY <1>2, <1>5, <1>6, <1>8, <1>9, <1>10, <1>13, <1>14, <1>15, HandlerFrame

(* The commands of a handler end, and it goes on to write the outcome.     *)
LEMMA CommandsEndFleet ==
  ASSUME Calm, IInv, Known, FleetInv, NEW h \in Handlers, Together,
         RunStop(h) \/ \E ok \in BOOLEAN : RunStart(h, ok)
  PROVE  FleetInv'
<1> USE NoJobFacts, ConstantsAssumption
<1> PICK d : job[h].dep = d
  OBVIOUS
<1>1. HandlerStep(h)
  BY DEF HandlerStep
<1>2. /\ pc[h] # Idle /\ HandlerJob(h) /\ InStep(h) /\ Fits(h)
      /\ FleetTypeOK' /\ Calm'
      /\ d \in Deployments
      /\ \A g \in Handlers \ {h} : pc'[g] = pc[g] /\ job'[g] = job[g]
      /\ \/ Enters(h) /\ Executors!Begin(h, job'[h].op, NameOf[job'[h].dep])
         \/ Leaves(h) /\ Learns(h)
         \/ Returns(h) /\ Executors!Return(h)
         \/ ~Enters(h) /\ ~Leaves(h) /\ ~Returns(h) /\ UNCHANGED <<req, live>>
  BY <1>1, HandlerFacts
<1>3. /\ rec' = rec /\ pc[h] = "execute" /\ job[h].op \in {"start", "stop"}
      /\ executed' = IF job[h].op = "start" THEN executed \cup {d} ELSE executed
      /\ pc \in [Actors -> Labels] /\ job \in [Actors -> Jobs] /\ h \in Actors
  BY DEF RunStart, RunStop, IInv, TypeOK, Actors
<1>4. PICK s \in {"running", "failed", "stopped"} :
        CallUpdate(h, s)
  BY DEF RunStart, RunStop
<1>5. pc'[h] = "load" /\ job'[h].dep = d /\ job'[h].op = job[h].op /\ job'[h].status = s
  BY <1>3, <1>4 DEF CallUpdate, Goto, Jobs
<1>6. Learns(h)
  BY <1>2, <1>3, <1>5 DEF Enters, Leaves, Returns, Idle
<1>7. /\ req'[h].op = job[h].op /\ req'[h].result # "none"
      /\ \A g \in Handlers \ {h} : req'[g] = req[g]
      /\ job[h].op = "start" => live' \in {live, live \cup {NameOf[d]}}
      /\ job[h].op = "stop" => live' = live \ {NameOf[d]}
  BY <1>2, <1>3, <1>6, ResultFacts DEF FleetInv
<1>8. InStep(h)'
  BY <1>5, <1>7 DEF InStep
<1>9. Fits(h)'
  BY <1>3, <1>5, <1>7 DEF Fits
<1>10. NameOf[d] \in live' => ~ AllDown(NameOf[d])'
  <2>1. CASE job[h].op = "start"
    BY <1>2, <1>3, <2>1 DEF Fits, Down, AllDown
  <2>2. CASE job[h].op = "stop"
    BY <1>7, <2>2
  <2> QED BY <1>3, <2>1, <2>2
<1>11. rec'[d] \notin {"planned", "stopped", Absent} => d \in executed' \/ Starting(d)'
  <2>1. CASE job[h].op = "start"
    BY <1>3, <2>1
  <2>2. CASE job[h].op = "stop"
    <3>1. Starting(d) => Starting(d)'
      BY <1>2, <2>2 DEF Starting
    <3> QED BY <1>2, <1>3, <2>2, <3>1 DEF FleetInv, Accounted
  <2> QED BY <1>3, <2>1, <2>2
<1> QED
  BY <1>2, <1>3, <1>5, <1>7, <1>8, <1>9, <1>10, <1>11, HandlerFrame

(* A handler writes the status it came for, to a disk that works.          *)
LEMMA WriteFleet ==
  ASSUME Calm, IInv, Known, FleetInv, "disk" \notin Faults, NEW h \in Handlers, Together,
         Insert(h) \/ SaveStatus(h)
  PROVE  FleetInv'
<1> USE NoJobFacts, ConstantsAssumption
<1> PICK d : job[h].dep = d
  OBVIOUS
<1>1. HandlerStep(h)
  BY DEF HandlerStep
<1>2. /\ pc[h] # Idle /\ HandlerJob(h) /\ InStep(h) /\ Fits(h)
      /\ HandlerJob(h)' /\ FleetTypeOK' /\ Calm'
      /\ d \in Deployments
      /\ \A g \in Handlers \ {h} : pc'[g] = pc[g] /\ job'[g] = job[g]
      /\ \/ Enters(h) /\ Executors!Begin(h, job'[h].op, NameOf[job'[h].dep])
         \/ Leaves(h) /\ Learns(h)
         \/ Returns(h) /\ Executors!Return(h)
         \/ ~Enters(h) /\ ~Leaves(h) /\ ~Returns(h) /\ UNCHANGED <<req, live>>
  BY <1>1, HandlerFacts
<1>3. /\ rec' = [rec EXCEPT ![d] = job[h].status] /\ executed' = executed
      /\ pc[h] \in {"insert", "save"}
      /\ pc \in [Actors -> Labels] /\ job \in [Actors -> Jobs] /\ h \in Actors /\ h # Scheduler
      /\ DOMAIN rec = Deployments /\ DOMAIN req = Handlers
  BY DEF Insert, SaveStatus, Save, IInv, TypeOK, Actors, FleetInv, FleetTypeOK
<1>4. ~Leaves(h)
  BY <1>3 DEF Leaves
<1>5. live' = live /\ \A g \in Handlers \ {h} : req'[g] = req[g]
  BY <1>2, <1>3, <1>4 DEF Executors!Begin, Executors!Return
<1>6. rec'[d] = job[h].status /\ \A e \in Deployments \ {d} : rec'[e] = rec[e]
  BY <1>2, <1>3
<1>7. CASE job[h].status = "deploying"
  <2>1. pc'[h] = "execute" /\ job' = job /\ pc[h] = "save" /\ job[h].op = "start"
    BY <1>2, <1>3, <1>7 DEF Insert, SaveStatus, AfterUpdate, Goto, HandlerJob, Idle
  <2>2. Enters(h) /\ ~Returns(h)
    BY <1>3, <2>1 DEF Enters, Returns, Idle
  <2>3. req'[h] = [op |-> job'[h].op, name |-> NameOf[job'[h].dep], result |-> "none"]
    BY <1>2, <1>3, <1>4, <2>2 DEF Executors!Begin
  <2>4. InStep(h)' /\ Fits(h)'
    BY <1>2, <1>3, <1>7, <2>1, <2>3 DEF InStep, Fits
  <2>5. Starting(d)'
    BY <2>1 DEF Starting
  <2>6. ~ AllDown(NameOf[d])'
    BY <1>2, <1>6, <1>7 DEF Down, Absent, AllDown
  <2> QED BY <1>2, <1>3, <1>5, <1>6, <2>1, <2>4, <2>5, <2>6, HandlerFrame
<1>8. CASE job[h].status # "deploying"
  <2>1. Return(h)
    BY <1>3, <1>8 DEF Insert, SaveStatus, AfterUpdate
  <2>2. pc'[h] = Idle /\ job'[h] = NoJob
    BY <1>3, <2>1 DEF Return, Goto
  <2>3. ~Enters(h)
    BY <2>2 DEF Enters, Idle
  <2>4. req'[h] = Executors!NoReq
    BY <1>2, <1>3, <1>4, <2>2, <2>3 DEF Executors!Return, Executors!NoReq, Returns, InStep
  <2>5. InStep(h)' /\ Fits(h)'
    BY <2>2, <2>4 DEF InStep, Fits, Idle
  <2>6. NameOf[d] \in live' => ~ AllDown(NameOf[d])'
    <3>1. CASE job[h].status = "planned"
      <4>1. job[h].op = "create" /\ rec[d] = Absent /\ d \notin executed
        BY <1>2, <3>1 DEF HandlerJob, Fits
      <4>2. ~ Starting(d)
        BY <1>2, <4>1 DEF FleetInv, TakeTurns, Starting, Idle
      <4>3. Down(d)
        BY <4>1, <4>2 DEF Down
      <4>4. ASSUME NEW e \in Deployments, ~ Down(e)
            PROVE  ~ Down(e)'
        <5>1. e # d
          BY <4>3, <4>4
        <5>2. Starting(e) => Starting(e)'
          BY <1>2, <1>3 DEF Starting
        <5> QED BY <1>3, <1>6, <4>4, <5>1, <5>2 DEF Down
      <4> QED BY <1>5, <4>4 DEF FleetInv, StoppedIsDown, AllDown
    <3>2. CASE job[h].status = "stopped"
      BY <1>2, <1>3, <1>5, <3>2 DEF HandlerJob, Fits
    <3>3. CASE job[h].status \in {"running", "failed"}
      BY <1>2, <1>6, <3>3 DEF Down, Absent, AllDown
    <3> QED BY <1>2, <1>3, <1>8, <3>1, <3>2, <3>3 DEF HandlerJob, Idle
  <2>7. rec'[d] \notin {"planned", "stopped", Absent} => d \in executed'
    BY <1>2, <1>3, <1>6, <1>8 DEF HandlerJob, Idle
  <2>8. /\ \A e \in Deployments \ {d} : rec'[e] = rec[e] /\ (e \in executed' <=> e \in executed)
        /\ live' \subseteq live \cup {NameOf[d]} /\ live \subseteq live' \cup {NameOf[d]}
    BY <1>3, <1>5, <1>6
  <2> QED BY <1>2, <1>5, <2>2, <2>5, <2>6, <2>7, <2>8, HandlerFrame
<1> QED BY <1>7, <1>8

(* A new request: no other handler serves the deployment, or starts or     *)
(* stops one of its name; what is created is new.                          *)
LEMMA RequestFleet ==
  ASSUME Calm, IInv, Known, FleetInv, FleetRequest
  PROVE  FleetInv'
<1> USE NoJobFacts, ConstantsAssumption
<1>1. PICK h \in Handlers, d \in Deployments :
        \/ Create(h, d)
        \/ Start(h, d) /\ Alone(h, d)
        \/ Stop(h, d) /\ Alone(h, d)
  BY DEF FleetRequest
<1>2. /\ pc[h] = Idle /\ rec' = rec /\ executed' = executed /\ h \in Actors
      /\ pc \in [Actors -> Labels] /\ job \in [Actors -> Jobs]
      /\ pc' = [pc EXCEPT ![h] = "machine"]
      /\ job'[h].dep = d /\ job'[h].status # "deploying"
  BY <1>1 DEF Create, Start, Stop, Goto, Actors, IInv, TypeOK
<1>3. ASSUME NEW g \in Handlers \ {h}
      PROVE  pc'[g] = pc[g] /\ job'[g] = job[g]
  BY <1>1, <1>2 DEF Create, Start, Stop, Actors
<1>4. pc'[h] = "machine"
  BY <1>2
<1>5. HandlerJob(h) /\ \A g \in Handlers : InStep(g) /\ Fits(g)
  BY DEF IInv, FleetInv
<1>6. req[h] = Executors!NoReq
  BY <1>2, <1>5 DEF InStep, Idle
<1>7. ~Enters(h) /\ ~Leaves(h) /\ ~Returns(h)
  BY <1>2, <1>4, <1>6 DEF Enters, Leaves, Returns, Executors!NoReq, Idle
<1>8. req' = req /\ live' = live /\ trust' = trust
  BY <1>3, <1>5, <1>7, OneMoves DEF FleetRequest, Together
<1>9. job'[h].op = "create" => rec[d] = Absent /\ d \notin executed
  BY <1>1, <1>2 DEF Create, Start, Stop, Known
<1>10. ASSUME NEW g \in Handlers \ {h}, pc[g] # Idle
       PROVE  /\ job[g].dep # d
              /\ "create" \notin {job[g].op, job'[h].op} => NameOf[job[g].dep] # NameOf[d]
  <2>1. HandlerJob(g) /\ Fits(g)
    BY <1>5 DEF IInv
  <2>2. job[g].op \in {"create", "start", "stop"}
    BY <1>10, <2>1 DEF HandlerJob
  <2>3. CASE Create(h, d)
    BY <1>2, <2>3 DEF Create, Known, Actors
  <2>4. CASE Alone(h, d) /\ Readable(d)
    <3>1. job[g].op = "create" => job[g].dep # d
      BY <2>1, <2>4 DEF Fits, Readable, Status, Absent
    <3> QED BY <2>2, <2>4, <3>1 DEF Alone
  <2> QED BY <1>1, <2>3, <2>4 DEF Start, Stop
<1>11. TakeTurns'
  BY <1>2, <1>3, <1>10 DEF FleetInv, TakeTurns
<1>12. ASSUME NEW g \in Handlers
       PROVE  InStep(g)' /\ Fits(g)'
  <2>1. CASE g = h
    BY <1>2, <1>4, <1>6, <1>8, <1>9, <2>1 DEF InStep, Fits, Idle
  <2>2. CASE g # h
    BY <1>2, <1>3, <1>5, <1>8, <2>2 DEF InStep, Fits
  <2> QED BY <2>1, <2>2
<1>13. ASSUME NEW e \in Deployments
       PROVE  Starting(e)' <=> Starting(e)
  BY <1>2, <1>3, <1>4 DEF Starting, Idle
<1>14. FleetTypeOK' /\ Accounted' /\ StoppedIsDown'
  BY <1>2, <1>8, <1>13 DEF FleetInv, FleetTypeOK, Accounted, StoppedIsDown, AllDown, Down
<1> QED BY <1>11, <1>12, <1>14 DEF FleetInv

(* The steps of others than the handlers.                                  *)
LEMMA OthersFleet ==
  ASSUME Calm, IInv, Known, FleetInv, "disk" \notin Faults, Together,
         \/ Deletion \/ SchedulerStep
         \/ \E d \in Deployments, c \in Conditions : ServerChanges(d, c)
  PROVE  FleetInv'
<1> USE NoJobFacts, ConstantsAssumption
<1>1. pc \in [Actors -> Labels] /\ job \in [Actors -> Jobs] /\ DOMAIN rec = Deployments
  BY DEF IInv, TypeOK
<1>2. ASSUME NEW g \in Handlers
      PROVE  pc'[g] = pc[g] /\ job'[g] = job[g]
  BY <1>1 DEF Deletion, DeleteDeployment, DeleteMachine, DeleteModel, SchedulerStep, CheckAll,
     CheckOne, Probe, Conclude, CallUpdate, Load, SaveStatus, AfterUpdate, EndCheckAll,
     ServerChanges, Goto, Actors
<1>3. \A g \in Handlers : InStep(g)
  BY DEF FleetInv
<1>4. UNCHANGED <<req, live, trust>>
  BY <1>2, <1>3, NobodyMoves DEF Together
<1>5. executed' = executed
  BY DEF Deletion, DeleteDeployment, DeleteMachine, DeleteModel, SchedulerStep, CheckAll,
     CheckOne, Probe, Load, SaveStatus, EndCheckAll, ServerChanges
<1>6. ASSUME NEW d \in Deployments
      PROVE  \/ rec'[d] = rec[d]
             \/ rec'[d] = Absent
             \/ rec'[d] \notin {"planned", "stopped", Absent} /\ d \in executed
  <2>1. CASE SaveStatus(Scheduler)
    <3>1. /\ job[Scheduler].status \in {"running", "degraded", "unhealthy"}
          /\ job[Scheduler].dep \in executed
      BY <2>1 DEF SaveStatus, IInv, SchedulerJob, Idle, Probes
    <3> QED BY <1>1, <2>1, <3>1 DEF SaveStatus, Save, Absent
  <2>2. CASE Deletion
    BY <1>1, <2>2 DEF Deletion, DeleteDeployment, DeleteMachine, DeleteModel, Absent
  <2>3. CASE rec' = rec
    BY <2>3
  <2> QED
    BY <2>1, <2>2, <2>3 DEF SchedulerStep, CheckAll, CheckOne, Probe, Load, EndCheckAll, ServerChanges
<1> QED BY <1>2, <1>4, <1>5, <1>6, StillFrame

(* A server comes up only for a Start under way, whose record says so.     *)
LEMMA ServerFleet ==
  ASSUME Calm, IInv, Known, FleetInv, ServerStep
  PROVE  FleetInv'
<1> USE NoJobFacts, ConstantsAssumption
<1>1. PICK n \in Names : Executors!Launch(n) \/ Executors!End(n)
  BY DEF ServerStep
<1>2. /\ req' = req /\ trust' = trust /\ rec' = rec /\ executed' = executed
      /\ pc' = pc /\ job' = job /\ FleetTypeOK' /\ TakeTurns'
  BY <1>1 DEF ServerStep, vars, Executors!Launch, Executors!End, FleetInv, FleetTypeOK, TakeTurns
<1>3. /\ Accounted'
      /\ \A d \in Deployments : Down(d)' <=> Down(d)
  BY <1>2 DEF FleetInv, Accounted, Down, Starting
<1>4. ASSUME NEW g \in Handlers
      PROVE  InStep(g) /\ Fits(g) /\ HandlerJob(g) /\ InStep(g)'
  BY <1>2 DEF FleetInv, IInv, InStep
<1>5. CASE Executors!End(n)
  <2>1. live' \subseteq live
    BY <1>5 DEF Executors!End
  <2>2. StoppedIsDown'
    BY <1>3, <2>1 DEF FleetInv, StoppedIsDown, AllDown
  <2>3. \A g \in Handlers : Fits(g)'
    BY <1>2, <1>4, <2>1 DEF Fits
  <2> QED BY <1>2, <1>3, <1>4, <2>2, <2>3 DEF FleetInv
<1>6. CASE Executors!Launch(n)
  <2>1. PICK h \in Handlers : req[h].op = "start" /\ req[h].result = "none" /\ req[h].name = n
    BY <1>6 DEF Executors!Launch, Executors!Waits
  <2>2. live' = live \cup {n}
    BY <1>6 DEF Executors!Launch
  <2>3. pc[h] = "execute" /\ job[h].op = "start" /\ NameOf[job[h].dep] = n
    <3>1. InStep(h)
      BY <1>4
    <3>2. req[h] # Executors!NoReq
      BY <2>1 DEF Executors!NoReq
    <3>3. req[h] = [op |-> job[h].op, name |-> NameOf[job[h].dep], result |-> "none"] /\ pc[h] = "execute"
      BY <2>1, <3>1, <3>2 DEF InStep
    <3> QED BY <2>1, <3>3
  <2>4. job[h].dep \in Deployments /\ ~ Down(job[h].dep)
    <3>1. job[h].dep \in Deployments /\ Fits(h)
      BY <1>4, <2>3 DEF HandlerJob, Idle
    <3> QED BY <2>3, <3>1 DEF Fits, Down, Starting
  <2>5. StoppedIsDown'
    BY <1>3, <2>2, <2>3, <2>4 DEF FleetInv, StoppedIsDown, AllDown
  <2>6. ASSUME NEW g \in Handlers
        PROVE  Fits(g)'
    <3>1. CASE g = h
      BY <1>2, <1>4, <2>3, <3>1 DEF Fits
    <3>2. CASE g # h /\ pc[g] = Idle
      BY <1>2, <1>4, <3>2 DEF Fits, HandlerJob, Idle
    <3>3. CASE g # h /\ pc[g] # Idle
      <4>1. job[g].op = "stop" => NameOf[job[g].dep] # n
        BY <2>3, <3>3 DEF FleetInv, TakeTurns, Idle
      <4> QED BY <1>2, <1>4, <2>2, <4>1 DEF Fits
    <3> QED BY <3>1, <3>2, <3>3
  <2> QED BY <1>2, <1>3, <1>4, <2>5, <2>6 DEF FleetInv
<1> QED BY <1>1, <1>5, <1>6

LEMMA FleetInvStep ==
  ASSUME IInv, Known, FleetInv, "disk" \notin Faults, [FleetNext]_fvars
  PROVE  FleetInv'
<1>1. trust' = trust /\ FleetTypeOK'
  BY FleetStep, ExecutorsStep, FleetTypes DEF FleetInv
<1>2. CASE ~Calm
  BY <1>1, <1>2 DEF FleetInv, Calm
<1>3. CASE UNCHANGED fvars
  BY <1>1, <1>3 DEF fvars, vars, FleetInv, Calm, TakeTurns, InStep, Fits, Accounted, StoppedIsDown, AllDown, Down, Starting
<1>4. CASE Calm /\ FleetNext
  <2>1. CASE FleetRequest
    BY <1>4, <2>1, RequestFleet
  <2>2. ASSUME NEW h \in Handlers, FleetHandlerStep(h)
        PROVE  FleetInv'
    BY <1>4, <2>2, LookUpFleet, CommandsEndFleet, WriteFleet DEF FleetHandlerStep, HandlerStep
  <2>3. CASE ServerStep
    BY <1>4, <2>3, ServerFleet
  <2>4. CASE Together /\ \/ Deletion \/ SchedulerStep
                         \/ \E d \in Deployments, c \in Conditions : ServerChanges(d, c)
    BY <1>4, <2>4, OthersFleet
  <2> QED BY <1>4, <2>1, <2>2, <2>3, <2>4 DEF FleetNext, FleetSchedulerStep
<1> QED BY <1>2, <1>3, <1>4

LEMMA FleetInvInit == ASSUME FleetInit PROVE FleetInv
<1> USE NoJobFacts, ConstantsAssumption
<1>1. FleetTypeOK
  BY DEF FleetInit, FleetTypeOK, Executors!Init, Executors!NoReq
<1>2. live = {} /\ \A h \in Handlers : pc[h] = Idle /\ job[h] = NoJob /\ req[h] = Executors!NoReq
  BY DEF FleetInit, Init, Executors!Init, Actors
<1>3. TakeTurns /\ Accounted /\ StoppedIsDown
  BY <1>2 DEF TakeTurns, StoppedIsDown, Accounted, FleetInit, Init
<1>4. \A h \in Handlers : InStep(h) /\ Fits(h)
  BY <1>2 DEF InStep, Fits, Idle
<1> QED BY <1>1, <1>3, <1>4 DEF FleetInv

(* While the disk works and requests for one deployment take turns, what   *)
(* the records call planned or stopped has no live server, for any number  *)
(* of deployments and handlers and whatever executors keep their promise.  *)
(* (A save of "deploying" that fails unnoticed would break this: Start     *)
(* goes on to launch a server for a record that still says "stopped".)     *)
THEOREM FleetStoppedIsDown == "disk" \notin Faults => (FleetSpec => []StoppedIsDown)
<1> SUFFICES ASSUME "disk" \notin Faults PROVE FleetSpec => []StoppedIsDown
  OBVIOUS
<1>1. FleetInit => FleetInv
  BY FleetInvInit
<1>2. IInv /\ Known /\ FleetInv /\ [FleetNext]_fvars => FleetInv'
  BY FleetInvStep
<1>3. FleetInv => StoppedIsDown
  BY DEF FleetInv, StoppedIsDown
<1> QED BY <1>1, <1>2, <1>3, FleetInvariance, KnownInvariance, PTL DEF FleetSpec
=============================================================================
