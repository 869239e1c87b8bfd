------------------------ MODULE ControlPlane_proofs ------------------------
(***************************************************************************)
(* TLAPS proofs of the safety properties of ControlPlane, for any number   *)
(* of deployments, machines, models and handlers.                          *)
(*                                                                         *)
(* None of the properties is inductive: each depends on where a goroutine  *)
(* can be with which request in hand.  IInv says that, and that whatever   *)
(* carries a status a server has earned (a stored record, the scheduler's  *)
(* copy of one, an update on its way) is about a deployment that has run.  *)
(***************************************************************************)
EXTENDS ControlPlane, TLAPS

\* Which request handler h may have in hand, by where it is.
HandlerJob(h) ==
  \/ /\ pc[h] = Idle
     /\ job[h] = NoJob
  \/ /\ job[h].dep \in Deployments
     /\ \/ /\ job[h].op = "create"
           /\ job[h].status = "planned"
           /\ pc[h] \in {"machine", "model", "insert"}
        \/ /\ job[h].op = "start"
           /\ job[h].status = "none"
           /\ pc[h] \in {"machine", "model"}
        \/ /\ job[h].op = "start"
           /\ job[h].status = "deploying"
           /\ pc[h] \in {"load", "save", "execute"}
        \/ /\ job[h].op = "start"
           /\ job[h].status \in {"running", "failed"}
           /\ pc[h] \in {"load", "save"}
           /\ job[h].dep \in executed
        \/ /\ job[h].op = "stop"
           /\ job[h].status = "none"
           /\ pc[h] \in {"machine", "execute"}
        \/ /\ job[h].op = "stop"
           /\ job[h].status = "stopped"
           /\ pc[h] \in {"load", "save"}

\* Which update the scheduler may be making, by where it is.
SchedulerJob ==
  \/ /\ pc[Scheduler] \in {Idle, "checking"}
     /\ job[Scheduler] = NoJob
  \/ /\ job[Scheduler].op = "check"
     /\ job[Scheduler].status \in {"running", "degraded", "unhealthy"}
     /\ job[Scheduler].dep \in executed
     /\ pc[Scheduler] \in {"load", "save"}
  \/ /\ job[Scheduler].op = "check"
     /\ job[Scheduler].status \in Checked
     /\ job[Scheduler].dep \in executed
     /\ pc[Scheduler] \in Probes

\* The scheduler only copies records of deployments that have run.
CopiesEarned == \A d \in Deployments : seen[d] # Skip => d \in executed

IInv ==
  /\ TypeOK
  /\ \A h \in Handlers : HandlerJob(h)
  /\ SchedulerJob
  /\ CopiesEarned
  /\ StatusEarned

-----------------------------------------------------------------------------
(* A request is checked by its handler's label, and NoJob belongs nowhere. *)
LEMMA NoJobFacts ==
  /\ NoJob \in Jobs
  /\ NoJob.dep = None
  /\ NoJob.op = "none"
  /\ None \notin Deployments
BY ConstantsAssumption DEF NoJob, Jobs

(* UpdateStatus returns: whoever called it is where its job says.          *)
LEMMA AfterUpdateKeepsJobs ==
  ASSUME IInv, NEW a \in Actors, pc[a] \in {"load", "save"}, AfterUpdate(a),
         executed' = executed
  PROVE  /\ pc' \in [Actors -> Labels]
         /\ job' \in [Actors -> Jobs]
         /\ \A h \in Handlers : HandlerJob(h)'
         /\ SchedulerJob'
<1> USE NoJobFacts, ConstantsAssumption
<1>1. pc \in [Actors -> Labels] /\ job \in [Actors -> Jobs]
  BY DEF IInv, TypeOK
<1>2. CASE a = Scheduler
  <2>1. /\ pc' = [pc EXCEPT ![Scheduler] = "checking"]
        /\ job' = [job EXCEPT ![Scheduler] = NoJob]
    BY <1>2 DEF AfterUpdate, Goto
  <2>2. SchedulerJob'
    BY <1>1, <2>1 DEF SchedulerJob, Actors
  <2>3. ASSUME NEW h \in Handlers PROVE HandlerJob(h)'
    BY <1>1, <2>1 DEF IInv, HandlerJob, Actors
  <2> QED BY <1>1, <2>1, <2>2, <2>3 DEF Labels
<1>3. CASE a # Scheduler
  <2>1. a \in Handlers /\ HandlerJob(a)
    BY <1>3 DEF Actors, IInv
  <2>2. CASE job[a].status = "deploying"
    <3>1. pc' = [pc EXCEPT ![a] = "execute"] /\ job' = job
      BY <1>3, <2>2 DEF AfterUpdate, Goto
    <3>2. HandlerJob(a)'
      BY <1>1, <2>1, <2>2, <3>1 DEF HandlerJob, NoJob, Actors, Idle
    <3>3. ASSUME NEW h \in Handlers, h # a PROVE HandlerJob(h)'
      BY <1>1, <3>1, <3>3 DEF IInv, HandlerJob, Actors
    <3>4. SchedulerJob'
      BY <1>1, <1>3, <3>1 DEF IInv, SchedulerJob, Actors
    <3> QED BY <1>1, <3>1, <3>2, <3>3, <3>4 DEF Labels
  <2>3. CASE job[a].status # "deploying"
    <3>1. pc' = [pc EXCEPT ![a] = Idle] /\ job' = [job EXCEPT ![a] = NoJob]
      BY <1>3, <2>3 DEF AfterUpdate, Return, Goto
    <3>2. HandlerJob(a)'
      BY <1>1, <2>1, <3>1 DEF HandlerJob, Actors
    <3>3. ASSUME NEW h \in Handlers, h # a PROVE HandlerJob(h)'
      BY <1>1, <3>1, <3>3 DEF IInv, HandlerJob, Actors
    <3>4. SchedulerJob'
      BY <1>1, <1>3, <3>1 DEF IInv, SchedulerJob, Actors
    <3> QED BY <1>1, <3>1, <3>2, <3>3, <3>4 DEF Labels
  <2> QED BY <2>2, <2>3
<1> QED BY <1>2, <1>3

(* A handler moves on, its job in hand or a new one, and nobody else does. *)
LEMMA HandlerMoves ==
  ASSUME IInv, NEW g \in Handlers, NEW l \in Labels, NEW j \in Jobs,
         pc' = [pc EXCEPT ![g] = l], job' = [job EXCEPT ![g] = j],
         executed \subseteq executed', HandlerJob(g)'
  PROVE  /\ pc' \in [Actors -> Labels]
         /\ job' \in [Actors -> Jobs]
         /\ \A h \in Handlers : HandlerJob(h)'
         /\ SchedulerJob'
<1>1. /\ pc \in [Actors -> Labels]
      /\ job \in [Actors -> Jobs]
      /\ g \in Actors
      /\ g # Scheduler
  BY ConstantsAssumption DEF IInv, TypeOK, Actors
<1>2. ASSUME NEW h \in Handlers PROVE HandlerJob(h)'
  <2>1. CASE h = g
    BY <2>1
  <2>2. CASE h # g
    <3>1. pc'[h] = pc[h] /\ job'[h] = job[h]
      BY <1>1, <2>2 DEF Actors
    <3> QED BY <3>1 DEF IInv, HandlerJob
  <2> QED BY <2>1, <2>2
<1>3. SchedulerJob'
  <2>1. pc'[Scheduler] = pc[Scheduler] /\ job'[Scheduler] = job[Scheduler]
    BY <1>1 DEF Actors
  <2> QED BY <2>1 DEF IInv, SchedulerJob
<1> QED BY <1>1, <1>2, <1>3

(* Saving a status keeps the records well typed and earned.                *)
LEMMA SaveKeepsRecords ==
  ASSUME IInv, NEW d \in Deployments, NEW s \in Status, Save(d, s),
         s \in {"running", "failed", "degraded", "unhealthy"} => d \in executed,
         executed' = executed
  PROVE  /\ rec' \in [Deployments -> Status \cup {Absent, Torn}]
         /\ StatusEarned'
BY DEF IInv, TypeOK, Save, StatusEarned, Absent, Torn, Status

-----------------------------------------------------------------------------
LEMMA InitInv == Init => IInv
<1> USE NoJobFacts, ConstantsAssumption
<1> SUFFICES ASSUME Init PROVE IInv
  OBVIOUS
<1>1. TypeOK
  BY DEF Init, TypeOK, Labels, Checked, Absent, Skip
<1>2. (\A h \in Handlers : HandlerJob(h)) /\ SchedulerJob
  BY DEF Init, HandlerJob, SchedulerJob, Actors
<1>3. CopiesEarned /\ StatusEarned
  BY DEF Init, CopiesEarned, StatusEarned, Skip, Absent
<1> QED BY <1>1, <1>2, <1>3 DEF IInv

(* The steps that take a request in hand or go on with it.                 *)
LEMMA RequestInv == ASSUME IInv, Request PROVE IInv'
<1> USE NoJobFacts, ConstantsAssumption
<1>1. PICK h \in Handlers, d \in Deployments : Create(h, d) \/ Start(h, d) \/ Stop(h, d)
  BY DEF Request
<1>2. UNCHANGED <<rec, machines, models, seen, server, executed>> /\ used' \subseteq Deployments
  BY <1>1 DEF Create, Start, Stop, IInv, TypeOK
<1>3. CopiesEarned' /\ StatusEarned'
  BY <1>2 DEF IInv, CopiesEarned, StatusEarned
<1>4. PICK j \in Jobs : /\ job' = [job EXCEPT ![h] = j]
                        /\ pc' = [pc EXCEPT ![h] = "machine"]
                        /\ j.dep = d
                        /\ \/ j.op = "create" /\ j.status = "planned"
                           \/ j.op \in {"start", "stop"} /\ j.status = "none"
  <2>1. /\ [op |-> "create", dep |-> d, status |-> "planned"] \in Jobs
        /\ [op |-> "start", dep |-> d, status |-> "none"] \in Jobs
        /\ [op |-> "stop", dep |-> d, status |-> "none"] \in Jobs
    BY DEF Jobs, Status
  <2>2. CASE Create(h, d)
    BY <2>1, <2>2 DEF Create, Goto
  <2>3. CASE Start(h, d)
    BY <2>1, <2>3 DEF Start, Goto
  <2>4. CASE Stop(h, d)
    BY <2>1, <2>4 DEF Stop, Goto
  <2> QED BY <1>1, <2>2, <2>3, <2>4
<1>5. HandlerJob(h)'
  BY <1>4 DEF HandlerJob, IInv, TypeOK, Actors
<1>6. /\ pc' \in [Actors -> Labels]
      /\ job' \in [Actors -> Jobs]
      /\ \A g \in Handlers : HandlerJob(g)'
      /\ SchedulerJob'
  BY <1>2, <1>4, <1>5, HandlerMoves DEF Labels
<1>7. TypeOK'
  BY <1>2, <1>6 DEF IInv, TypeOK
<1> QED BY <1>3, <1>6, <1>7 DEF IInv

(* The steps of a handler that call no one else.                           *)
LEMMA HandlerInv ==
  ASSUME IInv, NEW h \in Handlers,
         \/ GetMachine(h) \/ GetModel(h) \/ RunStop(h)
         \/ \E ok \in BOOLEAN : RunStart(h, ok)
  PROVE  IInv'
<1> USE NoJobFacts, ConstantsAssumption
<1>1. /\ UNCHANGED <<rec, used, machines, models, seen, server>>
      /\ executed \subseteq executed'
      /\ executed' \subseteq executed \cup {job[h].dep}
  BY DEF GetMachine, GetModel, RunStop, RunStart
<1>2. /\ h \in Actors
      /\ pc \in [Actors -> Labels]
      /\ job \in [Actors -> Jobs]
      /\ HandlerJob(h)
  BY DEF IInv, TypeOK, Actors
<1>3. \E l \in Labels, j \in Jobs :
         /\ pc' = [pc EXCEPT ![h] = l]
         /\ job' = [job EXCEPT ![h] = j]
         /\ HandlerJob(h)'
  <2>1. CASE GetMachine(h)
    <3>1. CASE job' = job
      <4>1. pc' = [pc EXCEPT ![h] = IF job[h].op = "stop" THEN "execute" ELSE "model"]
        BY <2>1, <3>1, <1>2 DEF GetMachine, Goto, Return, HandlerJob, Idle, NoJob, Jobs
      <4>2. HandlerJob(h)'
        BY <2>1, <3>1, <4>1, <1>2 DEF GetMachine, HandlerJob, Idle
      <4>3. job' = [job EXCEPT ![h] = job[h]] /\ job[h] \in Jobs
        BY <1>2, <3>1
      <4> DEFINE l == IF job[h].op = "stop" THEN "execute" ELSE "model"
      <4>4. l \in Labels
        BY DEF Labels
      <4> QED BY <4>1, <4>2, <4>3, <4>4
    <3>2. CASE Return(h)
      <4>1. HandlerJob(h)'
        BY <3>2, <1>2 DEF Return, Goto, HandlerJob
      <4> QED BY <3>2, <4>1 DEF Return, Goto, Labels
    <3> QED BY <2>1, <3>1, <3>2 DEF GetMachine
  <2>2. CASE GetModel(h)
    <3>1. CASE Return(h)
      <4>1. HandlerJob(h)'
        BY <3>1, <1>2 DEF Return, Goto, HandlerJob
      <4> QED BY <3>1, <4>1 DEF Return, Goto, Labels
    <3>2. CASE job[h].op = "create" /\ Goto(h, "insert") /\ job' = job
      <4>1. HandlerJob(h)'
        BY <2>2, <3>2, <1>2 DEF GetModel, Goto, HandlerJob, Idle
      <4>2. /\ pc' = [pc EXCEPT ![h] = "insert"] /\ "insert" \in Labels
            /\ job' = [job EXCEPT ![h] = job[h]] /\ job[h] \in Jobs
        BY <1>2, <3>2 DEF Goto, Labels
      <4> QED BY <4>1, <4>2
    <3>3. CASE job[h].op = "start" /\ CallUpdate(h, "deploying")
      <4>1. HandlerJob(h)'
        BY <2>2, <3>3, <1>2 DEF GetModel, CallUpdate, Goto, HandlerJob, Idle, Jobs
      <4>2. [job[h] EXCEPT !.status = "deploying"] \in Jobs
        BY <1>2 DEF Jobs, Status
      <4> QED BY <3>3, <4>1, <4>2, <1>2 DEF CallUpdate, Goto, Labels
    <3> QED BY <2>2, <3>1, <3>2, <3>3 DEF GetModel
  <2>3. CASE RunStop(h)
    <3>1. HandlerJob(h)'
      BY <2>3, <1>2 DEF RunStop, CallUpdate, Goto, HandlerJob, Idle, Jobs
    <3>2. [job[h] EXCEPT !.status = "stopped"] \in Jobs
      BY <1>2 DEF Jobs, Status
    <3> QED BY <2>3, <3>1, <3>2, <1>2 DEF RunStop, CallUpdate, Goto, Labels
  <2>4. ASSUME NEW ok \in BOOLEAN, RunStart(h, ok)
        PROVE  \E l \in Labels, j \in Jobs :
                  /\ pc' = [pc EXCEPT ![h] = l]
                  /\ job' = [job EXCEPT ![h] = j]
                  /\ HandlerJob(h)'
    <3> DEFINE s == IF ok THEN "running" ELSE "failed"
    <3>1. s \in {"running", "failed"}
      OBVIOUS
    <3> HIDE DEF s
    <3>2. /\ pc[h] = "execute"
          /\ job[h].op = "start"
          /\ pc' = [pc EXCEPT ![h] = "load"]
          /\ job' = [job EXCEPT ![h].status = s]
          /\ executed' = executed \cup {job[h].dep}
      BY <2>4 DEF RunStart, CallUpdate, Goto, s
    <3>3. HandlerJob(h)'
      BY <3>1, <3>2, <1>2 DEF HandlerJob, Idle, Jobs
    <3>4. [job[h] EXCEPT !.status = s] \in Jobs
      BY <3>1, <1>2 DEF Jobs, Status
    <3> QED BY <3>2, <3>3, <3>4, <1>2 DEF Labels
  <2> QED BY <2>1, <2>2, <2>3, <2>4
<1>4. /\ pc' \in [Actors -> Labels]
      /\ job' \in [Actors -> Jobs]
      /\ \A g \in Handlers : HandlerJob(g)'
      /\ SchedulerJob'
  BY <1>1, <1>3, HandlerMoves
<1>5. executed' \subseteq Deployments
  <2>1. CASE \E ok \in BOOLEAN : RunStart(h, ok)
    <3>1. job[h].dep \in Deployments
      BY <2>1, <1>2 DEF RunStart, HandlerJob, Idle
    <3> QED BY <1>1, <3>1 DEF IInv, TypeOK
  <2>2. CASE executed' = executed
    BY <2>2 DEF IInv, TypeOK
  <2> QED BY <2>1, <2>2 DEF GetMachine, GetModel, RunStop
<1>6. TypeOK'
  BY <1>1, <1>4, <1>5 DEF IInv, TypeOK
<1>7. CopiesEarned' /\ StatusEarned'
  BY <1>1 DEF IInv, CopiesEarned, StatusEarned
<1> QED BY <1>4, <1>6, <1>7 DEF IInv

(* UpdateStatus and Create, the steps that write a record.                 *)
LEMMA WriteInv ==
  ASSUME IInv, NEW a \in Actors,
         Load(a) \/ SaveStatus(a) \/ (a \in Handlers /\ Insert(a))
  PROVE  IInv'
<1> USE NoJobFacts, ConstantsAssumption
<1>1. /\ UNCHANGED <<used, machines, models, seen, server, executed>>
      /\ pc \in [Actors -> Labels]
      /\ job \in [Actors -> Jobs]
  BY DEF Load, SaveStatus, Insert, IInv, TypeOK
<1>2. /\ pc' \in [Actors -> Labels]
      /\ job' \in [Actors -> Jobs]
      /\ \A h \in Handlers : HandlerJob(h)'
      /\ SchedulerJob'
  <2>1. CASE pc[a] \in {"load", "save"} /\ AfterUpdate(a)
    BY <1>1, <2>1, AfterUpdateKeepsJobs
  <2>2. CASE pc[a] = "load" /\ Goto(a, "save") /\ job' = job
    <3>1. CASE a = Scheduler
      <4>1. SchedulerJob'
        BY <1>1, <2>2, <3>1 DEF Goto, IInv, SchedulerJob, Idle, Probes
      <4>2. ASSUME NEW h \in Handlers PROVE HandlerJob(h)'
        BY <1>1, <2>2, <3>1 DEF Goto, IInv, HandlerJob, Actors
      <4> QED BY <1>1, <2>2, <4>1, <4>2 DEF Goto, Labels
    <3>2. CASE a \in Handlers
      <4>1. HandlerJob(a)'
        BY <1>1, <2>2, <3>2 DEF Goto, IInv, HandlerJob, Idle
      <4>2. job' = [job EXCEPT ![a] = job[a]] /\ job[a] \in Jobs
        BY <1>1, <2>2
      <4> QED BY <1>1, <2>2, <3>2, <4>1, <4>2, HandlerMoves DEF Goto, Labels
    <3> QED BY <3>1, <3>2 DEF Actors
  <2>3. CASE a \in Handlers /\ Return(a)
    <3>1. HandlerJob(a)'
      BY <1>1, <2>3 DEF Return, Goto, HandlerJob
    <3> QED BY <1>1, <2>3, <3>1, HandlerMoves DEF Return, Goto, Labels
  <2> QED BY <2>1, <2>2, <2>3 DEF Load, SaveStatus, Insert
<1>3. rec' \in [Deployments -> Status \cup {Absent, Torn}] /\ StatusEarned'
  <2>1. CASE Load(a)
    BY <2>1 DEF Load, IInv, TypeOK, StatusEarned
  <2>2. CASE SaveStatus(a)
    <3>1. Save(job[a].dep, job[a].status) /\ pc[a] = "save"
      BY <2>2 DEF SaveStatus
    <3>2. /\ job[a].dep \in Deployments
          /\ job[a].status \in Status
          /\ job[a].status \in {"running", "failed", "degraded", "unhealthy"}
                => job[a].dep \in executed
      <4>1. CASE a = Scheduler
        BY <3>1, <4>1 DEF IInv, TypeOK, SchedulerJob, Idle, Status, Probes
      <4>2. CASE a \in Handlers
        BY <3>1, <4>2 DEF IInv, HandlerJob, Idle, Status
      <4> QED BY <4>1, <4>2 DEF Actors
    <3> QED BY <1>1, <3>1, <3>2, SaveKeepsRecords
  <2>3. CASE a \in Handlers /\ Insert(a)
    <3>1. Save(job[a].dep, job[a].status) /\ pc[a] = "insert"
      BY <2>3 DEF Insert
    <3>2. job[a].dep \in Deployments /\ job[a].status = "planned"
      BY <2>3, <3>1 DEF IInv, HandlerJob, Idle
    <3> QED BY <1>1, <3>1, <3>2, SaveKeepsRecords DEF Status
  <2> QED BY <2>1, <2>2, <2>3
<1>4. TypeOK'
  BY <1>1, <1>2, <1>3 DEF IInv, TypeOK
<1>5. CopiesEarned'
  BY <1>1 DEF IInv, CopiesEarned
<1> QED BY <1>2, <1>3, <1>4, <1>5 DEF IInv

(* A probe leads to the next one, back to the loop, or to an update.       *)
LEMMA ProbeMoves ==
  ASSUME IInv, Probe
  PROVE  /\ job[Scheduler].op = "check"
         /\ job[Scheduler].dep \in executed
         /\ \/ \E p \in Probes : pc' = [pc EXCEPT ![Scheduler] = p] /\ job' = job
            \/ /\ pc' = [pc EXCEPT ![Scheduler] = "checking"]
               /\ job' = [job EXCEPT ![Scheduler] = NoJob]
            \/ \E s \in {"running", "degraded", "unhealthy"} :
                 /\ pc' = [pc EXCEPT ![Scheduler] = "load"]
                 /\ job' = [job EXCEPT ![Scheduler].status = s]
<1>1. /\ pc[Scheduler] \in Probes
      /\ job[Scheduler].op = "check"
      /\ job[Scheduler].dep \in executed
  BY DEF Probe, IInv, SchedulerJob, Probes, Idle
<1> DEFINE found == Finding(pc[Scheduler], server[job[Scheduler].dep])
<1>2. found \in Probes \cup {"healthy", "degraded", "unreachable"}
  BY <1>1 DEF Finding, Probes
<1>3. CASE found \in Probes
  <2>1. pc' = [pc EXCEPT ![Scheduler] = found] /\ job' = job
    BY <1>3 DEF Probe, Goto
  <2> QED BY <1>1, <1>3, <2>1
<1>4. CASE found \notin Probes
  <2> DEFINE s == HealthStatus(found)
  <2>1. s \in {"running", "degraded", "unhealthy"}
    BY <1>2, <1>4 DEF HealthStatus
  <2>2. Conclude(found)
    BY <1>4 DEF Probe
  <2> HIDE DEF found
  <2>3. \/ /\ pc' = [pc EXCEPT ![Scheduler] = "checking"]
           /\ job' = [job EXCEPT ![Scheduler] = NoJob]
        \/ /\ pc' = [pc EXCEPT ![Scheduler] = "load"]
           /\ job' = [job EXCEPT ![Scheduler].status = s]
    BY <2>2 DEF Conclude, CallUpdate, Goto
  <2> QED BY <1>1, <2>1, <2>3
<1> QED BY <1>3, <1>4

(* The scheduler's loop: what it copies, and so what it concludes, is      *)
(* about deployments that have run.                                        *)
LEMMA SchedulerInv ==
  ASSUME IInv, CheckAll \/ EndCheckAll \/ Probe \/ \E d \in Deployments : CheckOne(d)
  PROVE  IInv'
<1> USE NoJobFacts, ConstantsAssumption
<1>1. /\ UNCHANGED <<rec, used, machines, models, server, executed>>
      /\ pc \in [Actors -> Labels]
      /\ job \in [Actors -> Jobs]
      /\ seen \in [Deployments -> Checked \cup {Skip}]
      /\ Scheduler \in Actors
  BY DEF CheckAll, CheckOne, EndCheckAll, Probe, IInv, TypeOK, Actors
<1>2. StatusEarned'
  BY <1>1 DEF IInv, StatusEarned
<1>3. /\ seen' \in [Deployments -> Checked \cup {Skip}]
      /\ CopiesEarned'
  <2>1. CASE CheckAll
    BY <1>1, <2>1 DEF CheckAll, IInv, CopiesEarned, StatusEarned, Checked, Skip
  <2>2. CASE EndCheckAll
    BY <1>1, <2>2 DEF EndCheckAll, IInv, CopiesEarned
  <2>3. CASE \E d \in Deployments : CheckOne(d)
    BY <1>1, <2>3 DEF CheckOne, IInv, CopiesEarned
  <2>4. CASE Probe
    BY <1>1, <2>4 DEF Probe, IInv, CopiesEarned
  <2> QED BY <2>1, <2>2, <2>3, <2>4
<1>4. /\ pc' \in [Actors -> Labels]
      /\ job' \in [Actors -> Jobs]
      /\ SchedulerJob'
      /\ \A h \in Handlers : pc'[h] = pc[h] /\ job'[h] = job[h]
  <2>1. CASE CheckAll
    BY <1>1, <2>1 DEF CheckAll, Goto, Labels, SchedulerJob, IInv, Actors, Idle, Probes
  <2>2. CASE EndCheckAll
    BY <1>1, <2>2 DEF EndCheckAll, Goto, Labels, SchedulerJob, IInv, Actors, Idle, Probes
  <2>3. ASSUME NEW d \in Deployments, CheckOne(d)
        PROVE  /\ pc' \in [Actors -> Labels]
               /\ job' \in [Actors -> Jobs]
               /\ SchedulerJob'
               /\ \A h \in Handlers : pc'[h] = pc[h] /\ job'[h] = job[h]
    <3>1. /\ pc' = [pc EXCEPT ![Scheduler] = "tcp"]
          /\ job' = [job EXCEPT ![Scheduler] =
                       [op |-> "check", dep |-> d, status |-> seen[d]]]
      BY <2>3 DEF CheckOne, Goto
    <3>2. seen[d] \in Checked /\ d \in executed
      BY <1>1, <2>3 DEF CheckOne, IInv, CopiesEarned
    <3>3. [op |-> "check", dep |-> d, status |-> seen[d]] \in Jobs
      BY <3>2 DEF Jobs, Checked, Status
    <3>4. SchedulerJob'
      BY <1>1, <3>1, <3>2 DEF SchedulerJob, Probes
    <3> QED BY <1>1, <3>1, <3>3, <3>4 DEF Labels, Probes, Actors
  <2>4. CASE Probe
    <3>1. CASE \E p \in Probes : pc' = [pc EXCEPT ![Scheduler] = p] /\ job' = job
      <4>1. SchedulerJob'
        BY <1>1, <2>4, <3>1 DEF Probe, IInv, SchedulerJob, Probes, Idle
      <4> QED BY <1>1, <3>1, <4>1 DEF Labels, Actors
    <3>2. CASE /\ pc' = [pc EXCEPT ![Scheduler] = "checking"]
               /\ job' = [job EXCEPT ![Scheduler] = NoJob]
      BY <1>1, <3>2 DEF Labels, Actors, SchedulerJob
    <3>3. CASE \E s \in {"running", "degraded", "unhealthy"} :
                 /\ pc' = [pc EXCEPT ![Scheduler] = "load"]
                 /\ job' = [job EXCEPT ![Scheduler].status = s]
      <4>1. PICK s \in {"running", "degraded", "unhealthy"} :
                 /\ pc' = [pc EXCEPT ![Scheduler] = "load"]
                 /\ job' = [job EXCEPT ![Scheduler].status = s]
        BY <3>3
      <4>2. job' \in [Actors -> Jobs]
        BY <1>1, <4>1 DEF Jobs, Status
      <4>3. SchedulerJob'
        BY <1>1, <2>4, <4>1, ProbeMoves DEF SchedulerJob, Jobs
      <4> QED BY <1>1, <4>1, <4>2, <4>3 DEF Labels, Actors
    <3> QED BY <2>4, <3>1, <3>2, <3>3, ProbeMoves
  <2> QED BY <2>1, <2>2, <2>3, <2>4
<1>5. \A h \in Handlers : HandlerJob(h)'
  BY <1>1, <1>4 DEF IInv, HandlerJob
<1>6. TypeOK'
  BY <1>1, <1>3, <1>4 DEF IInv, TypeOK
<1> QED BY <1>2, <1>3, <1>4, <1>5, <1>6 DEF IInv

(* Deletions, servers coming and going, and a restart of the program.      *)
LEMMA EnvironmentInv ==
  ASSUME IInv,
         \/ Deletion \/ Crash
         \/ \E d \in Deployments, c \in Conditions : ServerChanges(d, c)
  PROVE  IInv'
<1> USE NoJobFacts, ConstantsAssumption
<1>1. CASE Deletion
  <2>1. UNCHANGED <<used, pc, job, seen, server, executed>>
    BY <1>1 DEF Deletion, DeleteDeployment, DeleteMachine, DeleteModel
  <2>2. rec' \in [Deployments -> Status \cup {Absent, Torn}] /\ StatusEarned'
    BY <1>1, <2>1 DEF Deletion, DeleteDeployment, DeleteMachine, DeleteModel,
                      IInv, TypeOK, StatusEarned, Absent
  <2>3. machines' \subseteq Machines /\ models' \subseteq Models
    BY <1>1 DEF Deletion, DeleteDeployment, DeleteMachine, DeleteModel, IInv, TypeOK
  <2>4. TypeOK'
    BY <2>1, <2>2, <2>3 DEF IInv, TypeOK
  <2>5. (\A h \in Handlers : HandlerJob(h)') /\ SchedulerJob' /\ CopiesEarned'
    BY <2>1 DEF IInv, HandlerJob, SchedulerJob, CopiesEarned
  <2> QED BY <2>2, <2>4, <2>5 DEF IInv
<1>2. CASE Crash
  <2>1. /\ UNCHANGED <<used, machines, models, server, executed>>
        /\ pc' = [a \in Actors |-> Idle]
        /\ job' = [a \in Actors |-> NoJob]
        /\ seen' = [d \in Deployments |-> Skip]
    BY <1>2 DEF Crash
  <2>2. rec' \in [Deployments -> Status \cup {Absent, Torn}] /\ StatusEarned'
    BY <1>2, <2>1 DEF Crash, IInv, TypeOK, StatusEarned, Torn
  <2>3. TypeOK'
    BY <2>1, <2>2 DEF IInv, TypeOK, Labels
  <2>4. (\A h \in Handlers : HandlerJob(h)') /\ SchedulerJob' /\ CopiesEarned'
    BY <2>1 DEF HandlerJob, SchedulerJob, CopiesEarned, Actors
  <2> QED BY <2>2, <2>3, <2>4 DEF IInv
<1>3. CASE \E d \in Deployments, c \in Conditions : ServerChanges(d, c)
  <2>1. UNCHANGED <<rec, used, machines, models, pc, job, seen, executed>>
    BY <1>3 DEF ServerChanges
  <2>2. TypeOK'
    BY <1>3, <2>1 DEF ServerChanges, IInv, TypeOK
  <2>3. /\ \A h \in Handlers : HandlerJob(h)'
        /\ SchedulerJob' /\ CopiesEarned' /\ StatusEarned'
    BY <2>1 DEF IInv, HandlerJob, SchedulerJob, CopiesEarned, StatusEarned
  <2> QED BY <2>2, <2>3 DEF IInv
<1> QED BY <1>1, <1>2, <1>3

LEMMA NextInv == IInv /\ [Next]_vars => IInv'
<1> SUFFICES ASSUME IInv, [Next]_vars PROVE IInv'
  OBVIOUS
<1>1. CASE Request
  BY <1>1, RequestInv
<1>2. CASE Deletion \/ Crash
  BY <1>2, EnvironmentInv
<1>3. ASSUME NEW h \in Handlers, HandlerStep(h) PROVE IInv'
  <2>1. h \in Actors
    BY DEF Actors
  <2> QED BY <1>3, <2>1, HandlerInv, WriteInv DEF HandlerStep
<1>4. CASE SchedulerStep
  <2>1. Scheduler \in Actors
    BY DEF Actors
  <2> QED BY <1>4, <2>1, SchedulerInv, WriteInv DEF SchedulerStep
<1>5. CASE \E d \in Deployments, c \in Conditions : ServerChanges(d, c)
  BY <1>5, EnvironmentInv
<1>6. CASE UNCHANGED vars
  BY <1>6 DEF vars, IInv, TypeOK, HandlerJob, SchedulerJob, CopiesEarned, StatusEarned
<1> QED BY <1>1, <1>2, <1>3, <1>4, <1>5, <1>6 DEF Next

LEMMA Invariance == Spec => []IInv
BY InitInv, NextInv, PTL DEF Spec

(* The types hold in every reachable state.                                *)
THEOREM TypeCorrect == Spec => []TypeOK
<1>1. IInv => TypeOK
  BY DEF IInv
<1> QED BY <1>1, Invariance, PTL

(* Nobody is ever recorded as running, failed, degraded or unhealthy whose *)
(* start commands have not run.                                            *)
THEOREM StatusesAreEarned == Spec => []StatusEarned
<1>1. IInv => StatusEarned
  BY DEF IInv
<1> QED BY <1>1, Invariance, PTL

-----------------------------------------------------------------------------
(* How a step can touch the record of d: through a save on its behalf, its *)
(* deletion, or a crash in the middle of its save.                         *)
LEMMA WhoWrites ==
  ASSUME IInv, [Next]_vars, NEW d \in Deployments, rec'[d] # rec[d]
  PROVE  \/ \E a \in Actors : /\ job[a].dep = d
                              /\ \/ pc[a] = "save"
                                 \/ a \in Handlers /\ pc[a] = "insert" /\ job[a].op = "create"
         \/ rec'[d] = Absent
<1>1. rec \in [Deployments -> Status \cup {Absent, Torn}]
  BY DEF IInv, TypeOK
<1>2. ASSUME NEW a \in Actors, NEW s, Save(job[a].dep, s) PROVE job[a].dep = d
  BY <1>1, <1>2 DEF Save
<1>3. ASSUME NEW a \in Actors, pc[a] = "insert"
      PROVE  a \in Handlers /\ job[a].op = "create"
  BY <1>3 DEF IInv, HandlerJob, SchedulerJob, Actors, Idle, Probes
<1>4. ASSUME NEW a \in Actors, SaveStatus(a) \/ Insert(a)
      PROVE  job[a].dep = d /\ pc[a] \in {"save", "insert"}
  BY <1>2, <1>4 DEF SaveStatus, Insert
<1>5. CASE Crash
  <2>1. PICK a \in Actors : pc[a] \in {"save", "insert"}
                           /\ rec' = [rec EXCEPT ![job[a].dep] = Torn]
    BY <1>5 DEF Crash
  <2>2. job[a].dep = d
    BY <1>1, <2>1
  <2> QED BY <1>3, <2>1, <2>2
<1>6. CASE Deletion
  BY <1>1, <1>6 DEF Deletion, DeleteDeployment, DeleteMachine, DeleteModel
<1>7. CASE \E a \in Actors : SaveStatus(a) \/ Insert(a)
  BY <1>3, <1>4, <1>7
<1>8. CASE rec' = rec
  BY <1>8
<1>9. [Next]_vars => \/ Crash \/ Deletion \/ rec' = rec
                     \/ \E a \in Actors : SaveStatus(a) \/ Insert(a)
  BY DEF Next, Request, HandlerStep, SchedulerStep, vars, Create, Start, Stop,
         GetMachine, GetModel, Load, RunStart, RunStop, CheckAll, CheckOne, Probe,
         EndCheckAll, ServerChanges, Actors
<1> QED BY <1>5, <1>6, <1>7, <1>8, <1>9

(* How a step can give actor a business with d: a request, or a scheduler  *)
(* that holds a copy of its record.                                        *)
LEMMA WhoTakes ==
  ASSUME IInv, [Next]_vars, NEW d \in Deployments, NEW a \in Actors,
         job'[a].dep = d, job[a].dep # d
  PROVE  \/ /\ a \in Handlers
            /\ Create(a, d) \/ Start(a, d) \/ Stop(a, d)
         \/ /\ a = Scheduler
            /\ CheckOne(d)
            /\ job'[a].op = "check"
            /\ pc'[a] = "tcp"
<1> USE NoJobFacts, ConstantsAssumption
<1>1. job \in [Actors -> Jobs] /\ pc \in [Actors -> Labels]
  BY DEF IInv, TypeOK
<1>2. ASSUME NEW b \in Actors, NEW s, job' = [job EXCEPT ![b].status = s] PROVE FALSE
  BY <1>1, <1>2 DEF Jobs
<1>3. ASSUME NEW b \in Actors, job' = [job EXCEPT ![b] = NoJob] PROVE FALSE
  BY <1>1, <1>3
<1>4. CASE Request
  <2>1. PICK h \in Handlers, e \in Deployments : Create(h, e) \/ Start(h, e) \/ Stop(h, e)
    BY <1>4 DEF Request
  <2>2. h = a /\ e = d
    BY <1>1, <2>1 DEF Create, Start, Stop, Actors
  <2> QED BY <2>1, <2>2
<1>5. ASSUME NEW h \in Handlers, HandlerStep(h) PROVE FALSE
  BY <1>2, <1>3, <1>5 DEF HandlerStep, GetMachine, GetModel, Insert, Load, SaveStatus,
     RunStart, RunStop, AfterUpdate, CallUpdate, Return, Actors
<1>6. CASE SchedulerStep
  <2>1. CASE \E e \in Deployments : CheckOne(e)
    <3>1. PICK e \in Deployments : CheckOne(e)
      BY <2>1
    <3>2. /\ job' = [job EXCEPT ![Scheduler] =
                       [op |-> "check", dep |-> e, status |-> seen[e]]]
          /\ pc' = [pc EXCEPT ![Scheduler] = "tcp"]
      BY <3>1 DEF CheckOne, Goto
    <3>3. a = Scheduler /\ e = d /\ job'[a].op = "check" /\ pc'[a] = "tcp"
      BY <1>1, <3>2
    <3> QED BY <3>1, <3>3
  <2>2. CASE Load(Scheduler) \/ SaveStatus(Scheduler)
    BY <1>2, <1>3, <2>2 DEF Load, SaveStatus, AfterUpdate, Return, Actors
  <2>3. CASE Probe
    <3>1. job' = job \/ job' = [job EXCEPT ![Scheduler] = NoJob]
          \/ \E s : job' = [job EXCEPT ![Scheduler].status = s]
      BY <2>3, ProbeMoves
    <3> QED BY <1>2, <1>3, <3>1 DEF Actors
  <2> QED BY <1>6, <2>1, <2>2, <2>3 DEF SchedulerStep, CheckAll, EndCheckAll
<1>7. CASE Crash
  BY <1>7 DEF Crash
<1>8. CASE job' = job
  BY <1>8
<1> QED BY <1>4, <1>5, <1>6, <1>7, <1>8
     DEF Next, Deletion, DeleteDeployment, DeleteMachine, DeleteModel, ServerChanges, vars

(* Only a save brings a record back; only Load, which must have read the   *)
(* record, leads to "save"; only Create, for an id never used before,      *)
(* leads to "insert".                                                      *)
LEMMA LostStep ==
  ASSUME IInv, [Next]_vars, NEW d \in Deployments, Lost(d)
  PROVE  Lost(d)'
<1> USE NoJobFacts, ConstantsAssumption
<1>0. /\ job \in [Actors -> Jobs] /\ pc \in [Actors -> Labels]
      /\ job' \in [Actors -> Jobs] /\ pc' \in [Actors -> Labels]
      /\ IInv'
  BY NextInv DEF IInv, TypeOK
<1>1. (d \in used)'
  BY DEF Lost, Next, Request, HandlerStep, SchedulerStep, Deletion, vars, Create, Start,
     Stop, GetMachine, GetModel, Insert, Load, SaveStatus, RunStart, RunStop, CheckAll,
     CheckOne, Probe, EndCheckAll, ServerChanges, DeleteDeployment, DeleteMachine, DeleteModel, Crash
<1>2. ~Readable(d)'
  <2>1. CASE rec'[d] = rec[d]
    BY <2>1 DEF Lost, Readable
  <2>2. CASE rec'[d] # rec[d]
    <3>1. rec'[d] = Absent
      BY <2>2, WhoWrites DEF Lost
    <3> QED BY <3>1 DEF Readable, Absent, Status
  <2> QED BY <2>1, <2>2
<1>3. ASSUME NEW a \in Actors, job'[a].dep = d
      PROVE  pc'[a] # "save" /\ job'[a].op # "create"
  <2>1. CASE job[a].dep = d
    <3>1. pc[a] # "save" /\ job[a].op # "create"
      BY <2>1 DEF Lost
    <3>2. (pc'[a] = pc[a] /\ job'[a] = job[a]) \/ (pc'[a] # "save" /\ job'[a].op # "create")
      <4>1. CASE Load(a)
        BY <1>0, <2>1, <3>1, <4>1 DEF Load, AfterUpdate, Return, Goto, Lost, Idle
      <4>2. CASE Crash
        BY <4>2 DEF Crash, Idle
      <4>3. CASE Request
        BY <1>0, <2>1, <4>3, <1>3 DEF Request, Create, Start, Stop, Goto, Lost, Actors, Idle
      <4>4. ASSUME NEW h \in Handlers, HandlerStep(h), ~Load(h)
            PROVE  (pc'[a] = pc[a] /\ job'[a] = job[a])
                   \/ (pc'[a] # "save" /\ job'[a].op # "create")
        <5>1. CASE h = a
          BY <1>0, <3>1, <4>4, <5>1 DEF HandlerStep, GetMachine, GetModel, Insert, SaveStatus,
             RunStart, RunStop, AfterUpdate, CallUpdate, Return, Goto, Idle, Jobs
        <5>2. CASE h # a
          BY <1>0, <4>4, <5>2 DEF HandlerStep, GetMachine, GetModel, Insert, SaveStatus,
             RunStart, RunStop, AfterUpdate, CallUpdate, Return, Goto, Actors
        <5> QED BY <5>1, <5>2
      <4>5. ASSUME NEW h \in Actors, h # a, Load(h)
            PROVE  pc'[a] = pc[a] /\ job'[a] = job[a]
        BY <1>0, <4>5 DEF Load, AfterUpdate, Return, Goto
      <4>6. CASE SchedulerStep /\ ~Load(Scheduler) /\ ~Probe
        BY <1>0, <3>1, <4>6 DEF SchedulerStep, CheckAll, CheckOne, EndCheckAll, SaveStatus,
           AfterUpdate, Goto, Actors, Idle
      <4>7. CASE UNCHANGED <<pc, job>>
        BY <4>7
      <4>8. CASE Probe
        BY <1>0, <3>1, <4>8, ProbeMoves DEF Probes, Jobs, Actors
      <4> QED BY <4>1, <4>2, <4>3, <4>4, <4>5, <4>6, <4>7, <4>8
           DEF Next, Deletion, DeleteDeployment, DeleteMachine, DeleteModel, ServerChanges,
               vars, HandlerStep, SchedulerStep, Actors
    <3> QED BY <3>1, <3>2
  <2>2. CASE job[a].dep # d
    <3>1. ~Create(a, d)
      BY DEF Create, Lost
    <3>2. \/ a \in Handlers /\ (Start(a, d) \/ Stop(a, d))
          \/ job'[a].op = "check" /\ pc'[a] = "tcp"
      BY <1>3, <2>2, <3>1, WhoTakes
    <3>3. CASE a \in Handlers /\ (Start(a, d) \/ Stop(a, d))
      BY <1>0, <3>3 DEF Start, Stop, Goto, Actors
    <3> QED BY <3>2, <3>3
  <2> QED BY <2>1, <2>2
<1> QED BY <1>1, <1>2, <1>3 DEF Lost

(* A record that nobody had read before it was deleted stays deleted.      *)
THEOREM LostStaysLost == Spec => LostForGood
<1>1. IInv /\ [Next]_vars => [\A d \in Deployments : Lost(d) => Lost(d)']_vars
  BY LostStep
<1> QED BY <1>1, Invariance, PTL DEF Spec, LostForGood

-----------------------------------------------------------------------------
(* A step that rewrites one record is a write of the promise: the new      *)
(* status has been earned, as it is in every state.                        *)
LEMMA PromisedWrite ==
  ASSUME IInv, IInv', executed' = executed,
         NEW d \in Deployments, NEW s \in Status \cup {Absent, Torn},
         rec' = [rec EXCEPT ![d] = s]
  PROVE  Promise!RecordsNext
<1>1. rec'[d] = s
  BY DEF IInv, TypeOK
<1>2. s \in Promise!Earned => d \in executed
  BY <1>1 DEF IInv, StatusEarned, Promise!Earned
<1>3. Promise!Write(d, s)
  BY <1>2 DEF Promise!Write
<1> QED BY <1>3 DEF Promise!RecordsNext

(* Every step of the control plane is a step of the promise, or is nothing *)
(* that its readers see.                                                   *)
LEMMA PromiseStep ==
  ASSUME IInv, IInv', [Next]_vars
  PROVE  [Promise!RecordsNext]_<<rec, executed>>
<1> USE NoJobFacts, ConstantsAssumption
<1>1. ASSUME NEW a \in Actors, pc[a] \in {"save", "insert"}
      PROVE  job[a].dep \in Deployments /\ job[a].status \in Status
  <2>1. pc[a] # "checking" /\ pc[a] # Idle /\ pc[a] \notin Probes
    BY <1>1 DEF Idle, Probes
  <2>2. CASE a = Scheduler
    <3>1. job[a].dep \in executed /\ job[a].status \in {"running", "degraded", "unhealthy"}
      BY <2>1, <2>2 DEF IInv, SchedulerJob
    <3> QED BY <3>1 DEF IInv, TypeOK, Status
  <2>3. CASE a \in Handlers
    <3>1. HandlerJob(a)
      BY <2>3 DEF IInv
    <3> QED BY <1>1, <2>1, <3>1 DEF HandlerJob, Status
  <2> QED BY <2>2, <2>3 DEF Actors
<1>2. ASSUME NEW a \in Actors, SaveStatus(a) \/ Insert(a)
      PROVE  [Promise!RecordsNext]_<<rec, executed>>
  <2>1. /\ pc[a] \in {"save", "insert"}
        /\ Save(job[a].dep, job[a].status)
        /\ executed' = executed
    BY <1>2 DEF SaveStatus, Insert
  <2>2. \/ rec' = rec
        \/ rec' = [rec EXCEPT ![job[a].dep] = job[a].status]
        \/ rec' = [rec EXCEPT ![job[a].dep] = Torn]
    BY <2>1 DEF Save
  <2> QED BY <1>1, <2>1, <2>2, PromisedWrite
<1>3. CASE Crash
  <2>1. CASE rec' = rec
    BY <1>3, <2>1 DEF Crash
  <2>2. CASE rec' # rec
    <3>1. PICK a \in Actors : pc[a] \in {"save", "insert"}
                             /\ rec' = [rec EXCEPT ![job[a].dep] = Torn]
      BY <1>3, <2>2 DEF Crash
    <3> QED BY <1>1, <1>3, <3>1, PromisedWrite DEF Crash
  <2> QED BY <2>1, <2>2
<1>4. CASE Deletion
  <2>1. CASE \E d \in Deployments : DeleteDeployment(d)
    BY <2>1, PromisedWrite DEF DeleteDeployment
  <2> QED BY <1>4, <2>1 DEF Deletion, DeleteMachine, DeleteModel
<1>5. ASSUME NEW h \in Handlers, NEW ok \in BOOLEAN, RunStart(h, ok)
      PROVE  Promise!RecordsNext
  <2>1. job[h].dep \in Deployments
    BY <1>5 DEF IInv, HandlerJob, RunStart, NoJob
  <2>2. Promise!RunCommands(job[h].dep)
    BY <1>5 DEF RunStart, Promise!RunCommands
  <2> QED BY <2>1, <2>2 DEF Promise!RecordsNext
<1>6. CASE UNCHANGED <<rec, executed>>
  BY <1>6
<1> QED BY <1>2, <1>3, <1>4, <1>5, <1>6
     DEF Next, Request, HandlerStep, SchedulerStep, vars, Create, Start, Stop, GetMachine,
         GetModel, Load, RunStop, CheckAll, CheckOne, Probe, EndCheckAll, ServerChanges,
         Actors

(* To its readers the control plane is an implementation of Records.       *)
THEOREM PromiseKept == Spec => KeepsPromise
<1>1. Init => Promise!RecordsInit
  BY DEF Init, Promise!RecordsInit, Absent
<1>2. IInv /\ IInv' /\ [Next]_vars => [Promise!RecordsNext]_<<rec, executed>>
  BY PromiseStep
<1>3. Spec => Promise!RecordsInit /\ [][Promise!RecordsNext]_<<rec, executed>>
  BY <1>1, <1>2, Invariance, PTL DEF Spec
<1> QED BY <1>3 DEF KeepsPromise, Promise!RecordsSpec

-----------------------------------------------------------------------------
(* Nobody writes the record of a settled deployment, and the scheduler,    *)
(* which copies only what it will check, does not pick it up.              *)
LEMMA SettledStep ==
  ASSUME IInv, [Next]_vars, NEW d \in Deployments, Settled(d)
  PROVE  \/ Settled(d)' /\ rec'[d] = rec[d]
         \/ rec'[d] = Absent
         \/ \E h \in Handlers : job'[h].dep = d
<1> SUFFICES ASSUME rec'[d] # Absent, \A h \in Handlers : job'[h].dep # d
             PROVE  Settled(d)' /\ rec'[d] = rec[d]
  OBVIOUS
<1>1. rec'[d] = rec[d]
  BY WhoWrites DEF Settled
<1>2. seen \in [Deployments -> Checked \cup {Skip}] /\ seen[d] = Skip
  BY DEF IInv, TypeOK, Settled
<1>3. ASSUME NEW a \in Actors PROVE job'[a].dep # d
  <2>1. CASE a \in Handlers
    BY <2>1
  <2>2. CASE a = Scheduler
    <3>1. ~CheckOne(d)
      BY <1>2 DEF CheckOne
    <3>2. job[a].dep # d
      BY DEF Settled
    <3>3. a \notin Handlers
      BY <2>2, ConstantsAssumption
    <3> QED BY <3>1, <3>2, <3>3, WhoTakes
  <2> QED BY <2>1, <2>2 DEF Actors
<1>4. seen'[d] = Skip
  <2>1. CASE CheckAll
    BY <2>1 DEF CheckAll, Settled, Checked, Skip
  <2>2. CASE \E e \in Deployments : CheckOne(e)
    BY <1>2, <2>2 DEF CheckOne
  <2>3. CASE Crash
    BY <2>3 DEF Crash
  <2>4. CASE seen' = seen
    BY <1>2, <2>4
  <2> QED BY <2>1, <2>2, <2>3, <2>4
       DEF Next, Request, HandlerStep, SchedulerStep, Deletion, vars, Create, Start, Stop,
           GetMachine, GetModel, Insert, Load, SaveStatus, RunStart, RunStop, Probe, EndCheckAll,
           ServerChanges, DeleteDeployment, DeleteMachine, DeleteModel
<1> QED BY <1>1, <1>3, <1>4 DEF Settled, Readable

(* Once no request for it is under way, a deployment that need not be      *)
(* checked keeps its status until the next request for it.                 *)
THEOREM SettledStays == Spec => SettledUntilRequest
<1>1. IInv /\ [Next]_vars =>
        [\A d \in Deployments :
           Settled(d) => \/ Settled(d)' /\ rec'[d] = rec[d]
                         \/ rec'[d] = Absent
                         \/ \E h \in Handlers : job'[h].dep = d]_vars
  BY SettledStep
<1> QED BY <1>1, Invariance, PTL DEF Spec, SettledUntilRequest

-----------------------------------------------------------------------------
(* With no crash and no disk error, a save does what it says and only an   *)
(* UpdateStatus to "deploying" leaves the record in that state.            *)
LEMMA ResolveStep ==
  ASSUME Faults = {}, IInv, DeployingHasHandler, [Next]_vars
  PROVE  DeployingHasHandler'
<1> USE NoJobFacts, ConstantsAssumption
<1> SUFFICES ASSUME NEW d \in Deployments, rec'[d] = "deploying"
             PROVE  \E h \in Handlers : WillResolve(h, d)'
  BY DEF DeployingHasHandler
<1>1. /\ job \in [Actors -> Jobs] /\ pc \in [Actors -> Labels]
      /\ rec \in [Deployments -> Status \cup {Absent, Torn}]
  BY DEF IInv, TypeOK
<1>2. ASSUME NEW a \in Actors, SaveStatus(a) \/ (a \in Handlers /\ Insert(a)),
             job[a].dep = d
      PROVE  \E h \in Handlers : WillResolve(h, d)'
  <2>1. rec' = [rec EXCEPT ![d] = job[a].status]
    BY <1>2 DEF SaveStatus, Insert, Save
  <2>2. job[a].status = "deploying"
    BY <1>1, <2>1
  <2>3. a \in Handlers /\ job[a].op = "start" /\ SaveStatus(a)
    BY <1>2, <2>2 DEF IInv, HandlerJob, SchedulerJob, Actors, Insert, Idle, NoJob, Checked
  <2>4. pc' = [pc EXCEPT ![a] = "execute"] /\ job' = job
    BY <2>2, <2>3 DEF SaveStatus, AfterUpdate, Goto
  <2>5. WillResolve(a, d)'
    BY <1>1, <1>2, <2>3, <2>4 DEF WillResolve
  <2> QED BY <2>3, <2>5
<1>3. ASSUME NEW h \in Handlers, WillResolve(h, d), rec[d] = "deploying",
             ~(SaveStatus(h) /\ job[h].dep = d)
      PROVE  WillResolve(h, d)'
  <2>1. h \in Actors /\ h # Scheduler
    BY DEF Actors
  <2>2. CASE pc'[h] = pc[h] /\ job'[h] = job[h]
    BY <1>3, <2>2 DEF WillResolve
  <2>3. CASE Load(h)
    BY <1>1, <1>3, <2>1, <2>3 DEF Load, Readable, Status, Goto, WillResolve
  <2>4. CASE \E ok \in BOOLEAN : RunStart(h, ok)
    <3>1. PICK ok \in BOOLEAN : RunStart(h, ok)
      BY <2>4
    <3> DEFINE s == IF ok THEN "running" ELSE "failed"
    <3>2. s \in {"running", "failed"}
      OBVIOUS
    <3> HIDE DEF s
    <3>3. job' = [job EXCEPT ![h].status = s] /\ pc' = [pc EXCEPT ![h] = "load"]
      BY <3>1 DEF RunStart, CallUpdate, Goto, s
    <3> QED BY <1>1, <1>3, <2>1, <3>2, <3>3 DEF WillResolve, Jobs
  <2>5. CASE GetMachine(h) \/ GetModel(h) \/ Insert(h) \/ RunStop(h) \/ SaveStatus(h)
    BY <1>3, <2>5 DEF GetMachine, GetModel, Insert, RunStop, WillResolve
  <2>6. CASE Request
    <3>1. pc[h] # Idle
      BY <1>3 DEF WillResolve, Idle
    <3> QED BY <1>1, <2>1, <2>2, <2>6, <3>1 DEF Request, Create, Start, Stop, Goto, Actors
  <2>7. ASSUME NEW g \in Handlers, g # h, HandlerStep(g) PROVE pc'[h] = pc[h] /\ job'[h] = job[h]
    BY <1>1, <2>1, <2>7 DEF HandlerStep, GetMachine, GetModel, Insert, Load, SaveStatus,
       RunStart, RunStop, AfterUpdate, CallUpdate, Return, Goto, Actors
  <2>8. CASE SchedulerStep
    <3>1. CASE ~Probe
      BY <1>1, <2>1, <2>2, <2>8, <3>1 DEF SchedulerStep, CheckAll, CheckOne, EndCheckAll,
         Load, SaveStatus, AfterUpdate, Goto, Actors
    <3>2. CASE Probe
      BY <1>1, <2>1, <2>2, <3>2, ProbeMoves DEF Actors
    <3> QED BY <3>1, <3>2
  <2>9. CASE UNCHANGED <<pc, job>>
    BY <2>2, <2>9
  <2>10. ~Crash
    BY DEF Crash
  <2> QED BY <2>2, <2>3, <2>4, <2>5, <2>6, <2>7, <2>8, <2>9, <2>10
       DEF Next, HandlerStep, Deletion, DeleteDeployment, DeleteMachine, DeleteModel,
           ServerChanges, vars
<1>4. CASE \E a \in Actors : /\ SaveStatus(a) \/ (a \in Handlers /\ Insert(a))
                            /\ job[a].dep = d
  BY <1>2, <1>4
<1>5. CASE ~\E a \in Actors : /\ SaveStatus(a) \/ (a \in Handlers /\ Insert(a))
                             /\ job[a].dep = d
  <2>1. rec[d] = "deploying"
    <3>1. ASSUME NEW a \in Actors, SaveStatus(a) \/ Insert(a), job[a].dep # d
          PROVE  rec'[d] = rec[d]
      BY <1>1, <3>1 DEF SaveStatus, Insert, Save
    <3>2. CASE Deletion
      BY <1>1, <3>2 DEF Deletion, DeleteDeployment, DeleteMachine, DeleteModel, Absent
    <3>3. CASE rec' = rec
      BY <3>3
    <3>4. \/ Deletion \/ rec' = rec
          \/ \E a \in Actors : SaveStatus(a) \/ (a \in Handlers /\ Insert(a))
      BY DEF Next, Request, HandlerStep, SchedulerStep, vars, Create, Start, Stop,
             GetMachine, GetModel, Load, RunStart, RunStop, CheckAll, CheckOne, Probe,
             EndCheckAll, ServerChanges, Actors, Crash
    <3> QED BY <1>5, <3>1, <3>2, <3>3, <3>4
  <2>2. PICK h \in Handlers : WillResolve(h, d)
    BY <2>1 DEF DeployingHasHandler
  <2>3. WillResolve(h, d)'
    BY <1>3, <1>5, <2>1, <2>2 DEF Actors
  <2> QED BY <2>3
<1> QED BY <1>4, <1>5

(* Without crashes and disk errors no deployment is stranded in            *)
(* "deploying": a handler that is still running will write the outcome.    *)
THEOREM NobodyStranded == Faults = {} => (Spec => []DeployingHasHandler)
<1> SUFFICES ASSUME Faults = {} PROVE Spec => []DeployingHasHandler
  OBVIOUS
<1>1. Init => DeployingHasHandler
  BY DEF Init, DeployingHasHandler, Absent
<1>2. IInv /\ DeployingHasHandler /\ [Next]_vars => DeployingHasHandler'
  BY ResolveStep
<1> QED BY <1>1, <1>2, Invariance, PTL DEF Spec
=============================================================================
