---------------------------- MODULE ControlPlane ----------------------------
(***************************************************************************)
(* The control plane of ModelFleet: the HTTP handlers that create, start,  *)
(* stop and delete deployments, and the health scheduler, all of them      *)
(* goroutines that read and write the same JSON records.                   *)
(*                                                                         *)
(* A handler is a sequence of store operations with long remote commands   *)
(* in between, and nothing is locked across two of them: each operation of *)
(* the JSON store is one step here (module JSONStore shows why it may be)  *)
(* and every interleaving of the handlers and the scheduler is explored.   *)
(*                                                                         *)
(* DeploymentRepository.UpdateStatus reads the record, sets its status and *)
(* writes the record back.  It is the subroutine Load;SaveStatus, shared   *)
(* by handlers and scheduler.  No code writes any other field of a record  *)
(* after its creation (only the status and time stamps change), so a       *)
(* stored record is represented by its status.                             *)
(*                                                                         *)
(* What the remote commands of a Start do is abstracted to their verdict:  *)
(* ExecutionResult.Success or not.  Module SSHExecutor has the commands.   *)
(***************************************************************************)

CONSTANTS
  Deployments,  \* the random ids generateID may return (never twice the same)
  Machines,     \* machine ids
  Models,       \* model ids
  MachineOf,    \* the machine_id field of the request that creates d
  ModelOf,      \* the model_id field of the request that creates d
  Handlers,     \* HTTP handler goroutines: how many requests may be in flight
  Scheduler,    \* the goroutine of health.Scheduler
  Conditions,   \* what a health probe may meet, a subset of ProbeOutcomes
  Faults,       \* "crash": the process may die; "disk": a write may fail
  None          \* no deployment

(* What Checker.Check can meet at host:port: nothing listening; /health    *)
(* answering 200; only /v1/models answering 200; only the root answering   *)
(* with less than 500; or TCP connecting but every HTTP request failing.   *)
ProbeOutcomes == {"closed", "health_ok", "models_ok", "root_ok", "erroring"}

ASSUME ConstantsAssumption ==
  /\ MachineOf \in [Deployments -> Machines]
  /\ ModelOf \in [Deployments -> Models]
  /\ Scheduler \notin Handlers
  /\ Conditions \subseteq ProbeOutcomes
  /\ Faults \subseteq {"crash", "disk"}
  /\ None \notin Deployments

Actors == Handlers \cup {Scheduler}

VARIABLES
  rec,       \* the file deployments/<id>.json: its status, Absent or Torn
  used,      \* the ids generated so far
  machines,  \* the machines that have a record
  models,    \* the models that have a record
  pc,        \* where each goroutine is
  job,       \* the request a handler serves, or the update the scheduler makes
  seen,      \* the scheduler's copy of the records (checkAll's "deployments")
  server,    \* what a probe of the deployment's host:port would meet
  executed   \* history: deployments whose start commands have run once

vars == <<rec, used, machines, models, pc, job, seen, server, executed>>

Status == {"planned", "deploying", "running", "stopped", "failed",
           "degraded", "unhealthy"}
Absent == "absent"  \* no file
Torn   == "torn"    \* a file that is not JSON: a write that did not complete

Idle  == "idle"
NoJob == [op |-> "none", dep |-> None, status |-> "none"]
Skip  == "skip"

-----------------------------------------------------------------------------
(* The store.                                                              *)

\* JSONStore.Get succeeds: the file exists and json.Unmarshal accepts it.
Readable(d) == rec[d] \in Status

\* JSONStore.Save.  os.WriteFile truncates before it writes, so a failing
\* disk leaves the old record (the open failed) or a torn one (the write did).
Save(d, s) ==
  \/ rec' = [rec EXCEPT ![d] = s]
  \/ "disk" \in Faults /\ rec' \in {rec, [rec EXCEPT ![d] = Torn]}

-----------------------------------------------------------------------------
(* Control flow of the goroutines.                                         *)

Goto(a, label) == pc' = [pc EXCEPT ![a] = label]

\* The handler writes its reply and returns.
Return(h) ==
  /\ Goto(h, Idle)
  /\ job' = [job EXCEPT ![h] = NoJob]

\* Where UpdateStatus returns to, whether it succeeded or not: no caller
\* looks at its error.  Start goes on to the remote commands after
\* "deploying"; the last update of a request ends it; checkAll goes on with
\* its loop.
AfterUpdate(a) ==
  IF a = Scheduler
    THEN Goto(a, "checking") /\ job' = [job EXCEPT ![a] = NoJob]
    ELSE IF job[a].status = "deploying"
           THEN Goto(a, "execute") /\ UNCHANGED job
           ELSE Return(a)

\* A goroutine is about to call UpdateStatus(job[a].dep, s).
CallUpdate(a, s) ==
  /\ Goto(a, "load")
  /\ job' = [job EXCEPT ![a].status = s]

-----------------------------------------------------------------------------
(* DeploymentRepository.UpdateStatus: two critical sections of the store.  *)

MutantLoad(a) ==  \* GetByID's error ignored: the update goes on regardless
  /\ pc[a] = "load"
  /\ Goto(a, "save")
  /\ UNCHANGED <<job, rec, used, machines, models, seen, server, executed>>

Load(a) ==
  /\ pc[a] = "load"
  /\ IF Readable(job[a].dep)
       THEN Goto(a, "save") /\ UNCHANGED job
       ELSE AfterUpdate(a)
  /\ UNCHANGED <<rec, used, machines, models, seen, server, executed>>

SaveStatus(a) ==
  /\ pc[a] = "save"
  /\ Save(job[a].dep, job[a].status)
  /\ AfterUpdate(a)
  /\ UNCHANGED <<used, machines, models, seen, server, executed>>

-----------------------------------------------------------------------------
(* POST /api/deployments                                                   *)

\* The id is drawn here rather than just before the record is saved: it is
\* random and nobody else knows it until then.
Create(h, d) ==
  /\ pc[h] = Idle
  /\ d \notin used
  /\ used' = used \cup {d}
  /\ Goto(h, "machine")
  /\ job' = [job EXCEPT ![h] = [op |-> "create", dep |-> d, status |-> "planned"]]
  /\ UNCHANGED <<rec, machines, models, seen, server, executed>>

\* DeploymentRepository.Create; an error is reported, the file stays as it is.
Insert(h) ==
  /\ pc[h] = "insert"
  /\ Save(job[h].dep, job[h].status)
  /\ Return(h)
  /\ UNCHANGED <<used, machines, models, seen, server, executed>>

-----------------------------------------------------------------------------
(* POST /api/deployments/{id}/start and /stop.  A request for a record     *)
(* that cannot be read is answered 404 and changes nothing.                *)

Start(h, d) ==
  /\ pc[h] = Idle
  /\ Readable(d)
  /\ Goto(h, "machine")
  /\ job' = [job EXCEPT ![h] = [op |-> "start", dep |-> d, status |-> "none"]]
  /\ UNCHANGED <<rec, used, machines, models, seen, server, executed>>

Stop(h, d) ==
  /\ pc[h] = Idle
  /\ Readable(d)
  /\ Goto(h, "machine")
  /\ job' = [job EXCEPT ![h] = [op |-> "stop", dep |-> d, status |-> "none"]]
  /\ UNCHANGED <<rec, used, machines, models, seen, server, executed>>

\* machineRepo.GetByID, or the answer 400 "Machine not found".
GetMachine(h) ==
  /\ pc[h] = "machine"
  /\ IF MachineOf[job[h].dep] \in machines
       THEN /\ Goto(h, IF job[h].op = "stop" THEN "execute" ELSE "model")
            /\ UNCHANGED job
       ELSE Return(h)
  /\ UNCHANGED <<rec, used, machines, models, seen, server, executed>>

MutantGetModel(h) ==  \* the commands run before the record is marked
  /\ pc[h] = "model"
  /\ IF ModelOf[job[h].dep] \in models
       THEN /\ Goto(h, IF job[h].op = "create" THEN "insert" ELSE "execute")
            /\ UNCHANGED job
       ELSE Return(h)
  /\ UNCHANGED <<rec, used, machines, models, seen, server, executed>>

\* modelRepo.GetByID, or the answer 400 "Model not found".  Start then marks
\* the record before it runs any command.
GetModel(h) ==
  /\ pc[h] = "model"
  /\ \/ /\ ModelOf[job[h].dep] \notin models
        /\ Return(h)
     \/ /\ ModelOf[job[h].dep] \in models
        /\ job[h].op = "create"
        /\ Goto(h, "insert")
        /\ UNCHANGED job
     \/ /\ ModelOf[job[h].dep] \in models
        /\ job[h].op = "start"
        /\ CallUpdate(h, "deploying")
  /\ UNCHANGED <<rec, used, machines, models, seen, server, executed>>

\* The commands of a Start end with the verdict ok; a failed one has the
\* record marked failed.  (The executors never return a Go error.)
MutantRunStart(h, ok) ==  \* the error path forgets the status update
  /\ pc[h] = "execute"
  /\ job[h].op = "start"
  /\ executed' = executed \cup {job[h].dep}
  /\ IF ok THEN CallUpdate(h, "running") ELSE Return(h)
  /\ UNCHANGED <<rec, used, machines, models, seen, server>>

RunStart(h, ok) ==
  /\ pc[h] = "execute"
  /\ job[h].op = "start"
  /\ executed' = executed \cup {job[h].dep}
  /\ CallUpdate(h, IF ok THEN "running" ELSE "failed")
  /\ UNCHANGED <<rec, used, machines, models, seen, server>>

\* The commands of a Stop end.  Stop does not look at ExecutionResult.Success:
\* the record is marked stopped in either case.
RunStop(h) ==
  /\ pc[h] = "execute"
  /\ job[h].op = "stop"
  /\ CallUpdate(h, "stopped")
  /\ UNCHANGED <<rec, used, machines, models, seen, server, executed>>

-----------------------------------------------------------------------------
(* DELETE handlers: one operation on the store each (the facts of a        *)
(* machine, which MachineHandler.Delete removes too, are not read here).   *)
(* os.Remove does not care what the file holds.                            *)

DeleteDeployment(d) ==
  /\ rec[d] # Absent
  /\ rec' = [rec EXCEPT ![d] = Absent]
  /\ UNCHANGED <<used, machines, models, pc, job, seen, server, executed>>

DeleteMachine(m) ==
  /\ m \in machines
  /\ machines' = machines \ {m}
  /\ UNCHANGED <<rec, used, models, pc, job, seen, server, executed>>

DeleteModel(m) ==
  /\ m \in models
  /\ models' = models \ {m}
  /\ UNCHANGED <<rec, used, machines, pc, job, seen, server, executed>>

-----------------------------------------------------------------------------
(* The health scheduler: checkAll, once per tick of its ticker.            *)

MutantCheckedStatus == Status              \* the filter of checkAll dropped
MutantCheckedRunning == {"running"}        \* unhealthy ones never re-checked

\* "Only check deployments that should be running".
Checked == {"running", "unhealthy"}

(* Checker.Check makes up to four probes, each of which may wait for       *)
(* seconds: a TCP connection, GET /health, GET /v1/models and GET /.       *)
Probes == {"tcp", "health", "models", "root"}

\* What one probe makes of the condition it meets: a health state, or the
\* next probe.  (A server that answers one endpoint answers the later ones.)
Finding(probe, condition) ==
  CASE probe = "tcp"    -> IF condition = "closed" THEN "unreachable" ELSE "health"
    [] probe = "health" -> IF condition = "health_ok" THEN "healthy" ELSE "models"
    [] probe = "models" -> IF condition \in {"health_ok", "models_ok"}
                             THEN "healthy" ELSE "root"
    [] probe = "root"   -> IF condition \in {"health_ok", "models_ok", "root_ok"}
                             THEN "degraded" ELSE "unreachable"

MutantHealthStatus(state) == state         \* the state stored as the status
MutantHealthIgnored(state) ==              \* an unreachable server forgiven
  CASE state = "healthy"     -> "running"
    [] state = "degraded"    -> "degraded"
    [] state = "unreachable" -> "running"

\* The status each health state is recorded as.
HealthStatus(state) ==
  CASE state = "healthy"     -> "running"
    [] state = "degraded"    -> "degraded"
    [] state = "unreachable" -> "unhealthy"

\* A tick: GetAll copies every record that parses; of those the loop will
\* check the ones that should be running.
CheckAll ==
  /\ pc[Scheduler] = Idle
  /\ Goto(Scheduler, "checking")
  /\ seen' = [d \in Deployments |-> IF rec[d] \in Checked THEN rec[d] ELSE Skip]
  /\ UNCHANGED <<rec, used, machines, models, job, server, executed>>

\* One iteration begins: Check(d).  The order of the loop is the order of the
\* random ids, so any order.  The job holds the copied status.
CheckOne(d) ==
  /\ pc[Scheduler] = "checking"
  /\ seen[d] # Skip
  /\ seen' = [seen EXCEPT ![d] = Skip]
  /\ Goto(Scheduler, "tcp")
  /\ job' = [job EXCEPT ![Scheduler] = [op |-> "check", dep |-> d, status |-> seen[d]]]
  /\ UNCHANGED <<rec, used, machines, models, server, executed>>

\* Check has found the health state: call UpdateStatus if the copy disagrees.
Conclude(state) ==
  IF job[Scheduler].status = HealthStatus(state)
    THEN /\ Goto(Scheduler, "checking")
         /\ job' = [job EXCEPT ![Scheduler] = NoJob]
    ELSE CallUpdate(Scheduler, HealthStatus(state))

\* One probe of the server as it is at this moment.
Probe ==
  /\ pc[Scheduler] \in Probes
  /\ LET found == Finding(pc[Scheduler], server[job[Scheduler].dep]) IN
       IF found \in Probes
         THEN Goto(Scheduler, found) /\ UNCHANGED job
         ELSE Conclude(found)
  /\ UNCHANGED <<rec, used, machines, models, seen, server, executed>>

EndCheckAll ==
  /\ pc[Scheduler] = "checking"
  /\ \A d \in Deployments : seen[d] = Skip
  /\ Goto(Scheduler, Idle)
  /\ UNCHANGED <<rec, used, machines, models, job, seen, server, executed>>

-----------------------------------------------------------------------------
(* The environment.                                                        *)

\* The server behind d starts, loads its model, hangs, dies...
ServerChanges(d, c) ==
  /\ server[d] # c
  /\ server' = [server EXCEPT ![d] = c]
  /\ UNCHANGED <<rec, used, machines, models, pc, job, seen, executed>>

\* The control plane dies and is started again: the goroutines are gone, the
\* files stay, except that a write under way leaves its file torn.
Crash ==
  /\ "crash" \in Faults
  /\ pc' = [a \in Actors |-> Idle]
  /\ job' = [a \in Actors |-> NoJob]
  /\ seen' = [d \in Deployments |-> Skip]
  /\ \/ UNCHANGED rec
     \/ \E a \in Actors :
          /\ pc[a] \in {"save", "insert"}
          /\ rec' = [rec EXCEPT ![job[a].dep] = Torn]
  /\ UNCHANGED <<used, machines, models, server, executed>>

-----------------------------------------------------------------------------
Init ==
  /\ rec = [d \in Deployments |-> Absent]
  /\ used = {}
  /\ machines = Machines
  /\ models = Models
  /\ pc = [a \in Actors |-> Idle]
  /\ job = [a \in Actors |-> NoJob]
  /\ seen = [d \in Deployments |-> Skip]
  /\ server \in [Deployments -> Conditions]
  /\ executed = {}

\* The steps a handler takes by itself once it has a request.
HandlerStep(h) ==
  \/ GetMachine(h)
  \/ GetModel(h)
  \/ Insert(h)
  \/ Load(h)
  \/ SaveStatus(h)
  \/ \E ok \in BOOLEAN : RunStart(h, ok)
  \/ RunStop(h)

SchedulerStep ==
  \/ CheckAll
  \/ \E d \in Deployments : CheckOne(d)
  \/ Probe
  \/ Load(Scheduler)
  \/ SaveStatus(Scheduler)
  \/ EndCheckAll

Request ==
  \E h \in Handlers, d \in Deployments : Create(h, d) \/ Start(h, d) \/ Stop(h, d)

Deletion ==
  \/ \E d \in Deployments : DeleteDeployment(d)
  \/ \E m \in Machines : DeleteMachine(m)
  \/ \E m \in Models : DeleteModel(m)

Next ==
  \/ Request
  \/ Deletion
  \/ \E h \in Handlers : HandlerStep(h)
  \/ SchedulerStep
  \/ \E d \in Deployments, c \in Conditions : ServerChanges(d, c)
  \/ Crash

Spec == Init /\ [][Next]_vars

(* Requests, deletions and the environment owe nothing.  A goroutine that  *)
(* can run does, every remote command ends, and the ticker keeps ticking.  *)
Fairness ==
  /\ \A h \in Handlers : WF_vars(HandlerStep(h))
  /\ WF_vars(SchedulerStep)

FairSpec == Spec /\ Fairness

-----------------------------------------------------------------------------
(* Properties.                                                             *)

Labels == {Idle, "machine", "model", "insert", "load", "save", "execute", "checking"}
            \cup Probes
Jobs   == [op     : {"none", "create", "start", "stop", "check"},
           dep    : Deployments \cup {None},
           status : Status \cup {"none"}]

(* Types: a stored status is one of the seven the code writes.             *)
TypeOK ==
  /\ rec \in [Deployments -> Status \cup {Absent, Torn}]
  /\ used \subseteq Deployments
  /\ machines \subseteq Machines
  /\ models \subseteq Models
  /\ pc \in [Actors -> Labels]
  /\ job \in [Actors -> Jobs]
  /\ seen \in [Deployments -> Checked \cup {Skip}]
  /\ server \in [Deployments -> Conditions]
  /\ executed \subseteq Deployments

(* A status that says how the server fares (running, failed, degraded,     *)
(* unhealthy) is only ever stored for a deployment whose start commands    *)
(* have run: whatever the scheduler has copied and however late it writes, *)
(* it never promotes or demotes a deployment nobody has started.           *)
StatusEarned ==
  \A d \in Deployments :
    rec[d] \in {"running", "failed", "degraded", "unhealthy"} => d \in executed

Promise == INSTANCE Records WITH Contents <- Status \cup {Absent, Torn}

(* To those who only read the records the control plane looks like Records *)
(* says: whatever handlers, scheduler, crashes and a failing disk do, the  *)
(* records change one at a time and a status is earned when it is written. *)
KeepsPromise == Promise!RecordsSpec

\* The record of d cannot be read and nobody is about to write it: no one
\* holds a copy between the two halves of UpdateStatus, no one creates it.
Lost(d) ==
  /\ d \in used
  /\ ~Readable(d)
  /\ \A a \in Actors : job[a].dep = d => pc[a] # "save" /\ job[a].op # "create"

(* A deleted (or torn) record that no update had already read stays gone:  *)
(* requests and health checks still under way for it, however many and in  *)
(* whatever order they finish, cannot bring it back.                       *)
LostForGood == [][\A d \in Deployments : Lost(d) => Lost(d)']_vars

\* Nobody has business with d: no request for it is under way, the scheduler
\* neither holds a copy of it nor is updating it, and it need not be checked.
Settled(d) ==
  /\ Readable(d)
  /\ rec[d] \notin {"running", "unhealthy"}
  /\ seen[d] = Skip
  /\ \A a \in Actors : job[a].dep # d

(* Once the dust has settled on a planned, stopped, failed or degraded     *)
(* deployment, only a new request moves it: the scheduler leaves it alone. *)
SettledUntilRequest ==
  [][\A d \in Deployments :
       Settled(d) => \/ Settled(d)' /\ rec'[d] = rec[d]
                     \/ rec'[d] = Absent
                     \/ \E h \in Handlers : job'[h].dep = d]_vars

\* Handler h has run, or is about to run, the commands of the Start of d, and
\* will still write the outcome.
WillResolve(h, d) ==
  /\ job[h].op = "start"
  /\ job[h].dep = d
  /\ \/ pc[h] = "execute"
     \/ pc[h] \in {"load", "save"} /\ job[h].status \in {"running", "failed"}

(* While the control plane runs and its disk works, a record that says     *)
(* "deploying" has a handler that will write the outcome: overlapping      *)
(* starts, stops, deletions and health checks never leave it stranded.     *)
DeployingHasHandler ==
  \A d \in Deployments :
    rec[d] = "deploying" => \E h \in Handlers : WillResolve(h, d)

(* A start ends: "deploying" gives way to another status or to nothing.    *)
DeployingResolves ==
  \A d \in Deployments : rec[d] = "deploying" ~> rec[d] # "deploying"

(* If the server of a deployment stays closed from some point on, its      *)
(* record does not say "running" for ever, whatever requests come, and     *)
(* whatever the scheduler had found out before.                            *)
DownIsNoticed ==
  \A d \in Deployments :
    <>[](server[d] = "closed") => []<>(rec[d] # "running")

(* If it stays healthy from some point on, it is not unhealthy for ever.   *)
UpIsNoticed ==
  \A d \in Deployments :
    <>[](server[d] = "health_ok") => []<>(rec[d] # "unhealthy")

-----------------------------------------------------------------------------
(* What the documents say and the code does not do (see README).           *)

(* "Only check deployments that should be running": the scheduler never    *)
(* overwrites the status of a deployment that is stopped.                  *)
StoppedIsNotChecked ==
  [][SaveStatus(Scheduler) =>
       \A d \in Deployments : rec[d] = "stopped" => rec'[d] = "stopped"]_vars

(* "health-check each deployment periodically": a server that recovers for *)
(* good does not leave its deployment degraded for ever.                   *)
DegradedRecovers ==
  \A d \in Deployments :
    <>[](server[d] = "health_ok") => []<>(rec[d] # "degraded")
=============================================================================
