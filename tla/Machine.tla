------------------------------- MODULE Machine -------------------------------
(***************************************************************************)
(* A machine that runs llama-server processes, and the requests that start *)
(* and stop them on it: what the ssh executor (module SSHExecutor) and the *)
(* local one (module LocalExecutor) have in common.                        *)
(*                                                                         *)
(* Nothing serialises the executors: each HTTP request runs its own Start  *)
(* or Stop, so two may be under way for one deployment, and the machine    *)
(* changes between any two commands.  The pid file is named after the      *)
(* deployment's name, which nothing keeps unique.                          *)
(*                                                                         *)
(* What may happen besides the commands themselves varies with the world:  *)
(*   "overlap"  requests for one name overlap                              *)
(*   "slow"     a server may take longer than the 2 s sleep to bind        *)
(*   "die"      a server may die by itself                                 *)
(*   "fault"    a command may fail; an ssh command, before or after it ran *)
(*   "reuse"    the pid of a dead process may be given to a new one        *)
(*   "crash"    the control plane may die and be started again             *)
(***************************************************************************)
EXTENDS FiniteSets, Naturals

CONSTANTS
  Deployments,  \* deployments of this machine, all of one model
  NameOf,       \* Deployment.Name
  PortOf,       \* Deployment.Port
  Runners,      \* the handler goroutines
  Pids,         \* process ids: a bound on how many servers are started
  NoPid,        \* 0, what strconv.Atoi makes of anything unreadable
  HasURL,       \* whether the model has a source URL to download it from
  Worlds        \* the worlds to consider

Happenings == {"overlap", "slow", "die", "fault", "reuse", "crash"}

ASSUME MachineAssumption ==
  /\ NoPid \notin Pids
  /\ HasURL \in BOOLEAN
  /\ Worlds \subseteq SUBSET Happenings
  /\ DOMAIN NameOf = Deployments
  /\ DOMAIN PortOf = Deployments
  /\ "none" \notin Deployments \cup {NameOf[d] : d \in Deployments}

VARIABLES
  pc,          \* the command each runner is about to give
  run,         \* its request, the pid it has read and the one it has started
  procs,       \* the processes of the machine
  pidFile,     \* deployments/<name>.pid: a pid, or NoPid if there is none
  modelFile,   \* models/<filename>
  downloader,  \* the runner whose curl truncated the model file last
  binary,      \* whether bin/llama-server is installed
  world        \* what may happen in this behaviour

machine == <<procs, pidFile, modelFile, downloader, binary, world>>
vars == <<pc, run, machine>>

Names == {NameOf[d] : d \in Deployments}
NoRun == [op |-> "none", dep |-> "none", pid |-> NoPid, own |-> NoPid]
Free  == [dep |-> "none", state |-> "free"]

Alive(p) == procs[p].state \in {"starting", "serving"}

PortBusy(port) ==
  \E p \in Pids : procs[p].state = "serving" /\ PortOf[procs[p].dep] = port

MutantPidFile(r) == pidFile[CHOOSE n \in Names : TRUE]  \* the name left out of the path
PidFile(r) == pidFile[NameOf[run[r].dep]]

\* The pid r has read is that of a process started under its own name.
OwnProcess(r) ==
  /\ procs[run[r].pid].dep \in Deployments
  /\ NameOf[procs[run[r].pid].dep] = NameOf[run[r].dep]

Goto(r, label) == pc' = [pc EXCEPT ![r] = label]
Faulty == "fault" \in world

\* Deployments that share a name, and so a pid file, share the port too: where
\* they do not, the second to start overwrites the pid of the first.
NamesSharePort ==
  \A d, e \in Deployments : NameOf[d] = NameOf[e] => PortOf[d] = PortOf[e]

\* Every command is answered, in time, before the next request for the name.
Orderly == NamesSharePort /\ world \cap {"overlap", "slow", "fault", "crash"} = {}

-----------------------------------------------------------------------------
(* Requests.  The bound: a Start begins only if there is a pid left for    *)
(* the process it may create.                                              *)

Starting == {r \in Runners : run[r].op = "start" /\ run[r].own = NoPid}

Begin(r, op, d) ==
  /\ pc[r] = "idle"
  /\ op = "start" =>
       Cardinality({p \in Pids : procs[p] = Free}) > Cardinality(Starting)
  /\ "overlap" \notin world =>
       \A q \in Runners : pc[q] # "idle" => NameOf[run[q].dep] # NameOf[d]
  /\ run' = [run EXCEPT ![r] = [op |-> op, dep |-> d, pid |-> NoPid, own |-> NoPid]]
  /\ Goto(r, IF op = "start" THEN "mkdir" ELSE "readstop")
  /\ UNCHANGED machine

\* The caller gets the ExecutionResult.
Return(r) ==
  /\ pc[r] \in {"started", "failed", "stopped"}
  /\ run' = [run EXCEPT ![r] = NoRun]
  /\ Goto(r, "idle")
  /\ UNCHANGED machine

Request == \E r \in Runners, d \in Deployments, op \in {"start", "stop"} : Begin(r, op, d)

-----------------------------------------------------------------------------
(* The first steps of a Start are the same for both executors.             *)

\* Step 1: the directories (they are not modelled).
MakeDirs(r) ==
  /\ pc[r] = "mkdir"
  /\ \/ Goto(r, "model")
     \/ Faulty /\ Goto(r, "failed")
  /\ UNCHANGED <<run, machine>>

\* Step 2: any file of that name will do, and no answer means no file.
CheckModel(r) ==
  /\ pc[r] = "model"
  /\ \/ /\ modelFile # "missing"
        /\ Goto(r, "binary")
     \/ /\ modelFile = "missing" \/ Faulty
        /\ Goto(r, IF HasURL THEN "curl" ELSE "binary")
  /\ UNCHANGED <<run, machine>>

MutantBeginDownload(r) ==  \* curl is not waited for
  /\ pc[r] = "curl"
  /\ modelFile' = "partial"
  /\ downloader' = r
  /\ Goto(r, "binary")
  /\ UNCHANGED <<run, procs, pidFile, binary, world>>

\* curl -o opens the file, truncating it...
BeginDownload(r) ==
  /\ pc[r] = "curl"
  /\ \/ /\ modelFile' = "partial"
        /\ downloader' = r
        /\ Goto(r, "download")
     \/ /\ Faulty
        /\ Goto(r, "failed")
        /\ UNCHANGED <<modelFile, downloader>>
  /\ UNCHANGED <<run, procs, pidFile, binary, world>>

\* ...and has written all of it when it ends, unless another curl has
\* truncated the file meanwhile.
Downloaded(r) == IF downloader = r THEN "complete" ELSE modelFile

\* One that is reported failed may have written it all, or not.
EndDownload(r) ==
  /\ pc[r] = "download"
  /\ \/ /\ modelFile' = Downloaded(r)
        /\ Goto(r, "binary")
     \/ /\ Faulty
        /\ modelFile' \in {modelFile, Downloaded(r)}
        /\ Goto(r, "failed")
  /\ UNCHANGED <<run, procs, pidFile, downloader, binary, world>>

\* Steps 3 and 4: the binary must be there (no answer means no); chmod.
CheckBinary(r) ==
  /\ pc[r] = "binary"
  /\ \/ binary /\ Goto(r, "port")
     \/ (~binary \/ Faulty) /\ Goto(r, "failed")
  /\ UNCHANGED <<run, machine>>

\* Step 5: lsof.  No answer means that the port is free.
MutantCheckPort(r) ==  \* the check dropped
  /\ pc[r] = "port"
  /\ Goto(r, "launch")
  /\ UNCHANGED <<run, machine>>

CheckPort(r) ==
  /\ pc[r] = "port"
  /\ \/ /\ PortBusy(PortOf[run[r].dep])
        /\ Goto(r, "failed")
     \/ /\ ~PortBusy(PortOf[run[r].dep]) \/ Faulty
        /\ Goto(r, "launch")
  /\ UNCHANGED <<run, machine>>

\* The commands above.
Prepare(r) ==
  \/ MakeDirs(r) \/ CheckModel(r) \/ BeginDownload(r) \/ EndDownload(r)
  \/ CheckBinary(r) \/ CheckPort(r)

-----------------------------------------------------------------------------
(* The machine.                                                            *)

\* A server loads the model and binds its port, or exits if it cannot.
Bind(p) ==
  /\ procs[p].state = "starting"
  /\ procs' = [procs EXCEPT ![p].state =
                 IF modelFile = "complete" /\ ~PortBusy(PortOf[procs[p].dep])
                   THEN "serving" ELSE "dead"]
  /\ UNCHANGED <<pc, run, pidFile, modelFile, downloader, binary, world>>

Die(p) ==
  /\ "die" \in world
  /\ Alive(p)
  /\ procs' = [procs EXCEPT ![p].state = "dead"]
  /\ UNCHANGED <<pc, run, pidFile, modelFile, downloader, binary, world>>

\* Not while the Start that created it is under way.
Recycle(p) ==
  /\ "reuse" \in world
  /\ procs[p].state = "dead"
  /\ \A r \in Runners : run[r].own # p
  /\ procs' = [procs EXCEPT ![p] = Free]
  /\ UNCHANGED <<pc, run, pidFile, modelFile, downloader, binary, world>>

\* The control plane dies and is started again; its requests are gone.  A
\* curl under way may go on by itself and finish.
Crash ==
  /\ "crash" \in world
  /\ pc' = [r \in Runners |-> "idle"]
  /\ run' = [r \in Runners |-> NoRun]
  /\ \/ UNCHANGED modelFile
     \/ /\ \E r \in Runners : pc[r] = "download" /\ downloader = r
        /\ modelFile' = "complete"
  /\ UNCHANGED <<procs, pidFile, downloader, binary, world>>

MachineInit ==
  /\ pc = [r \in Runners |-> "idle"]
  /\ run = [r \in Runners |-> NoRun]
  /\ procs = [p \in Pids |-> Free]
  /\ pidFile = [n \in Names |-> NoPid]
  /\ modelFile \in {"missing", "complete"}
  /\ downloader = NoPid
  /\ binary \in BOOLEAN
  /\ world \in Worlds

-----------------------------------------------------------------------------
(* A machine as those see it who give it requests (module Execution).      *)

LiveNames == {NameOf[procs[p].dep] : p \in {q \in Pids : Alive(q)}}

RequestOf(r) ==
  [op     |-> run[r].op,
   name   |-> IF run[r].op = "none" THEN "none" ELSE NameOf[run[r].dep],
   result |-> IF pc[r] \in {"started", "stopped", "failed"} THEN pc[r] ELSE "none"]

Requests == [r \in Runners |-> RequestOf(r)]

MachineTypeOK ==
  /\ run \in [Runners -> [op : {"none", "start", "stop"}, dep : Deployments \cup {"none"},
                          pid : Pids \cup {NoPid}, own : Pids \cup {NoPid}]]
  /\ procs \in [Pids -> [dep : Deployments \cup {"none"},
                         state : {"free", "starting", "serving", "dead"}]]
  /\ pidFile \in [Names -> Pids \cup {NoPid}]
  /\ modelFile \in {"missing", "partial", "complete"}
  /\ downloader \in Runners \cup {NoPid}
  /\ binary \in BOOLEAN
  /\ world \in Worlds
=============================================================================
