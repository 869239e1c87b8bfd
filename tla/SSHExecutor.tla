----------------------------- MODULE SSHExecutor -----------------------------
(***************************************************************************)
(* deployment.Executor over ssh: Start and Stop of llama-server processes  *)
(* on a machine.  Every remote command is a step of its own.  A command    *)
(* that fails (the link breaks, ssh gives up) gives no answer, and may     *)
(* have run or not.                                                        *)
(***************************************************************************)
EXTENDS Machine

-----------------------------------------------------------------------------
(* Start, once it is prepared.                                             *)

\* Step 7: the server in the background, its pid in the pid file.  The link
\* may break before the command or before its exit status is back.
Launch(r) ==
  /\ pc[r] = "launch"
  /\ \/ \E p \in Pids :
          /\ procs[p] = Free
          /\ procs' = [procs EXCEPT ![p] = [dep |-> run[r].dep, state |-> "starting"]]
          /\ pidFile' = [pidFile EXCEPT ![NameOf[run[r].dep]] = p]
          /\ run' = [run EXCEPT ![r].own = p]
          /\ Goto(r, "readpid") \/ (Faulty /\ Goto(r, "failed"))
     \/ /\ Faulty
        /\ Goto(r, "failed")
        /\ UNCHANGED <<run, procs, pidFile>>
  /\ UNCHANGED <<modelFile, downloader, binary, world>>

\* Step 8: cat the pid file; with no file or no answer the pid is 0.
ReadPid(r) ==
  /\ pc[r] = "readpid"
  /\ \E p \in {PidFile(r)} \cup (IF Faulty THEN {NoPid} ELSE {}) :
       run' = [run EXCEPT ![r].pid = p]
  /\ Goto(r, "verify")
  /\ UNCHANGED machine

MutantSignalled(p) == TRUE        \* the answer is not looked at
MutantNotSignalled(p) == p = NoPid  \* the answer of a live process is misread

\* kill -0.  Pid 0 is the process group of the asking shell, which is alive.
Signalled(p) == p \in {NoPid} \cup {q \in Pids : Alive(q)}

\* Step 9: sleep 2 s and verify.
Verify(r) ==
  /\ pc[r] = "verify"
  /\ "slow" \notin world => procs[run[r].own].state # "starting"
  /\ \/ Signalled(run[r].pid) /\ Goto(r, "started")
     \/ (~Signalled(run[r].pid) \/ Faulty) /\ Goto(r, "failed")
  /\ UNCHANGED <<run, machine>>

-----------------------------------------------------------------------------
(* Stop                                                                    *)

MutantReadStop(r) ==  \* the NONE that stands for no pid file taken for a pid
  /\ pc[r] = "readstop"
  /\ run' = [run EXCEPT ![r].pid = IF PidFile(r) = NoPid THEN "NONE" ELSE PidFile(r)]
  /\ Goto(r, IF PidFile(r) = NoPid THEN "stopped" ELSE "kill")
  /\ UNCHANGED machine

\* With no pid file, or no answer, the process may already be stopped.
ReadStop(r) ==
  /\ pc[r] = "readstop"
  /\ \/ /\ PidFile(r) # NoPid
        /\ run' = [run EXCEPT ![r].pid = PidFile(r)]
        /\ Goto(r, "kill")
     \/ /\ PidFile(r) = NoPid \/ Faulty
        /\ Goto(r, "stopped")
        /\ UNCHANGED run
  /\ UNCHANGED machine

\* kill: the server ends at once or takes its time.
Kill(r) ==
  /\ pc[r] = "kill"
  /\ procs' \in {procs} \cup
       (IF Alive(run[r].pid) THEN {[procs EXCEPT ![run[r].pid].state = "dead"]} ELSE {})
  /\ Goto(r, "recheck")
  /\ UNCHANGED <<run, pidFile, modelFile, downloader, binary, world>>

\* kill -0, 1 s later.  No answer means that it has stopped.
MutantRecheck(r) ==  \* the forced kill forgotten
  /\ pc[r] = "recheck"
  /\ Goto(r, "rmpid")
  /\ UNCHANGED <<run, machine>>

Recheck(r) ==
  /\ pc[r] = "recheck"
  /\ \/ Alive(run[r].pid) /\ Goto(r, "kill9")
     \/ (~Alive(run[r].pid) \/ Faulty) /\ Goto(r, "rmpid")
  /\ UNCHANGED <<run, machine>>

Kill9(r) ==
  /\ pc[r] = "kill9"
  /\ \/ /\ Alive(run[r].pid)
        /\ procs' = [procs EXCEPT ![run[r].pid].state = "dead"]
     \/ /\ ~Alive(run[r].pid) \/ Faulty
        /\ UNCHANGED procs
  /\ Goto(r, "rmpid")
  /\ UNCHANGED <<run, pidFile, modelFile, downloader, binary, world>>

RemovePid(r) ==
  /\ pc[r] = "rmpid"
  /\ \/ pidFile' = [pidFile EXCEPT ![NameOf[run[r].dep]] = NoPid]
     \/ Faulty /\ UNCHANGED pidFile
  /\ Goto(r, "stopped")
  /\ UNCHANGED <<run, procs, modelFile, downloader, binary, world>>

-----------------------------------------------------------------------------
Init == MachineInit

StartStep(r) == Prepare(r) \/ Launch(r) \/ ReadPid(r) \/ Verify(r)

StopStep(r) ==
  ReadStop(r) \/ Kill(r) \/ Recheck(r) \/ Kill9(r) \/ RemovePid(r)

Next ==
  \/ Request
  \/ \E r \in Runners : StartStep(r) \/ StopStep(r) \/ Return(r)
  \/ \E p \in Pids : Bind(p) \/ Die(p) \/ Recycle(p)
  \/ Crash

Spec == Init /\ [][Next]_vars

-----------------------------------------------------------------------------
(* Properties.                                                             *)

TypeOK ==
  /\ MachineTypeOK
  /\ pc \in [Runners -> {"idle", "mkdir", "model", "curl", "download", "binary", "port",
                         "launch", "readpid", "verify", "started", "failed",
                         "readstop", "kill", "recheck", "kill9", "rmpid", "stopped"}]

(* As long as pids are not reused, a Stop only ever signals a process that *)
(* was started under its deployment's name, however requests overlap and   *)
(* whatever commands fail.                                                 *)
StopHitsOwn ==
  "reuse" \notin world =>
    \A r \in Runners : pc[r] \in {"kill", "recheck", "kill9"} => OwnProcess(r)

(* If commands are answered too, the process whose pid a Stop has read is  *)
(* dead before its pid file goes, even if it ignores the first kill.       *)
StopKills ==
  world \cap {"fault", "reuse"} = {} =>
    \A r \in Runners : pc[r] = "rmpid" => ~Alive(run[r].pid)

(* In an orderly world no server is ever lost: the pid file of its name    *)
(* holds the pid of every process that is alive, so a Stop can find it.    *)
Tracked ==
  Orderly => \A p \in Pids : Alive(p) => pidFile[NameOf[procs[p].dep]] = p

(* The executor does what Execution says: servers appear only while a      *)
(* Start of their name is under way; a Stop never reports failure; and in  *)
(* an orderly world a Stop leaves no server of its deployment running,     *)
(* whether or not there was a pid file, and a Start that reports success   *)
(* has its server running.                                                 *)
Trust == {"stops"} \cup (IF Orderly THEN {"started", "stopped"} ELSE {})

Promise == INSTANCE Execution WITH
  NoName <- "none", req <- Requests, live <- LiveNames, trust <- Trust

KeepsPromise == Promise!Spec

(* Where commands are answered and the control plane lives, an incomplete  *)
(* model file is being written by the curl that truncated it last, so that *)
(* it is whole when that one ends, however many requests download it at    *)
(* once.  Until then other Starts may go on with the incomplete one (any   *)
(* file of that name will do), and so may those whose own curl has ended:  *)
(* their servers exit unless it is whole by the time they load it.         *)
PartialIsDownloading ==
  world \cap {"fault", "crash"} = {} =>
    (modelFile = "partial" => \E r \in Runners : pc[r] = "download" /\ downloader = r)

(* In an orderly world a Start that reports failure leaves no server of    *)
(* its own behind...                                                       *)
FailedLeavesNothing ==
  Orderly =>
    \A r \in Runners : pc[r] = "failed" /\ run[r].own # NoPid => ~Alive(run[r].own)

(* ...and one that reports success has seen its own server serve.          *)
StartedServes ==
  [][\A r \in Runners : Orderly /\ pc[r] = "verify" /\ pc'[r] = "started" =>
       procs[run[r].own].state = "serving"]_vars
=============================================================================
