---------------------------- MODULE LocalExecutor ----------------------------
(***************************************************************************)
(* deployment.LocalExecutor: the same for a machine that is the control    *)
(* plane's own host.  The servers are its child processes, and it never    *)
(* waits for them: a child that has died keeps its pid (as a zombie) as    *)
(* long as the control plane lives.                                        *)
(***************************************************************************)
EXTENDS Machine

VARIABLE children  \* the processes this run of the control plane has started

lvars == <<vars, children>>

-----------------------------------------------------------------------------
(* Start, once it is prepared.                                             *)

\* Step 7: exec.Cmd.Start.
Spawn(r) ==
  /\ pc[r] = "launch"
  /\ \/ \E p \in Pids :
          /\ procs[p] = Free
          /\ procs' = [procs EXCEPT ![p] = [dep |-> run[r].dep, state |-> "starting"]]
          /\ children' = children \cup {p}
          /\ run' = [run EXCEPT ![r].own = p]
          /\ Goto(r, "openpid")
     \/ /\ Faulty
        /\ Goto(r, "failed")
        /\ UNCHANGED <<run, procs, children>>
  /\ UNCHANGED <<pidFile, modelFile, downloader, binary, world>>

\* os.WriteFile truncates the pid file (an empty one reads as pid 0)...
OpenPid(r) ==
  /\ pc[r] = "openpid"
  /\ \/ /\ pidFile' = [pidFile EXCEPT ![NameOf[run[r].dep]] = NoPid]
        /\ Goto(r, "writepid")
     \/ /\ Faulty
        /\ Goto(r, "verify")
        /\ UNCHANGED pidFile
  /\ UNCHANGED <<run, procs, modelFile, downloader, binary, world, children>>

\* ...and then writes it.  No one looks at its error.
WritePid(r) ==
  /\ pc[r] = "writepid"
  /\ \/ pidFile' = [pidFile EXCEPT ![NameOf[run[r].dep]] = run[r].own]
     \/ Faulty /\ UNCHANGED pidFile
  /\ Goto(r, "verify")
  /\ UNCHANGED <<run, procs, modelFile, downloader, binary, world, children>>

\* Step 8: sleep 2 s; os.FindProcess finds a process for any pid.
Verify(r) ==
  /\ pc[r] = "verify"
  /\ "slow" \notin world => procs[run[r].own].state # "starting"
  /\ Goto(r, "started")
  /\ UNCHANGED <<run, machine, children>>

-----------------------------------------------------------------------------
(* Stop                                                                    *)

MutantReadStop(r) ==  \* the empty pid file not told from one with a pid
  /\ pc[r] = "readstop"
  /\ run' = [run EXCEPT ![r].pid = IF PidFile(r) = NoPid THEN "" ELSE PidFile(r)]
  /\ Goto(r, IF PidFile(r) = NoPid THEN "stopped" ELSE "kill")
  /\ UNCHANGED <<machine, children>>

\* With no pid file, or one without a pid, it may already be stopped.
ReadStop(r) ==
  /\ pc[r] = "readstop"
  /\ \/ /\ PidFile(r) # NoPid
        /\ run' = [run EXCEPT ![r].pid = PidFile(r)]
        /\ Goto(r, "kill")
     \/ /\ PidFile(r) = NoPid \/ Faulty
        /\ Goto(r, "stopped")
        /\ UNCHANGED run
  /\ UNCHANGED <<machine, children>>

\* SIGKILL.
SendKill(p) ==
  procs' = IF Alive(p) THEN [procs EXCEPT ![p].state = "dead"] ELSE procs

\* process.Kill, then a second later kill -9: FindProcess never fails.
MutantKill(r) ==  \* a signal that the server may ignore, never followed up
  /\ pc[r] = "kill"
  /\ Goto(r, "rmpid")
  /\ UNCHANGED <<run, machine, children>>

Kill(r) ==
  /\ pc[r] = "kill"
  /\ SendKill(run[r].pid)
  /\ Goto(r, "kill9")
  /\ UNCHANGED <<run, pidFile, modelFile, downloader, binary, world, children>>

Kill9(r) ==
  /\ pc[r] = "kill9"
  /\ SendKill(run[r].pid) \/ (Faulty /\ UNCHANGED procs)
  /\ Goto(r, "rmpid")
  /\ UNCHANGED <<run, pidFile, modelFile, downloader, binary, world, children>>

RemovePid(r) ==
  /\ pc[r] = "rmpid"
  /\ \/ pidFile' = [pidFile EXCEPT ![NameOf[run[r].dep]] = NoPid]
     \/ Faulty /\ UNCHANGED pidFile
  /\ Goto(r, "stopped")
  /\ UNCHANGED <<run, procs, modelFile, downloader, binary, world, children>>

-----------------------------------------------------------------------------
MutantReap(p) == Recycle(p) /\ UNCHANGED children  \* children are waited for

\* The kernel gives the pid of a dead process to another, but not a child's.
Reap(p) == p \notin children /\ Recycle(p) /\ UNCHANGED children

\* The children outlive the control plane, as init's.
LocalCrash == Crash /\ children' = {}

Init == MachineInit /\ children = {}

StartStep(r) ==
  \/ Prepare(r) /\ UNCHANGED children
  \/ Spawn(r) \/ OpenPid(r) \/ WritePid(r) \/ Verify(r)

StopStep(r) == ReadStop(r) \/ Kill(r) \/ Kill9(r) \/ RemovePid(r)

Next ==
  \/ Request /\ UNCHANGED children
  \/ \E r \in Runners : StartStep(r) \/ StopStep(r) \/ (Return(r) /\ UNCHANGED children)
  \/ \E p \in Pids : ((Bind(p) \/ Die(p)) /\ UNCHANGED children) \/ Reap(p)
  \/ LocalCrash

Spec == Init /\ [][Next]_lvars

-----------------------------------------------------------------------------
(* Properties.                                                             *)

TypeOK ==
  /\ MachineTypeOK
  /\ pc \in [Runners -> {"idle", "mkdir", "model", "curl", "download", "binary", "port",
                         "launch", "openpid", "writepid", "verify", "started", "failed",
                         "readstop", "kill", "kill9", "rmpid", "stopped"}]
  /\ children \subseteq Pids

(* A Stop only ever kills processes that were started under its            *)
(* deployment's name, even where pids are reused: the pids of the children *)
(* are not, until the control plane is restarted.                          *)
StopHitsOwn ==
  ~ {"reuse", "crash"} \subseteq world =>
    \A r \in Runners : pc[r] \in {"kill", "kill9"} => OwnProcess(r)

(* The process whose pid a Stop has read is dead before its pid file goes, *)
(* whatever fails and overlaps.                                            *)
StopKills ==
  ~ {"reuse", "crash"} \subseteq world =>
    \A r \in Runners : pc[r] = "rmpid" => ~Alive(run[r].pid)

(* In an orderly world no server is ever lost: a process that is alive has *)
(* its pid in the pid file, or a Start that is about to write it there.    *)
Tracked ==
  Orderly =>
    \A p \in Pids : Alive(p) =>
      \/ pidFile[NameOf[procs[p].dep]] = p
      \/ \E r \in Runners : pc[r] \in {"openpid", "writepid"} /\ run[r].own = p

(* The executor does what Execution says: servers appear only while a      *)
(* Start of their name is under way; a Stop never reports failure, and in  *)
(* an orderly world it leaves no server of its deployment running.  That a *)
(* Start reports success means nothing (see VerifiedRunning).              *)
Trust == {"stops"} \cup (IF Orderly THEN {"stopped"} ELSE {})

Promise == INSTANCE Execution WITH
  NoName <- "none", req <- Requests, live <- LiveNames, trust <- Trust

KeepsPromise == Promise!Spec

-----------------------------------------------------------------------------
(* What the source says and does not do (see README).                      *)

(* "Wait a moment and verify process is running": a Start that reports     *)
(* success has a process that runs.                                        *)
VerifiedRunning ==
  [][\A r \in Runners : pc[r] = "verify" /\ pc'[r] = "started" =>
       Alive(run[r].own)]_lvars
=============================================================================
