------------------------- MODULE SSHExecutor_proofs -------------------------
(***************************************************************************)
(* TLAPS proofs of the safety properties of SSHExecutor, for any number of *)
(* deployments, requests and processes, and any worlds.                    *)
(*                                                                         *)
(* The invariant is built in three layers.  IInv says, in every world,     *)
(* where a request can be with which pids in hand.  NamedRight adds what   *)
(* the pid files mean as long as pids are not reused.  OrderlyInv is for   *)
(* orderly worlds, where pids may be reused: requests for one name take    *)
(* turns, so the pid file of a name is changed by one of them at a time,   *)
(* and a server that has not yet bound its port has a Start waiting for    *)
(* it, so that whoever finds the port free finds no server of the name.    *)
(* The refinement of Execution, last, goes action by action: from these    *)
(* invariants follows that a result is given only when it is true.         *)
(***************************************************************************)
EXTENDS SSHExecutor, TLAPS

\* Where a request can be, with which pids: what it has started, and read.
Where(r) ==
  \/ /\ pc[r] = "idle"
     /\ run[r] = NoRun
  \/ /\ run[r].op = "start"
     /\ run[r].dep \in Deployments
     /\ run[r].own = NoPid
     /\ pc[r] \in {"mkdir", "model", "curl", "download", "binary", "port", "launch", "failed"}
  \/ /\ run[r].op = "start"
     /\ run[r].dep \in Deployments
     /\ run[r].own \in Pids
     /\ pc[r] \in {"readpid", "verify", "started", "failed"}
  \/ /\ run[r].op = "stop"
     /\ run[r].dep \in Deployments
     /\ run[r].own = NoPid
     /\ pc[r] \in {"readstop", "stopped"}
  \/ /\ run[r].op = "stop"
     /\ run[r].dep \in Deployments
     /\ run[r].own = NoPid
     /\ run[r].pid \in Pids
     /\ pc[r] \in {"kill", "recheck", "kill9", "rmpid"}

\* A process has been started for a deployment.
Born(p) ==
  \/ procs[p] = Free
  \/ procs[p].dep \in Deployments /\ procs[p].state \in {"starting", "serving", "dead"}

\* The pid of the process a Start has created is not given to another.
Keeps(r) == run[r].own # NoPid => procs[run[r].own].dep = run[r].dep

IInv ==
  /\ TypeOK
  /\ \A r \in Runners : Where(r) /\ Keeps(r)
  /\ \A p \in Pids : Born(p)

Killing == {"kill", "recheck", "kill9", "rmpid"}

\* Without reuse a pid file names a process started under its name, and so
\* does what a Stop has read there.
NamedRight ==
  "reuse" \notin world =>
    /\ \A n \in Names : pidFile[n] # NoPid =>
         /\ procs[pidFile[n]].dep \in Deployments
         /\ NameOf[procs[pidFile[n]].dep] = n
    /\ \A r \in Runners : pc[r] \in Killing => OwnProcess(r)

Waiting == {"readpid", "verify"}

NoneAlive(n) == \A p \in Pids : Alive(p) => NameOf[procs[p].dep] # n

\* Requests for one name take turns.
TakeTurns ==
  \A q, r \in Runners :
    pc[q] # "idle" /\ pc[r] # "idle" /\ NameOf[run[q].dep] = NameOf[run[r].dep] => q = r

\* A server that has not bound its port has its Start waiting for it.
Awaited ==
  \A p \in Pids : procs[p].state = "starting" =>
    \E r \in Runners : pc[r] \in Waiting /\ run[r].own = p

\* What the request under way for a name knows of its pid file and servers.
Fits(r) ==
  /\ pc[r] \in {"launch", "rmpid"} => NoneAlive(NameOf[run[r].dep])
  /\ pc[r] \in Waiting => PidFile(r) = run[r].own
  /\ pc[r] = "verify" => run[r].pid = run[r].own
  /\ pc[r] \in Killing => PidFile(r) = run[r].pid
  /\ pc[r] = "failed" /\ run[r].own # NoPid => ~Alive(run[r].own)

OrderlyInv ==
  Orderly => TakeTurns /\ Awaited /\ Tracked /\ \A r \in Runners : Fits(r)

-----------------------------------------------------------------------------
LEMMA ConstantFacts ==
  /\ NoPid \notin Pids
  /\ "none" \notin Deployments
  /\ \A d \in Deployments : NameOf[d] \in Names
  /\ NoRun = [op |-> "none", dep |-> "none", pid |-> NoPid, own |-> NoPid]
  /\ Free = [dep |-> "none", state |-> "free"]
BY MachineAssumption DEF Names, NoRun, Free

LEMMA InitInv == Init => IInv
BY ConstantFacts DEF Init, MachineInit, IInv, TypeOK, MachineTypeOK, Where, Keeps, Born

(* A request under way has a deployment, and a pid file under its name.    *)
LEMMA RunFacts ==
  ASSUME IInv, NEW r \in Runners, pc[r] # "idle"
  PROVE  /\ run[r].dep \in Deployments
         /\ NameOf[run[r].dep] \in Names
         /\ PidFile(r) \in Pids \cup {NoPid}
BY ConstantFacts DEF IInv, TypeOK, MachineTypeOK, Where, PidFile

(* What it means to remember a pid.                                        *)
LEMMA PidFacts ==
  ASSUME IInv, NEW r \in Runners, NEW p \in Pids \cup {NoPid}
  PROVE  /\ run' = [run EXCEPT ![r].pid = p] =>
              /\ run'[r].op = run[r].op /\ run'[r].dep = run[r].dep
              /\ run'[r].pid = p /\ run'[r].own = run[r].own
         /\ run' = [run EXCEPT ![r].own = p] =>
              /\ run'[r].op = run[r].op /\ run'[r].dep = run[r].dep
              /\ run'[r].pid = run[r].pid /\ run'[r].own = p
         /\ run' = [run EXCEPT ![r].pid = p] \/ run' = [run EXCEPT ![r].own = p] =>
              /\ \A q \in Runners \ {r} : run'[q] = run[q]
              /\ run' \in [Runners -> [op : {"none", "start", "stop"},
                                       dep : Deployments \cup {"none"},
                                       pid : Pids \cup {NoPid}, own : Pids \cup {NoPid}]]
BY DEF IInv, TypeOK, MachineTypeOK

(* A command that moves r on and changes neither its pids nor processes.   *)
LEMMA MoveInv ==
  ASSUME IInv, NEW r \in Runners, NEW label,
         Goto(r, label), UNCHANGED <<run, procs, pidFile, binary, world>>,
         modelFile' \in {"missing", "partial", "complete"}, downloader' \in Runners \cup {NoPid},
         Where(r)'
  PROVE  IInv'
BY DEF IInv, TypeOK, MachineTypeOK, Where, Keeps, Born, Goto

LEMMA RequestInv ==
  ASSUME IInv, NEW r \in Runners, Return(r) \/ \E d \in Deployments, op \in {"start", "stop"} : Begin(r, op, d)
  PROVE  IInv'
<1> USE ConstantFacts
<1>1. CASE Return(r)
  BY <1>1 DEF IInv, TypeOK, MachineTypeOK, Where, Keeps, Born, Return, Goto, machine
<1>2. ASSUME NEW d \in Deployments, NEW op \in {"start", "stop"}, Begin(r, op, d)
      PROVE  IInv'
  BY <1>2 DEF IInv, TypeOK, MachineTypeOK, Where, Keeps, Born, Begin, Goto, machine
<1> QED BY <1>1, <1>2

LEMMA PrepareInv ==
  ASSUME IInv, NEW r \in Runners, Prepare(r)
  PROVE  IInv'
<1> USE ConstantFacts
<1>1. Where(r)'
  BY DEF IInv, TypeOK, MachineTypeOK, Where, Prepare, MakeDirs, CheckModel, BeginDownload, EndDownload, CheckBinary,
     CheckPort, Goto
<1>2. /\ modelFile' \in {"missing", "partial", "complete"}
      /\ downloader' \in Runners \cup {NoPid}
      /\ UNCHANGED <<run, procs, pidFile, binary, world>>
      /\ \E label : Goto(r, label)
  BY DEF IInv, TypeOK, MachineTypeOK, Prepare, MakeDirs, CheckModel, BeginDownload, EndDownload,
     Downloaded, CheckBinary, CheckPort, machine
<1> QED BY <1>1, <1>2, MoveInv

LEMMA LaunchInv ==
  ASSUME IInv, NEW r \in Runners, Launch(r)
  PROVE  IInv'
<1> USE ConstantFacts
<1>1. CASE UNCHANGED <<run, procs, pidFile>>
  <2>1. Goto(r, "failed")
    BY <1>1 DEF Launch, IInv, TypeOK, MachineTypeOK
  <2> QED BY <1>1, <2>1 DEF Launch, IInv, TypeOK, MachineTypeOK, Where, Keeps, Born, Goto
<1>2. ASSUME NEW p \in Pids, procs[p] = Free,
             procs' = [procs EXCEPT ![p] = [dep |-> run[r].dep, state |-> "starting"]],
             pidFile' = [pidFile EXCEPT ![NameOf[run[r].dep]] = p],
             run' = [run EXCEPT ![r].own = p],
             Goto(r, "readpid") \/ Goto(r, "failed")
      PROVE  IInv'
  <2>1. /\ run[r].dep \in Deployments /\ run[r].op = "start" /\ pc[r] = "launch"
        /\ UNCHANGED <<modelFile, downloader, binary, world>>
    BY DEF Launch, IInv, Where
  <2>2. \A q \in Runners : run[q].own # NoPid => run[q].own # p
    BY <1>2 DEF IInv, Where, Keeps
  <2>3. /\ run'[r].op = run[r].op /\ run'[r].dep = run[r].dep /\ run'[r].own = p
        /\ \A q \in Runners \ {r} : run'[q] = run[q]
    BY <1>2, PidFacts
  <2>4. TypeOK'
    <3>1. procs' \in [Pids -> [dep : Deployments \cup {"none"},
                              state : {"free", "starting", "serving", "dead"}]]
      BY <1>2, <2>1 DEF IInv, TypeOK, MachineTypeOK
    <3>2. pidFile' \in [Names -> Pids \cup {NoPid}]
      BY <1>2, <2>1 DEF IInv, TypeOK, MachineTypeOK
    <3> QED BY <1>2, <2>1, <3>1, <3>2, PidFacts DEF IInv, TypeOK, MachineTypeOK, Goto
  <2>5. \A q \in Runners : Where(q)'
    BY <1>2, <2>1, <2>3 DEF IInv, TypeOK, MachineTypeOK, Where, Goto
  <2>6. \A q \in Runners : Keeps(q)'
    BY <1>2, <2>1, <2>2, <2>3 DEF IInv, TypeOK, MachineTypeOK, Keeps
  <2>7. \A q \in Pids : Born(q)'
    BY <1>2, <2>1 DEF IInv, TypeOK, MachineTypeOK, Born
  <2> QED BY <2>4, <2>5, <2>6, <2>7 DEF IInv
<1> QED BY <1>1, <1>2 DEF Launch

LEMMA StartInv ==
  ASSUME IInv, NEW r \in Runners, ReadPid(r) \/ Verify(r)
  PROVE  IInv'
<1> USE ConstantFacts
<1>1. CASE ReadPid(r)
  <2>1. PICK p \in Pids \cup {NoPid} : run' = [run EXCEPT ![r].pid = p]
    BY <1>1, RunFacts DEF ReadPid
  <2>2. Where(r)'
    BY <1>1, <2>1, PidFacts DEF IInv, TypeOK, Where, ReadPid, Goto
  <2> QED BY <1>1, <2>1, <2>2, PidFacts
       DEF IInv, TypeOK, MachineTypeOK, Where, Keeps, Born, ReadPid, Goto, machine
<1>2. CASE Verify(r)
  <2>1. Where(r)'
    BY <1>2 DEF IInv, TypeOK, Where, Verify, Goto
  <2>2. UNCHANGED <<run, machine>> /\ \E label : Goto(r, label)
    BY <1>2 DEF Verify
  <2> QED BY <2>1, <2>2, MoveInv DEF IInv, TypeOK, MachineTypeOK, machine
<1> QED BY <1>1, <1>2

(* A Stop that goes on, perhaps by ending a process.                       *)
LEMMA StopInv ==
  ASSUME IInv, NEW r \in Runners, StopStep(r)
  PROVE  IInv'
<1> USE ConstantFacts
<1>1. CASE ReadStop(r)
  <2>1. CASE UNCHANGED run /\ Goto(r, "stopped")
    <3>1. Where(r)'
      BY <1>1, <2>1 DEF IInv, TypeOK, Where, ReadStop, Goto
    <3> QED BY <1>1, <2>1, <3>1, MoveInv DEF IInv, TypeOK, MachineTypeOK, ReadStop, machine
  <2>2. ASSUME NEW p \in Pids, run' = [run EXCEPT ![r].pid = p], Goto(r, "kill")
        PROVE  IInv'
    <3>1. /\ UNCHANGED machine
          /\ pc[r] = "readstop"
          /\ pc' = [pc EXCEPT ![r] = "kill"]
      BY <1>1, <2>2 DEF ReadStop, Goto
    <3>2. Where(r)'
      <4>1. run[r].op = "stop" /\ run[r].dep \in Deployments /\ run[r].own = NoPid
        BY <3>1 DEF IInv, Where
      <4>2. /\ run'[r].op = run[r].op /\ run'[r].dep = run[r].dep
            /\ run'[r].pid = p /\ run'[r].own = run[r].own
        BY <2>2, PidFacts
      <4>3. pc'[r] = "kill"
        BY <3>1 DEF IInv, TypeOK
      <4> QED BY <4>1, <4>2, <4>3 DEF Where
    <3>3. TypeOK'
      BY <2>2, <3>1, PidFacts DEF IInv, TypeOK, MachineTypeOK, machine
    <3>4. \A q \in Runners : Where(q)'
      BY <2>2, <3>1, <3>2, PidFacts DEF IInv, TypeOK, Where
    <3> QED BY <2>2, <3>1, <3>3, <3>4, PidFacts DEF IInv, Keeps, Born, machine
  <2>3. PidFile(r) \in Pids \cup {NoPid}
    BY <1>1, RunFacts DEF ReadStop
  <2> QED BY <1>1, <2>1, <2>2, <2>3 DEF ReadStop
<1>2. CASE Kill(r) \/ Kill9(r)
  <2>1. procs' = procs \/ (Alive(run[r].pid) /\ procs' = [procs EXCEPT ![run[r].pid].state = "dead"])
    BY <1>2 DEF Kill, Kill9
  <2>2. Where(r)' /\ run[r].pid \in Pids
    BY <1>2 DEF IInv, TypeOK, Where, Kill, Kill9, Goto
  <2>3. CASE procs' = procs
    BY <1>2, <2>2, <2>3, MoveInv DEF IInv, TypeOK, MachineTypeOK, Kill, Kill9
  <2>4. CASE Alive(run[r].pid) /\ procs' = [procs EXCEPT ![run[r].pid].state = "dead"]
    <3>1. /\ TypeOK'
          /\ \A q \in Runners : Where(q)'
      BY <1>2, <2>2, <2>4 DEF IInv, TypeOK, MachineTypeOK, Where, Kill, Kill9, Goto
    <3>2. \A p \in Pids : Born(p)' /\ procs'[p].dep = procs[p].dep
      BY <2>2, <2>4 DEF IInv, TypeOK, MachineTypeOK, Born, Alive, Free
    <3> QED BY <1>2, <3>1, <3>2 DEF IInv, TypeOK, MachineTypeOK, Keeps, Kill, Kill9
  <2> QED BY <2>1, <2>3, <2>4
<1>3. CASE Recheck(r)
  <2>1. Where(r)' /\ \E label : Goto(r, label)
    BY <1>3 DEF IInv, TypeOK, Where, Recheck, Goto
  <2> QED BY <1>3, <2>1, MoveInv DEF IInv, TypeOK, MachineTypeOK, Recheck, machine
<1>4. CASE RemovePid(r)
  BY <1>4 DEF IInv, TypeOK, MachineTypeOK, Where, Keeps, Born, RemovePid, Goto
<1> QED BY <1>1, <1>2, <1>3, <1>4 DEF StopStep

LEMMA MachineInv ==
  ASSUME IInv, Crash \/ \E p \in Pids : Bind(p) \/ Die(p) \/ Recycle(p)
  PROVE  IInv'
<1> USE ConstantFacts
<1>1. ASSUME NEW p \in Pids, Bind(p) \/ Die(p)
      PROVE  IInv'
  <2>1. PICK s \in {"serving", "dead"} : procs' = [procs EXCEPT ![p].state = s]
    BY <1>1 DEF Bind, Die
  <2>2. procs[p] # Free
    BY <1>1 DEF Bind, Die, Alive
  <2> QED BY <1>1, <2>1, <2>2 DEF IInv, TypeOK, MachineTypeOK, Where, Keeps, Born, Bind, Die
<1>2. ASSUME NEW p \in Pids, Recycle(p)
      PROVE  IInv'
  BY <1>2 DEF IInv, TypeOK, MachineTypeOK, Where, Keeps, Born, Recycle
<1>3. CASE Crash
  BY <1>3 DEF IInv, TypeOK, MachineTypeOK, Where, Keeps, Born, Crash
<1> QED BY <1>1, <1>2, <1>3

LEMMA NextInv == IInv /\ [Next]_vars => IInv'
<1>1. ASSUME IInv, UNCHANGED vars PROVE IInv'
  BY <1>1 DEF IInv, vars, machine, TypeOK, MachineTypeOK, Where, Keeps, Born
<1>2. ASSUME IInv, Next PROVE IInv'
  BY <1>2, RequestInv, PrepareInv, LaunchInv, StartInv, StopInv, MachineInv
     DEF Next, Request, StartStep
<1> QED BY <1>1, <1>2

LEMMA Invariance == Spec => []IInv
BY InitInv, NextInv, PTL DEF Spec

(* Nothing changes the world.                                              *)
LEMMA WorldStays == [Next]_vars => world' = world
BY DEF Next, vars, machine, Request, Begin, Return, StartStep, Prepare, MakeDirs, CheckModel,
       BeginDownload, EndDownload, CheckBinary, CheckPort, Launch, ReadPid, Verify, StopStep,
       ReadStop, Kill, Recheck, Kill9, RemovePid, Bind, Die, Recycle, Crash

-----------------------------------------------------------------------------
(* Without reuse of pids.                                                  *)

(* A process is what it was started for, for ever, and once dead it is     *)
(* dead for ever.                                                          *)
LEMMA ProcessStays ==
  ASSUME IInv, [Next]_vars, "reuse" \notin world, NEW p \in Pids, procs[p].dep \in Deployments
  PROVE  /\ procs'[p].dep = procs[p].dep
         /\ ~Alive(p) => ~Alive(p)'
<1> USE ConstantFacts
<1>1. ASSUME NEW r \in Runners, Launch(r)
      PROVE  procs'[p].dep = procs[p].dep /\ (~Alive(p) => ~Alive(p)')
  BY <1>1 DEF IInv, TypeOK, MachineTypeOK, Launch, Alive
<1>2. ASSUME NEW r \in Runners, Kill(r) \/ Kill9(r)
      PROVE  procs'[p].dep = procs[p].dep /\ (~Alive(p) => ~Alive(p)')
  BY <1>2 DEF IInv, TypeOK, MachineTypeOK, Kill, Kill9, Alive
<1>3. ASSUME NEW q \in Pids, Bind(q) \/ Die(q)
      PROVE  procs'[p].dep = procs[p].dep /\ (~Alive(p) => ~Alive(p)')
  BY <1>3 DEF IInv, TypeOK, MachineTypeOK, Bind, Die, Alive
<1>4. CASE UNCHANGED procs
  BY <1>4 DEF Alive
<1>5. ASSUME NEW r \in Runners, StartStep(r) \/ StopStep(r) \/ Return(r), ~Launch(r), ~Kill(r), ~Kill9(r)
      PROVE  UNCHANGED procs
  <2>1. Prepare(r) => UNCHANGED procs
    BY DEF Prepare, MakeDirs, CheckModel, BeginDownload, EndDownload, CheckBinary, CheckPort, machine
  <2>2. ReadPid(r) \/ Verify(r) \/ ReadStop(r) \/ Recheck(r) \/ RemovePid(r) \/ Return(r) => UNCHANGED procs
    BY DEF ReadPid, Verify, ReadStop, Recheck, RemovePid, Return, machine
  <2> QED BY <1>5, <2>1, <2>2 DEF StartStep, StopStep
<1>6. Request \/ Crash \/ UNCHANGED vars => UNCHANGED procs
  BY DEF Request, Begin, Crash, vars, machine
<1>7. \A q \in Pids : ~Recycle(q)
  BY DEF Recycle
<1> QED BY <1>1, <1>2, <1>3, <1>4, <1>5, <1>6, <1>7 DEF Next

(* What a request knows stays as it is until it takes its next step.       *)
LEMMA OthersStay ==
  ASSUME IInv, [Next]_vars, NEW r \in Runners,
         ~ \E d \in Deployments, op \in {"start", "stop"} : Begin(r, op, d),
         ~ StartStep(r), ~ StopStep(r), ~ Return(r), ~ Crash
  PROVE  pc'[r] = pc[r] /\ run'[r] = run[r]
<1>1. ASSUME NEW q \in Runners, q # r, StartStep(q) \/ StopStep(q) \/ Return(q)
      PROVE  pc'[r] = pc[r] /\ run'[r] = run[r]
  <2>1. \E label : pc' = [pc EXCEPT ![q] = label]
    <3>1. Prepare(q) => \E label : pc' = [pc EXCEPT ![q] = label]
      BY DEF Prepare, MakeDirs, CheckModel, BeginDownload, EndDownload, CheckBinary, CheckPort, Goto
    <3>2. Launch(q) \/ ReadPid(q) \/ Verify(q) => \E label : pc' = [pc EXCEPT ![q] = label]
      BY DEF Launch, ReadPid, Verify, Goto
    <3>3. StopStep(q) \/ Return(q) => \E label : pc' = [pc EXCEPT ![q] = label]
      BY DEF StopStep, ReadStop, Kill, Recheck, Kill9, RemovePid, Return, Goto
    <3> QED BY <1>1, <3>1, <3>2, <3>3 DEF StartStep
  <2>2. run' = run \/ \E value : run' = [run EXCEPT ![q] = value]
    <3>1. Prepare(q) => run' = run
      BY DEF Prepare, MakeDirs, CheckModel, BeginDownload, EndDownload, CheckBinary, CheckPort
    <3>2. Launch(q) \/ ReadPid(q) \/ Verify(q) => run' = run \/ \E value : run' = [run EXCEPT ![q] = value]
      BY Zenon DEF Launch, ReadPid, Verify
    <3>3. StopStep(q) \/ Return(q) => run' = run \/ \E value : run' = [run EXCEPT ![q] = value]
      BY Zenon DEF StopStep, ReadStop, Kill, Recheck, Kill9, RemovePid, Return
    <3> QED BY <1>1, <3>1, <3>2, <3>3 DEF StartStep
  <2> QED BY <1>1, <2>1, <2>2 DEF IInv, TypeOK, MachineTypeOK
<1>2. ASSUME NEW q \in Runners, NEW d \in Deployments, NEW op \in {"start", "stop"}, Begin(q, op, d), q # r
      PROVE  pc'[r] = pc[r] /\ run'[r] = run[r]
  BY <1>2 DEF IInv, TypeOK, MachineTypeOK, Begin, Goto
<1>3. (\E p \in Pids : Bind(p) \/ Die(p) \/ Recycle(p)) \/ UNCHANGED vars => pc' = pc /\ run' = run
  BY DEF Bind, Die, Recycle, vars
<1> QED BY <1>1, <1>2, <1>3 DEF Next, Request

LEMMA NamedStep ==
  ASSUME IInv, NamedRight, [Next]_vars
  PROVE  NamedRight'
<1> USE ConstantFacts
<1> SUFFICES ASSUME "reuse" \notin world PROVE NamedRight'
  BY WorldStays DEF NamedRight
<1>1. ASSUME NEW n \in Names, pidFile'[n] # NoPid
      PROVE  /\ procs'[pidFile'[n]].dep \in Deployments
             /\ NameOf[procs'[pidFile'[n]].dep] = n
  <2>1. CASE pidFile'[n] = pidFile[n]
    BY <1>1, <2>1, ProcessStays DEF IInv, TypeOK, MachineTypeOK, NamedRight
  <2>2. ASSUME NEW r \in Runners, Launch(r), pidFile'[n] # pidFile[n]
        PROVE  /\ procs'[pidFile'[n]].dep \in Deployments
               /\ NameOf[procs'[pidFile'[n]].dep] = n
    <3>1. run[r].dep \in Deployments
      BY <2>2, RunFacts DEF Launch
    <3> QED BY <2>2, <3>1 DEF IInv, TypeOK, MachineTypeOK, Launch
  <2>3. ASSUME NEW r \in Runners, RemovePid(r)
        PROVE  pidFile'[n] = pidFile[n]
    BY <1>1, <2>3 DEF IInv, TypeOK, MachineTypeOK, RemovePid
  <2> QED BY <2>1, <2>2, <2>3
       DEF Next, vars, machine, Request, Begin, Return, StartStep, Prepare, MakeDirs, CheckModel,
       BeginDownload, EndDownload, CheckBinary, CheckPort, ReadPid, Verify, StopStep,
       ReadStop, Kill, Kill9, Recheck, Bind, Die, Recycle, Crash
<1>2. ASSUME NEW r \in Runners, pc'[r] \in Killing
      PROVE  OwnProcess(r)'
  <2>1. CASE pc[r] \in Killing /\ run'[r] = run[r]
    <3>1. run[r].pid \in Pids /\ OwnProcess(r)
      BY <2>1 DEF IInv, Where, Killing, NamedRight
    <3> QED BY <2>1, <3>1, ProcessStays DEF OwnProcess
  <2>2. CASE ReadStop(r)
    <3>1. PidFile(r) # NoPid /\ run'[r].pid = PidFile(r) /\ run'[r].dep = run[r].dep
      BY <1>2, <2>2, RunFacts, PidFacts DEF IInv, TypeOK, ReadStop, Goto, Killing
    <3>2. NameOf[run[r].dep] \in Names /\ PidFile(r) \in Pids
      BY <2>2, <3>1, RunFacts DEF ReadStop
    <3> QED BY <2>2, <3>1, <3>2 DEF ReadStop, machine, OwnProcess, NamedRight, PidFile
  <2>3. ASSUME StopStep(r), ~ReadStop(r)
        PROVE  pc[r] \in Killing /\ run'[r] = run[r]
    BY <2>3 DEF StopStep, Kill, Recheck, Kill9, RemovePid, Killing
  <2>4. ASSUME \/ StartStep(r) \/ Return(r) \/ Crash
               \/ \E d \in Deployments, op \in {"start", "stop"} : Begin(r, op, d)
        PROVE  FALSE
    BY <1>2, <2>4 DEF IInv, TypeOK, StartStep, Prepare, MakeDirs, CheckModel, BeginDownload,
       EndDownload, CheckBinary, CheckPort, Launch, ReadPid, Verify, Return, Crash, Begin, Goto,
       Killing
  <2> QED BY <1>2, <2>1, <2>2, <2>3, <2>4, OthersStay
<1> QED BY <1>1, <1>2 DEF NamedRight, Killing

(* The way to the pid file's removal is through a kill that was answered.  *)
LEMMA KillsStep ==
  ASSUME IInv, NamedRight, StopKills, [Next]_vars
  PROVE  StopKills'
<1> USE ConstantFacts
<1> SUFFICES ASSUME world \cap {"fault", "reuse"} = {}, NEW r \in Runners, pc'[r] = "rmpid"
             PROVE  ~Alive(run[r].pid)' /\ run'[r] = run[r]
  BY WorldStays DEF StopKills, Alive
<1>1. CASE Recheck(r)
  BY <1>1 DEF IInv, TypeOK, Recheck, Goto, Faulty, machine, Alive
<1>2. CASE Kill9(r)
  <2>1. run[r].pid \in Pids
    BY <1>2 DEF IInv, Where, Kill9
  <2> QED BY <1>2, <2>1 DEF IInv, TypeOK, MachineTypeOK, Kill9, Faulty, Alive
<1>3. CASE pc[r] = "rmpid" /\ run'[r] = run[r]
  <2>1. run[r].pid \in Pids /\ OwnProcess(r) /\ ~Alive(run[r].pid)
    BY <1>3 DEF IInv, Where, NamedRight, StopKills, Killing
  <2> QED BY <1>3, <2>1, ProcessStays DEF OwnProcess, Alive
<1>4. ASSUME \/ StartStep(r) \/ ReadStop(r) \/ Kill(r) \/ RemovePid(r) \/ Return(r) \/ Crash
             \/ \E d \in Deployments, op \in {"start", "stop"} : Begin(r, op, d)
      PROVE  FALSE
  BY <1>4 DEF IInv, TypeOK, StartStep, Prepare, MakeDirs, CheckModel, BeginDownload,
     EndDownload, CheckBinary, CheckPort, Launch, ReadPid, Verify, ReadStop, Kill, RemovePid,
     Return, Crash, Begin, Goto
<1> QED BY <1>1, <1>2, <1>3, <1>4, OthersStay DEF StopStep

(* Type correctness, of the executor's state and the machine's.            *)
THEOREM SSHTypeCorrect == Spec => []TypeOK
BY Invariance, PTL DEF IInv

LEMMA NamedInvariance == Spec => [](NamedRight /\ StopKills)
<1>1. Init => NamedRight /\ StopKills
  BY ConstantFacts DEF Init, MachineInit, NamedRight, StopKills, Killing
<1>2. IInv /\ NamedRight /\ StopKills /\ [Next]_vars => (NamedRight /\ StopKills)'
  BY NamedStep, KillsStep
<1> QED BY <1>1, <1>2, Invariance, PTL DEF Spec

(* As long as pids are not reused, a Stop only ever signals processes that *)
(* were started under its deployment's name: kill, kill -0 and kill -9.    *)
THEOREM SSHStopHitsOwn == Spec => []StopHitsOwn
<1>1. NamedRight => StopHitsOwn
  BY DEF NamedRight, StopHitsOwn, Killing
<1> QED BY <1>1, NamedInvariance, PTL

(* If commands are answered too, the process whose pid a Stop has read is  *)
(* dead before its pid file is removed.                                    *)
THEOREM SSHStopKills == Spec => []StopKills
BY NamedInvariance, PTL

(* An incomplete model file is one that the curl which truncated it last   *)
(* is writing, where commands are answered and the control plane lives.    *)
THEOREM SSHPartialIsDownloading == Spec => []PartialIsDownloading
<1>1. Init => PartialIsDownloading
  BY DEF Init, MachineInit, PartialIsDownloading
<1>2. ASSUME IInv, PartialIsDownloading, [Next]_vars
      PROVE  PartialIsDownloading'
  <2> SUFFICES ASSUME world \cap {"fault", "crash"} = {}, modelFile' = "partial"
               PROVE  \E r \in Runners : pc'[r] = "download" /\ downloader' = r
    BY <1>2, WorldStays DEF PartialIsDownloading
  <2>1. ASSUME NEW r \in Runners, BeginDownload(r)
        PROVE  pc'[r] = "download" /\ downloader' = r
    BY <1>2, <2>1 DEF IInv, TypeOK, BeginDownload, Faulty, Goto
  <2>2. ASSUME NEW r \in Runners, EndDownload(r)
        PROVE  \E q \in Runners : pc'[q] = "download" /\ downloader' = q
    BY <1>2, <2>2 DEF IInv, TypeOK, PartialIsDownloading, EndDownload, Downloaded,
       Faulty, Goto
  <2>3. ASSUME UNCHANGED <<modelFile, downloader>>,
               \A q \in Runners : pc[q] = "download" => pc'[q] = "download"
        PROVE  \E q \in Runners : pc'[q] = "download" /\ downloader' = q
    BY <1>2, <2>3 DEF PartialIsDownloading
  <2>4. ASSUME NEW r \in Runners,
               \/ MakeDirs(r) \/ CheckModel(r) \/ CheckBinary(r) \/ CheckPort(r) \/ Launch(r)
               \/ ReadPid(r) \/ Verify(r) \/ StopStep(r) \/ Return(r)
               \/ \E d \in Deployments, op \in {"start", "stop"} : Begin(r, op, d)
        PROVE  /\ UNCHANGED <<modelFile, downloader>>
               /\ \A q \in Runners : pc[q] = "download" => pc'[q] = "download"
    <3>1. /\ MakeDirs(r) \/ CheckModel(r) \/ CheckBinary(r) \/ CheckPort(r) =>
               pc[r] # "download" /\ UNCHANGED <<modelFile, downloader>>
          /\ Launch(r) \/ ReadPid(r) \/ Verify(r) =>
               pc[r] # "download" /\ UNCHANGED <<modelFile, downloader>>
          /\ StopStep(r) \/ Return(r) =>
               pc[r] # "download" /\ UNCHANGED <<modelFile, downloader>>
          /\ \A d \in Deployments, op \in {"start", "stop"} : Begin(r, op, d) =>
               pc[r] # "download" /\ UNCHANGED <<modelFile, downloader>>
      BY DEF MakeDirs, CheckModel, CheckBinary, CheckPort, Launch, ReadPid, Verify,
           StopStep, ReadStop, Kill, Recheck, Kill9, RemovePid, Return, Begin, machine
    <3>2. \E label : pc' = [pc EXCEPT ![r] = label]
      <4>1. MakeDirs(r) \/ CheckModel(r) \/ CheckBinary(r) \/ CheckPort(r) =>
              \E label : pc' = [pc EXCEPT ![r] = label]
        BY DEF MakeDirs, CheckModel, CheckBinary, CheckPort, Goto
      <4>2. Launch(r) \/ ReadPid(r) \/ Verify(r) \/ StopStep(r) \/ Return(r) =>
              \E label : pc' = [pc EXCEPT ![r] = label]
        BY DEF Launch, ReadPid, Verify, StopStep, ReadStop, Kill, Recheck, Kill9, RemovePid,
               Return, Goto
      <4>3. \A d \in Deployments, op \in {"start", "stop"} : Begin(r, op, d) =>
              \E label : pc' = [pc EXCEPT ![r] = label]
        BY DEF Begin, Goto
      <4> QED BY <2>4, <4>1, <4>2, <4>3
    <3> QED BY <1>2, <2>4, <3>1, <3>2 DEF IInv, TypeOK
  <2>5. (\E p \in Pids : Bind(p) \/ Die(p) \/ Recycle(p)) \/ UNCHANGED vars =>
          UNCHANGED <<modelFile, downloader, pc>>
    BY DEF Bind, Die, Recycle, vars, machine
  <2>6. ~Crash
    BY DEF Crash
  <2> QED BY <1>2, <2>1, <2>2, <2>3, <2>4, <2>5, <2>6 DEF Next, Request, StartStep, Prepare
<1> QED BY <1>1, <1>2, Invariance, PTL DEF Spec

-----------------------------------------------------------------------------
(* In an orderly world.                                                    *)

LEMMA OrderlyFacts ==
  ASSUME Orderly
  PROVE  /\ "overlap" \notin world /\ "slow" \notin world /\ "crash" \notin world
         /\ ~Faulty
         /\ \A d, e \in Deployments : NameOf[d] = NameOf[e] => PortOf[d] = PortOf[e]
BY DEF Orderly, NamesSharePort, Faulty

(* A request goes on, and perhaps ends a process, without touching a pid   *)
(* file: what the others know stays true.                                  *)
LEMMA TurnKeepsOrder ==
  ASSUME IInv, Orderly, OrderlyInv, NEW r \in Runners,
         pc[r] # "idle", run'[r].dep = run[r].dep,
         \A q \in Runners \ {r} : pc'[q] = pc[q] /\ run'[q] = run[q],
         \A p \in Pids : procs'[p] = procs[p] \/ procs'[p].state = "dead",
         UNCHANGED pidFile,
         \/ pc[r] \notin Waiting
         \/ procs[run[r].own].state # "starting"
         \/ pc'[r] \in Waiting /\ run'[r].own = run[r].own,
         Fits(r)'
  PROVE  OrderlyInv'
<1>1. \A p \in Pids : Alive(p)' => Alive(p) /\ procs'[p] = procs[p]
  BY DEF Alive
<1>2. TakeTurns'
  BY DEF OrderlyInv, TakeTurns
<1>3. Tracked'
  BY <1>1 DEF OrderlyInv, Tracked
<1>4. Awaited'
  <2> SUFFICES ASSUME NEW p \in Pids, procs'[p].state = "starting"
               PROVE  \E q \in Runners : pc'[q] \in Waiting /\ run'[q].own = p
    BY DEF Awaited
  <2>1. PICK q \in Runners : pc[q] \in Waiting /\ run[q].own = p
    BY <1>1 DEF OrderlyInv, Awaited, Alive
  <2> QED BY <2>1, <1>1 DEF Alive
<1>5. ASSUME NEW q \in Runners \ {r}
      PROVE  Fits(q)'
  <2>1. Fits(q) /\ pc'[q] = pc[q] /\ run'[q] = run[q]
    BY DEF OrderlyInv
  <2>2. run[q].own # NoPid => run[q].own \in Pids
    BY DEF IInv, TypeOK, MachineTypeOK
  <2>3. NoneAlive(NameOf[run[q].dep]) => NoneAlive(NameOf[run[q].dep])'
    BY <1>1, <2>1 DEF NoneAlive
  <2> QED BY <1>1, <2>1, <2>2, <2>3 DEF Fits, PidFile
<1> QED BY <1>2, <1>3, <1>4, <1>5 DEF OrderlyInv

LEMMA RequestOrderly ==
  ASSUME IInv, Orderly, OrderlyInv, NEW r \in Runners,
         Return(r) \/ \E d \in Deployments, op \in {"start", "stop"} : Begin(r, op, d)
  PROVE  OrderlyInv'
<1>1. /\ \A q \in Runners \ {r} : pc'[q] = pc[q] /\ run'[q] = run[q]
      /\ UNCHANGED <<procs, pidFile>>
      /\ pc[r] \notin Waiting
      /\ pc'[r] \in {"idle", "mkdir", "readstop"}
  BY DEF IInv, TypeOK, MachineTypeOK, Return, Begin, Goto, machine, Waiting
<1>2. TakeTurns'
  <2>1. CASE Return(r)
    BY <1>1, <2>1 DEF IInv, TypeOK, Return, Goto, OrderlyInv, TakeTurns
  <2>2. ASSUME NEW d \in Deployments, NEW op \in {"start", "stop"}, Begin(r, op, d)
        PROVE  TakeTurns'
    <3>1. run'[r].dep = d
      BY <2>2 DEF IInv, TypeOK, MachineTypeOK, Begin
    <3>2. \A q \in Runners : pc[q] # "idle" => NameOf[run[q].dep] # NameOf[d]
      BY <2>2, OrderlyFacts DEF Begin
    <3> QED BY <1>1, <3>1, <3>2 DEF OrderlyInv, TakeTurns
  <2> QED BY <2>1, <2>2
<1>3. Tracked' /\ Awaited'
  BY <1>1 DEF OrderlyInv, Tracked, Awaited, Alive
<1>4. \A q \in Runners : Fits(q)'
  BY <1>1 DEF OrderlyInv, Fits, NoneAlive, PidFile, Alive, Waiting, Killing
<1> QED BY <1>2, <1>3, <1>4 DEF OrderlyInv

(* Where the port is free, no server of the name is alive: one that serves *)
(* holds the port, and one that starts has its Start waiting for it.       *)
LEMMA FreePort ==
  ASSUME IInv, Orderly, OrderlyInv, NEW r \in Runners, pc[r] = "port",
         ~PortBusy(PortOf[run[r].dep])
  PROVE  NoneAlive(NameOf[run[r].dep])
<1> SUFFICES ASSUME NEW p \in Pids, Alive(p), NameOf[procs[p].dep] = NameOf[run[r].dep]
             PROVE  FALSE
  BY DEF NoneAlive
<1>1. procs[p].dep \in Deployments /\ run[r].dep \in Deployments
  BY RunFacts DEF IInv, Born, Alive, Free
<1>2. CASE procs[p].state = "serving"
  BY <1>1, <1>2, OrderlyFacts DEF PortBusy
<1>3. CASE procs[p].state = "starting"
  <2>1. PICK q \in Runners : pc[q] \in Waiting /\ run[q].own = p
    BY <1>3 DEF OrderlyInv, Awaited
  <2>2. procs[p].dep = run[q].dep
    BY <2>1, ConstantFacts DEF IInv, Keeps
  <2>3. q = r
    BY <2>1, <2>2 DEF OrderlyInv, TakeTurns, Waiting
  <2> QED BY <2>1, <2>3 DEF Waiting
<1> QED BY <1>2, <1>3 DEF Alive

LEMMA PrepareOrderly ==
  ASSUME IInv, Orderly, OrderlyInv, NEW r \in Runners, Prepare(r)
  PROVE  OrderlyInv'
<1>1. /\ pc[r] \in {"mkdir", "model", "curl", "download", "binary", "port"}
      /\ UNCHANGED <<run, procs, pidFile>>
  BY DEF Prepare, MakeDirs, CheckModel, BeginDownload, EndDownload, CheckBinary, CheckPort, machine
<1>2. PICK label \in {"model", "curl", "download", "binary", "port", "launch", "failed"} : Goto(r, label)
  BY DEF Prepare, MakeDirs, CheckModel, BeginDownload, EndDownload, CheckBinary, CheckPort
<1>3. /\ pc'[r] = label
      /\ \A q \in Runners \ {r} : pc'[q] = pc[q]
  BY <1>2 DEF IInv, TypeOK, Goto
<1>4. run[r].own = NoPid
  BY <1>1 DEF IInv, Where
<1>5. label = "launch" => NoneAlive(NameOf[run[r].dep])
  <2>1. label = "launch" => pc[r] = "port" /\ ~PortBusy(PortOf[run[r].dep])
    BY <1>3, OrderlyFacts DEF Prepare, MakeDirs, CheckModel, BeginDownload, EndDownload,
       CheckBinary, CheckPort, Goto, IInv, TypeOK
  <2> QED BY <2>1, FreePort
<1>6. Fits(r)'
  BY <1>1, <1>3, <1>4, <1>5 DEF Fits, NoneAlive, Alive, Waiting, Killing
<1> QED BY <1>1, <1>3, <1>6, TurnKeepsOrder DEF Waiting

LEMMA LaunchOrderly ==
  ASSUME IInv, Orderly, OrderlyInv, NEW r \in Runners, Launch(r)
  PROVE  OrderlyInv'
<1> USE ConstantFacts
<1> DEFINE d == run[r].dep
           n == NameOf[d]
<1>1. PICK p \in Pids :
        /\ procs[p] = Free
        /\ procs' = [procs EXCEPT ![p] = [dep |-> d, state |-> "starting"]]
        /\ pidFile' = [pidFile EXCEPT ![n] = p]
        /\ run' = [run EXCEPT ![r].own = p]
        /\ pc' = [pc EXCEPT ![r] = "readpid"]
  BY OrderlyFacts DEF Launch, Goto
<1>2. pc[r] = "launch" /\ NoneAlive(n) /\ d \in Deployments /\ n \in Names
  BY RunFacts DEF Launch, OrderlyInv, Fits
<1>3. /\ pc'[r] = "readpid" /\ run'[r].dep = d /\ run'[r].own = p
      /\ \A q \in Runners \ {r} : pc'[q] = pc[q] /\ run'[q] = run[q]
  BY <1>1, PidFacts DEF IInv, TypeOK
<1>4. /\ procs'[p].dep = d /\ procs'[p].state = "starting" /\ ~Alive(p)
      /\ \A x \in Pids \ {p} : procs'[x] = procs[x]
  BY <1>1 DEF IInv, TypeOK, MachineTypeOK, Alive
<1>5. /\ pidFile'[n] = p
      /\ \A m \in Names \ {n} : pidFile'[m] = pidFile[m]
  BY <1>1, <1>2 DEF IInv, TypeOK, MachineTypeOK
<1>6. TakeTurns'
  BY <1>2, <1>3 DEF OrderlyInv, TakeTurns
<1>7. Tracked'
  <2> SUFFICES ASSUME NEW x \in Pids, Alive(x)'
               PROVE  pidFile'[NameOf[procs'[x].dep]] = x
    BY DEF Tracked
  <2>1. CASE x = p
    BY <2>1, <1>4, <1>5
  <2>2. CASE x # p
    <3>1. Alive(x) /\ procs'[x] = procs[x]
      BY <2>2, <1>4 DEF Alive
    <3>2. pidFile[NameOf[procs[x].dep]] = x /\ NameOf[procs[x].dep] \in Names \ {n}
      BY <3>1, <1>2 DEF OrderlyInv, Tracked, NoneAlive, IInv, Born, Alive, Free
    <3> QED BY <3>1, <3>2, <1>5
  <2> QED BY <2>1, <2>2
<1>8. Awaited'
  <2> SUFFICES ASSUME NEW x \in Pids, procs'[x].state = "starting"
               PROVE  \E q \in Runners : pc'[q] \in Waiting /\ run'[q].own = x
    BY DEF Awaited
  <2>1. CASE x = p
    BY <2>1, <1>3 DEF Waiting
  <2>2. CASE x # p
    <3>1. PICK q \in Runners : pc[q] \in Waiting /\ run[q].own = x
      BY <2>2, <1>4 DEF OrderlyInv, Awaited
    <3>2. q # r
      BY <3>1, <1>2 DEF Waiting
    <3> QED BY <3>1, <3>2, <1>3
  <2> QED BY <2>1, <2>2
<1>9. ASSUME NEW q \in Runners
      PROVE  Fits(q)'
  <2>1. CASE q = r
    BY <2>1, <1>3, <1>5 DEF Fits, PidFile, Waiting, Killing
  <2>2. CASE q # r /\ pc[q] = "idle"
    BY <2>2, <1>3 DEF Fits, Waiting, Killing
  <2>3. CASE q # r /\ pc[q] # "idle"
    <3>1. Fits(q) /\ pc'[q] = pc[q] /\ run'[q] = run[q]
      BY <2>3, <1>3 DEF OrderlyInv
    <3>2. NameOf[run[q].dep] \in Names \ {n}
      BY <2>3, <1>2, RunFacts DEF OrderlyInv, TakeTurns
    <3>3. NoneAlive(NameOf[run[q].dep]) => NoneAlive(NameOf[run[q].dep])'
      BY <3>1, <3>2, <1>4 DEF NoneAlive, Alive
    <3>4. PidFile(q)' = PidFile(q)
      BY <3>1, <3>2, <1>5 DEF PidFile
    <3>5. run[q].own # NoPid => run[q].own \in Pids \ {p}
      <4>1. run[q].dep \in Deployments
        BY <2>3, RunFacts
      <4>2. run[q].own \in Pids \cup {NoPid}
        BY DEF IInv, TypeOK, MachineTypeOK
      <4>3. procs[p].dep \notin Deployments
        BY <1>1
      <4> QED BY <4>1, <4>2, <4>3 DEF IInv, Keeps
    <3>6. run[q].own # NoPid /\ ~Alive(run[q].own) => ~Alive(run[q].own)'
      BY <3>1, <3>5, <1>4 DEF Alive
    <3> QED BY <3>1, <3>3, <3>4, <3>6 DEF Fits
  <2> QED BY <2>1, <2>2, <2>3
<1> QED BY <1>6, <1>7, <1>8, <1>9 DEF OrderlyInv

LEMMA StartOrderly ==
  ASSUME IInv, Orderly, OrderlyInv, NEW r \in Runners, ReadPid(r) \/ Verify(r)
  PROVE  OrderlyInv'
<1> USE OrderlyFacts
<1>1. CASE ReadPid(r)
  <2>1. /\ pc[r] = "readpid" /\ PidFile(r) = run[r].own /\ PidFile(r) \in Pids \cup {NoPid}
        /\ run' = [run EXCEPT ![r].pid = PidFile(r)]
        /\ pc' = [pc EXCEPT ![r] = "verify"]
        /\ UNCHANGED <<procs, pidFile>>
    BY <1>1, RunFacts DEF ReadPid, OrderlyInv, Fits, Waiting, Goto, machine
  <2> DEFINE p == PidFile(r)
  <2>2. /\ run'[r].dep = run[r].dep /\ run'[r].own = run[r].own /\ run'[r].pid = p
        /\ \A q \in Runners \ {r} : run'[q] = run[q]
    <3>1. p \in Pids \cup {NoPid} /\ run' = [run EXCEPT ![r].pid = p]
      BY <2>1
    <3> HIDE DEF p
    <3> QED BY <3>1, PidFacts
  <2>3. pc'[r] = "verify" /\ \A q \in Runners \ {r} : pc'[q] = pc[q]
    BY <2>1 DEF IInv, TypeOK
  <2>4. Fits(r)'
    BY <2>1, <2>2, <2>3 DEF Fits, PidFile, Waiting, Killing
  <2> QED BY <2>1, <2>2, <2>3, <2>4, TurnKeepsOrder DEF Waiting
<1>2. CASE Verify(r)
  <2>1. /\ pc[r] = "verify" /\ run[r].pid = run[r].own /\ run[r].own \in Pids
        /\ procs[run[r].own].state # "starting"
        /\ UNCHANGED <<run, procs, pidFile>>
    BY <1>2 DEF Verify, OrderlyInv, Fits, IInv, Where, machine
  <2>2. /\ pc'[r] = "started" \/ (pc'[r] = "failed" /\ ~Alive(run[r].own))
        /\ \A q \in Runners \ {r} : pc'[q] = pc[q]
    BY <1>2, <2>1 DEF Verify, Goto, Signalled, IInv, TypeOK
  <2>3. Fits(r)'
    BY <2>1, <2>2 DEF Fits, Alive, Waiting, Killing
  <2> QED BY <2>1, <2>2, <2>3, TurnKeepsOrder
<1> QED BY <1>1, <1>2

LEMMA StopOrderly ==
  ASSUME IInv, Orderly, OrderlyInv, NEW r \in Runners, StopStep(r)
  PROVE  OrderlyInv'
<1> USE OrderlyFacts
<1>1. /\ pc[r] \in {"readstop"} \cup Killing
      /\ run[r].own = NoPid /\ run[r].dep \in Deployments /\ NameOf[run[r].dep] \in Names
  BY RunFacts DEF StopStep, ReadStop, Kill, Recheck, Kill9, RemovePid, Killing, IInv, Where
<1>2. pc[r] \notin Waiting /\ pc[r] # "idle"
  BY <1>1 DEF Killing, Waiting
<1>3. pc[r] \in Killing => run[r].pid \in Pids /\ pidFile[NameOf[run[r].dep]] = run[r].pid
  BY DEF IInv, Where, OrderlyInv, Fits, PidFile, Killing
<1>4. PICK label : pc' = [pc EXCEPT ![r] = label]
  BY DEF StopStep, ReadStop, Kill, Recheck, Kill9, RemovePid, Goto
<1>5. pc'[r] = label /\ \A q \in Runners \ {r} : pc'[q] = pc[q]
  BY <1>4 DEF IInv, TypeOK
<1>6. ASSUME run' = run, pc[r] \in Killing, Alive(run[r].pid) => procs'[run[r].pid].state = "dead",
             \A p \in Pids : procs'[p] = procs[p] \/ procs'[p].state = "dead"
      PROVE  NoneAlive(NameOf[run[r].dep])'
  BY <1>3, <1>6 DEF OrderlyInv, Tracked, NoneAlive, Alive
<1>7. CASE ReadStop(r)
  <2> DEFINE p == PidFile(r)
  <2>1. p \in Pids \cup {NoPid}
    BY <1>2, RunFacts
  <2>2. \/ label = "stopped" /\ run' = run
        \/ label = "kill" /\ run' = [run EXCEPT ![r].pid = p]
    BY <1>5, <1>7 DEF ReadStop, Goto, IInv, TypeOK
  <2>3. /\ run'[r].dep = run[r].dep /\ run'[r].own = NoPid
        /\ label = "kill" => run'[r].pid = p
        /\ \A q \in Runners \ {r} : run'[q] = run[q]
    <3> HIDE DEF p
    <3> QED BY <1>1, <2>1, <2>2, PidFacts
  <2>4. UNCHANGED <<procs, pidFile>>
    BY <1>7 DEF ReadStop, machine
  <2>5. Fits(r)'
    BY <1>5, <2>2, <2>3, <2>4 DEF Fits, PidFile, Waiting, Killing
  <2> QED BY <1>2, <1>5, <2>3, <2>4, <2>5, TurnKeepsOrder
<1>8. CASE Recheck(r)
  <2>1. /\ UNCHANGED <<run, procs, pidFile>> /\ pc[r] = "recheck"
        /\ label = "kill9" \/ (label = "rmpid" /\ ~Alive(run[r].pid))
    BY <1>5, <1>8 DEF Recheck, Goto, IInv, TypeOK, machine
  <2>2. label = "rmpid" => NoneAlive(NameOf[run[r].dep])'
    BY <1>6, <2>1 DEF Killing
  <2>3. Fits(r)'
    BY <1>3, <1>5, <2>1, <2>2 DEF Fits, PidFile, Waiting, Killing
  <2> QED BY <1>2, <1>5, <2>1, <2>3, TurnKeepsOrder
<1>9. CASE Kill(r) \/ Kill9(r)
  <2>1. /\ UNCHANGED <<run, pidFile>>
        /\ \A p \in Pids : procs'[p] = procs[p] \/ procs'[p].state = "dead"
    BY <1>9 DEF Kill, Kill9, IInv, TypeOK, MachineTypeOK
  <2>2. /\ pc[r] \in Killing
        /\ label = "recheck" \/ label = "rmpid"
        /\ label = "rmpid" /\ Alive(run[r].pid) => procs'[run[r].pid].state = "dead"
    BY <1>3, <1>5, <1>9 DEF Kill, Kill9, Goto, IInv, TypeOK, MachineTypeOK, Killing, Alive
  <2>3. label = "rmpid" => NoneAlive(NameOf[run[r].dep])'
    BY <1>6, <2>1, <2>2
  <2>4. Fits(r)'
    BY <1>3, <1>5, <2>1, <2>2, <2>3 DEF Fits, PidFile, Waiting, Killing
  <2> QED BY <1>2, <1>5, <2>1, <2>4, TurnKeepsOrder
<1>10. CASE RemovePid(r)
  <2> DEFINE n == NameOf[run[r].dep]
  <2>1. /\ NoneAlive(n) /\ pc[r] = "rmpid" /\ label = "stopped"
        /\ pidFile' = [pidFile EXCEPT ![n] = NoPid]
        /\ UNCHANGED <<run, procs>>
    BY <1>5, <1>10 DEF RemovePid, OrderlyInv, Fits, Goto, IInv, TypeOK
  <2>2. \A m \in Names \ {n} : pidFile'[m] = pidFile[m]
    BY <1>1, <2>1 DEF IInv, TypeOK, MachineTypeOK
  <2>3. TakeTurns'
    BY <1>2, <1>5, <2>1 DEF OrderlyInv, TakeTurns
  <2>4. Tracked'
    BY <2>1, <2>2, ConstantFacts DEF OrderlyInv, Tracked, NoneAlive, IInv, Born, Alive, Free
  <2>5. Awaited'
    BY <1>2, <1>5, <2>1 DEF OrderlyInv, Awaited
  <2>6. ASSUME NEW q \in Runners
        PROVE  Fits(q)'
    <3>1. CASE q = r
      BY <3>1, <1>1, <1>5, <2>1 DEF Fits, Waiting, Killing
    <3>2. CASE q # r /\ pc[q] = "idle"
      BY <3>2, <1>5 DEF Fits, Waiting, Killing
    <3>3. CASE q # r /\ pc[q] # "idle"
      <4>1. NameOf[run[q].dep] \in Names \ {n}
        BY <3>3, <1>2, RunFacts DEF OrderlyInv, TakeTurns
      <4> QED BY <3>3, <4>1, <1>5, <2>1, <2>2 DEF OrderlyInv, Fits, PidFile, NoneAlive, Alive
    <3> QED BY <3>1, <3>2, <3>3
  <2> QED BY <2>3, <2>4, <2>5, <2>6 DEF OrderlyInv
<1> QED BY <1>7, <1>8, <1>9, <1>10 DEF StopStep

LEMMA MachineOrderly ==
  ASSUME IInv, Orderly, OrderlyInv, NEW p \in Pids, Bind(p) \/ Die(p) \/ Recycle(p)
  PROVE  OrderlyInv'
<1>1. /\ UNCHANGED <<pc, run, pidFile>>
      /\ \A x \in Pids \ {p} : procs'[x] = procs[x]
      /\ procs'[p].state # "starting"
      /\ Alive(p)' => Alive(p) /\ procs'[p].dep = procs[p].dep
  BY DEF Bind, Die, Recycle, IInv, TypeOK, MachineTypeOK, Alive, Free
<1>2. \A x \in Pids : Alive(x)' => Alive(x) /\ procs'[x].dep = procs[x].dep
  BY <1>1 DEF Alive
<1>3. TakeTurns' /\ Tracked' /\ Awaited'
  BY <1>1, <1>2 DEF OrderlyInv, TakeTurns, Tracked, Awaited
<1>4. ASSUME NEW q \in Runners
      PROVE  Fits(q)'
  <2>1. run[q].own # NoPid => run[q].own \in Pids
    BY DEF IInv, TypeOK, MachineTypeOK
  <2> QED BY <1>1, <1>2, <2>1 DEF OrderlyInv, Fits, NoneAlive, PidFile
<1> QED BY <1>3, <1>4 DEF OrderlyInv

LEMMA OrderlyInvariance == Spec => []OrderlyInv
<1>1. Init => OrderlyInv
  BY ConstantFacts DEF Init, MachineInit, OrderlyInv, TakeTurns, Awaited, Tracked, Fits, Alive,
     Waiting, Killing
<1>2. ASSUME IInv, OrderlyInv, [Next]_vars
      PROVE  OrderlyInv'
  <2> SUFFICES ASSUME Orderly PROVE OrderlyInv'
    BY <1>2, WorldStays DEF Orderly, OrderlyInv
  <2>1. CASE UNCHANGED vars
    BY <1>2, <2>1 DEF vars, machine, OrderlyInv, TakeTurns, Awaited, Tracked, Fits, NoneAlive,
       PidFile, Alive
  <2>2. ~Crash
    BY OrderlyFacts DEF Crash
  <2> QED BY <1>2, <2>1, <2>2, RequestOrderly, PrepareOrderly, LaunchOrderly, StartOrderly,
       StopOrderly, MachineOrderly DEF Next, Request, StartStep
<1> QED BY <1>1, <1>2, Invariance, PTL DEF Spec

(* In an orderly world no server is ever lost: the pid file of its name    *)
(* holds the pid of every process that is alive, though pids are reused.   *)
THEOREM SSHTracked == Spec => []Tracked
<1>1. OrderlyInv => Tracked
  BY DEF OrderlyInv, Tracked
<1> QED BY <1>1, OrderlyInvariance, PTL

(* In an orderly world a Start that reports failure leaves no server of    *)
(* its own behind.                                                         *)
THEOREM SSHFailedLeavesNothing == Spec => []FailedLeavesNothing
<1>1. OrderlyInv => FailedLeavesNothing
  BY DEF OrderlyInv, Fits, FailedLeavesNothing
<1> QED BY <1>1, OrderlyInvariance, PTL

(* ...and one that reports success has seen its own server serve.          *)
THEOREM SSHStartedServes == Spec => StartedServes
<1>1. ASSUME IInv, OrderlyInv, [Next]_vars
      PROVE  [\A r \in Runners : Orderly /\ pc[r] = "verify" /\ pc'[r] = "started" =>
                procs[run[r].own].state = "serving"]_vars
  <2> SUFFICES ASSUME NEW r \in Runners, Orderly, pc[r] = "verify", pc'[r] = "started"
               PROVE  procs[run[r].own].state = "serving"
    OBVIOUS
  <2> USE OrderlyFacts
  <2>1. Verify(r)
    <3>1. ~ReadPid(r) /\ ~Launch(r) /\ ~Prepare(r) /\ ~StopStep(r) /\ ~Return(r) /\ ~Crash
      BY DEF ReadPid, Launch, Prepare, MakeDirs, CheckModel, BeginDownload, EndDownload,
         CheckBinary, CheckPort, StopStep, ReadStop, Kill, Recheck, Kill9, RemovePid, Return,
         Crash
    <3>2. \A d \in Deployments, op \in {"start", "stop"} : ~Begin(r, op, d)
      BY DEF Begin
    <3> QED BY <1>1, <3>1, <3>2, OthersStay DEF StartStep
  <2>2. Signalled(run[r].pid) /\ procs[run[r].own].state # "starting"
    BY <1>1, <2>1 DEF Verify, Goto, IInv, TypeOK
  <2>3. run[r].pid = run[r].own /\ run[r].own \in Pids
    BY <1>1 DEF OrderlyInv, Fits, IInv, Where
  <2> QED BY <2>2, <2>3, ConstantFacts DEF Signalled, Alive
<1> QED BY <1>1, Invariance, OrderlyInvariance, PTL DEF Spec, StartedServes

-----------------------------------------------------------------------------
(* The refinement of Execution.                                            *)

Results == {"started", "failed", "stopped"}

\* r's request goes on to label, with the deployment it has.
GoesOn(r, label) ==
  /\ pc' = [pc EXCEPT ![r] = label]
  /\ run'[r].op = run[r].op /\ run'[r].dep = run[r].dep
  /\ \A q \in Runners \ {r} : run'[q] = run[q]

(* What the caller of a request sees of it.                                *)
LEMMA RequestGoesOn ==
  ASSUME IInv, NEW r \in Runners, pc[r] \notin {"idle"} \cup Results, NEW label, GoesOn(r, label)
  PROVE  /\ Promise!Waits(r, run[r].op)
         /\ Requests[r].name = NameOf[run[r].dep]
         /\ label \notin Results => Requests' = Requests
         /\ label \in Results => Requests' = [Requests EXCEPT ![r].result = label]
<1> DEFINE d == run[r].dep
<1>1. pc'[r] = label /\ \A q \in Runners \ {r} : pc'[q] = pc[q]
  BY DEF GoesOn, IInv, TypeOK
<1>2. run[r].op # "none"
  BY DEF IInv, Where
<1>3. RequestOf(r) = [op |-> run[r].op, name |-> NameOf[d], result |-> "none"]
  BY <1>2 DEF RequestOf, Results
<1>4. \A q \in Runners \ {r} : RequestOf(q)' = RequestOf(q)
  BY <1>1 DEF RequestOf, GoesOn
<1>5. RequestOf(r)' = [op |-> run[r].op, name |-> NameOf[d],
                       result |-> IF label \in Results THEN label ELSE "none"]
  BY <1>1, <1>2 DEF RequestOf, GoesOn, Results
<1>6. label \notin Results => Requests' = Requests
  BY <1>3, <1>4, <1>5 DEF Requests
<1>7. ASSUME label \in Results
      PROVE  Requests' = [Requests EXCEPT ![r].result = label]
  <2> DEFINE new == [op |-> run[r].op, name |-> NameOf[d], result |-> label]
  <2>1. [Requests[r] EXCEPT !.result = label] = new
    BY <1>3 DEF Requests
  <2>2. Requests' = [Requests EXCEPT ![r] = new]
    BY <1>4, <1>5, <1>7 DEF Requests
  <2> QED BY <2>1, <2>2
<1> QED BY <1>3, <1>6, <1>7 DEF Promise!Waits, Requests

(* What a process that starts, and one that does not, mean for the names   *)
(* that have a live server.                                                *)
LEMMA LiveStarts ==
  ASSUME IInv, NEW p \in Pids, NEW d \in Deployments, procs[p] = Free,
         procs' = [procs EXCEPT ![p] = [dep |-> d, state |-> "starting"]]
  PROVE  LiveNames' = LiveNames \cup {NameOf[d]}
<1>1. /\ ~Alive(p) /\ Alive(p)' /\ procs'[p].dep = d
      /\ \A q \in Pids \ {p} : procs'[q] = procs[q]
  BY DEF IInv, TypeOK, MachineTypeOK, Alive, Free
<1> QED BY <1>1 DEF LiveNames, Alive

LEMMA LiveEnds ==
  ASSUME IInv, NEW p \in Pids, \A q \in Pids \ {p} : procs'[q] = procs[q],
         Alive(p)' => Alive(p) /\ procs'[p].dep = procs[p].dep
  PROVE  \/ LiveNames' = LiveNames
         \/ \E n \in Names : LiveNames' = LiveNames \ {n}
<1>1. CASE \E q \in Pids \ {p} : Alive(q) /\ NameOf[procs[q].dep] = NameOf[procs[p].dep]
  BY <1>1 DEF LiveNames, Alive
<1>2. CASE ~Alive(p) \/ Alive(p)'
  BY <1>2 DEF LiveNames, Alive
<1>3. CASE /\ Alive(p) /\ ~Alive(p)'
           /\ \A q \in Pids \ {p} : Alive(q) => NameOf[procs[q].dep] # NameOf[procs[p].dep]
  <2>1. NameOf[procs[p].dep] \in Names
    BY <1>3, ConstantFacts DEF IInv, Born, Alive, Free
  <2>2. LiveNames' = LiveNames \ {NameOf[procs[p].dep]}
    BY <1>3 DEF LiveNames, Alive
  <2> QED BY <2>1, <2>2
<1> QED BY <1>1, <1>2, <1>3

LEMMA StartRefines ==
  ASSUME IInv, OrderlyInv, NEW r \in Runners, StartStep(r)
  PROVE  \/ \E n \in Names : Promise!Launch(n)
         \/ \E result \in {"started", "failed"} : Promise!FinishStart(r, result)
         \/ UNCHANGED <<Requests, LiveNames>>
<1> DEFINE n == NameOf[run[r].dep]
<1>1. pc[r] \in {"mkdir", "model", "curl", "download", "binary", "port", "launch", "readpid", "verify"}
  BY DEF StartStep, Prepare, MakeDirs, CheckModel, BeginDownload, EndDownload, CheckBinary,
     CheckPort, Launch, ReadPid, Verify
<1>2. run[r].op = "start" /\ run[r].dep \in Deployments /\ n \in Names
  BY <1>1, RunFacts DEF IInv, Where
<1>3. PICK label : /\ pc' = [pc EXCEPT ![r] = label]
                   /\ label \in Results => label \in {"started", "failed"}
  <2>1. CASE Prepare(r)
    BY <2>1 DEF Prepare, MakeDirs, CheckModel, BeginDownload, EndDownload, CheckBinary, CheckPort,
       Goto, Results
  <2>2. CASE Launch(r) \/ ReadPid(r) \/ Verify(r)
    BY <2>2 DEF Launch, ReadPid, Verify, Goto, Results
  <2> QED BY <2>1, <2>2 DEF StartStep
<1>4. pc'[r] = label
  BY <1>3 DEF IInv, TypeOK
<1>5. GoesOn(r, label)
  <2>1. CASE Prepare(r) \/ Verify(r)
    <3>1. run' = run
      BY <2>1 DEF Prepare, MakeDirs, CheckModel, BeginDownload, EndDownload, CheckBinary,
         CheckPort, Verify
    <3> QED BY <1>3, <3>1 DEF GoesOn
  <2>2. CASE Launch(r)
    <3>1. run' = run \/ \E p \in Pids : run' = [run EXCEPT ![r].own = p]
      BY <2>2 DEF Launch
    <3> QED BY <1>3, <3>1, PidFacts DEF GoesOn
  <2>3. CASE ReadPid(r)
    <3>1. \E p \in Pids \cup {NoPid} : run' = [run EXCEPT ![r].pid = p]
      BY <2>3, RunFacts DEF ReadPid
    <3> QED BY <1>3, <3>1, PidFacts DEF GoesOn
  <2> QED BY <2>1, <2>2, <2>3 DEF StartStep
<1>6. /\ Promise!Waits(r, "start")
      /\ Requests[r].name = n
      /\ label \notin Results => Requests' = Requests
      /\ label \in Results => Requests' = [Requests EXCEPT ![r].result = label]
  BY <1>1, <1>2, <1>5, RequestGoesOn DEF Results
<1>7. LiveNames' \in {LiveNames, LiveNames \cup {n}}
  <2>1. CASE UNCHANGED procs
    BY <2>1 DEF LiveNames, Alive
  <2>2. CASE Launch(r)
    BY <1>2, <2>1, <2>2, LiveStarts DEF Launch
  <2>3. CASE ~Launch(r)
    <3>1. UNCHANGED procs
      BY <2>3 DEF StartStep, Prepare, MakeDirs, CheckModel, BeginDownload, EndDownload,
         CheckBinary, CheckPort, ReadPid, Verify, machine
    <3> QED BY <2>1, <3>1
  <2> QED BY <2>2, <2>3
<1>8. ASSUME label = "started", Orderly
      PROVE  n \in LiveNames'
  <2>1. Verify(r)
    BY <1>4, <1>8 DEF StartStep, Prepare, MakeDirs, CheckModel, BeginDownload, EndDownload,
       CheckBinary, CheckPort, Launch, ReadPid, Goto, IInv, TypeOK
  <2>2. /\ run[r].pid = run[r].own /\ run[r].own \in Pids
        /\ procs[run[r].own].dep = run[r].dep
    BY <1>8, <2>1, ConstantFacts DEF Verify, OrderlyInv, Fits, IInv, Where, Keeps
  <2>3. Alive(run[r].own) /\ UNCHANGED procs
    BY <1>4, <1>8, <2>1, <2>2, ConstantFacts, OrderlyFacts
       DEF Verify, Signalled, Goto, IInv, TypeOK, machine
  <2> QED BY <2>2, <2>3 DEF LiveNames, Alive
<1>9. CASE label \in Results
  <2>1. label = "started" /\ "started" \in Trust => n \in LiveNames'
    BY <1>8 DEF Trust
  <2> QED BY <1>3, <1>6, <1>7, <1>9, <2>1 DEF Promise!FinishStart
<1>10. CASE label \notin Results
  BY <1>2, <1>6, <1>7, <1>10 DEF Promise!Launch
<1> QED BY <1>9, <1>10

LEMMA StopRefines ==
  ASSUME IInv, OrderlyInv, NEW r \in Runners, StopStep(r)
  PROVE  \/ Promise!FinishStop(r, "stopped")
         \/ \E n \in Names : Promise!End(n)
         \/ UNCHANGED <<Requests, LiveNames>>
<1> DEFINE n == NameOf[run[r].dep]
<1>1. pc[r] \in {"readstop"} \cup Killing
  BY DEF StopStep, ReadStop, Kill, Recheck, Kill9, RemovePid, Killing
<1>2. run[r].op = "stop" /\ n \in Names /\ PidFile(r) \in Pids \cup {NoPid}
  BY <1>1, RunFacts DEF IInv, Where, Killing
<1>3. PICK label : pc' = [pc EXCEPT ![r] = label] /\ (label \in Results => label = "stopped")
  BY DEF StopStep, ReadStop, Kill, Recheck, Kill9, RemovePid, Goto, Results
<1>4. pc'[r] = label
  BY <1>3 DEF IInv, TypeOK
<1>5. GoesOn(r, label)
  <2>1. run' = run \/ \E p \in Pids \cup {NoPid} : run' = [run EXCEPT ![r].pid = p]
    BY <1>2 DEF StopStep, ReadStop, Kill, Recheck, Kill9, RemovePid
  <2> QED BY <1>3, <2>1, PidFacts DEF GoesOn
<1>6. /\ Promise!Waits(r, "stop")
      /\ Requests[r].name = n
      /\ label \notin Results => Requests' = Requests
      /\ label \in Results => Requests' = [Requests EXCEPT ![r].result = label]
  BY <1>1, <1>2, <1>5, RequestGoesOn DEF Results, Killing
<1>7. CASE Kill(r) \/ Kill9(r)
  <2>1. label \notin Results
    BY <1>4, <1>7 DEF Kill, Kill9, Goto, Results, IInv, TypeOK
  <2>2. run[r].pid \in Pids
    BY <1>7 DEF Kill, Kill9, IInv, Where
  <2>3. /\ \A q \in Pids \ {run[r].pid} : procs'[q] = procs[q]
        /\ Alive(run[r].pid)' => Alive(run[r].pid) /\ procs'[run[r].pid].dep = procs[run[r].pid].dep
    <3>1. procs' = procs \/ procs' = [procs EXCEPT ![run[r].pid].state = "dead"]
      BY <1>7 DEF Kill, Kill9
    <3>2. run' = run
      BY <1>7 DEF Kill, Kill9
    <3> QED BY <2>2, <3>1, <3>2 DEF Alive, IInv, TypeOK, MachineTypeOK
  <2>4. LiveNames' = LiveNames \/ \E m \in Names : LiveNames' = LiveNames \ {m}
    <3>1. run'[r].pid = run[r].pid
      BY <1>7 DEF Kill, Kill9
    <3> DEFINE p == run[r].pid
    <3>2. /\ p \in Pids /\ \A q \in Pids \ {p} : procs'[q] = procs[q]
          /\ procs'[p].state \in {"starting", "serving"} => Alive(p) /\ procs'[p].dep = procs[p].dep
      BY <2>2, <2>3, <3>1 DEF Alive
    <3> HIDE DEF p
    <3> QED BY <3>2, LiveEnds DEF Alive
  <2> QED BY <1>6, <2>1, <2>4 DEF Promise!End
<1>8. CASE ReadStop(r) \/ Recheck(r) \/ RemovePid(r)
  <2>1. LiveNames' = LiveNames
    BY <1>8 DEF ReadStop, Recheck, RemovePid, LiveNames, Alive, machine
  <2>2. ASSUME label = "stopped", Orderly
        PROVE  n \notin LiveNames
    <3>1. NoneAlive(n)
      <4>1. CASE RemovePid(r)
        BY <2>2, <4>1 DEF RemovePid, OrderlyInv, Fits
      <4>2. CASE ReadStop(r)
        BY <1>4, <2>2, <4>2, ConstantFacts, OrderlyFacts
           DEF ReadStop, OrderlyInv, Tracked, NoneAlive, PidFile, Goto, IInv, TypeOK
      <4>3. CASE Recheck(r)
        BY <1>4, <2>2, <4>3 DEF Recheck, Goto, IInv, TypeOK
      <4> QED BY <1>8, <4>1, <4>2, <4>3
    <3> QED BY <3>1 DEF NoneAlive, LiveNames
  <2>3. CASE label \in Results
    <3>1. label = "stopped"
      BY <1>3, <2>3
    <3>2. "stopped" \in Trust => n \notin LiveNames'
      BY <2>1, <2>2, <3>1 DEF Trust
    <3> QED BY <1>6, <2>1, <2>3, <3>1, <3>2 DEF Promise!FinishStop
  <2> QED BY <1>6, <2>1, <2>3
<1> QED BY <1>7, <1>8 DEF StopStep

LEMMA RequestRefines ==
  ASSUME IInv, NEW r \in Runners
  PROVE  /\ \A d \in Deployments, op \in {"start", "stop"} :
              Begin(r, op, d) => Promise!Begin(r, op, NameOf[d]) /\ NameOf[d] \in Names
         /\ Return(r) => Promise!Return(r)
<1> USE ConstantFacts DEF LiveNames, Alive, machine
<1>1. ASSUME NEW d \in Deployments, NEW op \in {"start", "stop"}, Begin(r, op, d)
      PROVE  Promise!Begin(r, op, NameOf[d])
  <2> DEFINE new == [op |-> op, name |-> NameOf[d], result |-> "none"]
  <2>1. Requests[r] = Promise!NoReq
    BY <1>1 DEF Begin, IInv, Where, Requests, RequestOf, Promise!NoReq
  <2>2. RequestOf(r)' = new
    BY <1>1 DEF Begin, Goto, IInv, TypeOK, MachineTypeOK, RequestOf
  <2>3. \A q \in Runners \ {r} : RequestOf(q)' = RequestOf(q)
    BY <1>1 DEF Begin, Goto, IInv, TypeOK, MachineTypeOK, RequestOf
  <2>4. Requests' = [Requests EXCEPT ![r] = new]
    BY <2>2, <2>3 DEF Requests
  <2> QED BY <1>1, <2>1, <2>4 DEF Promise!Begin, Begin
<1>2. ASSUME Return(r)
      PROVE  Promise!Return(r)
  <2>1. Requests[r].result # "none"
    BY <1>2 DEF Return, Requests, RequestOf
  <2>2. RequestOf(r)' = Promise!NoReq
    BY <1>2 DEF Return, Goto, IInv, TypeOK, MachineTypeOK, RequestOf, Promise!NoReq
  <2>3. \A q \in Runners \ {r} : RequestOf(q)' = RequestOf(q)
    BY <1>2 DEF Return, Goto, IInv, TypeOK, MachineTypeOK, RequestOf
  <2>4. Requests' = [Requests EXCEPT ![r] = Promise!NoReq]
    BY <2>2, <2>3 DEF Requests
  <2> QED BY <1>2, <2>1, <2>4 DEF Promise!Return, Return
<1> QED BY <1>1, <1>2

LEMMA MachineRefines ==
  ASSUME IInv, NEW p \in Pids, Bind(p) \/ Die(p) \/ Recycle(p)
  PROVE  \/ \E n \in Names : Promise!End(n)
         \/ UNCHANGED <<Requests, LiveNames>>
<1>1. Requests' = Requests
  BY DEF Bind, Die, Recycle, Requests, RequestOf
<1>2. /\ \A q \in Pids \ {p} : procs'[q] = procs[q]
      /\ Alive(p)' => Alive(p) /\ procs'[p].dep = procs[p].dep
  BY DEF Bind, Die, Recycle, IInv, TypeOK, MachineTypeOK, Alive, Free
<1> QED BY <1>1, <1>2, LiveEnds DEF Promise!End

(* Every step of the executor and its machine is a step of the promise, or *)
(* none that a caller can tell.                                            *)
LEMMA PromiseStep ==
  ASSUME IInv, OrderlyInv, [Next]_vars
  PROVE  [Promise!Next]_<<Requests, LiveNames, Trust>>
<1>1. UNCHANGED Trust
  BY WorldStays DEF Trust, Orderly
<1>2. CASE UNCHANGED vars
  BY <1>1, <1>2 DEF vars, machine, Requests, RequestOf, LiveNames, Alive
<1>3. CASE Request
  BY <1>1, <1>3, RequestRefines DEF Request, Promise!Next, Promise!Step
<1>4. ASSUME NEW r \in Runners, StartStep(r)
      PROVE  [Promise!Next]_<<Requests, LiveNames, Trust>>
  BY <1>1, <1>4, StartRefines DEF Promise!Next, Promise!Step
<1>5. ASSUME NEW r \in Runners, StopStep(r)
      PROVE  [Promise!Next]_<<Requests, LiveNames, Trust>>
  BY <1>1, <1>5, StopRefines DEF Promise!Next, Promise!Step
<1>6. ASSUME NEW r \in Runners, Return(r)
      PROVE  Promise!Next
  BY <1>1, <1>6, RequestRefines DEF Promise!Next, Promise!Step
<1>7. ASSUME NEW p \in Pids, Bind(p) \/ Die(p) \/ Recycle(p)
      PROVE  [Promise!Next]_<<Requests, LiveNames, Trust>>
  BY <1>1, <1>7, MachineRefines DEF Promise!Next
<1>8. CASE Crash
  <2>1. \A r \in Runners : RequestOf(r)' = Promise!NoReq
    BY <1>8 DEF Crash, RequestOf, NoRun, Promise!NoReq
  <2>2. Requests' = [r \in Runners |-> Promise!NoReq]
    BY <2>1 DEF Requests
  <2> QED BY <1>1, <1>8, <2>2 DEF Crash, LiveNames, Alive, Promise!Next, Promise!Crash
<1> QED BY <1>2, <1>3, <1>4, <1>5, <1>6, <1>7, <1>8 DEF Next

(* The ssh executor is an implementation of Execution: servers appear only *)
(* while a Start of their name is under way, a Stop never reports failure, *)
(* and in an orderly world both results can be believed.                   *)
THEOREM SSHKeepsPromise == Spec => KeepsPromise
<1>1. Init => Promise!Init
  <2> SUFFICES ASSUME Init PROVE Promise!Init
    OBVIOUS
  <2>1. \A r \in Runners : RequestOf(r) = Promise!NoReq
    BY DEF Init, MachineInit, RequestOf, NoRun, Promise!NoReq
  <2>2. Requests = [r \in Runners |-> Promise!NoReq]
    BY <2>1 DEF Requests
  <2>3. LiveNames = {}
    BY DEF Init, MachineInit, LiveNames, Alive, Free
  <2> QED BY <2>2, <2>3 DEF Promise!Init, Promise!Trusts, Trust
<1>2. IInv /\ OrderlyInv /\ [Next]_vars => [Promise!Next]_<<Requests, LiveNames, Trust>>
  BY PromiseStep
<1>3. Spec => Promise!Init /\ [][Promise!Next]_<<Requests, LiveNames, Trust>>
  BY <1>1, <1>2, Invariance, OrderlyInvariance, PTL DEF Spec
<1> QED BY <1>3 DEF KeepsPromise, Promise!Spec
=============================================================================
