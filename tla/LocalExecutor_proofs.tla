------------------------- MODULE LocalExecutor_proofs -------------------------
(***************************************************************************)
(* TLAPS proofs of the safety properties of LocalExecutor, for any number  *)
(* of deployments, requests and processes, and any worlds.                 *)
(*                                                                         *)
(* The invariant has the layers of SSHExecutor_proofs, but what carries    *)
(* the second is another fact: while the control plane lives, every        *)
(* process it has started is its child, and so keeps its pid (IInv).  A    *)
(* pid read from a pid file then names the process it was written for      *)
(* (NamedRight), and one that has been killed stays dead (StaysDead).      *)
(* OrderlyInv is about the pid files in orderly worlds.                    *)
(***************************************************************************)
EXTENDS LocalExecutor, TLAPS

Waiting == {"openpid", "writepid", "verify"}
Killing == {"kill", "kill9", "rmpid"}

\* Where a request can be, with which pids: what it has started, and read.
Where(r) ==
  \/ /\ pc[r] = "idle"
     /\ run[r] = NoRun
  \/ /\ run[r].op = "start"
     /\ run[r].dep \in Deployments
     /\ run[r].own = NoPid
     /\ pc[r] \in {"mkdir", "model", "curl", "download", "binary", "port", "launch", "failed"}
  \/ /\ run[r].op = "start"
     /\ run[r].dep \in Deployments
     /\ run[r].own \in Pids
     /\ pc[r] \in Waiting \cup {"started"}
  \/ /\ run[r].op = "stop"
     /\ run[r].dep \in Deployments
     /\ run[r].own = NoPid
     /\ pc[r] \in {"readstop", "stopped"}
  \/ /\ run[r].op = "stop"
     /\ run[r].dep \in Deployments
     /\ run[r].own = NoPid
     /\ run[r].pid \in Pids
     /\ pc[r] \in Killing

\* A process has been started for a deployment, by this run of the control
\* plane if there has been only one.
Born(p) ==
  \/ procs[p] = Free
  \/ /\ procs[p].dep \in Deployments
     /\ procs[p].state \in {"starting", "serving", "dead"}
     /\ "crash" \notin world => p \in children

\* The pid of the process a Start has created is not given to another.
Keeps(r) == run[r].own # NoPid => procs[run[r].own].dep = run[r].dep

IInv ==
  /\ TypeOK
  /\ \A r \in Runners : Where(r) /\ Keeps(r)
  /\ \A p \in Pids : Born(p)

\* Where no pid is given to another process, a pid file names a process
\* started under its name, and so does what a Stop has read there...
PidsLast == ~ {"reuse", "crash"} \subseteq world

NamedRight ==
  PidsLast =>
    /\ \A n \in Names : pidFile[n] # NoPid =>
         /\ procs[pidFile[n]].dep \in Deployments
         /\ NameOf[procs[pidFile[n]].dep] = n
    /\ \A r \in Runners : pc[r] \in Killing => OwnProcess(r)

\* ...and the SIGKILL of a Stop is final.
StaysDead ==
  PidsLast => \A r \in Runners : pc[r] \in {"kill9", "rmpid"} => ~Alive(run[r].pid)

NoneAlive(n) == \A p \in Pids : Alive(p) => NameOf[procs[p].dep] # n

\* Requests for one name take turns.
TakeTurns ==
  \A q, r \in Runners :
    pc[q] # "idle" /\ pc[r] # "idle" /\ NameOf[run[q].dep] = NameOf[run[r].dep] => q = r

\* A server that has not bound its port has its Start waiting for it.
Awaited ==
  \A p \in Pids : procs[p].state = "starting" =>
    \E r \in Runners : pc[r] \in Waiting /\ run[r].own = p

\* What the request under way for a name knows of its pid file and servers.
Fits(r) ==
  /\ pc[r] \in {"launch", "rmpid"} => NoneAlive(NameOf[run[r].dep])
  /\ pc[r] \in {"openpid", "writepid"} =>
       \A p \in Pids : Alive(p) /\ NameOf[procs[p].dep] = NameOf[run[r].dep] => p = run[r].own
  /\ pc[r] \in Killing => PidFile(r) = run[r].pid

OrderlyInv ==
  Orderly => TakeTurns /\ Awaited /\ Tracked /\ \A r \in Runners : Fits(r)

-----------------------------------------------------------------------------
LEMMA ConstantFacts ==
  /\ NoPid \notin Pids
  /\ "none" \notin Deployments
  /\ \A d \in Deployments : NameOf[d] \in Names
  /\ NoRun = [op |-> "none", dep |-> "none", pid |-> NoPid, own |-> NoPid]
  /\ Free = [dep |-> "none", state |-> "free"]
BY MachineAssumption DEF Names, NoRun, Free

LEMMA InitInv == Init => IInv
BY ConstantFacts DEF Init, MachineInit, IInv, TypeOK, MachineTypeOK, Where, Keeps, Born, Waiting,
   Killing

(* A request under way has a deployment, and a pid file under its name.    *)
LEMMA RunFacts ==
  ASSUME IInv, NEW r \in Runners, pc[r] # "idle"
  PROVE  /\ run[r].dep \in Deployments
         /\ NameOf[run[r].dep] \in Names
         /\ PidFile(r) \in Pids \cup {NoPid}
BY ConstantFacts DEF IInv, TypeOK, MachineTypeOK, Where, PidFile

(* What it means to remember a pid.                                        *)
LEMMA PidFacts ==
  ASSUME IInv, NEW r \in Runners, NEW p \in Pids \cup {NoPid}
  PROVE  /\ run' = [run EXCEPT ![r].pid = p] =>
              /\ run'[r].op = run[r].op /\ run'[r].dep = run[r].dep
              /\ run'[r].pid = p /\ run'[r].own = run[r].own
         /\ run' = [run EXCEPT ![r].own = p] =>
              /\ run'[r].op = run[r].op /\ run'[r].dep = run[r].dep
              /\ run'[r].pid = run[r].pid /\ run'[r].own = p
         /\ run' = [run EXCEPT ![r].pid = p] \/ run' = [run EXCEPT ![r].own = p] =>
              /\ \A q \in Runners \ {r} : run'[q] = run[q]
              /\ run' \in [Runners -> [op : {"none", "start", "stop"},
                                       dep : Deployments \cup {"none"},
                                       pid : Pids \cup {NoPid}, own : Pids \cup {NoPid}]]
BY DEF IInv, TypeOK, MachineTypeOK

(* A command that moves r on and changes neither its pids nor processes.   *)
LEMMA MoveInv ==
  ASSUME IInv, NEW r \in Runners, NEW label,
         Goto(r, label), UNCHANGED <<run, procs, binary, world, children>>,
         pidFile' \in [Names -> Pids \cup {NoPid}],
         modelFile' \in {"missing", "partial", "complete"}, downloader' \in Runners \cup {NoPid},
         Where(r)'
  PROVE  IInv'
BY DEF IInv, TypeOK, MachineTypeOK, Where, Keeps, Born, Goto, Waiting, Killing

LEMMA RequestInv ==
  ASSUME IInv, NEW r \in Runners, UNCHANGED children,
         Return(r) \/ \E d \in Deployments, op \in {"start", "stop"} : Begin(r, op, d)
  PROVE  IInv'
<1> USE ConstantFacts DEF Waiting, Killing
<1>1. CASE Return(r)
  BY <1>1 DEF IInv, TypeOK, MachineTypeOK, Where, Keeps, Born, Return, Goto, machine
<1>2. ASSUME NEW d \in Deployments, NEW op \in {"start", "stop"}, Begin(r, op, d)
      PROVE  IInv'
  BY <1>2 DEF IInv, TypeOK, MachineTypeOK, Where, Keeps, Born, Begin, Goto, machine
<1> QED BY <1>1, <1>2

LEMMA PrepareInv ==
  ASSUME IInv, NEW r \in Runners, Prepare(r), UNCHANGED children
  PROVE  IInv'
<1> USE ConstantFacts
<1>1. Where(r)'
  BY DEF IInv, TypeOK, MachineTypeOK, Where, Prepare, MakeDirs, CheckModel, BeginDownload,
     EndDownload, CheckBinary, CheckPort, Goto, Waiting, Killing
<1>2. /\ modelFile' \in {"missing", "partial", "complete"}
      /\ downloader' \in Runners \cup {NoPid}
      /\ UNCHANGED <<run, procs, pidFile, binary, world>>
      /\ \E label : Goto(r, label)
  BY DEF IInv, TypeOK, MachineTypeOK, Prepare, MakeDirs, CheckModel, BeginDownload, EndDownload,
     Downloaded, CheckBinary, CheckPort, machine
<1> QED BY <1>1, <1>2, MoveInv DEF IInv, TypeOK, MachineTypeOK

LEMMA SpawnInv ==
  ASSUME IInv, NEW r \in Runners, Spawn(r)
  PROVE  IInv'
<1> USE ConstantFacts
<1>1. CASE UNCHANGED <<run, procs, children>>
  <2>1. Goto(r, "failed")
    BY <1>1 DEF Spawn, IInv, TypeOK, MachineTypeOK
  <2>2. Where(r)'
    BY <1>1, <2>1 DEF Spawn, IInv, TypeOK, Where, Goto, Waiting, Killing
  <2> QED BY <1>1, <2>1, <2>2, MoveInv DEF Spawn, IInv, TypeOK, MachineTypeOK
<1>2. ASSUME NEW p \in Pids, procs[p] = Free,
             procs' = [procs EXCEPT ![p] = [dep |-> run[r].dep, state |-> "starting"]],
             children' = children \cup {p},
             run' = [run EXCEPT ![r].own = p],
             Goto(r, "openpid")
      PROVE  IInv'
  <2>1. /\ run[r].dep \in Deployments /\ run[r].op = "start" /\ pc[r] = "launch"
        /\ UNCHANGED <<pidFile, modelFile, downloader, binary, world>>
    BY DEF Spawn, IInv, Where, Waiting, Killing
  <2>2. \A q \in Runners : run[q].own # NoPid => run[q].own # p
    BY <1>2 DEF IInv, Where, Keeps
  <2>3. /\ run'[r].op = run[r].op /\ run'[r].dep = run[r].dep /\ run'[r].own = p
        /\ \A q \in Runners \ {r} : run'[q] = run[q]
    BY <1>2, PidFacts
  <2>4. TypeOK'
    <3>1. procs' \in [Pids -> [dep : Deployments \cup {"none"},
                              state : {"free", "starting", "serving", "dead"}]]
      BY <1>2, <2>1 DEF IInv, TypeOK, MachineTypeOK
    <3> QED BY <1>2, <2>1, <3>1, PidFacts DEF IInv, TypeOK, MachineTypeOK, Goto
  <2>5. \A q \in Runners : Where(q)'
    BY <1>2, <2>1, <2>3 DEF IInv, TypeOK, MachineTypeOK, Where, Goto, Waiting, Killing
  <2>6. \A q \in Runners : Keeps(q)'
    BY <1>2, <2>1, <2>2, <2>3 DEF IInv, TypeOK, MachineTypeOK, Keeps
  <2>7. \A q \in Pids : Born(q)'
    BY <1>2, <2>1 DEF IInv, TypeOK, MachineTypeOK, Born
  <2> QED BY <2>4, <2>5, <2>6, <2>7 DEF IInv
<1> QED BY <1>1, <1>2 DEF Spawn

LEMMA StartInv ==
  ASSUME IInv, NEW r \in Runners, OpenPid(r) \/ WritePid(r) \/ Verify(r)
  PROVE  IInv'
<1>1. /\ UNCHANGED <<run, procs, modelFile, downloader, binary, world, children>>
      /\ \E label : Goto(r, label)
  BY DEF OpenPid, WritePid, Verify, machine
<1>2. Where(r)'
  BY <1>1 DEF OpenPid, WritePid, Verify, IInv, TypeOK, Where, Goto, Waiting, Killing
<1>3. pidFile' \in [Names -> Pids \cup {NoPid}]
  BY DEF OpenPid, WritePid, Verify, IInv, TypeOK, MachineTypeOK, machine
<1> QED BY <1>1, <1>2, <1>3, MoveInv DEF IInv, TypeOK, MachineTypeOK

LEMMA StopInv ==
  ASSUME IInv, NEW r \in Runners, StopStep(r)
  PROVE  IInv'
<1> USE ConstantFacts DEF Waiting, Killing
<1>1. CASE ReadStop(r)
  <2>1. CASE UNCHANGED run /\ Goto(r, "stopped")
    <3>1. Where(r)'
      BY <1>1, <2>1 DEF IInv, TypeOK, Where, ReadStop, Goto
    <3> QED BY <1>1, <2>1, <3>1, MoveInv DEF IInv, TypeOK, MachineTypeOK, ReadStop, machine
  <2>2. ASSUME NEW p \in Pids, run' = [run EXCEPT ![r].pid = p], Goto(r, "kill")
        PROVE  IInv'
    <3>1. /\ UNCHANGED <<machine, children>>
          /\ pc[r] = "readstop"
          /\ pc' = [pc EXCEPT ![r] = "kill"]
      BY <1>1, <2>2 DEF ReadStop, Goto
    <3>2. Where(r)'
      <4>1. run[r].op = "stop" /\ run[r].dep \in Deployments /\ run[r].own = NoPid
        BY <3>1 DEF IInv, Where
      <4>2. /\ run'[r].op = run[r].op /\ run'[r].dep = run[r].dep
            /\ run'[r].pid = p /\ run'[r].own = run[r].own
        BY <2>2, PidFacts
      <4>3. pc'[r] = "kill"
        BY <3>1 DEF IInv, TypeOK
      <4> QED BY <4>1, <4>2, <4>3 DEF Where
    <3>3. TypeOK'
      BY <2>2, <3>1, PidFacts DEF IInv, TypeOK, MachineTypeOK, machine
    <3>4. \A q \in Runners : Where(q)'
      BY <2>2, <3>1, <3>2, PidFacts DEF IInv, TypeOK, Where
    <3> QED BY <2>2, <3>1, <3>3, <3>4, PidFacts DEF IInv, Keeps, Born, machine
  <2>3. PidFile(r) \in Pids \cup {NoPid}
    BY <1>1, RunFacts DEF ReadStop
  <2> QED BY <1>1, <2>1, <2>2, <2>3 DEF ReadStop
<1>2. CASE Kill(r) \/ Kill9(r)
  <2>1. procs' = procs \/ (Alive(run[r].pid) /\ procs' = [procs EXCEPT ![run[r].pid].state = "dead"])
    BY <1>2 DEF Kill, Kill9, SendKill
  <2>2. Where(r)' /\ run[r].pid \in Pids
    BY <1>2 DEF IInv, TypeOK, Where, Kill, Kill9, Goto
  <2>3. CASE procs' = procs
    BY <1>2, <2>2, <2>3, MoveInv DEF IInv, TypeOK, MachineTypeOK, Kill, Kill9
  <2>4. CASE Alive(run[r].pid) /\ procs' = [procs EXCEPT ![run[r].pid].state = "dead"]
    <3>1. TypeOK' /\ \A q \in Runners : Where(q)'
      <4>1. \E label \in {"kill9", "rmpid"} : pc' = [pc EXCEPT ![r] = label]
        BY <1>2 DEF Kill, Kill9, Goto
      <4>2. UNCHANGED <<run, pidFile, modelFile, downloader, binary, world, children>>
        BY <1>2 DEF Kill, Kill9
      <4>3. TypeOK'
        BY <2>2, <2>4, <4>1, <4>2 DEF IInv, TypeOK, MachineTypeOK
      <4> QED BY <2>2, <4>1, <4>2, <4>3 DEF IInv, TypeOK, Where
    <3>2. UNCHANGED <<world, children>>
      BY <1>2 DEF Kill, Kill9
    <3>3. \A p \in Pids : Born(p)' /\ procs'[p].dep = procs[p].dep
      BY <2>2, <2>4, <3>2 DEF IInv, TypeOK, MachineTypeOK, Born, Alive, Free
    <3> QED BY <1>2, <3>1, <3>3 DEF IInv, TypeOK, MachineTypeOK, Keeps, Kill, Kill9
  <2> QED BY <2>1, <2>3, <2>4
<1>3. CASE RemovePid(r)
  <2>1. Where(r)' /\ pidFile' \in [Names -> Pids \cup {NoPid}]
    BY <1>3 DEF IInv, TypeOK, MachineTypeOK, Where, RemovePid, Goto
  <2> QED BY <1>3, <2>1, MoveInv DEF IInv, TypeOK, MachineTypeOK, RemovePid
<1> QED BY <1>1, <1>2, <1>3 DEF StopStep

LEMMA MachineInv ==
  ASSUME IInv,
         LocalCrash \/ \E p \in Pids : ((Bind(p) \/ Die(p)) /\ UNCHANGED children) \/ Reap(p)
  PROVE  IInv'
<1> USE ConstantFacts DEF Waiting, Killing
<1>1. ASSUME NEW p \in Pids, Bind(p) \/ Die(p), UNCHANGED children
      PROVE  IInv'
  <2>1. PICK s \in {"serving", "dead"} : procs' = [procs EXCEPT ![p].state = s]
    BY <1>1 DEF Bind, Die
  <2>2. procs[p] # Free
    BY <1>1 DEF Bind, Die, Alive
  <2> QED BY <1>1, <2>1, <2>2 DEF IInv, TypeOK, MachineTypeOK, Where, Keeps, Born, Bind, Die
<1>2. ASSUME NEW p \in Pids, Reap(p)
      PROVE  IInv'
  BY <1>2 DEF IInv, TypeOK, MachineTypeOK, Where, Keeps, Born, Reap, Recycle
<1>3. CASE LocalCrash
  BY <1>3 DEF IInv, TypeOK, MachineTypeOK, Where, Keeps, Born, LocalCrash, Crash
<1> QED BY <1>1, <1>2, <1>3

LEMMA NextInv == IInv /\ [Next]_lvars => IInv'
<1>1. ASSUME IInv, UNCHANGED lvars PROVE IInv'
  BY <1>1 DEF IInv, lvars, vars, machine, TypeOK, MachineTypeOK, Where, Keeps, Born, Waiting, Killing
<1>2. ASSUME IInv, Next PROVE IInv'
  BY <1>2, RequestInv, PrepareInv, SpawnInv, StartInv, StopInv, MachineInv
     DEF Next, Request, StartStep
<1> QED BY <1>1, <1>2

LEMMA Invariance == Spec => []IInv
BY InitInv, NextInv, PTL DEF Spec

(* Nothing changes the world.                                              *)
LEMMA WorldStays == [Next]_lvars => world' = world
<1>1. ASSUME NEW r \in Runners, StartStep(r)
      PROVE  world' = world
  BY <1>1 DEF StartStep, Prepare, MakeDirs, CheckModel, BeginDownload, EndDownload, CheckBinary,
     CheckPort, Spawn, OpenPid, WritePid, Verify, machine
<1>2. ASSUME NEW r \in Runners, StopStep(r) \/ Return(r)
      PROVE  world' = world
  BY <1>2 DEF StopStep, ReadStop, Kill, Kill9, RemovePid, Return, machine
<1>3. ASSUME NEW p \in Pids, Bind(p) \/ Die(p) \/ Reap(p)
      PROVE  world' = world
  BY <1>3 DEF Bind, Die, Reap, Recycle
<1> QED BY <1>1, <1>2, <1>3
     DEF Next, lvars, vars, machine, Request, Begin, LocalCrash, Crash

-----------------------------------------------------------------------------
(* Where pids last.                                                        *)

(* A process is what it was started for, for ever, and once dead it is     *)
(* dead for ever.                                                          *)
LEMMA ProcessStays ==
  ASSUME IInv, [Next]_lvars, PidsLast, NEW p \in Pids, procs[p].dep \in Deployments
  PROVE  /\ procs'[p].dep = procs[p].dep
         /\ ~Alive(p) => ~Alive(p)'
<1> USE ConstantFacts
<1>1. ASSUME NEW r \in Runners, Spawn(r)
      PROVE  procs'[p].dep = procs[p].dep /\ (~Alive(p) => ~Alive(p)')
  BY <1>1 DEF IInv, TypeOK, MachineTypeOK, Spawn, Alive
<1>2. ASSUME NEW r \in Runners, Kill(r) \/ Kill9(r)
      PROVE  procs'[p].dep = procs[p].dep /\ (~Alive(p) => ~Alive(p)')
  BY <1>2 DEF IInv, TypeOK, MachineTypeOK, Kill, Kill9, SendKill, Alive
<1>3. ASSUME NEW q \in Pids, Bind(q) \/ Die(q)
      PROVE  procs'[p].dep = procs[p].dep /\ (~Alive(p) => ~Alive(p)')
  BY <1>3 DEF IInv, TypeOK, MachineTypeOK, Bind, Die, Alive
<1>4. ASSUME NEW q \in Pids, Reap(q)
      PROVE  procs'[p] = procs[p]
  <2>1. q # p
    BY <1>4 DEF Reap, Recycle, PidsLast, IInv, Born, Free
  <2> QED BY <1>4, <2>1 DEF Reap, Recycle, IInv, TypeOK, MachineTypeOK
<1>5. ASSUME NEW r \in Runners, StartStep(r) \/ StopStep(r) \/ Return(r), ~Spawn(r), ~Kill(r), ~Kill9(r)
      PROVE  UNCHANGED procs
  <2>1. Prepare(r) => UNCHANGED procs
    BY DEF Prepare, MakeDirs, CheckModel, BeginDownload, EndDownload, CheckBinary, CheckPort, machine
  <2>2. OpenPid(r) \/ WritePid(r) \/ Verify(r) \/ ReadStop(r) \/ RemovePid(r) \/ Return(r) =>
          UNCHANGED procs
    BY DEF OpenPid, WritePid, Verify, ReadStop, RemovePid, Return, machine
  <2> QED BY <1>5, <2>1, <2>2 DEF StartStep, StopStep
<1>6. Request \/ LocalCrash \/ UNCHANGED lvars => UNCHANGED procs
  BY DEF Request, Begin, LocalCrash, Crash, lvars, vars, machine
<1>7. procs'[p] = procs[p] => procs'[p].dep = procs[p].dep /\ (~Alive(p) => ~Alive(p)')
  BY DEF Alive
<1> QED BY <1>1, <1>2, <1>3, <1>4, <1>5, <1>6, <1>7 DEF Next

(* A step of a request is a step of its runner's only.                     *)
LEMMA OthersStay ==
  ASSUME IInv, [Next]_lvars, NEW r \in Runners,
         ~ \E d \in Deployments, op \in {"start", "stop"} : Begin(r, op, d),
         ~ StartStep(r), ~ StopStep(r), ~ Return(r), ~ LocalCrash
  PROVE  pc'[r] = pc[r] /\ run'[r] = run[r]
<1>1. ASSUME NEW q \in Runners, q # r, StartStep(q) \/ StopStep(q) \/ Return(q)
      PROVE  pc'[r] = pc[r] /\ run'[r] = run[r]
  <2>1. \E label : pc' = [pc EXCEPT ![q] = label]
    <3>1. Prepare(q) => \E label : pc' = [pc EXCEPT ![q] = label]
      BY DEF Prepare, MakeDirs, CheckModel, BeginDownload, EndDownload, CheckBinary, CheckPort, Goto
    <3>2. Spawn(q) \/ OpenPid(q) \/ WritePid(q) \/ Verify(q) => \E label : pc' = [pc EXCEPT ![q] = label]
      BY DEF Spawn, OpenPid, WritePid, Verify, Goto
    <3>3. StopStep(q) \/ Return(q) => \E label : pc' = [pc EXCEPT ![q] = label]
      BY DEF StopStep, ReadStop, Kill, Kill9, RemovePid, Return, Goto
    <3> QED BY <1>1, <3>1, <3>2, <3>3 DEF StartStep
  <2>2. run' = run \/ \E value : run' = [run EXCEPT ![q] = value]
    <3>1. Prepare(q) => run' = run
      BY DEF Prepare, MakeDirs, CheckModel, BeginDownload, EndDownload, CheckBinary, CheckPort
    <3>2. Spawn(q) \/ OpenPid(q) \/ WritePid(q) \/ Verify(q) =>
            run' = run \/ \E value : run' = [run EXCEPT ![q] = value]
      BY Zenon DEF Spawn, OpenPid, WritePid, Verify
    <3>3. StopStep(q) \/ Return(q) => run' = run \/ \E value : run' = [run EXCEPT ![q] = value]
      BY Zenon DEF StopStep, ReadStop, Kill, Kill9, RemovePid, Return
    <3> QED BY <1>1, <3>1, <3>2, <3>3 DEF StartStep
  <2> QED BY <1>1, <2>1, <2>2 DEF IInv, TypeOK, MachineTypeOK
<1>2. ASSUME NEW q \in Runners, NEW d \in Deployments, NEW op \in {"start", "stop"}, Begin(q, op, d), q # r
      PROVE  pc'[r] = pc[r] /\ run'[r] = run[r]
  BY <1>2 DEF IInv, TypeOK, MachineTypeOK, Begin, Goto
<1>3. (\E p \in Pids : Bind(p) \/ Die(p) \/ Reap(p)) \/ UNCHANGED lvars => pc' = pc /\ run' = run
  BY DEF Bind, Die, Reap, Recycle, lvars, vars
<1> QED BY <1>1, <1>2, <1>3 DEF Next, Request

LEMMA NamedStep ==
  ASSUME IInv, NamedRight, [Next]_lvars
  PROVE  NamedRight'
<1> USE ConstantFacts
<1> SUFFICES ASSUME PidsLast PROVE NamedRight'
  BY WorldStays DEF NamedRight, PidsLast
<1>1. ASSUME NEW n \in Names, pidFile'[n] # NoPid
      PROVE  /\ procs'[pidFile'[n]].dep \in Deployments
             /\ NameOf[procs'[pidFile'[n]].dep] = n
  <2>1. CASE pidFile'[n] = pidFile[n]
    BY <1>1, <2>1, ProcessStays DEF IInv, TypeOK, MachineTypeOK, NamedRight
  <2>2. ASSUME NEW r \in Runners, WritePid(r), pidFile'[n] # pidFile[n]
        PROVE  /\ procs'[pidFile'[n]].dep \in Deployments
               /\ NameOf[procs'[pidFile'[n]].dep] = n
    <3>1. run[r].own \in Pids /\ run[r].dep \in Deployments /\ procs[run[r].own].dep = run[r].dep
      BY <2>2, ConstantFacts DEF WritePid, IInv, Where, Keeps, Waiting, Killing
    <3>2. /\ pidFile' = [pidFile EXCEPT ![NameOf[run[r].dep]] = run[r].own]
          /\ procs' = procs
      BY <2>2 DEF WritePid
    <3> QED BY <2>2, <3>1, <3>2 DEF IInv, TypeOK, MachineTypeOK
  <2>3. ASSUME NEW r \in Runners, OpenPid(r) \/ RemovePid(r)
        PROVE  pidFile'[n] = pidFile[n]
    BY <1>1, <2>3 DEF IInv, TypeOK, MachineTypeOK, OpenPid, RemovePid
  <2>4. ASSUME NEW r \in Runners, StartStep(r) \/ StopStep(r) \/ Return(r),
               ~WritePid(r), ~OpenPid(r), ~RemovePid(r)
        PROVE  UNCHANGED pidFile
    <3>1. Prepare(r) => UNCHANGED pidFile
      BY DEF Prepare, MakeDirs, CheckModel, BeginDownload, EndDownload, CheckBinary, CheckPort, machine
    <3>2. Spawn(r) \/ Verify(r) \/ ReadStop(r) \/ Kill(r) \/ Kill9(r) \/ Return(r) => UNCHANGED pidFile
      BY DEF Spawn, Verify, ReadStop, Kill, Kill9, Return, machine
    <3> QED BY <2>4, <3>1, <3>2 DEF StartStep, StopStep
  <2>5. \/ Request \/ LocalCrash \/ UNCHANGED lvars
        \/ \E p \in Pids : Bind(p) \/ Die(p) \/ Reap(p)
        => UNCHANGED pidFile
    BY DEF Request, Begin, LocalCrash, Crash, Bind, Die, Reap, Recycle, lvars, vars, machine
  <2> QED BY <2>1, <2>2, <2>3, <2>4, <2>5 DEF Next
<1>2. ASSUME NEW r \in Runners, pc'[r] \in Killing
      PROVE  OwnProcess(r)'
  <2>1. CASE pc[r] \in Killing /\ run'[r] = run[r]
    <3>1. run[r].pid \in Pids /\ OwnProcess(r)
      BY <2>1 DEF IInv, Where, Waiting, Killing, NamedRight
    <3> QED BY <2>1, <3>1, ProcessStays DEF OwnProcess
  <2>2. CASE ReadStop(r)
    <3>1. PidFile(r) # NoPid /\ run'[r].pid = PidFile(r) /\ run'[r].dep = run[r].dep
      BY <1>2, <2>2, RunFacts, PidFacts DEF IInv, TypeOK, ReadStop, Goto, Killing
    <3>2. NameOf[run[r].dep] \in Names /\ PidFile(r) \in Pids
      BY <2>2, <3>1, RunFacts DEF ReadStop
    <3> QED BY <2>2, <3>1, <3>2 DEF ReadStop, machine, OwnProcess, NamedRight, PidFile
  <2>3. ASSUME StopStep(r), ~ReadStop(r)
        PROVE  pc[r] \in Killing /\ run'[r] = run[r]
    BY <2>3 DEF StopStep, Kill, Kill9, RemovePid, Killing
  <2>4. ASSUME \/ StartStep(r) \/ Return(r) \/ LocalCrash
               \/ \E d \in Deployments, op \in {"start", "stop"} : Begin(r, op, d)
        PROVE  FALSE
    BY <1>2, <2>4 DEF IInv, TypeOK, StartStep, Prepare, MakeDirs, CheckModel, BeginDownload,
       EndDownload, CheckBinary, CheckPort, Spawn, OpenPid, WritePid, Verify, Return, LocalCrash,
       Crash, Begin, Goto, Killing
  <2> QED BY <1>2, <2>1, <2>2, <2>3, <2>4, OthersStay
<1> QED BY <1>1, <1>2 DEF NamedRight

LEMMA DeadStep ==
  ASSUME IInv, NamedRight, StaysDead, [Next]_lvars
  PROVE  StaysDead'
<1> USE ConstantFacts
<1> SUFFICES ASSUME PidsLast, NEW r \in Runners, pc'[r] \in {"kill9", "rmpid"}
             PROVE  ~Alive(run[r].pid)' /\ run'[r] = run[r]
  BY WorldStays DEF StaysDead, PidsLast, Alive
<1>1. CASE Kill(r) \/ Kill9(r)
  <2>1. run[r].pid \in Pids
    BY <1>1 DEF IInv, Where, Kill, Kill9, Waiting, Killing
  <2>2. run' = run
    BY <1>1 DEF Kill, Kill9
  <2>3. Kill9(r) => ~Alive(run[r].pid)
    BY DEF Kill9, StaysDead
  <2> QED BY <1>1, <2>1, <2>2, <2>3 DEF Kill, Kill9, SendKill, Alive, IInv, TypeOK, MachineTypeOK
<1>2. CASE pc[r] \in {"kill9", "rmpid"} /\ run'[r] = run[r]
  <2>1. run[r].pid \in Pids /\ OwnProcess(r) /\ ~Alive(run[r].pid)
    BY <1>2 DEF IInv, Where, NamedRight, StaysDead, Waiting, Killing
  <2> QED BY <1>2, <2>1, ProcessStays DEF OwnProcess, Alive
<1>3. ASSUME \/ StartStep(r) \/ ReadStop(r) \/ RemovePid(r) \/ Return(r) \/ LocalCrash
             \/ \E d \in Deployments, op \in {"start", "stop"} : Begin(r, op, d)
      PROVE  FALSE
  BY <1>3 DEF IInv, TypeOK, StartStep, Prepare, MakeDirs, CheckModel, BeginDownload,
     EndDownload, CheckBinary, CheckPort, Spawn, OpenPid, WritePid, Verify, ReadStop, RemovePid,
     Return, LocalCrash, Crash, Begin, Goto
<1> QED BY <1>1, <1>2, <1>3, OthersStay DEF StopStep

LEMMA NamedInvariance == Spec => [](NamedRight /\ StaysDead)
<1>1. Init => NamedRight /\ StaysDead
  BY ConstantFacts DEF Init, MachineInit, NamedRight, StaysDead, Killing
<1>2. IInv /\ NamedRight /\ StaysDead /\ [Next]_lvars => (NamedRight /\ StaysDead)'
  BY NamedStep, DeadStep
<1> QED BY <1>1, <1>2, Invariance, PTL DEF Spec

(* Type correctness, of the executor's state and the machine's.            *)
THEOREM LocalTypeCorrect == Spec => []TypeOK
BY Invariance, PTL DEF IInv

(* A Stop only ever kills processes that were started under its            *)
(* deployment's name, even where pids are reused: those of the children    *)
(* are not, until the control plane is restarted.                          *)
THEOREM LocalStopHitsOwn == Spec => []StopHitsOwn
<1>1. NamedRight => StopHitsOwn
  BY DEF NamedRight, PidsLast, StopHitsOwn, Killing
<1> QED BY <1>1, NamedInvariance, PTL

(* The process whose pid a Stop has read is dead before its pid file goes, *)
(* whatever fails and overlaps.                                            *)
THEOREM LocalStopKills == Spec => []StopKills
<1>1. StaysDead => StopKills
  BY DEF StaysDead, PidsLast, StopKills
<1> QED BY <1>1, NamedInvariance, PTL

-----------------------------------------------------------------------------
(* In an orderly world.                                                    *)

LEMMA OrderlyFacts ==
  ASSUME Orderly
  PROVE  /\ "overlap" \notin world /\ "slow" \notin world /\ "crash" \notin world
         /\ ~Faulty
         /\ PidsLast
         /\ \A d, e \in Deployments : NameOf[d] = NameOf[e] => PortOf[d] = PortOf[e]
BY DEF Orderly, NamesSharePort, Faulty, PidsLast

(* A process that is alive has been started for a deployment.              *)
LEMMA AliveFacts ==
  ASSUME IInv, NEW p \in Pids, Alive(p)
  PROVE  procs[p].dep \in Deployments /\ NameOf[procs[p].dep] \in Names
BY ConstantFacts DEF IInv, Born, Alive, Free

(* A request goes on, and perhaps ends a process, without touching a pid   *)
(* file: what the others know stays true.                                  *)
LEMMA TurnKeepsOrder ==
  ASSUME IInv, Orderly, OrderlyInv, NEW r \in Runners,
         pc[r] \notin {"idle", "openpid", "writepid"}, run'[r].dep = run[r].dep,
         \A q \in Runners \ {r} : pc'[q] = pc[q] /\ run'[q] = run[q],
         \A p \in Pids : procs'[p] = procs[p] \/ procs'[p].state = "dead",
         UNCHANGED pidFile,
         pc[r] \notin Waiting \/ procs[run[r].own].state # "starting",
         Fits(r)'
  PROVE  OrderlyInv'
<1>1. \A p \in Pids : Alive(p)' => Alive(p) /\ procs'[p] = procs[p]
  BY DEF Alive
<1>2. TakeTurns'
  BY DEF OrderlyInv, TakeTurns
<1>3. Tracked'
  BY <1>1 DEF OrderlyInv, Tracked
<1>4. Awaited'
  <2> SUFFICES ASSUME NEW p \in Pids, procs'[p].state = "starting"
               PROVE  \E q \in Runners : pc'[q] \in Waiting /\ run'[q].own = p
    BY DEF Awaited
  <2>1. PICK q \in Runners : pc[q] \in Waiting /\ run[q].own = p
    BY <1>1 DEF OrderlyInv, Awaited, Alive
  <2> QED BY <2>1, <1>1 DEF Alive
<1>5. ASSUME NEW q \in Runners \ {r}
      PROVE  Fits(q)'
  <2>1. Fits(q) /\ pc'[q] = pc[q] /\ run'[q] = run[q]
    BY DEF OrderlyInv
  <2>2. NoneAlive(NameOf[run[q].dep]) => NoneAlive(NameOf[run[q].dep])'
    BY <1>1, <2>1 DEF NoneAlive
  <2> QED BY <1>1, <2>1, <2>2 DEF Fits, PidFile
<1> QED BY <1>2, <1>3, <1>4, <1>5 DEF OrderlyInv

(* A request touches the pid file of its own name only, and keeps track of *)
(* the servers of that name itself.                                        *)
LEMMA PidFileKeepsOrder ==
  ASSUME IInv, Orderly, OrderlyInv, NEW r \in Runners, pc[r] # "idle", NEW v,
         pidFile' = [pidFile EXCEPT ![NameOf[run[r].dep]] = v],
         UNCHANGED <<run, procs>>,
         \A q \in Runners \ {r} : pc'[q] = pc[q],
         pc[r] \in Waiting => pc'[r] \in Waiting,
         \A p \in Pids : Alive(p) /\ NameOf[procs[p].dep] = NameOf[run[r].dep] =>
           v = p \/ (pc'[r] \in {"openpid", "writepid"} /\ run[r].own = p),
         Fits(r)'
  PROVE  OrderlyInv'
<1> DEFINE n == NameOf[run[r].dep]
<1>1. /\ n \in Names /\ pidFile'[n] = v
      /\ \A m \in Names \ {n} : pidFile'[m] = pidFile[m]
  BY RunFacts DEF IInv, TypeOK, MachineTypeOK
<1>2. TakeTurns'
  BY DEF OrderlyInv, TakeTurns
<1>3. Awaited'
  BY DEF OrderlyInv, Awaited
<1>4. Tracked'
  <2> SUFFICES ASSUME NEW p \in Pids, Alive(p)
               PROVE  \/ pidFile'[NameOf[procs[p].dep]] = p
                      \/ \E q \in Runners : pc'[q] \in {"openpid", "writepid"} /\ run[q].own = p
    BY DEF Tracked, Alive
  <2>1. CASE NameOf[procs[p].dep] = n
    BY <2>1, <1>1
  <2>2. CASE NameOf[procs[p].dep] # n
    <3>1. NameOf[procs[p].dep] \in Names \ {n}
      BY <2>2, AliveFacts
    <3>2. run[r].own # p
      BY <2>2, ConstantFacts DEF IInv, Keeps
    <3> QED BY <3>1, <3>2, <1>1 DEF OrderlyInv, Tracked
  <2> QED BY <2>1, <2>2
<1>5. ASSUME NEW q \in Runners \ {r}
      PROVE  Fits(q)'
  <2>1. CASE pc[q] = "idle"
    BY <2>1 DEF Fits, Killing
  <2>2. CASE pc[q] # "idle"
    <3>1. NameOf[run[q].dep] \in Names \ {n}
      BY <2>2, RunFacts DEF OrderlyInv, TakeTurns
    <3> QED BY <3>1, <1>1 DEF OrderlyInv, Fits, PidFile, NoneAlive, Alive
  <2> QED BY <2>1, <2>2
<1> QED BY <1>2, <1>3, <1>4, <1>5 DEF OrderlyInv

LEMMA RequestOrderly ==
  ASSUME IInv, Orderly, OrderlyInv, NEW r \in Runners,
         Return(r) \/ \E d \in Deployments, op \in {"start", "stop"} : Begin(r, op, d)
  PROVE  OrderlyInv'
<1>1. /\ \A q \in Runners \ {r} : pc'[q] = pc[q] /\ run'[q] = run[q]
      /\ UNCHANGED <<procs, pidFile>>
      /\ pc[r] \notin Waiting
      /\ pc'[r] \in {"idle", "mkdir", "readstop"}
  BY DEF IInv, TypeOK, MachineTypeOK, Return, Begin, Goto, machine, Waiting
<1>2. TakeTurns'
  <2>1. CASE Return(r)
    BY <1>1, <2>1 DEF IInv, TypeOK, Return, Goto, OrderlyInv, TakeTurns
  <2>2. ASSUME NEW d \in Deployments, NEW op \in {"start", "stop"}, Begin(r, op, d)
        PROVE  TakeTurns'
    <3>1. run'[r].dep = d
      BY <2>2 DEF IInv, TypeOK, MachineTypeOK, Begin
    <3>2. \A q \in Runners : pc[q] # "idle" => NameOf[run[q].dep] # NameOf[d]
      BY <2>2, OrderlyFacts DEF Begin
    <3> QED BY <1>1, <3>1, <3>2 DEF OrderlyInv, TakeTurns
  <2> QED BY <2>1, <2>2
<1>3. Tracked' /\ Awaited'
  BY <1>1 DEF OrderlyInv, Tracked, Awaited, Alive, Waiting
<1>4. \A q \in Runners : Fits(q)'
  BY <1>1 DEF OrderlyInv, Fits, NoneAlive, PidFile, Alive, Waiting, Killing
<1> QED BY <1>2, <1>3, <1>4 DEF OrderlyInv

(* Where the port is free, no server of the name is alive: one that serves *)
(* holds the port, and one that starts has its Start waiting for it.       *)
LEMMA FreePort ==
  ASSUME IInv, Orderly, OrderlyInv, NEW r \in Runners, pc[r] = "port",
         ~PortBusy(PortOf[run[r].dep])
  PROVE  NoneAlive(NameOf[run[r].dep])
<1> SUFFICES ASSUME NEW p \in Pids, Alive(p), NameOf[procs[p].dep] = NameOf[run[r].dep]
             PROVE  FALSE
  BY DEF NoneAlive
<1>1. procs[p].dep \in Deployments /\ run[r].dep \in Deployments
  BY RunFacts, AliveFacts
<1>2. CASE procs[p].state = "serving"
  BY <1>1, <1>2, OrderlyFacts DEF PortBusy
<1>3. CASE procs[p].state = "starting"
  <2>1. PICK q \in Runners : pc[q] \in Waiting /\ run[q].own = p
    BY <1>3 DEF OrderlyInv, Awaited
  <2>2. procs[p].dep = run[q].dep
    BY <2>1, ConstantFacts DEF IInv, Keeps
  <2>3. q = r
    BY <2>1, <2>2 DEF OrderlyInv, TakeTurns, Waiting
  <2> QED BY <2>1, <2>3 DEF Waiting
<1> QED BY <1>2, <1>3 DEF Alive

LEMMA PrepareOrderly ==
  ASSUME IInv, Orderly, OrderlyInv, NEW r \in Runners, Prepare(r)
  PROVE  OrderlyInv'
<1>1. /\ pc[r] \in {"mkdir", "model", "curl", "download", "binary", "port"}
      /\ UNCHANGED <<run, procs, pidFile>>
  BY DEF Prepare, MakeDirs, CheckModel, BeginDownload, EndDownload, CheckBinary, CheckPort, machine
<1>2. PICK label \in {"model", "curl", "download", "binary", "port", "launch", "failed"} : Goto(r, label)
  BY DEF Prepare, MakeDirs, CheckModel, BeginDownload, EndDownload, CheckBinary, CheckPort
<1>3. /\ pc'[r] = label
      /\ \A q \in Runners \ {r} : pc'[q] = pc[q]
  BY <1>2 DEF IInv, TypeOK, Goto
<1>4. label = "launch" => NoneAlive(NameOf[run[r].dep])
  <2>1. label = "launch" => pc[r] = "port" /\ ~PortBusy(PortOf[run[r].dep])
    BY <1>3, OrderlyFacts DEF Prepare, MakeDirs, CheckModel, BeginDownload, EndDownload,
       CheckBinary, CheckPort, Goto, IInv, TypeOK
  <2> QED BY <2>1, FreePort
<1>5. Fits(r)'
  BY <1>1, <1>3, <1>4 DEF Fits, NoneAlive, Alive, Killing
<1> QED BY <1>1, <1>3, <1>5, TurnKeepsOrder DEF Waiting

LEMMA SpawnOrderly ==
  ASSUME IInv, Orderly, OrderlyInv, NEW r \in Runners, Spawn(r)
  PROVE  OrderlyInv'
<1> USE ConstantFacts
<1> DEFINE d == run[r].dep
           n == NameOf[d]
<1>1. PICK p \in Pids :
        /\ procs[p] = Free
        /\ procs' = [procs EXCEPT ![p] = [dep |-> d, state |-> "starting"]]
        /\ run' = [run EXCEPT ![r].own = p]
        /\ pc' = [pc EXCEPT ![r] = "openpid"]
        /\ UNCHANGED pidFile
  BY OrderlyFacts DEF Spawn, Goto
<1>2. pc[r] = "launch" /\ NoneAlive(n) /\ d \in Deployments /\ n \in Names
  BY RunFacts DEF Spawn, OrderlyInv, Fits
<1>3. /\ pc'[r] = "openpid" /\ run'[r].dep = d /\ run'[r].own = p
      /\ \A q \in Runners \ {r} : pc'[q] = pc[q] /\ run'[q] = run[q]
  BY <1>1, PidFacts DEF IInv, TypeOK
<1>4. /\ procs'[p].dep = d /\ procs'[p].state = "starting" /\ ~Alive(p)
      /\ \A x \in Pids \ {p} : procs'[x] = procs[x]
  BY <1>1 DEF IInv, TypeOK, MachineTypeOK, Alive
<1>5. TakeTurns'
  BY <1>2, <1>3 DEF OrderlyInv, TakeTurns
<1>6. Tracked'
  <2> SUFFICES ASSUME NEW x \in Pids, Alive(x)'
               PROVE  \/ pidFile'[NameOf[procs'[x].dep]] = x
                      \/ \E q \in Runners : pc'[q] \in {"openpid", "writepid"} /\ run'[q].own = x
    BY DEF Tracked
  <2>1. CASE x = p
    BY <2>1, <1>3
  <2>2. CASE x # p
    <3>1. Alive(x) /\ procs'[x] = procs[x]
      BY <2>2, <1>4 DEF Alive
    <3> QED BY <3>1, <1>1, <1>2, <1>3 DEF OrderlyInv, Tracked
  <2> QED BY <2>1, <2>2
<1>7. Awaited'
  <2> SUFFICES ASSUME NEW x \in Pids, procs'[x].state = "starting"
               PROVE  \E q \in Runners : pc'[q] \in Waiting /\ run'[q].own = x
    BY DEF Awaited
  <2>1. CASE x = p
    BY <2>1, <1>3 DEF Waiting
  <2>2. CASE x # p
    <3>1. PICK q \in Runners : pc[q] \in Waiting /\ run[q].own = x
      BY <2>2, <1>4 DEF OrderlyInv, Awaited
    <3>2. q # r
      BY <3>1, <1>2 DEF Waiting
    <3> QED BY <3>1, <3>2, <1>3
  <2> QED BY <2>1, <2>2
<1>8. ASSUME NEW q \in Runners
      PROVE  Fits(q)'
  <2>1. CASE q = r
    BY <2>1, <1>2, <1>3, <1>4 DEF Fits, Killing, NoneAlive, Alive
  <2>2. CASE q # r /\ pc[q] = "idle"
    BY <2>2, <1>3 DEF Fits, Killing
  <2>3. CASE q # r /\ pc[q] # "idle"
    <3>1. Fits(q) /\ pc'[q] = pc[q] /\ run'[q] = run[q]
      BY <2>3, <1>3 DEF OrderlyInv
    <3>2. NameOf[run[q].dep] \in Names \ {n}
      BY <2>3, <1>2, RunFacts DEF OrderlyInv, TakeTurns
    <3>3. NoneAlive(NameOf[run[q].dep]) => NoneAlive(NameOf[run[q].dep])'
      BY <3>1, <3>2, <1>4 DEF NoneAlive, Alive
    <3> QED BY <3>1, <3>2, <3>3, <1>1, <1>4 DEF Fits, PidFile, Alive
  <2> QED BY <2>1, <2>2, <2>3
<1> QED BY <1>5, <1>6, <1>7, <1>8 DEF OrderlyInv

LEMMA StartOrderly ==
  ASSUME IInv, Orderly, OrderlyInv, NEW r \in Runners, OpenPid(r) \/ WritePid(r) \/ Verify(r)
  PROVE  OrderlyInv'
<1> USE OrderlyFacts
<1>1. PICK label \in {"writepid", "verify", "started"} : pc' = [pc EXCEPT ![r] = label]
  BY DEF OpenPid, WritePid, Verify, Goto
<1>2. /\ pc'[r] = label /\ \A q \in Runners \ {r} : pc'[q] = pc[q]
      /\ UNCHANGED <<run, procs>>
  BY <1>1 DEF OpenPid, WritePid, Verify, IInv, TypeOK, machine
<1>3. CASE OpenPid(r) \/ WritePid(r)
  <2>1. \E v : pidFile' = [pidFile EXCEPT ![NameOf[run[r].dep]] = v] /\ (label = "verify" => v = run[r].own)
    BY <1>2, <1>3 DEF OpenPid, WritePid, Goto, IInv, TypeOK
  <2>2. pc[r] \in {"openpid", "writepid"} /\ label \in {"writepid", "verify"}
    BY <1>2, <1>3 DEF OpenPid, WritePid, Goto, IInv, TypeOK
  <2>3. \A p \in Pids : Alive(p) /\ NameOf[procs[p].dep] = NameOf[run[r].dep] => run[r].own = p
    BY <2>2 DEF OrderlyInv, Fits
  <2>4. Fits(r)'
    BY <1>2, <2>2, <2>3 DEF Fits, Killing, Alive
  <2> QED BY <1>2, <2>1, <2>2, <2>3, <2>4, PidFileKeepsOrder DEF Waiting
<1>4. CASE Verify(r)
  <2>1. /\ pc[r] = "verify" /\ label = "started" /\ UNCHANGED pidFile
        /\ procs[run[r].own].state # "starting"
    BY <1>2, <1>4 DEF Verify, Goto, IInv, TypeOK, machine
  <2>2. Fits(r)'
    BY <1>2, <2>1 DEF Fits, Killing
  <2> QED BY <1>2, <2>1, <2>2, TurnKeepsOrder
<1> QED BY <1>3, <1>4

(* Unless r itself is about to write it, the pid file of r's name holds    *)
(* the pid of its server.                                                  *)
LEMMA InPidFile ==
  ASSUME IInv, Orderly, OrderlyInv, NEW r \in Runners, pc[r] \notin {"idle", "openpid", "writepid"},
         NEW p \in Pids, Alive(p), NameOf[procs[p].dep] = NameOf[run[r].dep]
  PROVE  PidFile(r) = p
<1>1. ASSUME NEW q \in Runners, pc[q] \in {"openpid", "writepid"}, run[q].own = p
      PROVE  FALSE
  <2>1. procs[p].dep = run[q].dep
    BY <1>1, ConstantFacts DEF IInv, Keeps
  <2> QED BY <1>1, <2>1 DEF OrderlyInv, TakeTurns
<1> QED BY <1>1 DEF OrderlyInv, Tracked, PidFile

LEMMA StopOrderly ==
  ASSUME IInv, Orderly, OrderlyInv, NEW r \in Runners, StopStep(r)
  PROVE  OrderlyInv'
<1> USE OrderlyFacts
<1> DEFINE n == NameOf[run[r].dep]
<1>1. pc[r] \in {"readstop"} \cup Killing
  BY DEF StopStep, ReadStop, Kill, Kill9, RemovePid, Killing
<1>2. pc[r] \notin Waiting /\ pc[r] # "idle"
  BY <1>1 DEF Killing, Waiting
<1>3. pc[r] \in Killing => run[r].pid \in Pids /\ pidFile[n] = run[r].pid
  BY DEF IInv, Where, OrderlyInv, Fits, PidFile, Waiting, Killing
<1>4. PICK label : pc' = [pc EXCEPT ![r] = label]
  BY DEF StopStep, ReadStop, Kill, Kill9, RemovePid, Goto
<1>5. pc'[r] = label /\ \A q \in Runners \ {r} : pc'[q] = pc[q]
  BY <1>4 DEF IInv, TypeOK
<1>6. CASE ReadStop(r)
  <2> DEFINE p == PidFile(r)
  <2>1. p \in Pids \cup {NoPid}
    BY <1>2, RunFacts
  <2>2. \/ label = "stopped" /\ run' = run
        \/ label = "kill" /\ run' = [run EXCEPT ![r].pid = p]
    BY <1>5, <1>6 DEF ReadStop, Goto, IInv, TypeOK
  <2>3. /\ run'[r].dep = run[r].dep
        /\ label = "kill" => run'[r].pid = p
        /\ \A q \in Runners \ {r} : run'[q] = run[q]
    <3> HIDE DEF p
    <3> QED BY <2>1, <2>2, PidFacts
  <2>4. UNCHANGED <<procs, pidFile>>
    BY <1>6 DEF ReadStop, machine
  <2>5. Fits(r)'
    BY <1>5, <2>2, <2>3, <2>4 DEF Fits, PidFile, Killing
  <2> QED BY <1>1, <1>2, <1>5, <2>3, <2>4, <2>5, TurnKeepsOrder DEF Killing
<1>7. CASE Kill(r) \/ Kill9(r)
  <2>1. /\ UNCHANGED <<run, pidFile>>
        /\ \A p \in Pids : procs'[p] = procs[p] \/ procs'[p].state = "dead"
    BY <1>7 DEF Kill, Kill9, SendKill, IInv, TypeOK, MachineTypeOK
  <2>2. /\ pc[r] \in Killing
        /\ label = "kill9" \/ label = "rmpid"
        /\ Alive(run[r].pid) => procs'[run[r].pid].state = "dead"
    BY <1>3, <1>5, <1>7 DEF Kill, Kill9, SendKill, Goto, IInv, TypeOK, MachineTypeOK, Killing
  <2>3. NoneAlive(n)'
    <3> SUFFICES ASSUME NEW p \in Pids, Alive(p)' PROVE NameOf[procs'[p].dep] # n
      BY <2>1 DEF NoneAlive
    <3>1. Alive(p) /\ procs'[p] = procs[p]
      BY <2>1 DEF Alive
    <3>2. p # run[r].pid
      BY <2>1, <2>2, <3>1 DEF Alive
    <3> QED BY <1>2, <1>3, <2>2, <3>1, <3>2, InPidFile DEF PidFile, Killing
  <2>4. Fits(r)'
    BY <1>3, <1>5, <2>1, <2>2, <2>3 DEF Fits, PidFile, Killing
  <2> QED BY <1>1, <1>2, <1>5, <2>1, <2>4, TurnKeepsOrder DEF Killing
<1>8. CASE RemovePid(r)
  <2>1. /\ NoneAlive(n) /\ label = "stopped"
        /\ pidFile' = [pidFile EXCEPT ![n] = NoPid]
        /\ UNCHANGED <<run, procs>>
    BY <1>5, <1>8 DEF RemovePid, OrderlyInv, Fits, Goto, IInv, TypeOK
  <2>2. Fits(r)'
    BY <1>5, <2>1 DEF Fits, Killing
  <2> QED BY <1>2, <1>5, <2>1, <2>2, PidFileKeepsOrder DEF NoneAlive
<1> QED BY <1>6, <1>7, <1>8 DEF StopStep

LEMMA MachineOrderly ==
  ASSUME IInv, Orderly, OrderlyInv, NEW p \in Pids, Bind(p) \/ Die(p) \/ Reap(p)
  PROVE  OrderlyInv'
<1>1. /\ UNCHANGED <<pc, run, pidFile>>
      /\ \A x \in Pids \ {p} : procs'[x] = procs[x]
      /\ procs'[p].state # "starting"
      /\ Alive(p)' => Alive(p) /\ procs'[p].dep = procs[p].dep
  BY DEF Bind, Die, Reap, Recycle, IInv, TypeOK, MachineTypeOK, Alive, Free
<1>2. \A x \in Pids : Alive(x)' => Alive(x) /\ procs'[x].dep = procs[x].dep
  BY <1>1 DEF Alive
<1>3. TakeTurns' /\ Tracked' /\ Awaited'
  BY <1>1, <1>2 DEF OrderlyInv, TakeTurns, Tracked, Awaited
<1>4. ASSUME NEW q \in Runners
      PROVE  Fits(q)'
  BY <1>1, <1>2 DEF OrderlyInv, Fits, NoneAlive, PidFile
<1> QED BY <1>3, <1>4 DEF OrderlyInv

LEMMA OrderlyInvariance == Spec => []OrderlyInv
<1>1. Init => OrderlyInv
  BY ConstantFacts DEF Init, MachineInit, OrderlyInv, TakeTurns, Awaited, Tracked, Fits, Alive, Killing
<1>2. ASSUME IInv, OrderlyInv, [Next]_lvars
      PROVE  OrderlyInv'
  <2> SUFFICES ASSUME Orderly PROVE OrderlyInv'
    BY <1>2, WorldStays DEF Orderly, OrderlyInv
  <2>1. CASE UNCHANGED lvars
    BY <1>2, <2>1 DEF lvars, vars, machine, OrderlyInv, TakeTurns, Awaited, Tracked, Fits, NoneAlive,
       PidFile, Alive
  <2>2. ~LocalCrash
    BY OrderlyFacts DEF LocalCrash, Crash
  <2> QED BY <1>2, <2>1, <2>2, RequestOrderly, PrepareOrderly, SpawnOrderly, StartOrderly,
       StopOrderly, MachineOrderly DEF Next, Request, StartStep
<1> QED BY <1>1, <1>2, Invariance, PTL DEF Spec

(* In an orderly world no server is ever lost: a process that is alive has *)
(* its pid in the pid file, or a Start that is about to write it there.    *)
THEOREM LocalTracked == Spec => []Tracked
<1>1. OrderlyInv => Tracked
  BY DEF OrderlyInv, Tracked
<1> QED BY <1>1, OrderlyInvariance, PTL

-----------------------------------------------------------------------------
(* The refinement of Execution.                                            *)

Results == {"started", "failed", "stopped"}

\* r's request goes on to label, with the deployment it has.
GoesOn(r, label) ==
  /\ pc' = [pc EXCEPT ![r] = label]
  /\ run'[r].op = run[r].op /\ run'[r].dep = run[r].dep
  /\ \A q \in Runners \ {r} : run'[q] = run[q]

(* What the caller of a request sees of it.                                *)
LEMMA RequestGoesOn ==
  ASSUME IInv, NEW r \in Runners, pc[r] \notin {"idle"} \cup Results, NEW label, GoesOn(r, label)
  PROVE  /\ Promise!Waits(r, run[r].op)
         /\ Requests[r].name = NameOf[run[r].dep]
         /\ label \notin Results => Requests' = Requests
         /\ label \in Results => Requests' = [Requests EXCEPT ![r].result = label]
<1> DEFINE d == run[r].dep
<1>1. pc'[r] = label /\ \A q \in Runners \ {r} : pc'[q] = pc[q]
  BY DEF GoesOn, IInv, TypeOK
<1>2. run[r].op # "none"
  BY DEF IInv, Where
<1>3. RequestOf(r) = [op |-> run[r].op, name |-> NameOf[d], result |-> "none"]
  BY <1>2 DEF RequestOf, Results
<1>4. \A q \in Runners \ {r} : RequestOf(q)' = RequestOf(q)
  BY <1>1 DEF RequestOf, GoesOn
<1>5. RequestOf(r)' = [op |-> run[r].op, name |-> NameOf[d],
                       result |-> IF label \in Results THEN label ELSE "none"]
  BY <1>1, <1>2 DEF RequestOf, GoesOn, Results
<1>6. label \notin Results => Requests' = Requests
  BY <1>3, <1>4, <1>5 DEF Requests
<1>7. ASSUME label \in Results
      PROVE  Requests' = [Requests EXCEPT ![r].result = label]
  <2> DEFINE new == [op |-> run[r].op, name |-> NameOf[d], result |-> label]
  <2>1. [Requests[r] EXCEPT !.result = label] = new
    BY <1>3 DEF Requests
  <2>2. Requests' = [Requests EXCEPT ![r] = new]
    BY <1>4, <1>5, <1>7 DEF Requests
  <2> QED BY <2>1, <2>2
<1> QED BY <1>3, <1>6, <1>7 DEF Promise!Waits, Requests

(* What a process that starts, and one that does not, mean for the names   *)
(* that have a live server.                                                *)
LEMMA LiveStarts ==
  ASSUME IInv, NEW p \in Pids, NEW d \in Deployments, procs[p] = Free,
         procs' = [procs EXCEPT ![p] = [dep |-> d, state |-> "starting"]]
  PROVE  LiveNames' = LiveNames \cup {NameOf[d]}
<1>1. /\ ~Alive(p) /\ Alive(p)' /\ procs'[p].dep = d
      /\ \A q \in Pids \ {p} : procs'[q] = procs[q]
  BY DEF IInv, TypeOK, MachineTypeOK, Alive, Free
<1> QED BY <1>1 DEF LiveNames, Alive

LEMMA LiveEnds ==
  ASSUME IInv, NEW p \in Pids, \A q \in Pids \ {p} : procs'[q] = procs[q],
         Alive(p)' => Alive(p) /\ procs'[p].dep = procs[p].dep
  PROVE  \/ LiveNames' = LiveNames
         \/ \E n \in Names : LiveNames' = LiveNames \ {n}
<1>1. CASE \E q \in Pids \ {p} : Alive(q) /\ NameOf[procs[q].dep] = NameOf[procs[p].dep]
  BY <1>1 DEF LiveNames, Alive
<1>2. CASE ~Alive(p) \/ Alive(p)'
  BY <1>2 DEF LiveNames, Alive
<1>3. CASE /\ Alive(p) /\ ~Alive(p)'
           /\ \A q \in Pids \ {p} : Alive(q) => NameOf[procs[q].dep] # NameOf[procs[p].dep]
  <2>1. NameOf[procs[p].dep] \in Names
    BY <1>3, ConstantFacts DEF IInv, Born, Alive, Free
  <2>2. LiveNames' = LiveNames \ {NameOf[procs[p].dep]}
    BY <1>3 DEF LiveNames, Alive
  <2> QED BY <2>1, <2>2
<1> QED BY <1>1, <1>2, <1>3

LEMMA StartRefines ==
  ASSUME IInv, NEW r \in Runners, StartStep(r)
  PROVE  \/ \E n \in Names : Promise!Launch(n)
         \/ \E result \in {"started", "failed"} : Promise!FinishStart(r, result)
         \/ UNCHANGED <<Requests, LiveNames>>
<1> DEFINE n == NameOf[run[r].dep]
<1>1. pc[r] \in {"mkdir", "model", "curl", "download", "binary", "port", "launch", "openpid", "writepid", "verify"}
  BY DEF StartStep, Prepare, MakeDirs, CheckModel, BeginDownload, EndDownload, CheckBinary,
     CheckPort, Spawn, OpenPid, WritePid, Verify
<1>2. run[r].op = "start" /\ run[r].dep \in Deployments /\ n \in Names
  BY <1>1, RunFacts DEF IInv, Where, Killing
<1>3. PICK label : /\ pc' = [pc EXCEPT ![r] = label]
                   /\ label \in Results => label \in {"started", "failed"}
  <2>1. CASE Prepare(r)
    BY <2>1 DEF Prepare, MakeDirs, CheckModel, BeginDownload, EndDownload, CheckBinary, CheckPort,
       Goto, Results
  <2>2. CASE Spawn(r) \/ OpenPid(r) \/ WritePid(r) \/ Verify(r)
    BY <2>2 DEF Spawn, OpenPid, WritePid, Verify, Goto, Results
  <2> QED BY <2>1, <2>2 DEF StartStep
<1>4. GoesOn(r, label)
  <2>1. CASE ~Spawn(r)
    <3>1. run' = run
      BY <2>1 DEF StartStep, Prepare, MakeDirs, CheckModel, BeginDownload, EndDownload, CheckBinary,
         CheckPort, OpenPid, WritePid, Verify
    <3> QED BY <1>3, <3>1 DEF GoesOn
  <2>2. CASE Spawn(r)
    <3>1. run' = run \/ \E p \in Pids : run' = [run EXCEPT ![r].own = p]
      BY <2>2 DEF Spawn
    <3> QED BY <1>3, <3>1, PidFacts DEF GoesOn
  <2> QED BY <2>1, <2>2
<1>5. /\ Promise!Waits(r, "start")
      /\ Requests[r].name = n
      /\ label \notin Results => Requests' = Requests
      /\ label \in Results => Requests' = [Requests EXCEPT ![r].result = label]
  BY <1>1, <1>2, <1>4, RequestGoesOn DEF Results
<1>6. LiveNames' \in {LiveNames, LiveNames \cup {n}}
  <2>1. CASE UNCHANGED procs
    BY <2>1 DEF LiveNames, Alive
  <2>2. CASE Spawn(r)
    BY <1>2, <2>1, <2>2, LiveStarts DEF Spawn
  <2>3. CASE ~Spawn(r)
    <3>1. UNCHANGED procs
      BY <2>3 DEF StartStep, Prepare, MakeDirs, CheckModel, BeginDownload, EndDownload,
         CheckBinary, CheckPort, OpenPid, WritePid, Verify, machine
    <3> QED BY <2>1, <3>1
  <2> QED BY <2>2, <2>3
<1>7. CASE label \in Results
  BY <1>3, <1>5, <1>6, <1>7 DEF Promise!FinishStart, Trust
<1>8. CASE label \notin Results
  BY <1>2, <1>5, <1>6, <1>8 DEF Promise!Launch
<1> QED BY <1>7, <1>8

LEMMA StopRefines ==
  ASSUME IInv, OrderlyInv, NEW r \in Runners, StopStep(r)
  PROVE  \/ Promise!FinishStop(r, "stopped")
         \/ \E n \in Names : Promise!End(n)
         \/ UNCHANGED <<Requests, LiveNames>>
<1> DEFINE n == NameOf[run[r].dep]
<1>1. pc[r] \in {"readstop"} \cup Killing
  BY DEF StopStep, ReadStop, Kill, Kill9, RemovePid, Killing
<1>2. run[r].op = "stop" /\ n \in Names /\ PidFile(r) \in Pids \cup {NoPid}
  BY <1>1, RunFacts DEF IInv, Where, Waiting, Killing
<1>3. PICK label : pc' = [pc EXCEPT ![r] = label] /\ (label \in Results => label = "stopped")
  BY DEF StopStep, ReadStop, Kill, Kill9, RemovePid, Goto, Results
<1>4. pc'[r] = label
  BY <1>3 DEF IInv, TypeOK
<1>5. GoesOn(r, label)
  <2>1. run' = run \/ \E p \in Pids \cup {NoPid} : run' = [run EXCEPT ![r].pid = p]
    BY <1>2 DEF StopStep, ReadStop, Kill, Kill9, RemovePid
  <2> QED BY <1>3, <2>1, PidFacts DEF GoesOn
<1>6. /\ Promise!Waits(r, "stop")
      /\ Requests[r].name = n
      /\ label \notin Results => Requests' = Requests
      /\ label \in Results => Requests' = [Requests EXCEPT ![r].result = label]
  BY <1>1, <1>2, <1>5, RequestGoesOn DEF Results, Killing
<1>7. CASE Kill(r) \/ Kill9(r)
  <2>1. label \notin Results
    BY <1>4, <1>7 DEF Kill, Kill9, Goto, Results, IInv, TypeOK
  <2>2. run[r].pid \in Pids
    BY <1>7 DEF Kill, Kill9, IInv, Where, Waiting, Killing
  <2>3. procs' = procs \/ procs' = [procs EXCEPT ![run[r].pid].state = "dead"]
    BY <1>7 DEF Kill, Kill9, SendKill
  <2>4. LiveNames' = LiveNames \/ \E m \in Names : LiveNames' = LiveNames \ {m}
    <3> DEFINE p == run[r].pid
    <3>1. /\ p \in Pids /\ \A q \in Pids \ {p} : procs'[q] = procs[q]
          /\ procs'[p].state \in {"starting", "serving"} =>
               procs[p].state \in {"starting", "serving"} /\ procs'[p].dep = procs[p].dep
      BY <2>2, <2>3 DEF IInv, TypeOK, MachineTypeOK
    <3> HIDE DEF p
    <3> QED BY <3>1, LiveEnds DEF Alive
  <2> QED BY <1>6, <2>1, <2>4 DEF Promise!End
<1>8. CASE ReadStop(r) \/ RemovePid(r)
  <2>1. LiveNames' = LiveNames
    BY <1>8 DEF ReadStop, RemovePid, LiveNames, Alive, machine
  <2>2. ASSUME label = "stopped", Orderly
        PROVE  n \notin LiveNames
    <3>1. NoneAlive(n)
      <4>1. CASE RemovePid(r)
        BY <2>2, <4>1 DEF RemovePid, OrderlyInv, Fits
      <4>2. CASE ReadStop(r)
        <5>1. PidFile(r) = NoPid /\ pc[r] = "readstop"
          BY <1>4, <2>2, <4>2, OrderlyFacts DEF ReadStop, Goto, IInv, TypeOK
        <5> QED BY <2>2, <5>1, ConstantFacts, InPidFile DEF NoneAlive
      <4> QED BY <1>8, <4>1, <4>2
    <3> QED BY <3>1 DEF NoneAlive, LiveNames
  <2>3. CASE label \in Results
    <3>1. label = "stopped"
      BY <1>3, <2>3
    <3>2. "stopped" \in Trust => n \notin LiveNames'
      BY <2>1, <2>2, <3>1 DEF Trust
    <3> QED BY <1>6, <2>1, <2>3, <3>1, <3>2 DEF Promise!FinishStop
  <2> QED BY <1>6, <2>1, <2>3
<1> QED BY <1>7, <1>8 DEF StopStep

LEMMA RequestRefines ==
  ASSUME IInv, NEW r \in Runners
  PROVE  /\ \A d \in Deployments, op \in {"start", "stop"} :
              Begin(r, op, d) => Promise!Begin(r, op, NameOf[d]) /\ NameOf[d] \in Names
         /\ Return(r) => Promise!Return(r)
<1> USE ConstantFacts DEF LiveNames, Alive, machine
<1>1. ASSUME NEW d \in Deployments, NEW op \in {"start", "stop"}, Begin(r, op, d)
      PROVE  Promise!Begin(r, op, NameOf[d])
  <2> DEFINE new == [op |-> op, name |-> NameOf[d], result |-> "none"]
  <2>1. Requests[r] = Promise!NoReq
    BY <1>1 DEF Begin, IInv, Where, Waiting, Killing, Requests, RequestOf, Promise!NoReq
  <2>2. RequestOf(r)' = new
    BY <1>1 DEF Begin, Goto, IInv, TypeOK, MachineTypeOK, RequestOf
  <2>3. \A q \in Runners \ {r} : RequestOf(q)' = RequestOf(q)
    BY <1>1 DEF Begin, Goto, IInv, TypeOK, MachineTypeOK, RequestOf
  <2>4. Requests' = [Requests EXCEPT ![r] = new]
    BY <2>2, <2>3 DEF Requests
  <2> QED BY <1>1, <2>1, <2>4 DEF Promise!Begin, Begin
<1>2. ASSUME Return(r)
      PROVE  Promise!Return(r)
  <2>1. Requests[r].result # "none"
    BY <1>2 DEF Return, Requests, RequestOf
  <2>2. RequestOf(r)' = Promise!NoReq
    BY <1>2 DEF Return, Goto, IInv, TypeOK, MachineTypeOK, RequestOf, Promise!NoReq
  <2>3. \A q \in Runners \ {r} : RequestOf(q)' = RequestOf(q)
    BY <1>2 DEF Return, Goto, IInv, TypeOK, MachineTypeOK, RequestOf
  <2>4. Requests' = [Requests EXCEPT ![r] = Promise!NoReq]
    BY <2>2, <2>3 DEF Requests
  <2> QED BY <1>2, <2>1, <2>4 DEF Promise!Return, Return
<1> QED BY <1>1, <1>2

LEMMA MachineRefines ==
  ASSUME IInv, NEW p \in Pids, Bind(p) \/ Die(p) \/ Reap(p)
  PROVE  \/ \E n \in Names : Promise!End(n)
         \/ UNCHANGED <<Requests, LiveNames>>
<1>1. Requests' = Requests
  BY DEF Bind, Die, Reap, Recycle, Requests, RequestOf
<1>2. /\ \A q \in Pids \ {p} : procs'[q] = procs[q]
      /\ Alive(p)' => Alive(p) /\ procs'[p].dep = procs[p].dep
  BY DEF Bind, Die, Reap, Recycle, IInv, TypeOK, MachineTypeOK, Alive, Free
<1> QED BY <1>1, <1>2, LiveEnds DEF Promise!End

(* Every step of the executor and its machine is a step of the promise, or *)
(* none that a caller can tell.                                            *)
LEMMA PromiseStep ==
  ASSUME IInv, OrderlyInv, [Next]_lvars
  PROVE  [Promise!Next]_<<Requests, LiveNames, Trust>>
<1>1. UNCHANGED Trust
  BY WorldStays DEF Trust, Orderly
<1>2. CASE UNCHANGED lvars
  BY <1>1, <1>2 DEF lvars, vars, machine, Requests, RequestOf, LiveNames, Alive
<1>3. CASE Request
  BY <1>1, <1>3, RequestRefines DEF Request, Promise!Next, Promise!Step
<1>4. ASSUME NEW r \in Runners, StartStep(r)
      PROVE  [Promise!Next]_<<Requests, LiveNames, Trust>>
  BY <1>1, <1>4, StartRefines DEF Promise!Next, Promise!Step
<1>5. ASSUME NEW r \in Runners, StopStep(r)
      PROVE  [Promise!Next]_<<Requests, LiveNames, Trust>>
  BY <1>1, <1>5, StopRefines DEF Promise!Next, Promise!Step
<1>6. ASSUME NEW r \in Runners, Return(r)
      PROVE  Promise!Next
  BY <1>1, <1>6, RequestRefines DEF Promise!Next, Promise!Step
<1>7. ASSUME NEW p \in Pids, Bind(p) \/ Die(p) \/ Reap(p)
      PROVE  [Promise!Next]_<<Requests, LiveNames, Trust>>
  BY <1>1, <1>7, MachineRefines DEF Promise!Next
<1>8. CASE LocalCrash
  <2>1. \A r \in Runners : RequestOf(r)' = Promise!NoReq
    BY <1>8 DEF LocalCrash, Crash, RequestOf, NoRun, Promise!NoReq
  <2>2. Requests' = [r \in Runners |-> Promise!NoReq]
    BY <2>1 DEF Requests
  <2> QED BY <1>1, <1>8, <2>2 DEF LocalCrash, Crash, LiveNames, Alive, Promise!Next, Promise!Crash
<1> QED BY <1>2, <1>3, <1>4, <1>5, <1>6, <1>7, <1>8 DEF Next

(* The local executor is an implementation of Execution: servers appear    *)
(* only while a Start of their name is under way, a Stop never reports     *)
(* failure, and in an orderly world its success can be believed.           *)
THEOREM LocalKeepsPromise == Spec => KeepsPromise
<1>1. Init => Promise!Init
  <2> SUFFICES ASSUME Init PROVE Promise!Init
    OBVIOUS
  <2>1. \A r \in Runners : RequestOf(r) = Promise!NoReq
    BY DEF Init, MachineInit, RequestOf, NoRun, Promise!NoReq
  <2>2. Requests = [r \in Runners |-> Promise!NoReq]
    BY <2>1 DEF Requests
  <2>3. LiveNames = {}
    BY DEF Init, MachineInit, LiveNames, Alive, Free
  <2> QED BY <2>2, <2>3 DEF Promise!Init, Promise!Trusts, Trust
<1>2. IInv /\ OrderlyInv /\ [Next]_lvars => [Promise!Next]_<<Requests, LiveNames, Trust>>
  BY PromiseStep
<1>3. Spec => Promise!Init /\ [][Promise!Next]_<<Requests, LiveNames, Trust>>
  BY <1>1, <1>2, Invariance, OrderlyInvariance, PTL DEF Spec
<1> QED BY <1>3 DEF KeepsPromise, Promise!Spec
=============================================================================
