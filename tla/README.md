# ModelFleet in TLA+

ModelFleet is a control plane, written in Go, for servers of language models.
It keeps records of machines, models and deployments as JSON files; starts and
stops `llama-server` processes on machines over ssh, on its own host, or in
docker containers; checks their health every 30 seconds; and forwards chat
requests to them. This directory models what can go wrong between those parts:
TLC checks the models on small instances, and TLAPS proves the most important
of the properties for instances of any size.

Paths below are relative to the repository, mostly to `src/internal/`.

To repeat the checks, in this directory:

    tlc -workers 2 -config <X>.cfg <module>      # modules: see "Runs"
    tlapm <module>_proofs.tla

## 1. The system

### Components

| Component | Source | State | Operations | Modules |
|---|---|---|---|---|
| Deployment handlers | `api/deployments.go`, `repository/deployment.go` | `data/deployments/<id>.json`, the place each goroutine is at | Create, Start, Stop, Delete; List, Get, GetLogs (read only) | ControlPlane, Records, Fleet |
| Health scheduler | `health/checker.go` | its copy of the records | a tick: `checkAll`, `Check` with its four probes | ControlPlane, Fleet |
| JSON store | `store/store.go` | the files, one `sync.RWMutex` | Save, Get, GetAll, Delete | AtomicStore, JSONStore |
| SSH executor | `deployment/executor.go` | processes, pid files and model file of a machine | Start, Stop; GetLogs (read only) | Machine, SSHExecutor, Execution |
| Local executor | `deployment/local.go` | the same, on the own host, as child processes | Start, Stop; GetLogs (read only) | Machine, LocalExecutor, Execution |
| Docker executor | `deployment/executor.go`, `docker/client.go` | the containers of a docker host | StartDocker, StopDocker | DockerExecutor, Execution |
| Machines and models | `api/machines.go`, `api/models.go`, `api/common.go` | their records, the facts detected | Create, Delete, Detect, GetDeployableModels | Catalog |
| Recommendation engine | `deployment/recommendation.go` | none | checkCompatibility, GetDeployableModels | Recommendation |
| Gateway | `gateway/proxy.go` | requests under way | ChatCompletions; ListModels (read only) | Gateway |
| Event log | `events/logger.go`, `repository/event.go` | `data/events/` | Log, GetRecent | EventLog, LoggedGateway |
| API keys | `repository/apikey.go` | `data/api_keys/` | unreachable | not modelled |
| Router, web page, SQL schema | `api/router.go`, `frontend/`, `db/db.go` | none, or dead code | | not modelled |

### How they interact, and what is hard about it

* Every HTTP request is a goroutine, and so is the scheduler. They share the
  JSON store and nothing else. **No lock spans two operations of the store**,
  and between two operations of one handler lie remote commands that take
  seconds to minutes. So requests for one deployment interleave with each other
  and with the scheduler, which probes servers one by one after having copied
  all the records.
* `UpdateStatus` is a read followed by a write; its errors are looked at by
  nobody.
* The store survives the process and nothing else does. There is no recovery
  at start-up. `os.WriteFile` truncates before it writes.
* The machine changes between any two commands: servers take their time to
  bind their port, they die, pids are given to others. Commands fail, and a
  failed ssh command may have run. Most failures are read as an answer ("free",
  "missing", "already stopped").
* Pid files, log files and containers are named after the deployment's name,
  which nothing keeps unique; the gateway looks deployments up by that name.

### What makes each part correct

* **Deployment handlers and scheduler**: a status says something about the
  server only if somebody started it; a deployment that is deleted stays
  deleted; nothing is left in `deploying` while the process lives; the
  scheduler leaves alone what it has no business with; changes of a server
  that last are noticed; where executors can be believed, a name whose
  deployments are all recorded planned or stopped has no server.
* **Store**: each operation is atomic to its callers, whether it succeeds or
  fails; a crash tears at most the record being saved; every call returns.
* **Executors**: a stop hits only its own server, and ends it; no server is
  lost (running, with no pid file that names it); what a result says is true.
* **Catalog**: what is recommended fits, where its needs are known; facts of
  deleted machines do not linger.
* **Gateway**: a request goes only to a deployment of its name that was
  started, and is refused only for a reason: while the first deployment of the
  name is in order and its record can be read, its server is asked.
* **Event log**: the listing has the newest of the events there are.

## 2. The modules

    Records              AtomicStore         Execution  <-----------------+
      ^    ^                  ^                  ^  implement             | composed
      |    | implements       | implements       |                        | with
      |  ControlPlane     JSONStore   SSHExecutor, LocalExecutor          |
      |    ^                          (both on Machine), DockerExecutor   |
      |    +--------------------------------- Fleet ----------------------+
      |
    Gateway (composed with Records)  <--  LoggedGateway  -->  EventLog

    Catalog  -->  Recommendation

`ControlPlane` takes each store operation as one step: `JSONStore` implementing
`AtomicStore` is why it may. `Gateway` only reads records, so it is composed
with `Records`, the abstract writer that `ControlPlane` is proved to implement,
instead of with all of `ControlPlane`. To `ControlPlane` a remote command is a
verdict (`RunStart(h, ok)`); what has happened on the machines when the verdict
comes is said by `Execution`, which each of the three executors implements, and
`Fleet` composes the two.

### ControlPlane

`rec[d]` is the file of deployment `d`: its status (nothing writes any other
field after creation), `"absent"` or `"torn"`. `pc` and `job` are the program
counter of each goroutine and the request it serves. The labels follow the code:

| Label | Code | Action |
|---|---|---|
| `machine`, `model` | the lookups that precede everything else | GetMachine, GetModel |
| `insert` | `repo.Create` | Insert |
| `load`, `save` | the two halves of `UpdateStatus` | Load, SaveStatus |
| `execute` | the executor's commands, minutes long | RunStart, RunStop |
| `checking` | the loop of `checkAll` | CheckOne, EndCheckAll |
| `tcp`, `health`, `models`, `root` | the four probes of `Check` | Probe |

`AfterUpdate` is where `UpdateStatus` returns to. `server[d]` is what a probe
would meet. The environment changes it at any time, also between two probes of
one check, each of which may wait for seconds; `Finding` says what a probe makes
of it, and `Conclude` what `checkAll` makes of the result. `executed` is
history. `Crash` ends all goroutines, and
may tear a record being written; `Save` may fail when `"disk" \in Faults`.
(`"disk"` is about writes here. A read that fails changes no record: an update
is lost as it is where its save fails, a request ends with an error, and the
scheduler leaves the deployment, or the round, out.)
Abstracted: record contents other than the status, request validation, replies,
events. Ids are never generated twice (they are random, 64 bits).

### AtomicStore, JSONStore

`AtomicStore` has one step per operation between its call and its return, with
its result or an error: a file that is not there or does not parse, a failing
save or deletion, or, of `GetAll`, a directory that cannot be listed
(`ListFails`; a file that cannot be read is only left out).
`JSONStore` has one step per file operation and per step of the RWMutex as the
`sync` package implements it (a writer announces itself, which blocks new
readers; waits for the readers; and lets in all those it blocked when it
leaves). The refinement mapping `Visible` is the file as callers see it: while
a record is between truncation and write, what it held before. One collection
is modelled: the others only share the lock. Record ids come from the code, so
a file name is its id.

### Machine, SSHExecutor, LocalExecutor

`procs[p]` is the process with pid `p`, `pidFile[n]` the pid file of name `n`,
`modelFile` is missing, partial or complete, `run[r]` the request of handler
goroutine `r` with the pid it read (`pid`) and the one it started (`own`,
history). There is one label per remote command. `Bind`, `Die`, `Recycle` are
the machine's own steps. What else may happen (overlapping requests, slow
servers, deaths, faults, reuse of pids, crashes) is a set chosen initially, the
`world`; properties name the worlds they hold in.

Abstractions to know about: over ssh, starting the server and writing its pid
are one step, as they are one remote shell command (`Launch`; a fault is before
it or after it); a download that is reported failed may have written none, some
or all of the file (`EndDownload`); the signals of the local executor reach
their process if there is one (same user); directories are not modelled, only
that making them may fail; log files are left out. All deployments of an
instance are on one machine and share one model file. Pid 0, which `Atoi` makes
of an unreadable file, is `NoPid`; `kill -0 0` succeeds (`Signalled`), as in a
shell.

### DockerExecutor

`container[n]` is the state of the container of name `n`; one label per docker
command. A command that fails may have been carried out. `config[n]` is the
deployment the container was created for: its image, ports and model.
`steady` is history: the container has been running since the request came.
Ports enter only as `"busy"`: the daemon may not get the port. A command that
gets no answer ends its request at `noanswer` (a start) or `notstopped` (a
stop), to the caller a failure like any other.

### Execution, Fleet

`Execution` is what a handler may expect of an executor: a server comes up only
while a Start of its name is under way, may go at any time, and each request
ends with a result. `trust` says which results can be believed:

| In `trust` | Meaning | ssh | local | docker |
|---|---|---|---|---|
| `started` | a Start that reports success has a live server | orderly world | never | always |
| `stopped` | a Stop that reports success has left none | orderly world | orderly world | always |
| `stops` | a Stop reports success | always | always | no command fails |

"Orderly" (`Machine!Orderly`) means that commands are answered in time, one
request at a time for a name, by a control plane that lives, and that
deployments which share a name share the port too: pid files are named after
the name, and a second deployment of that name on another port would pass the
port check and overwrite the pid of the first. A result is believed at the
moment it is given: docker answers for the container as it then is, however
requests overlap.

The mappings (`Requests`, `LiveNames` in `Machine`; `Requests`, `RunningNames`
in `DockerExecutor`; `Trust` in each executor) forget pids, files and commands:
the server of a name is live if a process of it is, or its container. The
property is `KeepsPromise`.

`Fleet` composes `ControlPlane` with `Execution`: a handler at `execute` is a
runner whose request is under way, for the name (`NameOf`) of its deployment,
which others may have too. It follows the servers only in a calm world, where
starts and stops for one name do not overlap and every result can be believed;
in the other world it is `ControlPlane` as it is, so that the liveness
properties are checked in both. A server that is live is answered for by some
deployment of its name that is not `Down`: its record says more than planned or
stopped, or it has been started and then deleted, which stops nothing. It has no
crashes, from which nothing in the code recovers: after one, `deploying` stays,
and a live server may have any record.

### Recommendation, Catalog

Operators for what detection makes of the hardware if a set of its commands
fails, and for `checkCompatibility`; amounts are numbers of bytes (0 means
unknown, as in the code), `ramUsage > 0.8` is `10 * ram > 8 * total` (the code
computes it in floating point, so the two could differ by rounding at the exact
boundary). `Catalog` has the handlers that keep machines, facts and models.
`"free"` stands for `sysctl` where the machine is local. `mac_metal_ready` is
known to the engine, and to the model, but no detection finds it. A model whose
need of RAM is unknown is offered to every machine without a GPU to judge it
by; `RecommendedFits` makes no promise of RAM for those. With `"disk"` in
`Faults` a save or a deletion may fail, with `"crash"` the requests may all end
at once; to readers a torn file is as good as none, so the two are not told
apart; and the listing of the models may miss any of them (`Listings`). Left
out: the descriptive fields (nothing updates them).

### EventLog, LoggedGateway

An event is represented by its time, and `events` is what `GetAll` returns of
`data/events`: the times in the order of the files. Ids are random, so `Log`
puts a new file anywhere, and a goroutine stamps an event before it waits for
the store's lock, so its time may be any; or the save fails and the event is
lost (a torn file is skipped by readers). A file that cannot be read is skipped
too, and the listing is that of a smaller directory; where the directory cannot
be read there is none. The sort is the code's pair of loops: `Pass` is the
inner one, a recursive function of the index `j`, `Sort` the outer one, and
`Exchange` the comparison in both. `LoggedGateway` composes the log with
`Gateway`, each of whose requests logs one event when it is decided. The other
callers of `Log` (health checks, executors) would add events like these.

### Records, Gateway

`Gateway` has one step each for the lookup (`GetAll` and the loop over copies),
the connection, the answer. With `"disk"` in `Faults` the lookup may skip any
records (`Misses`) or fail altogether (`LookupFails`, answered 500); with
`"network"` a request may be lost although its server is well: its time limit
of 120 seconds runs out, or its connection breaks (`TimeOut`; a dial that is
lost counts as one here). That a body is cut short after its status has been
passed on is not told from a whole answer. `Rank` is the order of file names,
in which the loop meets records; it is arbitrary as the ids are random.
`AddressOf` is the recorded host and port and `BindsAt` where the server really
is: they differ for a deployment created without a host, recorded as `0.0.0.0`.
`steady` is history: the deployments that have been the first of their name,
running, and listening at their address since before the request came; `missed`
is too: the records of the name that the lookup could not read; and `by` is the
deployment whose server was dialled. `RefusalJustified` says that a steady
deployment's own server is dialled, and its answer passed on unless the request
is lost, with the one exception that its own record is among those missed.

## 3. Runs

Every run takes two minutes at most, has the deadlock check on, and explores
all behaviours within its bounds. Handlers, and the ids and values that nothing
tells apart, are symmetric; runs that check liveness use no symmetry.

| Run | Module | Bounds | What it shows |
|---|---|---|---|
| cp_faults | MCControlPlane | 1 deployment, 3 handlers, scheduler, 5 probe outcomes, crashes, disk errors | StatusEarned, KeepsPromise, LostForGood, SettledUntilRequest |
| cp_live | MCFleet | 1 deployment, 2 handlers, 3 outcomes, calm or not, fair | DeployingHasHandler, StoppedIsDown, DeployingResolves, DownIsNoticed, UpIsNoticed |
| cp_stale | MCControlPlane | 1 handler | **violated**: the scheduler overwrites `stopped` |
| cp_degraded | MCControlPlane | 1 handler, servers healthy or not answering, fair | **violated**: `degraded` is for ever |
| store_atomic | MCJSONStore | 3 threads, 2 records, 2 values, crashes, disk errors | ImplementsAtomic |
| store_live | MCJSONStore | 3 threads, 1 record, disk errors, fair | EveryCallReturns |
| ssh | MCSSHExecutor | 2 deployments on one port, 2 handlers, 3 pids, 4 worlds | StopHitsOwn, StopKills, Tracked, PartialIsDownloading, FailedLeavesNothing, StartedServes, KeepsPromise |
| local | MCLocalExecutor | the same, 4 worlds | StopHitsOwn, StopKills, Tracked, KeepsPromise |
| local_verified | MCLocalExecutor | 1 deployment, calm world | **violated**: the verification verifies nothing |
| docker | MCDockerExecutor | 3 deployments (2 of one name), 3 handlers, 2 worlds | SafeToRetry, KeepsPromise, StartedOwn |
| catalog | MCCatalog | 2 machines, 4 models around every comparison, 2 handlers, crashes, disk errors | RecommendedFits, GoneForGood |
| gateway | MCGateway | 3 deployments sharing names and addresses, 1 client, unreadable records, lost connections; up to 3 events, 2 times, limits 0 to 2 | ForwardedWasStarted, RefusalJustified; RecentIsNewest, LoggingKeepsNewer |

Why the bounds are enough to be interesting:

* **cp_faults**: deployments interact only through the scheduler's single copy
  and loop, and through deletion of machines and models; the hazards are races
  on *one* record. Three handlers give the longest races there are: a stop, a
  start and another of either, with the scheduler as a fourth writer.
* **cp_live**: two handlers are a request and one that overlaps it; three
  outcomes lead to each of the states a check may find. (Servers that answer
  only `/v1/models` take the same way as healthy ones, one probe later.)
  Namesakes need a second deployment, with which liveness is out of reach:
  theorem FleetStoppedIsDown is for them.
* **store**: readers and writers in all mixes of three: a writer between two
  readers, a reader between two writers, a scan of two files across a save.
* **ssh, local**: two requests overlap for one name, or run side by side for
  two names on one port. The bound on starts is the number of pids: three allow
  a server, its duplicate, and a third after either has died; with reuse of pids
  the number of starts is not bounded at all. `MCWorlds` lists maximal sets of
  happenings for each property.
* **docker**: the shared name needs two deployments, the overlapping of two
  starts with a stop three requests.
* **gateway**: requests only read, so a second client adds nothing. `d1` and
  `d2` share a name, `d2` and `d3` an address, and `d3` is not where its record
  says. Statuses other than the four used behave like `planned` to the gateway.
* **catalog**: the models sit on both sides of each comparison (fits exactly,
  one more than fits, the 80 % rule, unknown need); the theorems are for all
  numbers.
* **events**: three files and limits of 0 to 2 give listings below, at and above
  the limit. Two times are enough for a sort that only compares and exchanges,
  always in the same order: if it sorts all directories of two times, it sorts
  those of any times.

### Fairness

`ControlPlane!Fairness`: a goroutine that can run does so (weak fairness per
handler and for the scheduler). The Go scheduler is preemptive and fair in this
sense; the ticker fires for ever; every probe ends, the HTTP client and the dial
having time-outs; and it assumes that every remote command ends, which ssh's
`ConnectTimeout` grants only for the connection: a command that hangs for ever
leaves its deployment in `deploying`. Requests, deletions and the environment
owe nothing. `JSONStore!JFairSpec`: weak fairness for what a thread does by
itself, strong fairness for `Lock`, because writers queue on a `sync.Mutex`,
whose starvation mode hands it to a waiter that has waited for a millisecond.

### Disagreements the runs show

* **cp_stale**: `checkAll` filters on the copy of the status it took before the
  probes ("Only check deployments that should be running", `checker.go:124`). A
  deployment stopped in the meantime is then set to `unhealthy`, and from there
  back to `running` if anything answers at that address.
* **cp_degraded**: the scheduler writes `degraded` but checks only `running` and
  `unhealthy`: a deployment found degraded once is never looked at again,
  against `spec.md:827` ("must health-check each deployment periodically"). It
  need not even have been degraded: in the run a server comes up after the probe
  of `/v1/models` has failed and before that of the root page succeeds. The
  gateway refuses it until someone starts it again.
* **local_verified**: the local executor's "verify process is running"
  (`local.go:122`) calls `os.FindProcess`, which on Unix succeeds for any pid.

Seen while modelling, and not spent a run on: a second start of a deployment
that is loading loses the first server (`spec.md:749` asks for no duplicates),
which is why `Tracked` excludes overlapping requests and slow servers, and so
does one of a namesake on another port; a start of a running deployment over
ssh or on the own host fails its own port check and marks it `failed`
(`spec.md:742`: "Every action should be safe to retry"); a partial download
counts as a model file, whoever left it, and stays after a download that failed
(`spec.md:748`; `PartialIsDownloading` is only about downloads that overlap and
are answered: the file is then being written, and will be whole); a failed
start leaves no event record, though `CODE_STATUS.md` says that all failed
operations do; an unreadable pid file is verified as pid 0 (`executor.go:143`);
`Stop` ignores `Success`; a namesake hides a running deployment from the
gateway (`spec.md:921`); `ListModels` offers planned deployments, which chat
requests cannot reach.

## 4. Proofs

No module assumes anything but its named ASSUMEs about constants (typing,
distinctness), which TLC evaluates in the runs. TLAPS checks every leaf.

| Module | Theorem | Property |
|---|---|---|
| ControlPlane_proofs | TypeCorrect, StatusesAreEarned, LostStaysLost, SettledStays | of the same meaning, any number of deployments and handlers, with all faults |
| | PromiseKept | `KeepsPromise`: ControlPlane implements Records |
| | NobodyStranded | `DeployingHasHandler`, if `Faults = {}` |
| JSONStore_proofs | StoreTypeCorrect | `JTypeOK` |
| | StoreIsAtomic | `ImplementsAtomic`: JSONStore implements AtomicStore |
| LoggedGateway_proofs | GatewayTypeCorrect, OnlyStartedIsAsked, RefusalsAreJustified | `TypeOK`, `ForwardedWasStarted`, `RefusalJustified`, of the gateway alone |
| | LoggedGatewayIsGateway | LoggedGateway implements Gateway, so that they hold with the log too |
| | ListingIsNewest, LoggingPushesOutTheOldest | `RecentIsNewest`, `LoggingKeepsNewer`, for any events and limits |
| SSHExecutor_proofs | SSHTypeCorrect, SSHStopHitsOwn, SSHStopKills, SSHPartialIsDownloading, SSHTracked, SSHFailedLeavesNothing, SSHStartedServes | the properties of those names, any number of deployments, requests and processes, any set of worlds |
| | SSHKeepsPromise | `KeepsPromise`: SSHExecutor implements Execution |
| LocalExecutor_proofs | LocalTypeCorrect, LocalStopHitsOwn, LocalStopKills, LocalTracked | the properties of those names |
| | LocalKeepsPromise | `KeepsPromise`: LocalExecutor implements Execution |
| DockerExecutor_proofs | DockerTypeCorrect, StartsAreSafeToRetry, CreatedIsOwn | `TypeOK`, `SafeToRetry`, `StartedOwn`, whoever shares a name |
| | DockerKeepsPromise | `KeepsPromise`: DockerExecutor implements Execution |
| Fleet_proofs | FleetIsControlPlane | Fleet implements ControlPlane |
| | FleetUsesExecutors | Fleet implements Execution: it asks of the executors what may be asked |
| | FleetNobodyStranded | `DeployingHasHandler`, if `Faults = {}` |
| | FleetStoppedIsDown | `StoppedIsDown`, whoever shares a name, if the disk does not fail |
| Catalog_proofs | CatalogTypeCorrect, RecommendationsFit, FactsStayGone | `TypeOK`, `RecommendedFits`, `GoneForGood` |
| | NoZeroDivisor | no amount divided by is zero |

The arguments:

* **ControlPlane**. `StatusEarned` is not inductive: a status can come from an
  update under way or from the scheduler's copy. `IInv` adds which job a
  handler may have at each label (`HandlerJob`; an update to `running` or
  `failed` is for a deployment that was executed), the same for the scheduler
  (`SchedulerJob`), and that whatever the scheduler has copied was executed
  (`CopiesEarned`). The action properties and the refinement follow from `IInv`
  action by action. `NobodyStranded` is inductive
  together with `IInv`: only a start writes `deploying`, it goes on to the
  commands at once, and each way it takes from there ends in a write of its own
  (or finds the record gone, which then does not say `deploying`).
* **JSONStore**. The lock's invariant (`LockInv`): whoever is between truncation
  and write is the writer, and there are no readers. So what a reader finds is
  what `Visible` shows (`HalfWritten`), and no file changes during a scan, so
  what has been read is part of the listing of that instant (`ScanInv`). Then
  each step maps to a step of AtomicStore or a stutter.
* **Gateway**. `IInv` adds that two servers never listen at one address
  (`Alone`), that the target was started (`Targeted`), and what a steady
  deployment means for a request at each of its stages (`Steady`): the lookup
  finds it and no other unless it missed its record, the connection finds its
  server and no other, and that server is still there when the answer comes. For
  the lookup this needs that the first of all records of a name is the first of
  those that were read if it is among them, and a steady deployment is the first
  of all; once missed, nothing is claimed of it.
* **Catalog**. Facts are `Honest`: whatever failed, they claim no more memory
  than there is, and GPU memory only together with a capability of CUDA. The
  recommendation fits what it is given (`Compatibility` by cases), hence the
  hardware.

* **SSHExecutor**. Three layers. `IInv` (every world): which pids a request has
  in hand at each label. `NamedRight` (no reuse): a pid in a pid file, or in the
  hand of a Stop, is of a process started under that name; `StopKills` goes with
  it. `OrderlyInv` (orderly worlds, reuse included): requests for one name take
  turns, so its pid file changes only under one request; a process that is
  alive has its pid in it; and a server that has not bound its port has a Start
  of its own waiting for it, so that whoever finds the port free finds no
  server of the name. That last part is why the port check protects the pid
  file, and where the proof needs that namesakes share the port. The refinement
  goes action by action: a `Launch` of Execution is the launch command, an `End`
  is a death, a kill or a failed bind, and every other command a stutter or the
  end of a request.
* **LocalExecutor**. The same layers, on another fact: while the control plane
  lives, what it has started is its child and keeps its pid (`IInv`), so that
  pid files are right even where pids are reused (`NamedRight`), and what was
  killed stays dead (`StaysDead`). Only restarts together with reuse break it.
* **DockerExecutor**. A container once created stays, with its configuration
  (nothing removes any), so a Start that verifies has its own (`Verifies`); and
  a Start whose container has run all the while is not on the way that creates
  or restarts one (`Finds`), nor on one that can fail.
* **Fleet**. Every step of Fleet is a step of ControlPlane or a stutter, so the
  invariants of ControlPlane hold in it; and, as a handler has a deployment and
  an operation whenever it comes to `execute`, one of Execution or a stutter.
  `StoppedIsDown` needs `FleetInv`: handler and executor agree on where they
  are (`InStep`); requests for a deployment, and starts and stops for a name,
  take turns (`TakeTurns`); a Start at its commands has a record that says
  neither planned nor stopped, for it has saved `deploying` before or found the
  record gone, and a Stop that has ended has left its name without a server
  (`Fits`); and whoever has a record that claims more has been started
  (`Accounted`), so that deleting the record does not make it `Down`. A step of
  a handler touches its own record and its own name, so that for other names
  the deployment that answered still does (`HandlerFrame`). `Known` (only ids
  that were generated are anywhere) says that a new deployment takes nothing
  over. The assumption about the disk is needed: Start does not look at the
  error of its update to `deploying`, and with `"disk" \in Faults` TLC shows a
  server come up under a record that still says `stopped`.
* **EventLog**. What the loops compute is shown by induction over their
  indices, without the library's induction theorems, which take operators: a
  set of indices that has the first and with each the next has all (`Induct`,
  from the least element of its complement, `Least`), and a function defined by
  recursion is the one its equation says (`Iterated`). Two things are
  invariant: `Since`, how many of the events are from a time on, which an
  `Exchange` cannot change (`ExchangeKeepsSince`); and what a pass has reached,
  namely that the event at `i` is the newest from `i` on (`PassSelects`), so
  that the first `i` are sorted and newer than the rest (`SortSorts`). In a
  listing that descends, the events from a time on come first
  (`SinceIsPrefix`), so that the cut keeps as many as it can (`CutIs`). A new
  file leaves the others in the directory, in their order (`InsertKeepsSince`),
  from which `LoggingKeepsNewer` follows.

Only model-checked: liveness (`DeployingResolves`, `DownIsNoticed`,
`UpIsNoticed`, `EveryCallReturns`), which is beyond this prover. Every safety
and action property of the passing runs is proved.

What no property covers, since the code does not give it: a crash in the middle
of a start (`deploying` stays); starts that overlap, or namesakes on another
port (a server is lost); ssh commands that fail after they ran; a stop that
fails and is recorded `stopped`; an update to `deploying` that the disk refuses;
a start of what already runs, over ssh and locally; a partial file left by a
failed download; pids reused after a restart; an old container found by name; a
namesake, or `0.0.0.0`, at the gateway. The models have these steps, and the
properties name the condition that excludes them; `PROJECT.json` lists each at
its line.

## 5. Not modelled, and why

* **Events**: which handler logs what and when, and the texts; an event cannot
  influence a decision. `Logger.GetRecent` is a second copy of the listing
  without a caller.
* **API keys**: no route creates one or asks for one, so `APIKeyAuth` and
  `ValidateKey` are unreachable. `KeyHash` is tagged `json:"-"`, so a stored key
  would lose its hash.
* **SQL schema** (`db/db.go`): imported by nothing.
* **Router, web page, GetLogs, connection tests, ListModels**: no state.
* **Descriptive fields** of machines, models and deployments, which no request
  updates (the repositories' `Update` has no caller); ssh arguments, URLs.
* **`Scheduler.Stop`**: `main` defers it, but leaves only by `log.Fatal`.

## 6. Plan

Done: the control plane with the probes of its health checks, the store, the
three executors and what they promise, the composition of control plane and
executors by name, the catalog, the gateway, the event listing; and proofs of
every safety and action property the passing runs check.

Left, if the code moves on: the bridge between `AtomicStore` and `ControlPlane`,
now an argument in section 2, as a composition of its own.
