# tun-bench in TLA+

tun-bench measures TUN implementations. A *controller* reads a configuration,
prepares executables, and for every environment (this machine, an OrbStack
machine, a host reached over ssh) starts a *worker*, the same program run as
`internal-worker`. The worker runs the benchmark cases one by one, each with
its own tunnel processes, and streams its whole report back after every
change. The controller replaces the result file with every report. A result
file can be resumed any number of times, by invocations that select other
cases, after crashes, and on a machine that has changed.

This directory models that program in TLA+, checks the models with TLC and
proves the central properties with TLAPS.

## Inventory

| Part | Source | State | Operations | Interacts through |
|---|---|---|---|---|
| Command line, configuration | `main.go`, `configuration.go`, `options.go` | environments, implementations, matrices | defaults, validation, expansion into cases | values handed to the controller |
| Controller | `controller.go` | the result report, jobs per device, progress, `runCtx`, `returnErr` | resume, prepare, start workers, save, cancel, final save | file, pipes, shared report under a mutex |
| Worker link | `controller.go` 419-504, `worker.go` 129-242 | stdin pipe, stdout pipe, `sent`, `received` | send bundle, decode updates, cancel byte, drain, kill timer, Wait | two pipes and signals |
| Worker matrix | `worker.go` 244-460 | `report`, `caseIndexes`, `failed` | `prepareReport`, the loop, verdicts, deferred close | `saveReport`, calls of `benchmark.run` |
| Result file | `result.go` | the JSON document | `save` (temporary file, fsync, rename), `readReport`, `validate` | read by the next invocation |
| Benchmark | `benchmark.go` | tunnels, relay, server, route, interface, directory | `run`, `startTunnel`, `startSubject`, `startRelay`, `Close` | processes, host network |
| Throughput | `iperf.go` | two reserved ports, one-off servers, client | warm-up, measurement, sample | processes, save |
| Memory | `memory.go` | flows, load context, echo server goroutines | `add`, `confirm`, `exchange`, `Close`, curve | sockets, save |
| Process supervisor | `process.go`, `platform_*.go` | child, `waited`, `done`, `err`, `stopErr`, output tail | start, supervise, `check`, `stop` | channels, signals, output |
| Probes | `network.go` | token, sockets | `prepareNetwork`, TCP and UDP probes | sockets |
| Artifacts, releases | `artifacts.go`, `release.go` | caches of binaries, versions, downloads | `prepare`, `binary`, `download`, `extract` | files, network |
| CPU placement | `cpu*.go`, `platform_*.go` | CPU classes | `selectCPUs` and the reading of topology | system calls |
| Summary | `summary.go` | none | tables | result report |

What is hard about it, and what correctness means for each part:

- *The report exists four times* (worker, pipe, controller, file), and each
  holder can die. Verdicts must be final, the file must always be readable,
  a half-measured case must be measured again from nothing.
- *The machine and iperf3 may change between invocations*, while the report
  keeps numbers of before. Numbers of two machines or two versions must never
  be in one report, and an invocation that returns success must have a verdict
  for everything it was asked for.
- *Two processes and two pipes*: a failed save, a full pipe, a cancel and a
  crash must never leave both sides waiting.
- *Cleaning up*: no case may start on a host the one before could not clean up;
  no child process may outlive its benchmark; a panic must be noticed whenever
  it is printed, since it decides between "bug" (final) and "failed" (retried).
- *Several devices share one report*: their goroutines save under one mutex and
  cancel each other.
- *Two goroutines write to one pipe*: the bundle and the cancel message have no
  lock between them, and a child may be beyond the reach of signals.
- *A load of thousands of flows* is opened and checked by goroutines that stop at
  different points, over a network that loses, delays and duplicates.
- *Downloads are shared* by invocations without a lock, and "latest" moves while
  they run.
- *A matrix means a set of cases* through several rewritings; a case that gets
  lost on the way is missed by nobody.

`PROJECT.json` lists the hazards one by one, each at its line and with the
properties that would show it going wrong.

## Modules

| Module | Models | Kind |
|---|---|---|
| `Results` | the report, its keys, `validate`, `completedCases` | data, operators |
| `Matrix` | the worker and the pipe it writes to | actions on the worker's variables |
| `Session` | controller, file, invocations, crashes; composes with `Matrix` | specification |
| `Ledger` | what the file promises: a verdict is final | abstract specification |
| `MCSession` | instances of `Session` | model checking |
| `Controller` | one invocation: the goroutines of several devices on one report | specification |
| `MCController` | an instance of `Controller` | model checking |
| `Benchmark` | one case on its host: what it acquires, `Close`, and the host | specification |
| `MCBenchmark` | an instance of `Benchmark` | model checking |
| `Process` | one child, its two goroutines and its user | specification |
| `MemoryLoad` | the load of a memory measurement: flows, goroutines, echo server | specification |
| `WorkerLink` | how one worker is started, fed, read, canceled and cleaned up | specification |
| `ReleaseCache` | the release client and the cache all invocations share | actions on the client's variables |
| `Artifacts` | preparing the programs of an invocation; composes with `ReleaseCache` | specification |
| `MCArtifacts` | an instance of `Artifacts` | model checking |
| `Expand` | from a matrix to the cases it means | specification |
| `MCExpand` | the matrices `Expand` is checked with | model checking |
| `SessionProofs`, `ControllerProofs`, `BenchmarkProofs`, `ProcessProofs`, `MemoryLoadProofs`, `WorkerLinkProofs`, `ArtifactsProofs`, `ExpandProofs` | theorems | proofs |

### Results, Matrix, Session

A case is an element of `Cases`; the report stores it under a key, the case
and its queue count, because `matches` compares both and the queue count of
some cases follows the number of workers of the machine. `Blank("absent")`
stands for a case the report's list does not have. A sample or a memory point
is counted, not represented; `Full(c)` says how many make a case complete. The
auxiliary fields `at` and `tool` remember where and with which iperf3 the
numbers were measured; no guard reads them.

`pc` is the place in `benchmarkMatrix.run`:

| `pc` | Code |
|---|---|
| `start` | before the deferred function is installed (worker.go 255-298); an error or nothing to do leads to `refused` |
| `open` | the first save (316) |
| `iperf` | the check of iperf3 (320-328) |
| `loop` | the head of the loop (330-355) |
| `case` | `runner.run`: measurements are saved one by one |
| `settle` | the verdict is made, its save and the decision to go on (379-394) |
| `finish` | the deferred function (299-315) |
| `ended` | `run` has returned |

A save is an action that needs room in the pipe, or that fails when the reader
is gone; an update of the report and the save that follows it are one action,
since nobody else reads the worker's memory. `canceled` is `ctx.Err() != nil`.

`phase` is the place of the controller: `prepare` (artifacts), `watch` (the
decode loop), `drain` (after a failed save), `close` (the deferred save).
`Write(e, ok)` is `save`: the file is replaced by rename after fsync, so a save
that fails, or a crash in the middle, leaves the old file. `Reap` is the end of
output, `command.Wait` and the save after the worker. A controller that dies
loses its memory and the pipe; the worker it leaves is canceled by the end of
its control pipe, may find its writes failing, and has gone when the next one
starts. On unix such a write may kill the worker instead of failing: that is
`OrphanGone`.

What a run of the command refuses before it writes is not modelled here (a
changed implementation is in `Artifacts`), and `--overwrite` only starts from another
file. The fixed verdicts of hev-socks5-tunnel on Windows (controller.go 86-126)
are left out.

### Controller

`Session` follows one environment through many invocations; `Controller`
follows one invocation through many environments. `main` is the place of the
main goroutine (`load`, `prepare`, `run`, `close`), `dev[d]` that of the
goroutine of device `d`:

| `dev[d]` | Code |
|---|---|
| `next` | the head of the loop, up to the start of the worker (197-241) |
| `watch` | the decode loop (474-491) |
| `save` | an update is decoded, `access.Lock` is not yet passed (214) |
| `replace` | in `save` with the mutex: the report is encoded, the file not yet replaced (216-234) |
| `drain` | after a failed save (492-496) |
| `after`, `finish` | the worker is gone; before and in the locked section that follows (242-252) |

A save is two actions, encoding and replacing, so that it would matter if two
of them overlapped. The worker is reduced to what the controller can see:
updates that announce a case, updates with a verdict, and all others. That its
updates come in this order, and that it returns success only with a verdict for
every case, is what `Matrix` and `Session` show (`LastReportSettled`,
`SuccessIsComplete`). The report of an environment is the set of its keys with
a verdict, all that `completedCases` looks at, and the number of tunnel workers
it names. The key of a case of several queues follows that number (`Key`): the
controller counts with the machine of the report, while the worker resolves the
queues for `Machine`, the one it finds (`WorkerKey`). A report with
measurements refuses another machine before any update (`Accepts`); one whose
verdicts have no numbers moves with it. `found` is the file as it was found.
Environments are prepared in any order; the code takes them in the order of the
matrix. `saveFailed` is a history variable.

### Benchmark

`pc` follows `benchmark.run` through the functions it calls: `network`, `mkdir`,
then `load` (memory) or `reserve`, `release`, `server`, `listening`
(throughput), `startTunnel` from `listen` to `probe`, the clients from
`releaseUDP` to `sample` in two rounds, or `point` and `confirm`; `check` is the
deferred function, and `stop` to `remove` are `Close`. What the program believes
(the fields of `benchmark`) and what the host has (`running`, `iface`, `route`,
`files`, `ports`, `load`) are separate variables: the properties relate them.
`Fail` lets every step fail; the deferred functions of the inner frames close
the sockets in the same step. An error is the set of its causes, since
`E.Errors` joins and the matrix looks for causes. `stop` of a child is one
step here: `Process` shows that it returns when the child is gone.

### Process

`sup` is the place in the supervising goroutine: `select` (the outer select),
`recheck` (the inner select with default), `interrupt`, `grace` (waiting for
the exit or the timeout), `force` (the second Kill), `reap`, `done`. `child` is
running, zombie (exited, not waited for) or reaped, which decides what `Kill`
returns on each system. Errors are sets of causes: `E.Errors` joins, nil is the
empty set. The user is the deferred function of `benchmark.run`: `check` looks
at the output and then at `done`, `stop` cancels and waits, and the output is
searched once more. Killing a running child is assumed to work. What the child
writes from its panic on is counted in pieces: `written` by the child, `copied`
to `processOutput`, which keeps the last `Limit` of them, so that a dump longer
than that pushes the line out (`Kept`). `Wait` and `KillResult` take
`os.Process.Wait` and the rest of `command.Wait` as one step: a Kill between the
two finds the process reaped, and nothing here looks at that result alone.

### MemoryLoad

`pc` is the place in `runMemory` and then in the `Close` of the load: `listen`,
`tunnel`, `grow` (the head of the loop), `add` and `confirm` (waiting for their
goroutines), `settle`, `observe`, `recheck` (the confirm after the point was
taken), `returned`, and `closing`, `waiting`, `closed`. A goroutine `w` of `add`
or `confirm` takes a number from the shared counter (`take`), dials, begins an
exchange, writes, reads and, in `add`, stores its flow; the first failure
cancels the load's context, and the others notice it at different points.
What the tunnel does to an echo is chosen when the packet is written (`Fates`):
it arrives once, never, twice, after the deadline of its attempt, or corrupted;
`echoes[i]` are the packets that will still arrive at flow `i`. A packet is its
sequence number, so that an old echo and a fresh one differ only in what the
code compares. `server`, `backlog` and `served` are the listener, the connections
that wait for Accept and those with an echoing goroutine.

### WorkerLink

`Matrix` and `Session` start with a worker that has its request. `WorkerLink` is
how it got there. `kind` is how the worker is started: on this machine, behind
sudo, behind ssh, or on Windows, where the bundle is copied by scp beforehand.
What passes through the input pipe is counted in units: the size, the blocks of
the archive, and "cancel". `sender` writes the bundle, a `canceler` runs
`command.Cancel` (one because the context was canceled, one because an update
could not be saved), and nothing keeps one from writing between two writes of
the other. `worker` reads the size, the archive, and then runs while one
goroutine waits for a byte or the end of the input (`Control`). `Kill` is the
limit after Cancel; a connection may break and take with it what was on its way.
`pc` is the goroutine of the environment, from `upload` over `decode`, `drain`,
`wait` and `join` to the removal of the remote directory.

### ReleaseCache, Artifacts

`at` is the place in `releaseClient.prepare`: which release a version means
(with the cached metadata), the assets it needs (the program, and a helper
library for some), and for each a look into the cache, a download, and the
extraction. A cached file holds `whole`, `torn` or `wrong` content; `verify` can
tell the sizes apart, and with a digest all of it. A download is one step, as
its temporary file is private until it is renamed. Between any two steps another
invocation may download (`Visit`), a release may be published (`Publish`), and
the machine may lose power or the process be killed (`Lose`): renamed files that
were never synced may then be torn.

`Artifacts` takes the environments of one output file in order, iperf3 first
(with the version of the target it can emulate if there is none), then every
case, then the relay that SOCKS software needs. An environment whose cases are
all decided is passed over (`Skip`), and without iperf3 its throughput cases are
dropped as their turn comes (`Dropped`). `versions`, `binaries` and
`unsupported` are the maps of the preparer: what "latest" has come to mean, what
is ready, what has no release. A saved implementation version stands for
"latest" in the next invocation; a changed one is refused. The measurements of
an environment are one step (`Measure`) that decides any part of the cases.

### Expand

`stage` follows the functions of `configuration.go`: the product of the `axes`,
the `stack` selectors, `exclude`, the default `mtu` of each implementation,
`include` one by one, the defaults and validation of every case (`read`), and
the cases skipped because they are known not to work (`skip`). An entry is a
function from the keys it has to values, and `Copied` puts the values of one
over another. `WellFormed` is what the program has checked of a key and its
values before it uses them.

The last part of the module says what a matrix means without the stages. The
axes stand for their combinations, with the stacks that fit (`Wanted`), less
what is excluded (`Kept`), and with an MTU (`Start`). An entry has come through
a *path*, the values that some of the includes have given it, in their order;
`Made` is what the path makes of its origin, where the last include that sets a
key decides. A path may be followed (`Follows`) if each of its includes selects
what the earlier ones made, and one without a filter comes first and starts
from an entry of the axes. An origin is such an entry, or the values of an
include without a filter that fit no entry of the axes (`Alone`). `Due` is what
all the paths make, `Stated` that with the usual values for what nobody has set,
and `Means` says that a case has the values of an entry and no others.

## Runs

| Run | Instance | Shows |
|---|---|---|
| `session_order` | a throughput and a memory case (two points), one machine, bug type "panic" | types, `Resumable`, `LastReportSettled`, `CleanStart`, `FailFastStops`, and the refinement of `Ledger` |
| `session_moves` | a multi-queue case and a memory case, selected one at a time, two machines with 1 and 2 workers, one iperf3 | `SuccessIsComplete`, `MeasuredHere` |
| `session_iperf` | two throughput cases, selected together or apart, two iperf3 versions | `MeasuredHere` when the report already names an iperf3 |
| `session_ends` | one memory case, two machines, fairness | `InvocationEnds` |
| `controller` | two devices, one with two environments; two cases in one environment (one of several queues), one in the others; eight files to start from, three of them of another machine | types and lock, `SuccessMeansAll`, `ProgressRight`, `NoStartAfterFailure`, `VerdictsStay`, `ClosedOnlyComplete` |
| `controller_ends` | the same with one case in each environment, fairness | `RunEnds` |
| `benchmark` | TCP, UDP and memory, with and without a relay, two tunnel processes, two points, fairness | `NobodyForgotten`, `NothingRuns`, `CleanOrReported`, `MeasuresAlone`, `EndPossible`, `Returns` |
| `process` | one child of each kind, two pieces of output kept | the five safety properties and `StopEnds` |
| `memory_load` | TCP and UDP, two connections opened in one step by two goroutines, two attempts, two faults | `NoNilFlow`, `EchoesToldApart`, `LoadEnds` |
| `worker_link` | four kinds of worker, a bundle of four units through a pipe of two, two updates, fairness | `IntactOrStopped`, `ReturnsClean`, `LinkEnds` |
| `artifacts` | a Linux environment and a Windows one on ARM, two releases of each software, a configured version that changes, and may not exist | `OneVersion`, `OnlyWhole`, `Runnable` |
| `expand` | seven sets of axes, up to two of eleven includes, five excludes, both types | `AsWritten` |

Bounds. The pipe holds one report (`PipeCapacity`): the worker then blocks at
every save the controller has not yet read, which is the hard case; more
capacity only lets it run further ahead. One partial and one complete
measurement (`MemoryPoints = 2`) are enough to tell a partial curve from a full
one. Two cases are enough for an order between a case and the next. Two
machines with different worker counts give a multi-queue case two keys. The
number of invocations, crashes, retries and failed saves is not bounded. In
`Controller` two devices are enough for two writers, two environments on one of
them for a job that starts after a failure, two cases for an order within a
job. A report of one worker on a machine of two gives a case two keys; it has
verdicts under either, with or without measurements. In `Process` two kept
pieces (`Limit`) let a panic be followed by output that leaves it in the tail
and by output that does not; `written` stops one past `Limit`. The order of the list of cases is not modelled: the loop takes any case it
has not visited. In `MemoryLoad` two goroutines with two flows already meet in
every order, a second attempt is needed to meet a late echo of the first, and a
second fault to duplicate what another has delayed; with two connections the
limit of the curve is its first step. In `WorkerLink` the archive must be larger
than the pipe so that its sender blocks, and two updates are enough for one
before and one after a failure. In `Artifacts` two releases of a software make
"latest" move, two environments share what the first has pinned, and one
disturbance (`Disturbances`) is a kill, a loss of power or a download by someone
else; invocations are not bounded. `Expand` counts in words of 7 bits
(`MaxWord`), so that a rate can be too fast; two includes show whether one sees
what the other made, with and without a filter; the stacks of one set of axes fit one implementation only,
and one exclude names the default stack of the other. Its graph is a fan of short paths, one per matrix, that
end when the cases are read: only there, in `MemoryLoad` and in
`WorkerLink`, which come to an end, is deadlock not checked.

Fairness. `FairSpec` of `Session` asks that the worker and the controller take
steps while they can: probes, iperf3, dialing and shutdown have timeouts in the
code, and the controller reads until the end of the output. Nothing is asked of
crashes, signals or the success of a save. `FairSpec` of `Controller` asks that
every goroutine runs, and that a worker ends if the controller keeps coming back
to read from it: its updates are finitely many, which `InvocationEnds` shows for
one worker; that is the strong fairness of `WorkerEnds`. `FairSpec` of `Benchmark` asks that the goroutine runs and that
a client ends, whose context has a deadline. `FairSpec` of `Process`
asks that both goroutines and the caller run, that output is copied and an
exited child is waited for; nothing obliges a child to exit. `FairSpec` of
`MemoryLoad` asks that the goroutines run, that a listener that was closed ends
and that a connection that was closed is noticed; a healthy listener may go on.
In `WorkerLink` the goroutines of the controller run and a limit that has passed
is acted upon; nothing is asked of a worker that can be killed. One behind sudo
cannot, so there the worker itself must read its input and end when it is told
to stop: that is what the code relies on.

## Properties

- `Resumable`: the file passes `validate` in every reachable state.
- `VerdictsFinal`: the file, read as a table of verdicts, implements `Ledger`.
- `MeasuredHere`: numbers in the file come from the placement and the iperf3
  the report names. A bug without numbers is not pinned to a machine: the code
  compares machines only when something was measured (worker.go 419).
- `SuccessIsComplete`: an invocation that returns nil has left a verdict in the
  file for every case it selected. A worker that finds nothing to do sends
  nothing; the controller then reports "worker returned no results", which
  happens when the machine has changed although no case is left.
- `LastReportSettled`: the last report of a worker has no "running" case and an
  error exactly when the worker's exit status says so.
- `CleanStart`, `FailFastStops`: what may precede the start of a case.
- `InvocationEnds`: worker, pipe, save and drain never wait for each other.
- `SuccessMeansAll`: the same for several devices: nil means a closed file
  without an error in which every prepared case has a verdict.
- `ProgressRight`: progress never passes the total and reaches it on success, up
  to one for each case of several queues in an environment whose machine has
  changed (`Shifted`): such a case is counted as completed and announced again,
  or neither. `Shifted` is empty on the machine the report names.
- `NoStartAfterFailure`: a failed save, or a failed job with `--fail-fast`, on
  one device keeps all others from starting another job.
- `VerdictsStay`: no save of one device takes back a verdict of another.
- `ClosedOnlyComplete`: the file is only written as closed without an error
  when it is complete, so a crash never leaves one that looks complete.
- `RunEnds`: draining, canceling and waiting for the mutex end on every device.
- `NobodyForgotten`: every running process is in a field that `Close` looks at.
- `NothingRuns`, `CleanOrReported`: after `run` no process, socket or load of
  the case is left, and if the interface, the route or the directory is,
  `cleanupErr` says so. That is what `CleanStart` of the matrix relies on.
- `MeasuresAlone`: while a client runs its port is free, and the measurement has
  nothing of the warm-up or the probe beside it.
- `EndPossible`: `run` ends only in ways `Matrix` assumes (`PossibleEnd`).
- `Returns`: whatever fails, and whatever the host does, `run` returns.
- `NoNilFlow`: wherever the goroutines of `add` stop, `confirm` never touches a
  flow that was not stored, nor one past the end of the list.
- `EchoesToldApart`: a confirm that succeeds got from every flow the answer to a
  packet of its own, and lost, late or repeated echoes are not corruption.
- `LoadEnds`: the measurement and `Close` return, with every goroutine and
  connection gone.
- `IntactOrStopped`: a worker that runs with anything but the archive that was
  sent has been told to stop, or is about to read that.
- `ReturnsClean`: when the controller returns, the process is reaped, the sender
  is over, a remote directory left behind is in the error, and no error means
  that the whole archive ran and every update was saved.
- `LinkEnds`: after a failure or a cancellation the controller returns, whichever
  pipe is full and whatever the worker does.
- `OneVersion`: "latest" is one version in all environments of an invocation, a
  configured or saved version is the one that runs, and all cases of an
  implementation in a file were measured with the version it names.
- `OnlyWhole`: nothing torn is ever run, and with a digest nothing wrong.
- `Runnable`: a prepared environment has all its cases need, and a case is
  dropped only when something it needs was not released for it.
- `AsWritten`: the cases `readConfiguration` returns are what the matrix says.
  Everything it states is returned with exactly its values or known not to work
  (`NothingLost`), every case returned has all its values, stack, direction and
  environment included, from one thing it states (`NothingMadeUp`), and a matrix
  is refused only for something in it (`Refused`). What is excluded comes back
  only through an include; a rate does not wrap.
- `DoneMeansReaped`, `ForcedIsReported`, `PanicNotLost`, `EarlyExitIsClean`,
  `StopEnds`: the supervisor, in every order of exit, output, cancellation,
  timeout and signal failure. A panic line may be lost in two ways: a grandchild
  keeps the output open until it is cut off, or more than the kept tail comes
  after the line and no check has read the output before (process.go 41-49).

Every property has a mutant in `PROJECT.json`: a change of the modelled code
that a plausible bug would make, under which the run finds the property
violated. The mutated definitions stand next to the ones they replace.

## Proofs

`SessionProofs` proves, for all cases, machines, versions, selections, point
counts and pipe capacities that satisfy the named assumptions, that `Session`
satisfies `TypeOK`, `Resumable` and `MeasuredHere` and implements `Ledger`. None
of these is inductive, because the file only receives what was in the pipe
before, and the pipe what was in the worker's memory. The invariant `IInv`
therefore speaks of all copies:

1. every copy is *good*: typed, valid and pinned (`GoodReports`);
2. what the worker has checked at its place holds (`ReportInv`): the placement
   of its report is its host's, and once the version was compared the report
   names the host's iperf3 if a throughput case may be measured;
3. the copies are a *chain* (`Chain`): file, controller, pipe in order, worker,
   each agreeing with the one before on everything decided (`Leq`).

The lemmas about records say which updates keep a report good and lose no
verdict; one lemma per action then shows that the chain is kept and that the
file only grows. The refinement follows from the last fact.

Its second part proves `LastReportSettled`, `SuccessIsComplete`,
`CleanStart` and `FailFastStops` in the same generality, from `IInv` together
with a second invariant, `OInv`. `VisitInv`: a case the loop has visited is
settled, unless it is one that failed. `RunInv`: the loop only goes on from a
clean host. `MarkInv`: the error and the end mark of a report agree with the
place of the worker. `LinkInv`: the last report that was sent is the one the
worker ended with, and a worker that refuses sends nothing. `ExitInv`: "ok"
means that the closed file is complete.

`ProcessProofs` proves the five safety properties of `Process`. Its invariant
ties the place of the supervising goroutine to what it may rely on: it
publishes only after Wait has returned, an exit before the cancellation never
reaches the interrupt, and output is copied before Wait returns unless it was
cut off. For any `Limit`, a panic of no more than that is then found by the last
look, and one that a check has seen before is in the error already.

`ControllerProofs` proves all six safety properties of `Controller` for any
number of devices, environments and cases, provided
that every environment is in exactly one queue and there once
(`QueueAssumption`). The invariant behind the verdicts has four parts: the mutex is held by the one
device that is in a locked section, and what that device has encoded is what is
in memory (`LockInv`, without which a save could put an old report over a newer
one); every update is built on the verdicts in memory (`VerdictInv`); a failed
save, or a failed job under `--fail-fast`, has canceled the context before the
mutex is free again, and a canceled context reaches the returned error
(`CancelInv`); a job that is over without a failure has left its cases decided
(`DoneInv`). The progress is a number, and the program never says of which
cases: `ProgressInv` says that it is the sum of the cardinalities of two sets of
cases, those that were decided when the counting began and those announced
since (`Sums`). For every job, `JobCounted` ties the two to the place of its
device: before it starts nothing was announced; while its worker runs, what is
not counted yet is what the worker may still announce; and when it has ended
without an error every case that the machine did not shift is in one of them.
Only cases of `Shifted` are in both, because anything else has the same key for
the controller and for the worker, and no environment has two jobs; so the sum
is at most the cases of all jobs and the shifted ones, and at least the former
less the latter once every job is over.

`BenchmarkProofs` proves the safety of `Benchmark` for any number of tunnel
processes and points. The invariant ties each place of the function to what has
been acquired by then (`PlaceInv`), each running process to the field it is
held in (`ProcessInv`), the ports to their holders (`PortInv`), the host to the
program's beliefs (`HostInv`) and the returned error to what has gone wrong
(`ErrorInv`). The first server must be over before its field is used again.

`MemoryLoadProofs` proves `NoNilFlow` and `EchoesToldApart` for any number of
connections, goroutines, attempts and faults. `PoolInv` says that every number
below the counter is held by exactly one goroutine or is done; with `FlowInv`
(done in `add` means stored) this is why `confirm` meets no nil flow. `EchoInv`
bounds the sequence numbers of packets under way by that of their flow, and
`AnswerInv` says that an answered flow was answered in this round.

`WorkerLinkProofs` proves `IntactOrStopped` and `ReturnsClean` for any size of
the bundle and the pipe and any number of updates. `UnitInv` gives every unit
on its way an author: the size was sent once, by the sender; a cancel message
comes from a goroutine that goes on to close the pipe. A worker that took a
cancel message for a part of its archive therefore still has an end of input
before it. `PlaceInv`, `DirInv`, `CancelInv` and `EndInv` say what each place of
the controller has behind it: the process, the remote directory, the
cancelers, and what must by then be in the returned error.

`ArtifactsProofs` proves `OnlyWhole`, `OneVersion` and `Runnable` for any
software, releases, targets, environments, cases and configured versions, any
number of invocations and any damage to the cache; the environments of the file
are distinct (`IsInjective(Order)`, from `common.Uniq`, controller.go 51). For
the first it is enough that a file stays
verified from `verify` to its extraction (`ClientInv`). For the second,
`BinaryInv` says that a key with a version leads to that version, and that a key
with "latest" is never looked up again because `versions` is set in the same
step; `Right` and `Fits` carry this to the prepared cases and to the versions in
the report, which must agree with the configuration until the invocation is over
(`PlaceInv`). That two cases of an implementation agree before the report knows
its version (`SameVersion`) is where the pinned "latest" is needed.

`Runnable` needs a second invariant, `NeedsInv`, since its excuse for a case
that was dropped speaks of releases, configured and saved versions, and all of
these change. `AnswerInv`: a release that lacks the target was published, even
if its metadata comes from another invocation's cache. `MemoInv`: a key that is
remembered as unsupported keeps its reason, as releases only appear, and a
remembered binary has its helper library. `KitInv`: every case of the current
environment waits, is in the kit or has its excuse, and throughput is given up
only without any iperf3. `OnceInv`: no environment is prepared twice, so that a
worker that records versions changes no other job's excuse.

`ExpandProofs` proves `AsWritten` for any matrices that are `WellFormed`, any
implementations and environments and any width of a word. The invariant says of
every stage exactly what it has made: the product (`Base`), `Wanted`, `Kept`,
and from then on `original = Start` and `expanded = Due(next - 1)`, then
`Stated`, and its cases. The step with an argument is an include (`DueNext`):
what is due with it is what was due before and what it adds to that. In one
direction a path that ends in the include is cut before it (`FollowsBefore`); in
the other, one that made an entry the include selects is continued
(`FollowsMore`). Both need that the last include of a path puts its values on top
of what the others made (`MadeLast`), hence that a nonempty set of indexes has a
largest one (`Latest`, from the well-foundedness of the naturals). That the
program adds defaults under the values of an entry and the definition puts the
values over them is `CompletedIs`, and that a case means its entry `CaseMeans`.
That a rate in bits is the rate that was meant (`NormalIsExact`) needs that all
rates fit a word (`AllAccurate`).

Every safety and action property that a run checks is also stated by a theorem.
Only model-checked: `InvocationEnds`, `RunEnds`, `Returns`, `StopEnds`,
`LoadEnds` and `LinkEnds`, since liveness under fairness, and ENABLED, are
beyond the prover. RECURSIVE operators are beyond it too; no module with a
theorem uses them.

## What is left

- `Controller`: the fixed verdicts of hev-socks5-tunnel on Windows
  (controller.go 118) and the rest of the comparison with the saved environment.
- `Benchmark`: the host after a worker has crashed, and what the next
  `prepareNetwork` finds there (`CleanStart` speaks of one worker); two cases in
  sequence; a reserved port that is taken between its release and its client
  (iperf.go 188).
- `Process`: a child that dies of a panic at the moment it is interrupted
  (process.go 178), and a Kill that fails (174).
- `MemoryLoad`: errors of the listener while it is closed, and which of them
  become the error of the measurement (benchmark.go 183).
- `Artifacts`: a relay's version is not recorded in the report (artifacts.go 98).
- `Expand`: excludes do not see values that come from defaults
  (configuration.go 450).

## Not modelled

- *Summary*: rendering of a finished report; no state and no interleaving.
- *Platform and probes*: routes, interfaces, affinities, counters, energy and
  topology are system calls in sequence; each appears as a step that may fail.
- *CPU placement*: `selectCPUs` sorts and splits one list (cpu.go 45); a pure
  function without interaction.
- *Formats*: YAML, JSON, the tar archive, scripts sent over ssh, names of release
  assets, logs. A format that is broken appears as an error of what reads it.
- *Validation of environments and defaults* other than those of a case: they
  refuse a configuration before anything has happened.
