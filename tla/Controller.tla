----------------------------- MODULE Controller -----------------------------
(***************************************************************************)
(* One invocation over several environments (controller.go,                *)
(* environmentMatrix.run): the jobs are prepared one after another, then a *)
(* goroutine per device runs the jobs of its device.  All of them change   *)
(* one report under one mutex, write it to one file, and cancel each other *)
(* when a save fails or, with --fail-fast, when a job fails.               *)
(*                                                                         *)
(* A worker is what Session shows it to be: it sends reports in which      *)
(* cases are started and ended, and returns nil only when every case of    *)
(* its job has a verdict.  A case of several queues is another case on a   *)
(* machine with another number of tunnel workers: the controller looks for *)
(* its verdict with the number in the saved report (completedCases), the   *)
(* worker with the number it finds.  Of a status the controller only asks  *)
(* whether it is a verdict.                                                *)
(***************************************************************************)
EXTENDS Integers, Sequences, FiniteSets

CONSTANTS
    Envs,       \* the environments of the selected cases
    Devices,    \* the values of environmentConfiguration.Device
    Queue,      \* the jobs of each device, in order
    Cases,      \* cases, the same names in every environment
    Wanted,     \* the cases selected in each environment
    MultiQueue, \* pairs of an environment and a case of several queues
    Machine,    \* the tunnel workers preparePlatform finds in an environment
    Found       \* the result files the invocation may find

None == "none"

(* The key of a case on a machine with so many tunnel workers. *)
Key(e, c, workers) == <<c, IF <<e, c>> \in MultiQueue THEN workers ELSE 1>>

(* The results of an environment: the tunnel workers its report names (0   *)
(* when there is no report), the keys that have a verdict, and whether the *)
(* report had measurements when the invocation found it.                   *)
Entry ==
    {x \in [workers : Nat, decided : SUBSET (Cases \X Nat),
            pinned : BOOLEAN, error : BOOLEAN] :
        x.workers = 0 => x.decided = {} /\ ~x.pinned}

ResultReport == [env : [Envs -> Entry], finished : BOOLEAN, error : BOOLEAN]
NoFile ==
    [env |-> [e \in Envs |->
        [workers |-> 0, decided |-> {}, pinned |-> FALSE, error |-> FALSE]],
     finished |-> FALSE, error |-> FALSE]

ASSUME ControllerAssumption ==
    /\ Queue \in [Devices -> Seq(Envs)]
    /\ Wanted \in [Envs -> SUBSET Cases]
    /\ Machine \in [Envs -> Nat \ {0}]
    /\ Found \subseteq ResultReport
    /\ None \notin Devices \cup Cases
    /\ IsFiniteSet(Cases) /\ IsFiniteSet(Envs)

(* jobsByDevice: the job of an environment is appended to the queue of its *)
(* device, once.                                                           *)
ASSUME QueueAssumption ==
    /\ \A e \in Envs : \E d \in Devices :
            \E i \in 1 .. Len(Queue[d]) : Queue[d][i] = e
    /\ \A d, f \in Devices :
            \A i \in 1 .. Len(Queue[d]), j \in 1 .. Len(Queue[f]) :
                Queue[d][i] = Queue[f][j] => d = f /\ i = j

VARIABLES
    main,       \* the function run: where it is
    failFast,   \* m.failFast
    memory,     \* the variable report
    file,       \* the result file
    found,      \* history: the result file as it was found
    jobCases,   \* job.cases of each environment
    prepared,   \* environments the preparation loop has passed
    dev,        \* where each device's goroutine is
    at,         \* the index of its job
    holder,     \* who holds the mutex
    temp,       \* what a save has encoded and not yet put in place
    worker,     \* the decided keys in the last report of each device's worker
    todo,       \* the cases this worker has not announced
    current,    \* the case it has announced and not yet settled
    started,    \* the update in hand announces a case (workerUpdate.Started)
    received,   \* runWorkerProcess has saved an update
    recordErr,  \* the variable of the same name
    runErr,     \* ... and of this name
    canceled,   \* runCtx is canceled
    interrupted,\* ctx is canceled
    progress, total,
    returnErr,  \* the named result
    saveFailed  \* history: a save of some device has failed

jobs == <<jobCases, prepared, total, found>>
session == <<worker, todo, current, started, received>>
goroutine == <<dev, at, session, recordErr, runErr>>
flags == <<failFast, interrupted, canceled, saveFailed>>
vars == <<main, memory, file, jobs, goroutine, holder, temp, flags, progress,
          returnErr>>

(* The keys are those of the machine the report names. *)
Completed(e, rep) ==
    {c \in jobCases[e] : Key(e, c, rep.env[e].workers) \in rep.env[e].decided}
AllDecided(rep) == \A e \in Envs : Completed(e, rep) = jobCases[e]

(* The cases of all jobs, and those of them that have a verdict: what the  *)
(* loop over the jobs adds up.                                             *)
AllCases == {k \in Envs \X Cases : k[2] \in jobCases[k[1]]}
AllCompleted(rep) == {k \in AllCases : k[2] \in Completed(k[1], rep)}

JobEnv(d) == Queue[d][at[d]]
HasJob(d) == main = "run" /\ dev[d] = "next" /\ at[d] <= Len(Queue[d])

Init ==
    /\ main = "load" /\ failFast \in BOOLEAN
    /\ file \in Found /\ memory = file /\ found = file
    /\ jobCases = Wanted /\ prepared = {} /\ total = 0
    /\ dev = [d \in Devices |-> "next"] /\ at = [d \in Devices |-> 1]
    /\ holder = None /\ temp = [d \in Devices |-> NoFile]
    /\ worker = [d \in Devices |-> {}] /\ todo = [d \in Devices |-> {}]
    /\ current = [d \in Devices |-> None]
    /\ started = [d \in Devices |-> FALSE]
    /\ received = [d \in Devices |-> FALSE]
    /\ recordErr = [d \in Devices |-> FALSE]
    /\ runErr = [d \in Devices |-> FALSE]
    /\ canceled = FALSE /\ interrupted = FALSE /\ saveFailed = FALSE
    /\ progress = 0 /\ returnErr = FALSE

Replace(rep, ok) == file' = IF ok THEN rep ELSE file
-----------------------------------------------------------------------------
(* The main goroutine.                                                     *)

(* Mutant: the marks of the last run stay. *)
StillClosed(rep) == rep

Reopened(rep) == [rep EXCEPT !.finished = FALSE, !.error = FALSE]

(* The saved report is taken over, marked as unfinished and written back.  *)
(* A file that cannot be resumed is refused before anything changes.       *)
Load ==
    /\ main = "load" /\ memory' = Reopened(file)
    /\ \E ok \in BOOLEAN :
        /\ Replace(memory', ok) /\ returnErr' = ~ok
        /\ main' = IF ok THEN "prepare" ELSE "close"
    /\ UNCHANGED <<jobs, goroutine, holder, temp, flags, progress>>

(* No cache, no temporary directory. *)
SetupFails ==
    /\ main = "prepare" /\ prepared = {}
    /\ returnErr' = TRUE /\ main' = "close"
    /\ UNCHANGED <<memory, file, jobs, goroutine, holder, temp, flags, progress>>

(* The artifacts of one environment: unsupported cases are dropped. *)
Prepare(e) ==
    /\ main = "prepare" /\ e \notin prepared
    /\ \/ /\ Completed(e, memory) = jobCases[e]
          /\ UNCHANGED <<jobCases, memory>>
       \/ /\ Completed(e, memory) # jobCases[e]
          /\ \E S \in SUBSET jobCases[e] : jobCases' = [jobCases EXCEPT ![e] = S]
          /\ memory' = [memory EXCEPT !.env[e].error = FALSE]
    /\ prepared' = prepared \cup {e}
    /\ UNCHANGED <<main, file, total, found, goroutine, holder, temp, flags,
                   progress, returnErr>>

PrepareFails(e) ==
    /\ main = "prepare" /\ e \notin prepared
    /\ Completed(e, memory) # jobCases[e]
    /\ memory' = [memory EXCEPT !.env[e].error = TRUE]
    /\ returnErr' = TRUE /\ main' = "close"
    /\ UNCHANGED <<file, jobs, goroutine, holder, temp, flags, progress>>

(* A job without cases is dropped here: it has nothing to complete, so the *)
(* goroutine of its device passes over it (SkipJob).                       *)
StartDevices ==
    /\ main = "prepare" /\ prepared = Envs /\ main' = "run"
    /\ total' = Cardinality(AllCases)
    /\ progress' = Cardinality(AllCompleted(memory))
    /\ canceled' = interrupted
    /\ UNCHANGED <<memory, file, jobCases, prepared, found, goroutine, holder,
                   temp, failFast, interrupted, saveFailed, returnErr>>

(* Mutant: an interruption between two jobs leaves no trace. *)
ErrorsOfJobs == returnErr

(* E.Errors(returnErr, ctx.Err()) *)
RunError == returnErr \/ interrupted

WaitDevices ==
    /\ main = "run" /\ \A d \in Devices : dev[d] = "done"
    /\ returnErr' = RunError /\ main' = "close"
    /\ UNCHANGED <<memory, file, jobs, goroutine, holder, temp, flags, progress>>

(* The deferred function. *)
Close ==
    /\ main = "close" /\ main' = "returned"
    /\ memory' = [memory EXCEPT !.finished = TRUE, !.error = returnErr]
    /\ \E ok \in BOOLEAN :
        /\ Replace(memory', ok) /\ returnErr' = (returnErr \/ ~ok)
    /\ UNCHANGED <<jobs, goroutine, holder, temp, flags, progress>>

(* A signal; runCtx is derived from ctx. *)
Interrupt ==
    /\ main # "returned" /\ ~interrupted /\ interrupted' = TRUE
    /\ canceled' = (canceled \/ main = "run")
    /\ UNCHANGED <<main, memory, file, jobs, goroutine, holder, temp, failFast,
                   saveFailed, progress, returnErr>>
-----------------------------------------------------------------------------
(* The goroutine of a device.                                              *)

(* Mutant: no mutex. *)
NoMutex == TRUE

Free == holder = None

MoveTo(d, place) == dev' = [dev EXCEPT ![d] = place]

NoMoreJobs(d) ==
    /\ main = "run" /\ dev[d] = "next" /\ at[d] > Len(Queue[d])
    /\ MoveTo(d, "done")
    /\ UNCHANGED <<main, memory, file, jobs, at, session, recordErr, runErr,
                   holder, temp, flags, progress, returnErr>>

StopDevice(d) ==
    /\ HasJob(d) /\ Free /\ canceled
    /\ MoveTo(d, "done")
    /\ UNCHANGED <<main, memory, file, jobs, at, session, recordErr, runErr,
                   holder, temp, flags, progress, returnErr>>

SkipJob(d) ==
    /\ HasJob(d) /\ Free /\ ~canceled
    /\ Completed(JobEnv(d), memory) = jobCases[JobEnv(d)]
    /\ at' = [at EXCEPT ![d] = @ + 1]
    /\ UNCHANGED <<main, memory, file, jobs, dev, session, recordErr, runErr,
                   holder, temp, flags, progress, returnErr>>

StartJob(d) ==
    /\ HasJob(d) /\ Free /\ ~canceled
    /\ Completed(JobEnv(d), memory) # jobCases[JobEnv(d)]
    /\ memory' = [memory EXCEPT !.env[JobEnv(d)].error = FALSE]
    /\ worker' = [worker EXCEPT ![d] = memory.env[JobEnv(d)].decided]
    /\ todo' = [todo EXCEPT ![d] = jobCases[JobEnv(d)]]
    /\ MoveTo(d, "watch")
    /\ UNCHANGED <<main, file, jobs, at, current, started, received, recordErr,
                   runErr, holder, temp, flags, progress, returnErr>>

(* prepareReport: a report with measurements stays with its machine, so    *)
(* that the worker fails before its first update on another one.           *)
Accepts(e) ==
    found.env[e].pinned => found.env[e].workers = Machine[e]

(* The key a case has for the worker of a device. *)
WorkerKey(d, c) == Key(JobEnv(d), c, Machine[JobEnv(d)])

(* The updates of a worker: a case is announced, the announced case has    *)
(* its verdict, or the report changes in a way nobody here looks at (the   *)
(* first and the last report, a measurement, a failed case).               *)
Announce(d) ==
    /\ received[d] /\ \E c \in todo[d] :
        /\ WorkerKey(d, c) \notin worker[d]
        /\ todo' = [todo EXCEPT ![d] = @ \ {c}]
        /\ current' = [current EXCEPT ![d] = c]
    /\ started' = [started EXCEPT ![d] = TRUE]
    /\ UNCHANGED worker

Decide(d) ==
    /\ current[d] # None
    /\ worker' = [worker EXCEPT ![d] = @ \cup {WorkerKey(d, current[d])}]
    /\ current' = [current EXCEPT ![d] = None]
    /\ started' = [started EXCEPT ![d] = FALSE]
    /\ UNCHANGED todo

Inform(d) ==
    /\ current' \in {current, [current EXCEPT ![d] = None]}
    /\ started' = [started EXCEPT ![d] = FALSE]
    /\ UNCHANGED <<worker, todo>>

(* An update is in hand, the mutex is not yet. *)
Decode(d) ==
    /\ dev[d] = "watch" /\ MoveTo(d, "save") /\ Accepts(JobEnv(d))
    /\ Announce(d) \/ Decide(d) \/ Inform(d)
    /\ UNCHANGED <<main, memory, file, jobs, at, received, recordErr, runErr,
                   holder, temp, flags, progress, returnErr>>

(* The closure save, up to the file that is to replace the old one. *)
EncodeUpdate(d) ==
    /\ dev[d] = "save" /\ Free
    /\ holder' = d /\ MoveTo(d, "replace")
    /\ memory' = [memory EXCEPT !.env[JobEnv(d)].decided = worker[d],
                                !.env[JobEnv(d)].workers = Machine[JobEnv(d)]]
    /\ temp' = [temp EXCEPT ![d] = memory']
    /\ UNCHANGED <<main, file, jobs, at, session, recordErr, runErr, flags,
                   progress, returnErr>>

(* Mutants: every update counts; the others are not told. *)
EveryUpdate(d) == TRUE
CancelNever(ok) == FALSE

Announces(d) == started[d]
CancelOn(ok) == ~ok

(* ... and the rest of it: the file is replaced, or all workers are        *)
(* canceled; the progress is counted.                                      *)
ReplaceUpdate(d) ==
    /\ dev[d] = "replace" /\ holder' = None
    /\ temp' = [temp EXCEPT ![d] = NoFile]
    /\ \E ok \in BOOLEAN :
        /\ Replace(temp[d], ok)
        /\ recordErr' = [recordErr EXCEPT ![d] = ~ok]
        /\ received' = [received EXCEPT ![d] = @ \/ ok]
        /\ canceled' = (canceled \/ CancelOn(ok))
        /\ saveFailed' = (saveFailed \/ ~ok)
        /\ progress' = IF ok /\ Announces(d) THEN progress + 1 ELSE progress
        /\ MoveTo(d, IF ok THEN "watch" ELSE "drain")
    /\ UNCHANGED <<main, memory, jobs, at, worker, todo, current, started,
                   runErr, failFast, interrupted, returnErr>>

(* Mutant: a device that stopped decoding waits for a worker that waits    *)
(* for its reader.                                                         *)
WatchedOnly == {"watch"}

Reading == {"watch", "drain"}

(* The worker is gone and runWorkerProcess returns.  Without an error only *)
(* if an update was saved, every case has a verdict and nobody canceled.   *)
WorkerEnds(d) ==
    /\ dev[d] \in Reading /\ MoveTo(d, "after")
    /\ \E failed \in BOOLEAN :
        /\ runErr' = [runErr EXCEPT ![d] = failed]
        /\ ~failed => /\ dev[d] = "watch" /\ received[d] /\ ~canceled
                      /\ \A c \in jobCases[JobEnv(d)] :
                            WorkerKey(d, c) \in worker[d]
    /\ UNCHANGED <<main, memory, file, jobs, at, session, recordErr, holder,
                   temp, flags, progress, returnErr>>

EncodeEnd(d) ==
    /\ dev[d] = "after" /\ Free
    /\ holder' = d /\ MoveTo(d, "finish")
    /\ memory' = [memory EXCEPT !.env[JobEnv(d)].error = @ \/ runErr[d]]
    /\ returnErr' = (returnErr \/ runErr[d])
    /\ temp' = [temp EXCEPT ![d] = memory']
    /\ UNCHANGED <<main, file, jobs, at, session, recordErr, runErr, flags,
                   progress>>

(* The save after the worker; the variables of this job are gone then.     *)
ReplaceEnd(d) ==
    /\ dev[d] = "finish" /\ holder' = None
    /\ temp' = [temp EXCEPT ![d] = NoFile]
    /\ \E ok \in BOOLEAN :
        /\ Replace(temp[d], ok)
        /\ returnErr' = (returnErr \/ ~ok)
        /\ saveFailed' = (saveFailed \/ ~ok)
        /\ canceled' = (canceled \/ CancelOn(ok /\ ~recordErr[d])
                                 \/ (runErr[d] /\ failFast))
    /\ at' = [at EXCEPT ![d] = @ + 1] /\ MoveTo(d, "next")
    /\ worker' = [worker EXCEPT ![d] = {}] /\ todo' = [todo EXCEPT ![d] = {}]
    /\ current' = [current EXCEPT ![d] = None]
    /\ started' = [started EXCEPT ![d] = FALSE]
    /\ received' = [received EXCEPT ![d] = FALSE]
    /\ recordErr' = [recordErr EXCEPT ![d] = FALSE]
    /\ runErr' = [runErr EXCEPT ![d] = FALSE]
    /\ UNCHANGED <<main, memory, jobs, failFast, interrupted, progress>>

DeviceNext(d) ==
    \/ NoMoreJobs(d) \/ StopDevice(d) \/ SkipJob(d) \/ StartJob(d)
    \/ Decode(d) \/ EncodeUpdate(d) \/ ReplaceUpdate(d)
    \/ WorkerEnds(d) \/ EncodeEnd(d) \/ ReplaceEnd(d)

MainNext ==
    \/ Load \/ SetupFails \/ StartDevices \/ WaitDevices \/ Close
    \/ \E e \in Envs : Prepare(e) \/ PrepareFails(e)

Over == main = "returned" /\ UNCHANGED vars

Next == MainNext \/ Interrupt \/ Over \/ \E d \in Devices : DeviceNext(d)

Spec == Init /\ [][Next]_vars

(* Goroutines run, every locked section ends, and a worker comes to an end *)
(* if its output is read (InvocationEnds of Session); its updates alone    *)
(* keep nobody busy forever.                                               *)
FairSpec ==
    /\ Spec /\ WF_vars(MainNext)
    /\ \A d \in Devices : WF_vars(DeviceNext(d)) /\ SF_vars(WorkerEnds(d))
-----------------------------------------------------------------------------
(* Between Lock and Unlock. *)
Locked(d) == dev[d] \in {"replace", "finish"}

(* Every variable has its type, and the mutex its owner: whoever writes    *)
(* the file holds it (controller.go 193, 213-252).                         *)
TypeOK ==
    /\ main \in {"load", "prepare", "run", "close", "returned"}
    /\ {memory, file, found} \subseteq ResultReport
    /\ jobCases \in [Envs -> SUBSET Cases] /\ prepared \subseteq Envs
    /\ dev \in [Devices -> {"next", "watch", "save", "replace", "drain",
                            "after", "finish", "done"}]
    /\ at \in [Devices -> Nat \ {0}]
    /\ \A d \in Devices : at[d] <= Len(Queue[d]) + 1
    /\ temp \in [Devices -> ResultReport]
    /\ worker \in [Devices -> SUBSET (Cases \X Nat)]
    /\ todo \in [Devices -> SUBSET Cases]
    /\ current \in [Devices -> Cases \cup {None}]
    /\ {started, received, recordErr, runErr} \subseteq [Devices -> BOOLEAN]
    /\ {failFast, canceled, interrupted, returnErr, saveFailed} \subseteq BOOLEAN
    /\ progress \in Nat /\ total \in Nat
    /\ holder \in Devices \cup {None}
    /\ \A d \in Devices : Locked(d) <=> holder = d

(* Success: an invocation that returns nil has left a closed file without  *)
(* an error in which every case it was asked for and could prepare has a   *)
(* verdict, whatever was interrupted or canceled on which device.          *)
SuccessMeansAll ==
    main = "returned" /\ ~returnErr =>
        /\ file.finished /\ ~file.error
        /\ AllDecided(file)

(* Cases of several queues in environments whose machine is not the one    *)
(* that is named in the report that was found.                             *)
Moved(e) ==
    found.env[e].workers \notin {0, Machine[e]} /\ Accepts(e)
Shifted == {k \in AllCases : k \in MultiQueue /\ Moved(k[1])}

(* The progress never passes the total, and has reached it on success:     *)
(* every case to run is announced once, on whatever device.  The code      *)
(* misses it where the machine has changed: a case that was decided for    *)
(* the machine of the report is counted before and announced again, and    *)
(* one that was decided for the present machine is neither (controller.go  *)
(* 186 and 265 against worker.go 261); each such case counts for one.      *)
ProgressRight ==
    /\ progress <= total + Cardinality(Shifted)
    /\ main = "returned" /\ ~returnErr =>
            progress + Cardinality(Shifted) >= total

(* No device starts a job after a save failed on any of them, or after a   *)
(* job failed under --fail-fast (controller.go 218-219, 249-251).          *)
NoStartAfterFailure ==
    [][\A d \in Devices : dev[d] = "next" /\ dev'[d] = "watch"
            => ~saveFailed /\ ~(failFast /\ returnErr)]_vars

(* A verdict that is in the file stays there, although every device writes *)
(* the results of all the others along with its own.                       *)
VerdictsStay ==
    [][\A e \in Envs : file.env[e].decided \subseteq file'.env[e].decided]_vars

(* The file is only ever written as closed and free of errors when all     *)
(* cases are decided: nobody who reads it during a run, or after a crash,  *)
(* takes a partial result for a complete one.                              *)
ClosedOnlyComplete ==
    [][file' # file /\ file'.finished /\ ~file'.error => AllDecided(file')]_vars

(* Once the devices run, the invocation comes to its end, whatever fails.  *)
RunEnds == main = "run" ~> main = "returned"
=============================================================================
