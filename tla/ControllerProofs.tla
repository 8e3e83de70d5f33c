-------------------------- MODULE ControllerProofs --------------------------
(***************************************************************************)
(* Proofs about Controller, for every set of environments, devices, cases  *)
(* and queues.                                                             *)
(*                                                                         *)
(* The mutex lets one goroutine at a time change the report and the file,  *)
(* so what it has encoded is what is in memory; a goroutine's job is its   *)
(* own, so a worker's verdicts are those of the report; whatever cancels   *)
(* the others is on its way into the returned error; and the progress is   *)
(* the number of the cases counted when the devices started and of those   *)
(* announced since, which only overlap where the machine has changed.      *)
(***************************************************************************)
EXTENDS Controller, FiniteSetTheorems, TLAPS

USE ControllerAssumption

Busy == {"watch", "save", "replace", "drain", "after", "finish"}

MainTypes ==
    /\ main \in {"load", "prepare", "run", "close", "returned"}
    /\ memory \in ResultReport /\ file \in ResultReport /\ found \in ResultReport
    /\ jobCases \in [Envs -> SUBSET Cases] /\ prepared \subseteq Envs
    /\ failFast \in BOOLEAN /\ canceled \in BOOLEAN /\ interrupted \in BOOLEAN
    /\ returnErr \in BOOLEAN /\ saveFailed \in BOOLEAN
    /\ holder \in Devices \cup {None}

DeviceTypes ==
    /\ dev \in [Devices -> {"next", "done"} \cup Busy]
    /\ at \in [Devices -> Nat \ {0}]
    /\ \A d \in Devices : at[d] <= Len(Queue[d]) + 1
    /\ \A d \in Devices : dev[d] \in Busy => at[d] <= Len(Queue[d])
    /\ temp \in [Devices -> ResultReport]
    /\ runErr \in [Devices -> BOOLEAN] /\ recordErr \in [Devices -> BOOLEAN]

WorkerTypes ==
    /\ worker \in [Devices -> SUBSET (Cases \X Nat)]
    /\ todo \in [Devices -> SUBSET Cases]
    /\ current \in [Devices -> Cases \cup {None}]
    /\ started \in [Devices -> BOOLEAN] /\ received \in [Devices -> BOOLEAN]

(* Whoever is between Lock and Unlock holds the mutex and writes what is   *)
(* in memory; goroutines exist while the devices run.                      *)
LockInv ==
    /\ \A d \in Devices : Locked(d) <=> holder = d
    /\ \A d \in Devices : Locked(d) => temp[d] = memory
    /\ main # "run" => \A d \in Devices : dev[d] \notin Busy
    /\ main \in {"load", "prepare"} => \A d \in Devices : dev[d] = "next" /\ at[d] = 1
    /\ main \in {"prepare", "run", "close"} => ~memory.finished

(* The report in memory is never behind the file, and agrees with the      *)
(* worker of a job on the verdicts of its environment.                     *)
VerdictInv ==
    /\ main = "load" => memory = file
    /\ \A e \in Envs : file.env[e].decided \subseteq memory.env[e].decided
    /\ \A d \in Devices :
        /\ dev[d] \in Busy \ {"save"} => memory.env[JobEnv(d)].decided = worker[d]
        /\ dev[d] = "save" => memory.env[JobEnv(d)].decided \subseteq worker[d]

(* A report names the machine it was found with until a worker that takes  *)
(* it has sent its first update; then it names the present one.            *)
Named(d) ==
    /\ dev[d] \in {"save", "replace"} \/ received[d] => Accepts(JobEnv(d))
    /\ dev[d] = "replace" \/ received[d] =>
            memory.env[JobEnv(d)].workers = Machine[JobEnv(d)]
    /\ received[d] => dev[d] \in Busy

NamedInv ==
    /\ \A d \in Devices : Named(d)
    /\ main \in {"load", "prepare"} =>
            \A e \in Envs : memory.env[e].workers = found.env[e].workers

(* Why the workers are canceled is in the returned error, or in the hands  *)
(* of a goroutine that is going to put it there.                           *)
Blamed(d) == dev[d] = "drain" \/ (dev[d] = "after" /\ runErr[d])

CancelInv ==
    /\ main \in {"load", "prepare"} => ~returnErr /\ ~saveFailed
    /\ main = "run" /\ saveFailed => canceled
    /\ main = "run" /\ failFast /\ returnErr =>
            canceled \/ \E d \in Devices : dev[d] = "finish" /\ runErr[d]
    /\ main = "run" /\ canceled =>
            returnErr \/ interrupted \/ \E d \in Devices : Blamed(d)
    /\ \A d \in Devices : dev[d] = "finish" /\ runErr[d] => returnErr
    /\ \A d \in Devices : recordErr[d] =>
            dev[d] = "drain" \/ (dev[d] \in {"after", "finish"} /\ runErr[d])

(* The jobs a device has passed are complete, or there is an error.        *)
Done(e) ==
    \A c \in jobCases[e] :
        Key(e, c, memory.env[e].workers) \in memory.env[e].decided

DoneInv ==
    /\ main = "run" /\ ~returnErr =>
            \A d \in Devices : \A i \in 1 .. at[d] - 1 : Done(Queue[d][i])
    /\ \A d \in Devices :
            dev[d] \in {"after", "finish"} /\ ~runErr[d] => Done(JobEnv(d))
    /\ \A d \in Devices : main = "run" /\ dev[d] = "done" =>
            at[d] > Len(Queue[d]) \/ canceled
    /\ main = "close" /\ ~returnErr => AllDecided(memory)
    /\ SuccessMeansAll

IInv ==
    /\ MainTypes /\ DeviceTypes /\ WorkerTypes
    /\ LockInv /\ VerdictInv /\ NamedInv /\ CancelInv /\ DoneInv

(* The invariant holds before the first step. *)
LEMMA InitInvariant == Init => IInv
<1> SUFFICES ASSUME Init PROVE IInv
  OBVIOUS
<1> USE DEF Init
<1>1. NoFile \in ResultReport
  BY DEF NoFile, ResultReport, Entry
<1>2. \A d \in Devices : Len(Queue[d]) \in Nat
  OBVIOUS
<1>3. MainTypes
  BY DEF MainTypes
<1>4. DeviceTypes /\ WorkerTypes
  BY <1>1, <1>2 DEF DeviceTypes, WorkerTypes, Busy
<1>5. LockInv /\ VerdictInv /\ NamedInv
  BY DEF LockInv, VerdictInv, NamedInv, Named, Locked, Busy
<1>6. CancelInv /\ DoneInv
  BY DEF CancelInv, DoneInv, SuccessMeansAll
<1> QED
  BY <1>3, <1>4, <1>5, <1>6 DEF IInv

(* What the steps do to the report: most of them change no verdict, and    *)
(* EncodeUpdate those of one environment.                                  *)
SameVerdicts(old, new) ==
    /\ new \in ResultReport
    /\ \A e \in Envs : /\ new.env[e].decided = old.env[e].decided
                       /\ new.env[e].workers = old.env[e].workers

(* Changing one field of one environment changes nothing else. *)
LEMMA SetError ==
    ASSUME NEW rep \in ResultReport, NEW e \in Envs, NEW b \in BOOLEAN,
           NEW new, new = [rep EXCEPT !.env[e].error = b]
    PROVE  SameVerdicts(rep, new) /\ new.finished = rep.finished
<1> DEFINE entry == [rep.env[e] EXCEPT !.error = b]
<1>1. rep.env \in [Envs -> Entry] /\ rep.env[e] \in Entry
  BY DEF ResultReport
<1>2. /\ entry \in Entry /\ entry.decided = rep.env[e].decided
      /\ entry.workers = rep.env[e].workers
  BY <1>1 DEF Entry
<1>3. new = [rep EXCEPT !.env = [rep.env EXCEPT ![e] = entry]]
  BY <1>1 DEF ResultReport, Entry
<1> HIDE DEF entry
<1>4. /\ [rep.env EXCEPT ![e] = entry] \in [Envs -> Entry]
      /\ \A f \in Envs :
            /\ [rep.env EXCEPT ![e] = entry][f].decided = rep.env[f].decided
            /\ [rep.env EXCEPT ![e] = entry][f].workers = rep.env[f].workers
  BY <1>1, <1>2
<1> QED
  BY <1>3, <1>4 DEF ResultReport, SameVerdicts

(* Nor do the marks of the whole report. *)
LEMMA SetFlags ==
    ASSUME NEW rep \in ResultReport, NEW f \in BOOLEAN, NEW b \in BOOLEAN,
           NEW new, new = [rep EXCEPT !.finished = f, !.error = b]
    PROVE  SameVerdicts(rep, new) /\ new.finished = f /\ new.error = b
BY DEF ResultReport, Entry, SameVerdicts

(* A goroutine with a job has an environment of its own. *)
LEMMA OwnJob ==
    ASSUME IInv, NEW d \in Devices, at[d] <= Len(Queue[d])
    PROVE  /\ at[d] \in 1 .. Len(Queue[d]) /\ JobEnv(d) \in Envs
           /\ \A f \in Devices : \A i \in 1 .. Len(Queue[f]) :
                Queue[f][i] = JobEnv(d) => f = d /\ i = at[d]
<1>1. at[d] \in 1 .. Len(Queue[d]) /\ Len(Queue[d]) \in Nat
  BY DEF IInv, DeviceTypes
<1>2. Queue[d][at[d]] \in Envs
  BY <1>1
<1>3. ASSUME NEW f \in Devices, NEW i \in 1 .. Len(Queue[f]),
             Queue[f][i] = Queue[d][at[d]]
      PROVE  f = d /\ i = at[d]
  <2>1. \A g, h \in Devices :
            \A j \in 1 .. Len(Queue[g]), k \in 1 .. Len(Queue[h]) :
                Queue[g][j] = Queue[h][k] => g = h /\ j = k
    BY QueueAssumption
  <2> QED
    BY <1>1, <1>3, <2>1, Zenon
<1> QED
  BY <1>1, <1>2, <1>3 DEF JobEnv

(* Load and Close change the marks of the report. *)
LEMMA FlagSteps ==
    ASSUME IInv, Load \/ Close
    PROVE  /\ SameVerdicts(memory, memory')
           /\ Load => ~memory'.finished
           /\ Close => memory'.finished /\ memory'.error = returnErr
<1>1. memory \in ResultReport /\ file \in ResultReport /\ returnErr \in BOOLEAN
  BY DEF IInv, MainTypes
<1>2. CASE Close
  <2>1. memory' = [memory EXCEPT !.finished = TRUE, !.error = returnErr]
    BY <1>2 DEF Close
  <2>2. SameVerdicts(memory, memory') /\ memory'.finished = TRUE
        /\ memory'.error = returnErr
    BY <1>1, <2>1, SetFlags
  <2>3. ~Load
    BY <1>2 DEF Load, Close
  <2> QED
    BY <2>2, <2>3
<1>3. CASE Load
  <2>1. memory' = [file EXCEPT !.finished = FALSE, !.error = FALSE] /\ main = "load"
    BY <1>3 DEF Load, Reopened
  <2>2. memory = file
    BY <2>1 DEF IInv, VerdictInv
  <2>3. SameVerdicts(file, memory') /\ memory'.finished = FALSE
    BY <1>1, <2>1, SetFlags
  <2>4. ~Close
    BY <1>3 DEF Load, Close
  <2> QED
    BY <2>2, <2>3, <2>4
<1> QED
  BY <1>2, <1>3

(* Preparing, starting and ending a job change the error of its environment. *)
LEMMA ErrorSteps ==
    ASSUME IInv,
           \/ \E e \in Envs : Prepare(e) \/ PrepareFails(e)
           \/ \E d \in Devices : StartJob(d) \/ EncodeEnd(d)
    PROVE  SameVerdicts(memory, memory') /\ memory'.finished = memory.finished
<1>1. memory \in ResultReport
  BY DEF IInv, MainTypes
<1>2. SameVerdicts(memory, memory)
  BY <1>1 DEF SameVerdicts
<1>3. ASSUME NEW e \in Envs, NEW b \in BOOLEAN,
             memory' = [memory EXCEPT !.env[e].error = b]
      PROVE  SameVerdicts(memory, memory') /\ memory'.finished = memory.finished
  BY <1>1, <1>3, SetError
<1>4. ASSUME NEW e \in Envs, Prepare(e) \/ PrepareFails(e)
      PROVE  SameVerdicts(memory, memory') /\ memory'.finished = memory.finished
  <2>1. \/ memory' = memory
        \/ memory' = [memory EXCEPT !.env[e].error = FALSE]
        \/ memory' = [memory EXCEPT !.env[e].error = TRUE]
    BY <1>4 DEF Prepare, PrepareFails
  <2>2. CASE memory' = memory
    BY <1>2, <2>2
  <2>3. CASE memory' = [memory EXCEPT !.env[e].error = FALSE]
    BY <1>3, <2>3
  <2>4. CASE memory' = [memory EXCEPT !.env[e].error = TRUE]
    BY <1>3, <2>4
  <2> QED
    BY <2>1, <2>2, <2>3, <2>4
<1>5. ASSUME NEW d \in Devices, StartJob(d)
      PROVE  SameVerdicts(memory, memory') /\ memory'.finished = memory.finished
  <2>1. memory' = [memory EXCEPT !.env[JobEnv(d)].error = FALSE]
    BY <1>5 DEF StartJob
  <2>2. at[d] <= Len(Queue[d])
    BY <1>5 DEF StartJob, HasJob
  <2>3. JobEnv(d) \in Envs
    BY <2>2, OwnJob
  <2> QED
    BY <1>3, <2>1, <2>3
<1>6. ASSUME NEW d \in Devices, EncodeEnd(d)
      PROVE  SameVerdicts(memory, memory') /\ memory'.finished = memory.finished
  <2>1. at[d] <= Len(Queue[d]) /\ runErr[d] \in BOOLEAN
    BY <1>6 DEF EncodeEnd, IInv, DeviceTypes, Busy
  <2>2. JobEnv(d) \in Envs
    BY <2>1, OwnJob
  <2>3. memory.env[JobEnv(d)].error \in BOOLEAN
    BY <1>1, <2>2 DEF ResultReport, Entry
  <2>4. memory' =
          [memory EXCEPT !.env[JobEnv(d)].error = memory.env[JobEnv(d)].error \/ runErr[d]]
    BY <1>6 DEF EncodeEnd
  <2>5. (memory.env[JobEnv(d)].error \/ runErr[d]) \in BOOLEAN
    BY <2>1, <2>3
  <2> QED
    BY <1>3, <2>2, <2>4, <2>5
<1> QED
  BY <1>4, <1>5, <1>6

(* Saving an update changes the results of one environment. *)
LEMMA UpdateStep ==
    ASSUME IInv, NEW d \in Devices, EncodeUpdate(d)
    PROVE  /\ memory' \in ResultReport /\ memory'.finished = memory.finished
           /\ JobEnv(d) \in Envs
           /\ memory'.env[JobEnv(d)].decided = worker[d]
           /\ memory'.env[JobEnv(d)].workers = Machine[JobEnv(d)]
           /\ \A e \in Envs \ {JobEnv(d)} : memory'.env[e] = memory.env[e]
<1> DEFINE j == JobEnv(d)
<1>1. worker[d] \in SUBSET (Cases \X Nat) /\ memory \in ResultReport
      /\ at[d] <= Len(Queue[d])
  BY DEF EncodeUpdate, IInv, MainTypes, DeviceTypes, WorkerTypes, Busy
<1>2. j \in Envs /\ Machine[j] \in Nat \ {0}
  BY <1>1, OwnJob
<1>3. memory' = [memory EXCEPT !.env[j].decided = worker[d],
                              !.env[j].workers = Machine[j]]
  BY DEF EncodeUpdate
<1> HIDE DEF IInv, j
<1>4. memory.env \in [Envs -> Entry] /\ memory.env[j] \in Entry
  BY <1>1, <1>2 DEF ResultReport
<1> DEFINE entry == [memory.env[j] EXCEPT !.decided = worker[d],
                                          !.workers = Machine[j]]
           env == [memory.env EXCEPT ![j] = entry]
<1>5. entry \in Entry /\ entry.decided = worker[d] /\ entry.workers = Machine[j]
  BY <1>1, <1>2, <1>4 DEF Entry
<1>6. memory' = [memory EXCEPT !.env = env]
  BY <1>1, <1>2, <1>3, <1>4 DEF ResultReport, Entry
<1> HIDE DEF entry
<1>7. /\ env \in [Envs -> Entry] /\ env[j] = entry
      /\ \A e \in Envs \ {j} : env[e] = memory.env[e]
  BY <1>2, <1>4, <1>5
<1> HIDE DEF env
<1>8. /\ memory' \in ResultReport /\ memory'.env = env
      /\ memory'.finished = memory.finished
  BY <1>1, <1>6, <1>7 DEF ResultReport
<1> QED
  BY <1>2, <1>5, <1>7, <1>8 DEF j

(* Two goroutines with jobs never have the same environment. *)
LEMMA OtherJob ==
    ASSUME IInv, NEW d \in Devices, at[d] <= Len(Queue[d]),
           NEW f \in Devices, dev[f] \in Busy
    PROVE  JobEnv(f) \in Envs /\ (f # d => JobEnv(f) # JobEnv(d))
<1>1. at[f] <= Len(Queue[f])
  BY DEF IInv, DeviceTypes
<1>2. /\ at[f] \in 1 .. Len(Queue[f]) /\ JobEnv(f) \in Envs
  BY <1>1, OwnJob
<1>3. ASSUME JobEnv(f) = JobEnv(d) PROVE f = d
  <2>1. Queue[f][at[f]] = JobEnv(d)
    BY <1>3 DEF JobEnv
  <2> QED
    BY <1>2, <2>1, OwnJob
<1> QED
  BY <1>2, <1>3

(* What the worker of a job has decided is in the report, at the latest    *)
(* when its update is saved.                                               *)
Agrees(d) ==
    /\ dev[d] \in Busy \ {"save"} => memory.env[JobEnv(d)].decided = worker[d]
    /\ dev[d] = "save" => memory.env[JobEnv(d)].decided \subseteq worker[d]

(* Starting a job takes over the verdicts of its environment. *)
LEMMA AgreesStart ==
    ASSUME IInv, NEW d \in Devices, StartJob(d), NEW f \in Devices
    PROVE  Agrees(f)'
<1>1. /\ SameVerdicts(memory, memory') /\ at' = at
      /\ dev' = [dev EXCEPT ![d] = "watch"]
      /\ worker' = [worker EXCEPT ![d] = memory.env[JobEnv(d)].decided]
      /\ at[d] <= Len(Queue[d])
  BY ErrorSteps DEF StartJob, MoveTo, HasJob
<1>2. /\ dev \in [Devices -> {"next", "done"} \cup Busy]
      /\ worker \in [Devices -> SUBSET (Cases \X Nat)] /\ Agrees(f)
  BY DEF IInv, DeviceTypes, WorkerTypes, VerdictInv, Agrees
<1>3. JobEnv(d) \in Envs /\ JobEnv(f)' = JobEnv(f)
  BY <1>1, OwnJob DEF JobEnv
<1>4. CASE f = d
  <2>1. dev'[f] = "watch" /\ worker'[f] = memory.env[JobEnv(f)].decided
    BY <1>1, <1>2, <1>4
  <2>2. memory'.env[JobEnv(f)].decided = memory.env[JobEnv(f)].decided
    BY <1>1, <1>3, <1>4 DEF SameVerdicts
  <2> QED
    BY <1>3, <2>1, <2>2 DEF Agrees
<1>5. CASE f # d
  <2>1. dev'[f] = dev[f] /\ worker'[f] = worker[f]
    BY <1>1, <1>2, <1>5
  <2>2. CASE dev[f] \in Busy
    <3>1. JobEnv(f) \in Envs
      BY <1>1, <2>2, OtherJob
    <3>2. memory'.env[JobEnv(f)].decided = memory.env[JobEnv(f)].decided
      BY <1>1, <3>1 DEF SameVerdicts
    <3> QED
      BY <1>2, <1>3, <2>1, <3>2 DEF Agrees
  <2>3. CASE dev[f] \notin Busy
    BY <2>1, <2>3 DEF Agrees, Busy
  <2> QED
    BY <2>2, <2>3
<1> QED
  BY <1>4, <1>5

(* Saving an update touches the verdicts of one environment. *)
LEMMA AgreesUpdate ==
    ASSUME IInv, NEW d \in Devices, EncodeUpdate(d), NEW f \in Devices
    PROVE  Agrees(f)'
<1>1. /\ at' = at /\ worker' = worker /\ dev' = [dev EXCEPT ![d] = "replace"]
      /\ dev[d] = "save"
  BY DEF EncodeUpdate, MoveTo, session
<1>2. /\ dev \in [Devices -> {"next", "done"} \cup Busy] /\ Agrees(f)
      /\ at[d] <= Len(Queue[d])
  BY <1>1 DEF IInv, DeviceTypes, VerdictInv, Agrees, Busy
<1>3. /\ JobEnv(d) \in Envs /\ JobEnv(f)' = JobEnv(f)
      /\ memory'.env[JobEnv(d)].decided = worker[d]
      /\ \A e \in Envs \ {JobEnv(d)} : memory'.env[e] = memory.env[e]
  BY <1>1, UpdateStep DEF JobEnv
<1>4. CASE f = d
  <2>1. dev'[f] = "replace" /\ memory'.env[JobEnv(f)].decided = worker[f]
    BY <1>1, <1>2, <1>3, <1>4
  <2> QED
    BY <1>1, <1>3, <2>1 DEF Agrees
<1>5. CASE f # d
  <2>1. dev'[f] = dev[f]
    BY <1>1, <1>2, <1>5
  <2>2. CASE dev[f] \in Busy
    <3>1. JobEnv(f) \in Envs /\ JobEnv(f) # JobEnv(d)
      BY <1>2, <1>5, <2>2, OtherJob
    <3>2. memory'.env[JobEnv(f)].decided = memory.env[JobEnv(f)].decided
      BY <1>3, <3>1
    <3> QED
      BY <1>1, <1>2, <1>3, <2>1, <3>2 DEF Agrees
  <2>3. CASE dev[f] \notin Busy
    BY <2>1, <2>3 DEF Agrees, Busy
  <2> QED
    BY <2>2, <2>3
<1> QED
  BY <1>4, <1>5

(* The save after a worker changes no verdict. *)
LEMMA AgreesEnd ==
    ASSUME IInv, NEW d \in Devices, EncodeEnd(d), NEW f \in Devices
    PROVE  Agrees(f)'
<1>1. /\ SameVerdicts(memory, memory') /\ at' = at /\ worker' = worker
      /\ dev' = [dev EXCEPT ![d] = "finish"] /\ dev[d] = "after"
  BY ErrorSteps DEF EncodeEnd, MoveTo, session
<1>2. /\ dev \in [Devices -> {"next", "done"} \cup Busy] /\ Agrees(f)
      /\ at[d] <= Len(Queue[d])
  BY <1>1 DEF IInv, DeviceTypes, VerdictInv, Agrees, Busy
<1>3. /\ dev[f] \in Busy => JobEnv(f) \in Envs
      /\ JobEnv(f)' = JobEnv(f)
  BY <1>1, <1>2, OtherJob DEF JobEnv
<1>4. dev'[f] = dev[f] \/ (dev[f] = "after" /\ dev'[f] = "finish")
  BY <1>1, <1>2
<1>5. CASE dev[f] \in Busy
  <2>1. memory'.env[JobEnv(f)].decided = memory.env[JobEnv(f)].decided
    BY <1>1, <1>3, <1>5 DEF SameVerdicts
  <2> QED
    BY <1>1, <1>2, <1>3, <1>4, <2>1 DEF Agrees, Busy
<1>6. CASE dev[f] \notin Busy
  BY <1>4, <1>6 DEF Agrees, Busy
<1> QED
  BY <1>5, <1>6

(* The results of an environment, as far as the controller reads them. *)
SameResults(e) ==
    /\ memory'.env[e].decided = memory.env[e].decided
    /\ memory'.env[e].workers = memory.env[e].workers

(* What is done stays done. *)
LEMMA KeepsDone ==
    ASSUME jobCases' = jobCases, NEW e \in Envs, SameResults(e), Done(e)
    PROVE  Done(e)'
BY DEF SameResults, Done, Completed

(* A job that its device has passed is the job of an environment. *)
LEMMA PassedJobs ==
    ASSUME IInv, NEW d \in Devices, NEW i \in 1 .. at[d] - 1
    PROVE  i \in 1 .. Len(Queue[d]) /\ Queue[d][i] \in Envs
<1>1. Len(Queue[d]) \in Nat /\ at[d] \in Nat /\ at[d] <= Len(Queue[d]) + 1
  BY DEF IInv, DeviceTypes
<1>2. i \in 1 .. Len(Queue[d])
  BY <1>1
<1> QED
  BY <1>2

(* While one goroutine goes on with its job, nothing is undone. *)
LEMMA DoneWhileRunning ==
    ASSUME IInv, NEW d \in Devices, main = "run", main' = "run",
           at[d] <= Len(Queue[d]),
           \A e \in Envs \ {JobEnv(d)} : SameResults(e),
           jobCases' = jobCases, at' = at, ~returnErr' => ~returnErr,
           canceled' = canceled,
           \A f \in Devices : f # d => dev'[f] = dev[f] /\ runErr'[f] = runErr[f],
           dev'[d] # "done",
           dev'[d] \in {"after", "finish"} /\ ~runErr'[d] => Done(JobEnv(d))'
    PROVE  DoneInv'
<1>1. ASSUME ~returnErr', NEW f \in Devices, NEW i \in 1 .. at[f] - 1
      PROVE  Done(Queue[f][i])'
  <2>1. i \in 1 .. Len(Queue[f]) /\ Queue[f][i] \in Envs
    BY PassedJobs
  <2>2. Done(Queue[f][i])
    BY <1>1 DEF IInv, DoneInv
  <2>3. i # at[f]
    BY DEF IInv, DeviceTypes
  <2>4. Queue[f][i] # JobEnv(d)
    BY <2>1, <2>3, OwnJob
  <2> QED
    BY <2>1, <2>2, <2>4, KeepsDone
<1>2. ASSUME NEW f \in Devices, dev'[f] \in {"after", "finish"}, ~runErr'[f]
      PROVE  Done(JobEnv(f))'
  <2>1. CASE f = d
    BY <1>2, <2>1
  <2>2. CASE f # d
    <3>1. dev[f] \in {"after", "finish"} /\ ~runErr[f]
      BY <1>2, <2>2
    <3>2. Done(JobEnv(f))
      BY <3>1 DEF IInv, DoneInv
    <3>3. at[f] <= Len(Queue[f])
      BY <3>1 DEF IInv, DeviceTypes, Busy
    <3>4. /\ JobEnv(f) \in Envs /\ JobEnv(f)' = JobEnv(f)
          /\ JobEnv(f) # JobEnv(d)
      BY <2>2, <3>1, <3>3, OwnJob, OtherJob DEF JobEnv, Busy
    <3>5. SameResults(JobEnv(f))
      BY <3>4
    <3> QED
      BY <3>2, <3>4, <3>5 DEF Done, Completed, SameResults
  <2> QED
    BY <2>1, <2>2
<1>3. ASSUME NEW f \in Devices, dev'[f] = "done"
      PROVE  at'[f] > Len(Queue[f]) \/ canceled'
  <2>1. f # d
    BY <1>3
  <2>2. dev[f] = "done"
    BY <1>3, <2>1
  <2> QED
    BY <2>2 DEF IInv, DoneInv
<1> QED
  BY <1>1, <1>2, <1>3 DEF DoneInv, SuccessMeansAll

(* Starting a job undoes nothing. *)
LEMMA DoneStart ==
    ASSUME IInv, NEW d \in Devices, StartJob(d) PROVE DoneInv'
<1>1. SameVerdicts(memory, memory')
  BY ErrorSteps
<1>2. \A e \in Envs : SameResults(e)
  BY <1>1 DEF SameVerdicts, SameResults
<1>3. dev \in [Devices -> {"next", "done"} \cup Busy]
  BY DEF IInv, DeviceTypes
<1>4. /\ main = "run" /\ main' = main /\ jobCases' = jobCases /\ at' = at
      /\ at[d] <= Len(Queue[d])
      /\ returnErr' = returnErr /\ canceled' = canceled /\ runErr' = runErr
      /\ dev' = [dev EXCEPT ![d] = "watch"]
  BY DEF StartJob, MoveTo, HasJob, jobs, flags
<1> QED
  BY <1>2, <1>3, <1>4, DoneWhileRunning

(* An update adds verdicts of its own environment. *)
LEMMA DoneUpdate ==
    ASSUME IInv, NEW d \in Devices, EncodeUpdate(d) PROVE DoneInv'
<1>1. dev[d] = "save" /\ dev \in [Devices -> {"next", "done"} \cup Busy]
  BY DEF EncodeUpdate, IInv, DeviceTypes
<1>2. main = "run" /\ at[d] <= Len(Queue[d])
  BY <1>1 DEF IInv, DeviceTypes, LockInv, Busy
<1>3. \A e \in Envs \ {JobEnv(d)} : SameResults(e)
  BY UpdateStep DEF SameResults
<1>4. /\ main' = main /\ jobCases' = jobCases /\ at' = at
      /\ returnErr' = returnErr /\ canceled' = canceled /\ runErr' = runErr
      /\ dev' = [dev EXCEPT ![d] = "replace"]
  BY DEF EncodeUpdate, MoveTo, jobs, flags
<1> QED
  BY <1>1, <1>2, <1>3, <1>4, DoneWhileRunning

(* A worker that ends without an error has decided all cases of its job. *)
LEMMA DoneEnds ==
    ASSUME IInv, NEW d \in Devices, WorkerEnds(d) PROVE DoneInv'
<1>1. /\ dev[d] \in {"watch", "drain"}
      /\ dev \in [Devices -> {"next", "done"} \cup Busy]
      /\ runErr \in [Devices -> BOOLEAN]
  BY DEF WorkerEnds, Reading, IInv, DeviceTypes
<1>2. /\ main = "run" /\ memory.env[JobEnv(d)].decided = worker[d]
      /\ at[d] <= Len(Queue[d])
      /\ received[d] => memory.env[JobEnv(d)].workers = Machine[JobEnv(d)]
  BY <1>1 DEF IInv, VerdictInv, NamedInv, Named, LockInv, DeviceTypes, Busy
<1>3. /\ main' = main /\ jobCases' = jobCases /\ at' = at /\ memory' = memory
      /\ returnErr' = returnErr /\ canceled' = canceled
      /\ dev' = [dev EXCEPT ![d] = "after"]
  BY DEF WorkerEnds, MoveTo, jobs, flags
<1>4. PICK failed \in BOOLEAN :
        /\ runErr' = [runErr EXCEPT ![d] = failed]
        /\ ~failed => /\ received[d]
                      /\ \A c \in jobCases[JobEnv(d)] :
                            WorkerKey(d, c) \in worker[d]
  BY DEF WorkerEnds
<1>5. JobEnv(d)' = JobEnv(d) /\ \A e \in Envs : SameResults(e)
  BY <1>3 DEF JobEnv, SameResults
<1>6. ASSUME ~runErr'[d] PROVE Done(JobEnv(d))'
  <2>1. ~failed
    BY <1>1, <1>4, <1>6
  <2>2. Completed(JobEnv(d), memory) = jobCases[JobEnv(d)]
    BY <1>2, <1>4, <2>1 DEF Completed, WorkerKey
  <2> QED
    BY <1>3, <1>5, <2>2 DEF Done, Completed
<1> QED
  BY <1>1, <1>2, <1>3, <1>4, <1>5, <1>6, DoneWhileRunning

(* The save after a worker keeps its verdicts. *)
LEMMA DoneEnd ==
    ASSUME IInv, NEW d \in Devices, EncodeEnd(d) PROVE DoneInv'
<1>1. dev[d] = "after" /\ dev \in [Devices -> {"next", "done"} \cup Busy]
  BY DEF EncodeEnd, IInv, DeviceTypes
<1>2. main = "run" /\ at[d] <= Len(Queue[d])
  BY <1>1 DEF IInv, DeviceTypes, LockInv, Busy
<1>3. /\ main' = main /\ jobCases' = jobCases /\ at' = at
      /\ returnErr' = (returnErr \/ runErr[d]) /\ canceled' = canceled
      /\ runErr' = runErr /\ dev' = [dev EXCEPT ![d] = "finish"]
  BY DEF EncodeEnd, MoveTo, jobs, flags
<1>4. SameVerdicts(memory, memory')
  BY ErrorSteps
<1>5. \A e \in Envs : SameResults(e)
  BY <1>4 DEF SameVerdicts, SameResults
<1>6. JobEnv(d) \in Envs /\ JobEnv(d)' = JobEnv(d)
  BY <1>2, <1>3, OwnJob DEF JobEnv
<1>7. ~runErr[d] => Done(JobEnv(d))
  BY <1>1 DEF IInv, DoneInv
<1>9. ~runErr'[d] => Done(JobEnv(d))'
  BY <1>3, <1>5, <1>6, <1>7 DEF Done, Completed, SameResults
<1> QED
  BY <1>1, <1>2, <1>3, <1>5, <1>9, DoneWhileRunning

(* An update in hand changes nothing yet. *)
LEMMA DoneDecode ==
    ASSUME IInv, NEW d \in Devices, Decode(d) PROVE DoneInv'
<1>1. dev[d] = "watch" /\ dev \in [Devices -> {"next", "done"} \cup Busy]
  BY DEF Decode, IInv, DeviceTypes
<1>2. main = "run" /\ at[d] <= Len(Queue[d])
  BY <1>1 DEF IInv, DeviceTypes, LockInv, Busy
<1>3. /\ main' = main /\ jobCases' = jobCases /\ at' = at /\ memory' = memory
      /\ returnErr' = returnErr /\ canceled' = canceled /\ runErr' = runErr
      /\ dev' = [dev EXCEPT ![d] = "save"]
  BY DEF Decode, MoveTo, jobs, flags
<1>4. \A e \in Envs : SameResults(e)
  BY <1>3 DEF SameResults
<1> QED
  BY <1>1, <1>2, <1>3, <1>4, DoneWhileRunning

(* A device passes a job that was complete, or whose worker has succeeded, *)
(* or there is an error.                                                   *)
LEMMA DonePassed ==
    ASSUME IInv, NEW d \in Devices, SkipJob(d) \/ ReplaceEnd(d) PROVE DoneInv'
<1>1. /\ dev \in [Devices -> {"next", "done"} \cup Busy]
      /\ at \in [Devices -> Nat \ {0}] /\ runErr \in [Devices -> BOOLEAN]
      /\ dev[d] \in {"next", "finish"}
  BY DEF IInv, DeviceTypes, SkipJob, HasJob, ReplaceEnd
<1>2. /\ main = "run" /\ main' = "run" /\ memory' = memory /\ jobCases' = jobCases
      /\ at' = [at EXCEPT ![d] = @ + 1] /\ dev' = [dev EXCEPT ![d] = "next"]
  BY <1>1 DEF SkipJob, HasJob, ReplaceEnd, MoveTo, jobs, IInv, LockInv, Busy
<1>3. /\ ~returnErr' => ~returnErr
      /\ canceled => canceled'
      /\ \A f \in Devices \ {d} : runErr'[f] = runErr[f]
  <2>1. CASE SkipJob(d)
    BY <2>1 DEF SkipJob, flags
  <2>2. CASE ReplaceEnd(d)
    <3>1. (~returnErr' => ~returnErr) /\ (canceled => canceled')
      BY <2>2, Zenon DEF ReplaceEnd
    <3>2. runErr' = [runErr EXCEPT ![d] = FALSE]
      BY <2>2 DEF ReplaceEnd
    <3> QED
      BY <1>1, <3>1, <3>2
  <2> QED
    BY <2>1, <2>2
<1>4. ASSUME NEW e \in Envs, Done(e) PROVE Done(e)'
  BY <1>2, <1>4 DEF Done
<1>5. at[d] <= Len(Queue[d])
  BY <1>1 DEF SkipJob, HasJob, ReplaceEnd, IInv, DeviceTypes, Busy
<1>6. ASSUME ~returnErr' PROVE Done(JobEnv(d))
  <2>1. CASE SkipJob(d)
    BY <2>1 DEF SkipJob, Done, Completed
  <2>2. CASE ReplaceEnd(d)
    <3>1. dev[d] = "finish" /\ ~runErr[d]
      BY <1>3, <1>6, <2>2 DEF ReplaceEnd, IInv, CancelInv
    <3> QED
      BY <3>1 DEF IInv, DoneInv
  <2> QED
    BY <2>1, <2>2
<1>7. ASSUME ~returnErr', NEW f \in Devices, NEW i \in 1 .. at'[f] - 1
      PROVE  Done(Queue[f][i])'
  <2>1. CASE f = d /\ i = at[d]
    BY <1>5, <1>6, <1>7, <1>4, <2>1, OwnJob DEF JobEnv
  <2>2. CASE ~(f = d /\ i = at[d])
    <3>1. i \in 1 .. at[f] - 1
      BY <1>1, <1>2, <2>2
    <3>2. Done(Queue[f][i]) /\ Queue[f][i] \in Envs
      BY <1>2, <1>3, <1>7, <3>1, PassedJobs DEF IInv, DoneInv
    <3> QED
      BY <1>4, <3>2
  <2> QED
    BY <2>1, <2>2
<1>8. ASSUME NEW f \in Devices, dev'[f] \in {"after", "finish"}, ~runErr'[f]
      PROVE  Done(JobEnv(f))'
  <2>1. f # d /\ dev'[f] = dev[f] /\ ~runErr[f] /\ JobEnv(f)' = JobEnv(f)
    BY <1>1, <1>2, <1>3, <1>8 DEF JobEnv
  <2>2. Done(JobEnv(f))
    BY <1>8, <2>1 DEF IInv, DoneInv
  <2> QED
    BY <1>2, <2>1, <2>2 DEF Done
<1>9. ASSUME NEW f \in Devices, dev'[f] = "done"
      PROVE  at'[f] > Len(Queue[f]) \/ canceled'
  <2>1. f # d /\ dev[f] = "done" /\ at'[f] = at[f]
    BY <1>1, <1>2, <1>9
  <2> QED
    BY <1>2, <1>3, <2>1 DEF IInv, DoneInv
<1> QED
  BY <1>2, <1>7, <1>8, <1>9 DEF DoneInv, SuccessMeansAll

(* A device ends after its last job, or when it is canceled. *)
LEMMA DoneStops ==
    ASSUME IInv, NEW d \in Devices, NoMoreJobs(d) \/ StopDevice(d) PROVE DoneInv'
<1>1. /\ dev \in [Devices -> {"next", "done"} \cup Busy]
      /\ dev' = [dev EXCEPT ![d] = "done"]
      /\ main = "run" /\ main' = "run" /\ memory' = memory /\ jobCases' = jobCases
      /\ at' = at /\ runErr' = runErr /\ returnErr' = returnErr
      /\ canceled' = canceled
      /\ at[d] > Len(Queue[d]) \/ canceled
  BY DEF IInv, DeviceTypes, NoMoreJobs, StopDevice, HasJob, MoveTo, jobs, flags
<1>2. ASSUME ~returnErr', NEW f \in Devices, NEW i \in 1 .. at'[f] - 1
      PROVE  Done(Queue[f][i])'
  <2>1. Done(Queue[f][i])
    BY <1>1, <1>2 DEF IInv, DoneInv
  <2> QED
    BY <1>1, <2>1 DEF Done
<1>3. ASSUME NEW f \in Devices, dev'[f] \in {"after", "finish"}, ~runErr'[f]
      PROVE  Done(JobEnv(f))'
  <2>1. Done(JobEnv(f)) /\ JobEnv(f)' = JobEnv(f)
    BY <1>1, <1>3 DEF IInv, DoneInv, JobEnv
  <2> QED
    BY <1>1, <2>1 DEF Done
<1>4. ASSUME NEW f \in Devices, dev'[f] = "done"
      PROVE  at'[f] > Len(Queue[f]) \/ canceled'
  BY <1>1, <1>4 DEF IInv, DoneInv
<1> QED
  BY <1>1, <1>2, <1>3, <1>4 DEF DoneInv, SuccessMeansAll

(* When all devices have come to their end, all jobs have, or an error or  *)
(* an interruption is there.                                               *)
LEMMA DoneWait ==
    ASSUME IInv, WaitDevices PROVE DoneInv'
<1>1. /\ main = "run" /\ main' = "close" /\ memory' = memory /\ dev' = dev
      /\ jobCases' = jobCases /\ returnErr' = (returnErr \/ interrupted)
      /\ \A d \in Devices : dev[d] = "done"
  BY DEF WaitDevices, RunError, jobs, goroutine
<1>2. ASSUME ~returnErr', NEW e \in Envs
      PROVE  Completed(e, memory) = jobCases[e]
  <2>1. ~canceled
    BY <1>1, <1>2 DEF IInv, CancelInv, Blamed
  <2>2. PICK d \in Devices : \E i \in 1 .. Len(Queue[d]) : Queue[d][i] = e
    BY QueueAssumption
  <2>3. PICK i \in 1 .. Len(Queue[d]) : Queue[d][i] = e
    BY <2>2
  <2>4. at[d] > Len(Queue[d]) /\ at[d] \in Nat /\ Len(Queue[d]) \in Nat
    BY <1>1, <2>1 DEF IInv, DoneInv, DeviceTypes
  <2>5. i \in 1 .. at[d] - 1
    BY <2>4
  <2>6. Done(Queue[d][i])
    BY <1>1, <1>2, <2>5 DEF IInv, DoneInv
  <2> QED
    BY <2>3, <2>6 DEF Done, Completed
<1>3. ~returnErr' => AllDecided(memory')
  BY <1>1, <1>2 DEF AllDecided, Completed
<1> QED
  BY <1>1, <1>3 DEF DoneInv, SuccessMeansAll, AllDecided, Completed

(* The deferred save writes what the devices have left. *)
LEMMA DoneClose ==
    ASSUME IInv, Close PROVE DoneInv'
<1>1. /\ main = "close" /\ main' = "returned" /\ jobCases' = jobCases
      /\ dev' = dev /\ \A d \in Devices : dev[d] \notin Busy
  BY DEF Close, jobs, goroutine, IInv, LockInv
<1>2. PICK ok \in BOOLEAN :
        /\ file' = IF ok THEN memory' ELSE file
        /\ returnErr' = (returnErr \/ ~ok)
  BY DEF Close, Replace
<1>3. SameVerdicts(memory, memory') /\ memory'.finished /\ memory'.error = returnErr
  BY FlagSteps
<1>4. ASSUME ~returnErr'
      PROVE  file'.finished /\ ~file'.error /\ AllDecided(file)'
  <2>1. file' = memory' /\ ~returnErr
    BY <1>2, <1>4
  <2>2. AllDecided(memory)
    BY <1>1, <2>1 DEF IInv, DoneInv
  <2>3. ASSUME NEW e \in Envs
        PROVE  {c \in jobCases'[e] : Key(e, c, memory'.env[e].workers)
                    \in memory'.env[e].decided} = jobCases'[e]
    BY <1>1, <1>3, <2>2 DEF SameVerdicts, AllDecided, Completed
  <2> QED
    BY <1>3, <2>1, <2>3 DEF AllDecided, Completed
<1>5. SuccessMeansAll'
  BY <1>4 DEF SuccessMeansAll
<1> QED
  BY <1>1, <1>5 DEF DoneInv, Busy

(* Before the devices start nothing is behind them. *)
LEMMA DoneDevices ==
    ASSUME IInv, StartDevices PROVE DoneInv'
<1>1. /\ main = "prepare" /\ main' = "run" /\ dev' = dev /\ at' = at
      /\ \A d \in Devices : dev[d] = "next" /\ at[d] = 1
  BY DEF StartDevices, goroutine, IInv, LockInv
<1>2. \A d \in Devices : 1 .. at'[d] - 1 = {}
  BY <1>1
<1> QED
  BY <1>1, <1>2 DEF DoneInv, SuccessMeansAll

(* The report, the file and the flags keep their types. *)
LEMMA MainKept == IInv /\ [Next]_vars => MainTypes'
<1> SUFFICES ASSUME IInv, [Next]_vars PROVE MainTypes'
  OBVIOUS
<1> USE DEF IInv, MainTypes, DeviceTypes, WorkerTypes, LockInv, jobs,
    session, goroutine, flags
<1>1. CASE Load
  BY <1>1, FlagSteps DEF Load, Replace, SameVerdicts
<1>2. CASE SetupFails BY <1>2 DEF SetupFails
<1>3. CASE StartDevices BY <1>3 DEF StartDevices
<1>4. CASE WaitDevices
  <2>1. RunError \in BOOLEAN
    BY DEF RunError
  <2> QED
    BY <1>4, <2>1 DEF WaitDevices
<1>5. CASE Close
  BY <1>5, FlagSteps DEF Close, Replace, SameVerdicts
<1>6. CASE Interrupt BY <1>6 DEF Interrupt
<1>7. ASSUME NEW e \in Envs, Prepare(e) PROVE MainTypes'
  <2>1. SameVerdicts(memory, memory')
    BY <1>7, ErrorSteps
  <2>2. PICK S \in SUBSET Cases :
            jobCases' = jobCases \/ jobCases' = [jobCases EXCEPT ![e] = S]
    BY <1>7 DEF Prepare
  <2>3. jobCases' \in [Envs -> SUBSET Cases]
    BY <2>2
  <2> QED
    BY <1>7, <2>1, <2>3 DEF Prepare, SameVerdicts
<1>8. ASSUME NEW e \in Envs, PrepareFails(e) PROVE MainTypes'
  BY <1>8, ErrorSteps DEF PrepareFails, SameVerdicts
<1>9. ASSUME NEW d \in Devices, NoMoreJobs(d) PROVE MainTypes'
  BY <1>9 DEF NoMoreJobs, MoveTo
<1>10. ASSUME NEW d \in Devices, StopDevice(d) PROVE MainTypes'
  BY <1>10 DEF StopDevice, MoveTo, HasJob, Free
<1>11. ASSUME NEW d \in Devices, SkipJob(d) PROVE MainTypes'
  BY <1>11 DEF SkipJob, HasJob, Free
<1>12. ASSUME NEW d \in Devices, StartJob(d) PROVE MainTypes'
  BY <1>12, ErrorSteps DEF StartJob, SameVerdicts
<1>13. ASSUME NEW d \in Devices, Decode(d) PROVE MainTypes'
  BY <1>13 DEF Decode, MoveTo, Announce, Decide, Inform
<1>14. ASSUME NEW d \in Devices, EncodeUpdate(d) PROVE MainTypes'
  BY <1>14, UpdateStep DEF EncodeUpdate
<1>15. ASSUME NEW d \in Devices, ReplaceUpdate(d) PROVE MainTypes'
  BY <1>15 DEF ReplaceUpdate, MoveTo, Replace, CancelOn, Announces
<1>16. ASSUME NEW d \in Devices, WorkerEnds(d) PROVE MainTypes'
  BY <1>16 DEF WorkerEnds, MoveTo, Reading
<1>17. ASSUME NEW d \in Devices, EncodeEnd(d) PROVE MainTypes'
  BY <1>17, ErrorSteps DEF EncodeEnd, SameVerdicts
<1>18. ASSUME NEW d \in Devices, ReplaceEnd(d) PROVE MainTypes'
  BY <1>18 DEF ReplaceEnd, MoveTo, Replace, CancelOn
<1>19. CASE UNCHANGED vars BY <1>19 DEF vars
<1> QED
  BY <1>1, <1>2, <1>3, <1>4, <1>5, <1>6, <1>7, <1>8, <1>9, <1>10, <1>11,
      <1>12, <1>13, <1>14, <1>15, <1>16, <1>17, <1>18, <1>19 DEF Next, MainNext,
      DeviceNext, Over

(* The goroutines keep their types. *)
LEMMA DeviceKept == IInv /\ [Next]_vars => DeviceTypes'
<1> SUFFICES ASSUME IInv, [Next]_vars PROVE DeviceTypes'
  OBVIOUS
<1> USE DEF IInv, MainTypes, DeviceTypes, LockInv, Busy, jobs, session,
    goroutine, flags
<1>1. CASE Load BY <1>1 DEF Load, Replace
<1>2. CASE SetupFails BY <1>2 DEF SetupFails
<1>3. CASE StartDevices BY <1>3 DEF StartDevices
<1>4. CASE WaitDevices BY <1>4 DEF WaitDevices, RunError
<1>5. CASE Close BY <1>5 DEF Close, Replace
<1>6. CASE Interrupt BY <1>6 DEF Interrupt
<1>7. ASSUME NEW e \in Envs, Prepare(e) PROVE DeviceTypes' BY <1>7 DEF Prepare
<1>8. ASSUME NEW e \in Envs, PrepareFails(e) PROVE DeviceTypes'
  BY <1>8 DEF PrepareFails
<1>9. ASSUME NEW d \in Devices, NoMoreJobs(d) PROVE DeviceTypes'
  BY <1>9 DEF NoMoreJobs, MoveTo
<1>10. ASSUME NEW d \in Devices, StopDevice(d) PROVE DeviceTypes'
  BY <1>10 DEF StopDevice, MoveTo, HasJob, Free
<1>11. ASSUME NEW d \in Devices, SkipJob(d) PROVE DeviceTypes'
  BY <1>11 DEF SkipJob, HasJob, Free
<1>12. ASSUME NEW d \in Devices, StartJob(d) PROVE DeviceTypes'
  BY <1>12 DEF StartJob, MoveTo, HasJob, Free
<1>13. ASSUME NEW d \in Devices, Decode(d) PROVE DeviceTypes'
  BY <1>13 DEF Decode, MoveTo, Announce, Decide, Inform
<1>14. ASSUME NEW d \in Devices, EncodeUpdate(d) PROVE DeviceTypes'
  BY <1>14, UpdateStep DEF EncodeUpdate, MoveTo
<1>15. ASSUME NEW d \in Devices, ReplaceUpdate(d) PROVE DeviceTypes'
  <2>1. NoFile \in ResultReport
    BY DEF NoFile, ResultReport, Entry
  <2>2. temp' \in [Devices -> ResultReport] /\ recordErr' \in [Devices -> BOOLEAN]
    BY <1>15, <2>1 DEF ReplaceUpdate
  <2> QED
    BY <1>15, <2>2 DEF ReplaceUpdate, MoveTo
<1>16. ASSUME NEW d \in Devices, WorkerEnds(d) PROVE DeviceTypes'
  BY <1>16 DEF WorkerEnds, MoveTo, Reading
<1>17. ASSUME NEW d \in Devices, EncodeEnd(d) PROVE DeviceTypes'
  BY <1>17, ErrorSteps DEF EncodeEnd, SameVerdicts, MoveTo
<1>18. ASSUME NEW d \in Devices, ReplaceEnd(d) PROVE DeviceTypes'
  <2>1. NoFile \in ResultReport
    BY DEF NoFile, ResultReport, Entry
  <2>2. /\ temp' \in [Devices -> ResultReport]
        /\ recordErr' \in [Devices -> BOOLEAN] /\ runErr' \in [Devices -> BOOLEAN]
    BY <1>18, <2>1 DEF ReplaceEnd
  <2>3. dev' = [dev EXCEPT ![d] = "next"] /\ at' = [at EXCEPT ![d] = @ + 1]
        /\ at[d] <= Len(Queue[d])
    BY <1>18 DEF ReplaceEnd, MoveTo
  <2>4. \A f \in Devices : Len(Queue[f]) \in Nat
    OBVIOUS
  <2> QED
    BY <2>2, <2>3, <2>4
<1>19. CASE UNCHANGED vars BY <1>19 DEF vars
<1> QED
  BY <1>1, <1>2, <1>3, <1>4, <1>5, <1>6, <1>7, <1>8, <1>9, <1>10, <1>11,
      <1>12, <1>13, <1>14, <1>15, <1>16, <1>17, <1>18, <1>19 DEF Next, MainNext,
      DeviceNext, Over

(* The workers keep their types. *)
LEMMA WorkerKept == IInv /\ [Next]_vars => WorkerTypes'
<1> SUFFICES ASSUME IInv, [Next]_vars PROVE WorkerTypes'
  OBVIOUS
<1> USE DEF IInv, MainTypes, DeviceTypes, WorkerTypes, jobs, session,
    goroutine, flags
<1>1. CASE Load BY <1>1 DEF Load, Replace
<1>2. CASE SetupFails BY <1>2 DEF SetupFails
<1>3. CASE StartDevices BY <1>3 DEF StartDevices
<1>4. CASE WaitDevices BY <1>4 DEF WaitDevices, RunError
<1>5. CASE Close BY <1>5 DEF Close, Replace
<1>6. CASE Interrupt BY <1>6 DEF Interrupt
<1>7. ASSUME NEW e \in Envs, Prepare(e) PROVE WorkerTypes' BY <1>7 DEF Prepare
<1>8. ASSUME NEW e \in Envs, PrepareFails(e) PROVE WorkerTypes'
  BY <1>8 DEF PrepareFails
<1>9. ASSUME NEW d \in Devices, NoMoreJobs(d) PROVE WorkerTypes'
  BY <1>9 DEF NoMoreJobs, MoveTo
<1>10. ASSUME NEW d \in Devices, StopDevice(d) PROVE WorkerTypes'
  BY <1>10 DEF StopDevice, MoveTo, HasJob, Free
<1>11. ASSUME NEW d \in Devices, SkipJob(d) PROVE WorkerTypes'
  BY <1>11 DEF SkipJob, HasJob, Free
<1>12. ASSUME NEW d \in Devices, StartJob(d) PROVE WorkerTypes'
  <2>1. at[d] <= Len(Queue[d])
    BY <1>12 DEF StartJob, HasJob
  <2>2. JobEnv(d) \in Envs
    BY <2>1, OwnJob
  <2>3. memory.env[JobEnv(d)].decided \in SUBSET (Cases \X Nat)
        /\ jobCases[JobEnv(d)] \in SUBSET Cases
    BY <2>2 DEF ResultReport, Entry
  <2> QED
    BY <1>12, <2>3 DEF StartJob
<1>13. ASSUME NEW d \in Devices, Decode(d) PROVE WorkerTypes'
  <2>1. CASE Announce(d)
    BY <1>13, <2>1 DEF Decode, Announce
  <2>2. CASE Decide(d)
    <3>1. at[d] <= Len(Queue[d])
      BY <1>13 DEF Decode, Busy
    <3>2. Machine[JobEnv(d)] \in Nat
      BY <3>1, OwnJob
    <3>3. WorkerKey(d, current[d]) \in Cases \X Nat
      BY <2>2, <3>2 DEF Decide, WorkerKey, Key
    <3> QED
      BY <1>13, <2>2, <3>3 DEF Decode, Decide
  <2>3. CASE Inform(d)
    BY <1>13, <2>3 DEF Decode, Inform
  <2> QED
    BY <1>13, <2>1, <2>2, <2>3 DEF Decode
<1>14. ASSUME NEW d \in Devices, EncodeUpdate(d) PROVE WorkerTypes'
  BY <1>14 DEF EncodeUpdate, MoveTo, Free
<1>15. ASSUME NEW d \in Devices, ReplaceUpdate(d) PROVE WorkerTypes'
  BY <1>15 DEF ReplaceUpdate, MoveTo, Replace, CancelOn, Announces
<1>16. ASSUME NEW d \in Devices, WorkerEnds(d) PROVE WorkerTypes'
  BY <1>16 DEF WorkerEnds, MoveTo, Reading
<1>17. ASSUME NEW d \in Devices, EncodeEnd(d) PROVE WorkerTypes'
  BY <1>17 DEF EncodeEnd, MoveTo, Free
<1>18. ASSUME NEW d \in Devices, ReplaceEnd(d) PROVE WorkerTypes'
  BY <1>18 DEF ReplaceEnd, MoveTo, Replace, CancelOn
<1>19. CASE UNCHANGED vars BY <1>19 DEF vars
<1> QED
  BY <1>1, <1>2, <1>3, <1>4, <1>5, <1>6, <1>7, <1>8, <1>9, <1>10, <1>11,
      <1>12, <1>13, <1>14, <1>15, <1>16, <1>17, <1>18, <1>19 DEF Next, MainNext,
      DeviceNext, Over

(* One goroutine at a time is between Lock and Unlock. *)
LEMMA LockKept == IInv /\ [Next]_vars => LockInv'
<1> SUFFICES ASSUME IInv, [Next]_vars PROVE LockInv'
  OBVIOUS
<1> USE DEF IInv, MainTypes, DeviceTypes, LockInv, Locked, Busy, jobs,
    session, goroutine, flags
<1>1. CASE Load
  BY <1>1, FlagSteps DEF Load
<1>2. CASE SetupFails BY <1>2 DEF SetupFails
<1>3. CASE StartDevices BY <1>3 DEF StartDevices
<1>4. CASE WaitDevices BY <1>4 DEF WaitDevices, RunError
<1>5. CASE Close BY <1>5 DEF Close, Replace
<1>6. CASE Interrupt BY <1>6 DEF Interrupt
<1>7. ASSUME NEW e \in Envs, Prepare(e) PROVE LockInv'
  BY <1>7, ErrorSteps DEF Prepare
<1>8. ASSUME NEW e \in Envs, PrepareFails(e) PROVE LockInv'
  BY <1>8, ErrorSteps DEF PrepareFails
<1>9. ASSUME NEW d \in Devices, NoMoreJobs(d) PROVE LockInv'
  BY <1>9 DEF NoMoreJobs, MoveTo
<1>10. ASSUME NEW d \in Devices, StopDevice(d) PROVE LockInv'
  BY <1>10 DEF StopDevice, MoveTo, HasJob, Free
<1>11. ASSUME NEW d \in Devices, SkipJob(d) PROVE LockInv'
  BY <1>11 DEF SkipJob, HasJob, Free
<1>12. ASSUME NEW d \in Devices, StartJob(d) PROVE LockInv'
  BY <1>12 DEF StartJob, MoveTo, HasJob, Free
<1>13. ASSUME NEW d \in Devices, Decode(d) PROVE LockInv'
  BY <1>13 DEF Decode, MoveTo, Announce, Decide, Inform
<1>14. ASSUME NEW d \in Devices, EncodeUpdate(d) PROVE LockInv'
  BY <1>14 DEF EncodeUpdate, MoveTo, Free
<1>15. ASSUME NEW d \in Devices, ReplaceUpdate(d) PROVE LockInv'
  BY <1>15 DEF ReplaceUpdate, MoveTo, Replace, CancelOn, Announces
<1>16. ASSUME NEW d \in Devices, WorkerEnds(d) PROVE LockInv'
  BY <1>16 DEF WorkerEnds, MoveTo, Reading
<1>17. ASSUME NEW d \in Devices, EncodeEnd(d) PROVE LockInv'
  BY <1>17 DEF EncodeEnd, MoveTo, Free
<1>18. ASSUME NEW d \in Devices, ReplaceEnd(d) PROVE LockInv'
  BY <1>18 DEF ReplaceEnd, MoveTo, Replace, CancelOn
<1>19. CASE UNCHANGED vars BY <1>19 DEF vars
<1> QED
  BY <1>1, <1>2, <1>3, <1>4, <1>5, <1>6, <1>7, <1>8, <1>9, <1>10, <1>11,
      <1>12, <1>13, <1>14, <1>15, <1>16, <1>17, <1>18, <1>19 DEF Next, MainNext,
      DeviceNext, Over

(* No step takes a verdict out of the report or the file. *)
LEMMA VerdictKept == IInv /\ [Next]_vars => VerdictInv'
<1> SUFFICES ASSUME IInv, [Next]_vars PROVE VerdictInv'
  OBVIOUS
<1> USE DEF IInv, MainTypes, DeviceTypes, WorkerTypes, LockInv, Locked,
    Busy, VerdictInv, JobEnv, jobs, session, goroutine, flags
<1>1. CASE Load
  BY <1>1, FlagSteps DEF Load, Replace, SameVerdicts
<1>2. CASE SetupFails BY <1>2 DEF SetupFails
<1>3. CASE StartDevices BY <1>3 DEF StartDevices
<1>4. CASE WaitDevices BY <1>4 DEF WaitDevices, RunError
<1>5. CASE Close
  BY <1>5, FlagSteps DEF Close, Replace, SameVerdicts
<1>6. CASE Interrupt BY <1>6 DEF Interrupt
<1>7. ASSUME NEW e \in Envs, Prepare(e) PROVE VerdictInv'
  BY <1>7, ErrorSteps DEF Prepare, SameVerdicts
<1>8. ASSUME NEW e \in Envs, PrepareFails(e) PROVE VerdictInv'
  BY <1>8, ErrorSteps DEF PrepareFails, SameVerdicts
<1>9. ASSUME NEW d \in Devices, NoMoreJobs(d) PROVE VerdictInv'
  BY <1>9 DEF NoMoreJobs, MoveTo
<1>10. ASSUME NEW d \in Devices, StopDevice(d) PROVE VerdictInv'
  BY <1>10 DEF StopDevice, MoveTo, HasJob, Free
<1>11. ASSUME NEW d \in Devices, SkipJob(d) PROVE VerdictInv'
  BY <1>11 DEF SkipJob, HasJob, Free
<1>12. ASSUME NEW d \in Devices, StartJob(d) PROVE VerdictInv'
  <2>1. \A f \in Devices : Agrees(f)'
    BY <1>12, AgreesStart
  <2>2. SameVerdicts(memory, memory')
    BY <1>12, ErrorSteps
  <2> QED
    BY <1>12, <2>1, <2>2 DEF StartJob, HasJob, SameVerdicts, Agrees
<1>13. ASSUME NEW d \in Devices, Decode(d) PROVE VerdictInv'
  <2>1. /\ at' = at /\ memory' = memory /\ file' = file /\ main' = main
        /\ dev[d] = "watch" /\ dev' = [dev EXCEPT ![d] = "save"]
    BY <1>13 DEF Decode, MoveTo
  <2>2. \E S : worker' = [worker EXCEPT ![d] = @ \cup S]
    <3>1. CASE worker' = worker
      <4>1. worker' = [worker EXCEPT ![d] = @ \cup {}]
        BY <3>1
      <4> QED
        BY <4>1
    <3>2. CASE Decide(d)
      BY <3>2 DEF Decide
    <3> QED
      BY <1>13, <3>1, <3>2 DEF Decode, Announce, Inform
  <2> QED
    BY <2>1, <2>2
<1>14. ASSUME NEW d \in Devices, EncodeUpdate(d) PROVE VerdictInv'
  <2>1. \A f \in Devices : Agrees(f)'
    BY <1>14, AgreesUpdate
  <2>2. \A e \in Envs : file.env[e].decided \subseteq memory'.env[e].decided
    <3>1. \A e \in Envs : file.env[e].decided \subseteq memory.env[e].decided
          /\ memory.env[JobEnv(d)].decided \subseteq worker[d]
      BY <1>14 DEF EncodeUpdate
    <3>2. ASSUME NEW e \in Envs
          PROVE  file.env[e].decided \subseteq memory'.env[e].decided
      <4>1. e # JobEnv(d) => memory'.env[e] = memory.env[e]
        BY <1>14, UpdateStep
      <4>2. memory'.env[JobEnv(d)].decided = worker[d]
        BY <1>14, UpdateStep
      <4> QED
        BY <3>1, <4>1, <4>2
    <3> QED
      BY <3>2
  <2>3. file' = file /\ main' # "load"
    BY <1>14 DEF EncodeUpdate
  <2> QED
    BY <2>1, <2>2, <2>3 DEF Agrees
<1>15. ASSUME NEW d \in Devices, ReplaceUpdate(d) PROVE VerdictInv'
  BY <1>15 DEF ReplaceUpdate, MoveTo, Replace, CancelOn, Announces
<1>16. ASSUME NEW d \in Devices, WorkerEnds(d) PROVE VerdictInv'
  BY <1>16 DEF WorkerEnds, MoveTo, Reading
<1>17. ASSUME NEW d \in Devices, EncodeEnd(d) PROVE VerdictInv'
  <2>1. \A f \in Devices : Agrees(f)'
    BY <1>17, AgreesEnd
  <2>2. SameVerdicts(memory, memory')
    BY <1>17, ErrorSteps
  <2> QED
    BY <1>17, <2>1, <2>2 DEF EncodeEnd, SameVerdicts, Agrees
<1>18. ASSUME NEW d \in Devices, ReplaceEnd(d) PROVE VerdictInv'
  BY <1>18 DEF ReplaceEnd, MoveTo, Replace, CancelOn
<1>19. CASE UNCHANGED vars BY <1>19 DEF vars
<1> QED
  BY <1>1, <1>2, <1>3, <1>4, <1>5, <1>6, <1>7, <1>8, <1>9, <1>10, <1>11,
      <1>12, <1>13, <1>14, <1>15, <1>16, <1>17, <1>18, <1>19 DEF Next, MainNext,
      DeviceNext, Over

(* What the report of an environment names stays in line with its job. *)
LEMMA NamedKept == IInv /\ [Next]_vars => NamedInv'
<1> SUFFICES ASSUME IInv, [Next]_vars PROVE NamedInv'
  OBVIOUS
<1>1. /\ dev \in [Devices -> {"next", "done"} \cup Busy]
      /\ received \in [Devices -> BOOLEAN]
  BY DEF IInv, DeviceTypes, WorkerTypes
<1>2. ASSUME NEW d \in Devices, DeviceNext(d), NEW f \in Devices
      PROVE  Named(f)'
  <2>1. Named(f)
    BY DEF IInv, NamedInv
  <2>2. CASE NoMoreJobs(d) \/ StopDevice(d) \/ SkipJob(d)
    <3>1. /\ received' = received /\ memory' = memory /\ found' = found
          /\ \A g \in Devices \ {d} : at'[g] = at[g] /\ dev'[g] = dev[g]
      BY <1>1, <2>2 DEF NoMoreJobs, StopDevice, SkipJob, MoveTo, session, jobs,
                        IInv, DeviceTypes
    <3>4. dev[d] = "next" /\ dev'[d] \in {"next", "done"}
      BY <1>1, <2>2 DEF NoMoreJobs, StopDevice, SkipJob, HasJob, MoveTo
    <3>2. CASE f = d
      <4>1. ~received'[f]
        BY <2>1, <3>1, <3>2, <3>4 DEF Named, Busy
      <4>2. dev'[f] \notin {"save", "replace"}
        BY <3>2, <3>4
      <4> QED
        BY <4>1, <4>2 DEF Named
    <3>3. CASE f # d
      BY <2>1, <3>1, <3>3 DEF Named, JobEnv, Accepts
    <3> QED
      BY <3>2, <3>3
  <2>3. CASE StartJob(d)
    <3>1. /\ SameVerdicts(memory, memory') /\ at' = at /\ received' = received
          /\ found' = found /\ dev' = [dev EXCEPT ![d] = "watch"] /\ dev[d] = "next"
      BY <2>3, ErrorSteps DEF StartJob, MoveTo, HasJob, jobs
    <3>2. received[f] \/ dev'[f] = "replace" => f # d /\ dev[f] \in Busy
      BY <1>1, <2>1, <3>1 DEF Named, Busy
    <3>3. received[f] \/ dev'[f] = "replace" => JobEnv(f) \in Envs
      BY <3>2, OwnJob DEF IInv, DeviceTypes
    <3> QED
      BY <1>1, <2>1, <3>1, <3>2, <3>3 DEF Named, JobEnv, Accepts, SameVerdicts, Busy
  <2>4. CASE Decode(d)
    BY <1>1, <2>1, <2>4 DEF Decode, MoveTo, Named, JobEnv, Accepts, jobs, Busy
  <2>5. CASE EncodeUpdate(d)
    <3>1. /\ at' = at /\ received' = received /\ found' = found /\ dev[d] = "save"
          /\ dev' = [dev EXCEPT ![d] = "replace"]
      BY <2>5 DEF EncodeUpdate, MoveTo, jobs, session
    <3>2. at[d] <= Len(Queue[d])
      BY <3>1 DEF IInv, DeviceTypes, Busy
    <3>3. CASE f = d
      BY <1>1, <2>1, <2>5, <3>1, <3>3, UpdateStep DEF Named, JobEnv, Accepts, Busy
    <3>4. CASE f # d
      <4>1. dev'[f] = dev[f]
        BY <1>1, <3>1, <3>4
      <4>2. dev[f] \in Busy => memory'.env[JobEnv(f)] = memory.env[JobEnv(f)]
        BY <2>5, <3>2, <3>4, OtherJob, UpdateStep
      <4> QED
        BY <2>1, <3>1, <4>1, <4>2 DEF Named, JobEnv, Accepts, Busy
    <3> QED
      BY <3>3, <3>4
  <2>6. CASE ReplaceUpdate(d)
    <3>1. /\ at' = at /\ found' = found /\ memory' = memory /\ dev[d] = "replace"
          /\ \E b \in BOOLEAN : received' = [received EXCEPT ![d] = b]
          /\ \E p \in {"watch", "drain"} : dev' = [dev EXCEPT ![d] = p]
      <4>1. PICK ok \in BOOLEAN :
              /\ received' = [received EXCEPT ![d] = @ \/ ok]
              /\ dev' = [dev EXCEPT ![d] = IF ok THEN "watch" ELSE "drain"]
        BY <2>6 DEF ReplaceUpdate, MoveTo
      <4>2. (received[d] \/ ok) \in BOOLEAN
        BY <1>1
      <4> QED
        BY <2>6, <4>1, <4>2 DEF ReplaceUpdate, jobs
    <3>2. CASE f = d
      <4>1. dev'[f] \in Busy /\ dev'[f] \notin {"save", "replace"}
        BY <1>1, <3>1, <3>2 DEF Busy
      <4> QED
        BY <2>1, <3>1, <3>2, <4>1 DEF Named, JobEnv, Accepts
    <3>3. CASE f # d
      <4>1. dev'[f] = dev[f] /\ received'[f] = received[f]
        BY <1>1, <3>1, <3>3
      <4> QED
        BY <2>1, <3>1, <4>1 DEF Named, JobEnv, Accepts
    <3> QED
      BY <3>2, <3>3
  <2>7. CASE WorkerEnds(d)
    <3>1. /\ memory' = memory /\ found' = found /\ at' = at /\ received' = received
          /\ dev[d] \in Busy /\ dev' = [dev EXCEPT ![d] = "after"]
      BY <2>7 DEF WorkerEnds, MoveTo, jobs, session, Reading, Busy
    <3>2. /\ dev'[f] \in {"save", "replace"} => dev'[f] = dev[f]
          /\ dev[f] \in Busy => dev'[f] \in Busy
      BY <1>1, <3>1 DEF Busy
    <3> QED
      BY <2>1, <3>1, <3>2 DEF Named, JobEnv, Accepts
  <2>8. CASE EncodeEnd(d)
    <3>1. /\ SameVerdicts(memory, memory') /\ at' = at /\ received' = received
          /\ found' = found /\ dev' = [dev EXCEPT ![d] = "finish"] /\ dev[d] = "after"
      BY <2>8, ErrorSteps DEF EncodeEnd, MoveTo, jobs, session
    <3>2. received[f] \/ dev'[f] = "replace" => dev[f] \in Busy
      BY <1>1, <2>1, <3>1 DEF Named, Busy
    <3>3. received[f] \/ dev'[f] = "replace" => JobEnv(f) \in Envs
      BY <3>2, OwnJob DEF IInv, DeviceTypes
    <3> QED
      BY <1>1, <2>1, <3>1, <3>2, <3>3 DEF Named, JobEnv, Accepts, SameVerdicts, Busy
  <2>9. CASE ReplaceEnd(d)
    <3>1. /\ memory' = memory /\ found' = found
          /\ \A g \in Devices \ {d} :
                at'[g] = at[g] /\ dev'[g] = dev[g] /\ received'[g] = received[g]
          /\ ~received'[d] /\ dev'[d] = "next"
      BY <1>1, <2>9 DEF ReplaceEnd, MoveTo, jobs, IInv, DeviceTypes
    <3> QED
      BY <2>1, <3>1 DEF Named, JobEnv, Accepts
  <2> QED
    BY <1>2, <2>2, <2>3, <2>4, <2>5, <2>6, <2>7, <2>8, <2>9 DEF DeviceNext
<1>3. ASSUME NEW d \in Devices, DeviceNext(d) PROVE main' = "run"
  BY <1>3 DEF DeviceNext, NoMoreJobs, StopDevice, SkipJob, StartJob, HasJob, Decode,
         EncodeUpdate, ReplaceUpdate, WorkerEnds, EncodeEnd, ReplaceEnd, Reading,
         IInv, LockInv, Busy
<1>4. ASSUME goroutine' = goroutine, found' = found,
             memory' = memory \/ (SameVerdicts(memory, memory') /\ main # "run")
      PROVE  \A f \in Devices : Named(f)'
  <2> SUFFICES ASSUME NEW f \in Devices PROVE Named(f)'
    OBVIOUS
  <2>1. Named(f) /\ (main # "run" => dev[f] \notin Busy)
    BY DEF IInv, NamedInv, LockInv
  <2> QED
    BY <1>4, <2>1 DEF goroutine, session, Named, JobEnv, Accepts, Busy
<1>5. CASE \E d \in Devices : DeviceNext(d)
  BY <1>2, <1>3, <1>5 DEF NamedInv
<1>6. CASE Load \/ Close
  <2>1. SameVerdicts(memory, memory') /\ main # "run"
    BY <1>6, FlagSteps DEF Load, Close
  <2>2. goroutine' = goroutine /\ found' = found
    BY <1>6 DEF Load, Close, jobs
  <2>3. main' \in {"load", "prepare"} => main = "load"
    BY <1>6 DEF Load, Close
  <2> QED
    BY <1>4, <2>1, <2>2, <2>3 DEF NamedInv, IInv, SameVerdicts
<1>7. ASSUME NEW e \in Envs, Prepare(e) \/ PrepareFails(e) PROVE NamedInv'
  <2>1. SameVerdicts(memory, memory') /\ main = "prepare"
    BY <1>7, ErrorSteps DEF Prepare, PrepareFails
  <2>2. goroutine' = goroutine /\ found' = found
    BY <1>7 DEF Prepare, PrepareFails, jobs
  <2> QED
    BY <1>4, <2>1, <2>2 DEF NamedInv, IInv, SameVerdicts
<1>8. CASE SetupFails \/ StartDevices \/ WaitDevices \/ Interrupt \/ UNCHANGED vars
  <2>1. goroutine' = goroutine /\ found' = found /\ memory' = memory
    BY <1>8 DEF SetupFails, StartDevices, WaitDevices, Interrupt, vars, jobs
  <2>2. main' \in {"load", "prepare"} => main = main'
    BY <1>8 DEF SetupFails, StartDevices, WaitDevices, Interrupt, vars
  <2> QED
    BY <1>4, <2>1, <2>2 DEF NamedInv, IInv
<1> QED
  BY <1>5, <1>6, <1>7, <1>8 DEF Next, MainNext, Over

(* Every cancellation has a reason that is returned. *)
LEMMA CancelKept == IInv /\ [Next]_vars => CancelInv'
<1> SUFFICES ASSUME IInv, [Next]_vars PROVE CancelInv'
  OBVIOUS
<1> USE DEF IInv, MainTypes, DeviceTypes, LockInv, Locked, Busy, CancelInv,
    Blamed, jobs, session, goroutine, flags
<1>1. CASE Load BY <1>1 DEF Load, Replace
<1>2. CASE SetupFails BY <1>2 DEF SetupFails
<1>3. CASE StartDevices BY <1>3 DEF StartDevices
<1>4. CASE WaitDevices BY <1>4 DEF WaitDevices, RunError
<1>5. CASE Close BY <1>5 DEF Close, Replace
<1>6. CASE Interrupt BY <1>6 DEF Interrupt
<1>7. ASSUME NEW e \in Envs, Prepare(e) PROVE CancelInv' BY <1>7 DEF Prepare
<1>8. ASSUME NEW e \in Envs, PrepareFails(e) PROVE CancelInv'
  BY <1>8 DEF PrepareFails
<1>9. ASSUME NEW d \in Devices, NoMoreJobs(d) PROVE CancelInv'
  BY <1>9 DEF NoMoreJobs, MoveTo
<1>10. ASSUME NEW d \in Devices, StopDevice(d) PROVE CancelInv'
  BY <1>10 DEF StopDevice, MoveTo, HasJob, Free
<1>11. ASSUME NEW d \in Devices, SkipJob(d) PROVE CancelInv'
  BY <1>11 DEF SkipJob, HasJob, Free
<1>12. ASSUME NEW d \in Devices, StartJob(d) PROVE CancelInv'
  BY <1>12 DEF StartJob, MoveTo, HasJob, Free
<1>13. ASSUME NEW d \in Devices, Decode(d) PROVE CancelInv'
  BY <1>13 DEF Decode, MoveTo, Announce, Decide, Inform
<1>14. ASSUME NEW d \in Devices, EncodeUpdate(d) PROVE CancelInv'
  BY <1>14 DEF EncodeUpdate, MoveTo, Free
<1>15. ASSUME NEW d \in Devices, ReplaceUpdate(d) PROVE CancelInv'
  BY <1>15 DEF ReplaceUpdate, MoveTo, Replace, CancelOn, Announces
<1>16. ASSUME NEW d \in Devices, WorkerEnds(d) PROVE CancelInv'
  BY <1>16 DEF WorkerEnds, MoveTo, Reading
<1>17. ASSUME NEW d \in Devices, EncodeEnd(d) PROVE CancelInv'
  BY <1>17 DEF EncodeEnd, MoveTo, Free
<1>18. ASSUME NEW d \in Devices, ReplaceEnd(d) PROVE CancelInv'
  BY <1>18 DEF ReplaceEnd, MoveTo, Replace, CancelOn
<1>19. CASE UNCHANGED vars BY <1>19 DEF vars
<1> QED
  BY <1>1, <1>2, <1>3, <1>4, <1>5, <1>6, <1>7, <1>8, <1>9, <1>10, <1>11,
      <1>12, <1>13, <1>14, <1>15, <1>16, <1>17, <1>18, <1>19 DEF Next, MainNext,
      DeviceNext, Over

(* A device passes a job only when it is complete, failed or canceled. *)
LEMMA DoneKept == IInv /\ [Next]_vars => DoneInv'
<1> SUFFICES ASSUME IInv, [Next]_vars PROVE DoneInv'
  OBVIOUS
<1> USE DEF IInv, MainTypes, DeviceTypes, WorkerTypes, LockInv, Locked,
    Busy, VerdictInv, CancelInv, Blamed, DoneInv, Done, SuccessMeansAll,
    AllDecided, Completed, JobEnv, jobs, session, goroutine, flags
<1>1. CASE Load
  BY <1>1, FlagSteps DEF Load, Replace, SameVerdicts
<1>2. CASE SetupFails BY <1>2 DEF SetupFails
<1>3. CASE StartDevices
  BY <1>3, DoneDevices
<1>4. CASE WaitDevices
  BY <1>4, DoneWait
<1>5. CASE Close
  BY <1>5, DoneClose
<1>6. CASE Interrupt BY <1>6 DEF Interrupt
<1>7. ASSUME NEW e \in Envs, Prepare(e) PROVE DoneInv'
  BY <1>7, ErrorSteps DEF Prepare, SameVerdicts
<1>8. ASSUME NEW e \in Envs, PrepareFails(e) PROVE DoneInv'
  BY <1>8, ErrorSteps DEF PrepareFails, SameVerdicts
<1>9. ASSUME NEW d \in Devices, NoMoreJobs(d) PROVE DoneInv'
  BY <1>9, DoneStops
<1>10. ASSUME NEW d \in Devices, StopDevice(d) PROVE DoneInv'
  BY <1>10, DoneStops
<1>11. ASSUME NEW d \in Devices, SkipJob(d) PROVE DoneInv'
  BY <1>11, DonePassed
<1>12. ASSUME NEW d \in Devices, StartJob(d) PROVE DoneInv'
  BY <1>12, DoneStart
<1>13. ASSUME NEW d \in Devices, Decode(d) PROVE DoneInv'
  BY <1>13, DoneDecode
<1>14. ASSUME NEW d \in Devices, EncodeUpdate(d) PROVE DoneInv'
  BY <1>14, DoneUpdate
<1>15. ASSUME NEW d \in Devices, ReplaceUpdate(d) PROVE DoneInv'
  BY <1>15 DEF ReplaceUpdate, MoveTo, Replace, CancelOn, Announces
<1>16. ASSUME NEW d \in Devices, WorkerEnds(d) PROVE DoneInv'
  BY <1>16, DoneEnds
<1>17. ASSUME NEW d \in Devices, EncodeEnd(d) PROVE DoneInv'
  BY <1>17, DoneEnd
<1>18. ASSUME NEW d \in Devices, ReplaceEnd(d) PROVE DoneInv'
  BY <1>18, DonePassed
<1>19. CASE UNCHANGED vars BY <1>19 DEF vars
<1> QED
  BY <1>1, <1>2, <1>3, <1>4, <1>5, <1>6, <1>7, <1>8, <1>9, <1>10, <1>11,
      <1>12, <1>13, <1>14, <1>15, <1>16, <1>17, <1>18, <1>19 DEF Next, MainNext,
      DeviceNext, Over


(* The invariant is inductive. *)
LEMMA Inductive == IInv /\ [Next]_vars => IInv'
BY MainKept, DeviceKept, WorkerKept, LockKept, VerdictKept, NamedKept,
   CancelKept, DoneKept
   DEF IInv

(* The invariant holds in every reachable state. *)
LEMMA Invariance == Spec => []IInv
BY InitInvariant, Inductive, PTL DEF Spec

(* The file is replaced only by the report in memory, by whoever holds the *)
(* mutex or alone.                                                         *)
LEMMA FileSteps ==
    ASSUME IInv, [Next]_vars, file' # file
    PROVE  /\ file' = memory' /\ SameVerdicts(memory, memory')
           /\ Load \/ Close \/ main = "run"
           /\ main = "run" => memory' = memory
<1>1. CASE Load \/ Close
  <2>1. file' = memory' /\ main # "run"
    BY <1>1 DEF Load, Close, Replace
  <2> QED
    BY <1>1, <2>1, FlagSteps
<1>2. ASSUME NEW d \in Devices, ReplaceUpdate(d) \/ ReplaceEnd(d)
      PROVE  main = "run" /\ file' = memory /\ memory' = memory
  <2>1. dev[d] \in {"replace", "finish"}
    BY <1>2 DEF ReplaceUpdate, ReplaceEnd
  <2>2. main = "run" /\ temp[d] = memory
    BY <2>1 DEF IInv, LockInv, Locked, Busy
  <2>3. memory' = memory /\ file' \in {temp[d], file}
    BY <1>2 DEF ReplaceUpdate, ReplaceEnd, Replace
  <2> QED
    BY <2>2, <2>3
<1>3. memory \in ResultReport
  BY DEF IInv, MainTypes
<1>4. CASE \E d \in Devices : ReplaceUpdate(d) \/ ReplaceEnd(d)
  BY <1>2, <1>3, <1>4 DEF SameVerdicts
<1>5. \/ Load \/ Close
      \/ \E d \in Devices : ReplaceUpdate(d) \/ ReplaceEnd(d)
  <2>1. ASSUME NEW e \in Envs, Prepare(e) \/ PrepareFails(e) PROVE FALSE
    BY <2>1 DEF Prepare, PrepareFails
  <2>2. ~(SetupFails \/ StartDevices \/ WaitDevices \/ Interrupt \/ UNCHANGED vars)
    BY DEF SetupFails, StartDevices, WaitDevices, Interrupt, vars
  <2>3. ASSUME NEW d \in Devices,
               NoMoreJobs(d) \/ StopDevice(d) \/ SkipJob(d) \/ StartJob(d)
        PROVE  FALSE
    BY <2>3 DEF NoMoreJobs, StopDevice, SkipJob, StartJob
  <2>4. ASSUME NEW d \in Devices,
               Decode(d) \/ EncodeUpdate(d) \/ WorkerEnds(d) \/ EncodeEnd(d)
        PROVE  FALSE
    BY <2>4 DEF Decode, EncodeUpdate, WorkerEnds, EncodeEnd
  <2> QED
    BY <2>1, <2>2, <2>3, <2>4 DEF Next, MainNext, DeviceNext, Over
<1> QED
  BY <1>1, <1>4, <1>5

(* Success: a run that returns nil has left a closed file without an error *)
(* in which all its cases have a verdict, on any number of devices.        *)
THEOREM RunsComplete == Spec => []SuccessMeansAll
<1>1. IInv => SuccessMeansAll
  BY DEF IInv, DoneInv
<1> QED
  BY <1>1, Invariance, PTL

(* No save of one device takes a verdict of another out of the file.       *)
THEOREM VerdictsAreKept == Spec => VerdictsStay
<1> DEFINE Step == \A e \in Envs : file.env[e].decided \subseteq file'.env[e].decided
<1>1. IInv /\ [Next]_vars => Step
  <2> SUFFICES ASSUME IInv, [Next]_vars, file' # file PROVE Step
    BY Zenon
  <2>1. \A e \in Envs : file.env[e].decided \subseteq memory.env[e].decided
    BY DEF IInv, VerdictInv
  <2>2. file' = memory' /\ SameVerdicts(memory, memory')
    BY FileSteps
  <2> QED
    BY <2>1, <2>2 DEF SameVerdicts
<1>2. IInv /\ [Next]_vars => [Step]_vars
  BY <1>1
<1> QED
  BY <1>2, Invariance, PTL DEF Spec, VerdictsStay

(* The file is written as closed and free of errors only when it is        *)
(* complete.                                                               *)
THEOREM ClosedIsComplete == Spec => ClosedOnlyComplete
<1> DEFINE Step == file' # file /\ file'.finished /\ ~file'.error => AllDecided(file')
<1>1. IInv /\ [Next]_vars => Step
  <2> SUFFICES ASSUME IInv, [Next]_vars, file' # file, file'.finished, ~file'.error
               PROVE  AllDecided(file')
    BY Zenon
  <2>1. /\ file' = memory' /\ SameVerdicts(memory, memory')
        /\ Load \/ Close \/ main = "run"
        /\ main = "run" => memory' = memory
    BY FileSteps
  <2>2. ~Load
    BY <2>1, FlagSteps
  <2>3. main # "run"
    BY <2>1 DEF IInv, LockInv
  <2>4. Close /\ main = "close" /\ ~returnErr
    BY <2>1, <2>2, <2>3, FlagSteps DEF Close
  <2>5. AllDecided(memory)
    BY <2>4 DEF IInv, DoneInv
  <2> QED
    BY <2>1, <2>5 DEF AllDecided, Completed, SameVerdicts
<1>2. IInv /\ [Next]_vars => [Step]_vars
  BY <1>1
<1> QED
  BY <1>2, Invariance, PTL DEF Spec, ClosedOnlyComplete

(* A goroutine gets to its worker only by StartJob. *)
LEMMA OnlyStartJob ==
    ASSUME IInv, [Next]_vars, NEW d \in Devices, dev[d] = "next", dev'[d] = "watch"
    PROVE  StartJob(d)
<1>1. dev \in [Devices -> {"next", "done"} \cup Busy]
  BY DEF IInv, DeviceTypes
<1>2. dev' # dev
  BY <1>1
<1>3. PICK f \in Devices : DeviceNext(f)
  <2>1. ASSUME NEW e \in Envs, Prepare(e) \/ PrepareFails(e) PROVE FALSE
    BY <1>2, <2>1 DEF Prepare, PrepareFails, goroutine
  <2>2. ~(Load \/ SetupFails \/ StartDevices \/ WaitDevices \/ Close \/ Interrupt
          \/ UNCHANGED vars)
    BY <1>2 DEF Load, SetupFails, StartDevices, WaitDevices, Close, Interrupt, vars,
                goroutine
  <2> QED
    BY <2>1, <2>2 DEF Next, MainNext, Over
<1>4. f = d
  <2>1. \E place : dev' = [dev EXCEPT ![f] = place]
    BY <1>2, <1>3 DEF DeviceNext, NoMoreJobs, StopDevice, SkipJob, StartJob, Decode,
        EncodeUpdate, ReplaceUpdate, WorkerEnds, EncodeEnd, ReplaceEnd, MoveTo
  <2> QED
    BY <1>1, <2>1
<1>5. ~(NoMoreJobs(d) \/ StopDevice(d) \/ SkipJob(d))
  BY <1>1 DEF NoMoreJobs, StopDevice, SkipJob, MoveTo
<1>6. ~(Decode(d) \/ EncodeUpdate(d) \/ ReplaceUpdate(d) \/ WorkerEnds(d)
        \/ EncodeEnd(d) \/ ReplaceEnd(d))
  BY DEF Decode, EncodeUpdate, ReplaceUpdate, WorkerEnds, EncodeEnd, ReplaceEnd,
         Reading
<1> QED
  BY <1>3, <1>4, <1>5, <1>6 DEF DeviceNext

(* No device starts a job after a failed save, or with --fail-fast after a *)
(* failed job.                                                             *)
THEOREM FailuresStopStarts == Spec => NoStartAfterFailure
<1> DEFINE Step == \A d \in Devices : dev[d] = "next" /\ dev'[d] = "watch"
                        => ~saveFailed /\ ~(failFast /\ returnErr)
<1>1. IInv /\ [Next]_vars => Step
  <2> SUFFICES ASSUME IInv, [Next]_vars, NEW d \in Devices,
                      dev[d] = "next", dev'[d] = "watch"
               PROVE  ~saveFailed /\ ~(failFast /\ returnErr)
    OBVIOUS
  <2>1. StartJob(d)
    BY OnlyStartJob
  <2>2. main = "run" /\ holder = None /\ ~canceled
    BY <2>1 DEF StartJob, HasJob, Free
  <2>3. \A f \in Devices : dev[f] # "finish"
    BY <2>2 DEF IInv, LockInv, Locked, None
  <2> QED
    BY <2>2, <2>3 DEF IInv, CancelInv
<1>2. IInv /\ [Next]_vars => [Step]_vars
  BY <1>1
<1> QED
  BY <1>2, Invariance, PTL DEF Spec, NoStartAfterFailure

(* The progress.  It is the number of a set B of cases, those that had     *)
(* their verdict when the devices started, and of a set A, those announced *)
(* in a saved update since.  For a job that waits B is what is completed;  *)
(* for the job of a worker, B and A together are all but what the worker   *)
(* has still to announce, and for a job without an error in the end all of *)
(* it, each time but for the shifted cases.  What was counted for a job    *)
(* that failed does not matter any more, only that no case was announced   *)
(* twice, and that what was announced was in B only if it is shifted.      *)
Part(C, e) == {c \in Cases : <<e, c>> \in C}

(* The cases whose key is that of the report that was found. *)
Settled(e) == {c \in jobCases[e] : <<e, c>> \notin Shifted}

(* Announced in the update in hand, which is not saved yet. *)
Pending(d) ==
    IF dev[d] \in {"save", "replace"} /\ started[d] THEN {current[d]} ELSE {}

Open(d) == {c \in todo[d] : WorkerKey(d, c) \notin worker[d]}
Uncounted(d) == Open(d) \cup Pending(d)

JobCounted(d, i, SB, SA) ==
    /\ i > at[d] \/ (i = at[d] /\ dev[d] \in {"next", "done"}) =>
            /\ SB = Completed(Queue[d][i], memory) /\ SA = {}
            /\ memory.env[Queue[d][i]].workers = found.env[Queue[d][i]].workers
    /\ i = at[d] /\ dev[d] \in {"watch", "save", "replace"} /\ Accepts(Queue[d][i]) =>
            /\ SA \cap Uncounted(d) = {}
            /\ \A c \in Settled(Queue[d][i]) :
                    c \in SB \cup SA <=> c \notin Uncounted(d)
    /\ i = at[d] /\ dev[d] \in {"after", "finish"} /\ ~runErr[d] =>
            Settled(Queue[d][i]) \subseteq SB \cup SA
    /\ i < at[d] /\ ~returnErr => Settled(Queue[d][i]) \subseteq SB \cup SA

Counted(B, A) ==
    \A d \in Devices : \A i \in 1 .. Len(Queue[d]) :
        JobCounted(d, i, Part(B, Queue[d][i]), Part(A, Queue[d][i]))

(* A worker announces cases of its job, each once. *)
WorkInv ==
    \A d \in Devices :
        /\ dev[d] \in {"next", "done"} => current[d] = None
        /\ dev[d] \in Busy => todo[d] \subseteq jobCases[JobEnv(d)]
        /\ dev[d] \in Busy /\ current[d] # None =>
                current[d] \in jobCases[JobEnv(d)] \ todo[d]
        /\ dev[d] \in {"save", "replace"} /\ started[d] => current[d] # None

Sums(B, A) ==
    /\ progress = Cardinality(B) + Cardinality(A)
    /\ B \cap A \subseteq Shifted

RunProgress ==
    /\ total = Cardinality(AllCases)
    /\ \E B, A \in SUBSET AllCases : Sums(B, A) /\ Counted(B, A)

Bounded ==
    /\ progress \in Nat /\ total \in Nat
    /\ progress <= total + Cardinality(Shifted)

ProgressInv ==
    /\ main = "run" => RunProgress
    /\ main # "run" => Bounded
    /\ main \in {"load", "prepare"} => progress <= total
    /\ main = "close" /\ ~returnErr => progress + Cardinality(Shifted) >= total
    /\ ProgressRight

(* Sets of cases are finite, and none is larger than that of all cases. *)
LEMMA CasesFinite ==
    /\ IsFiniteSet(AllCases) /\ Cardinality(AllCases) \in Nat
    /\ \A C \in SUBSET AllCases :
            /\ IsFiniteSet(C) /\ Cardinality(C) \in Nat
            /\ Cardinality(C) <= Cardinality(AllCases)
<1>1. IsFiniteSet(Envs \X Cases)
  BY FS_Product
<1>2. AllCases \in SUBSET (Envs \X Cases)
  BY DEF AllCases
<1>3. IsFiniteSet(AllCases)
  BY <1>1, <1>2, FS_Subset
<1> QED
  BY <1>3, FS_Subset, FS_CardinalityType

LEMMA ShiftedFinite ==
    /\ Shifted \in SUBSET AllCases /\ IsFiniteSet(Shifted)
    /\ Cardinality(Shifted) \in Nat
<1>1. Shifted \in SUBSET AllCases
  BY DEF Shifted
<1> QED
  BY <1>1, CasesFinite

(* A case is in a set of cases when its environment has it there. *)
LEMMA PartsOfAll ==
    ASSUME IInv, NEW C \in SUBSET AllCases
    PROVE  /\ \A e \in Envs : Part(C, e) \subseteq jobCases[e]
           /\ (\A e \in Envs : Settled(e) \subseteq Part(C, e)) =>
                    AllCases \ Shifted \subseteq C
<1>1. jobCases \in [Envs -> SUBSET Cases]
  BY DEF IInv, MainTypes
<1>2. ASSUME \A e \in Envs : Settled(e) \subseteq Part(C, e),
             NEW k \in AllCases, k \notin Shifted
      PROVE  k \in C
  <2>1. k[1] \in Envs /\ k[2] \in jobCases[k[1]] /\ k = <<k[1], k[2]>>
    BY DEF AllCases
  <2>2. k[2] \in Settled(k[1])
    BY <1>2, <2>1 DEF Settled
  <2> QED
    BY <1>2, <2>1, <2>2 DEF Part
<1> QED
  BY <1>1, <1>2 DEF Part, AllCases

(* What was counted twice is shifted, so the sum is within its bounds. *)
LEMMA SumBounds ==
    ASSUME NEW B \in SUBSET AllCases, NEW A \in SUBSET AllCases, Sums(B, A)
    PROVE  /\ progress \in Nat
           /\ progress <= Cardinality(AllCases) + Cardinality(Shifted)
           /\ Cardinality(B \cup A) <= progress
<1>1. /\ IsFiniteSet(A) /\ Cardinality(A) \in Nat
      /\ IsFiniteSet(B) /\ Cardinality(B) \in Nat
      /\ Cardinality(AllCases) \in Nat
  BY CasesFinite
<1>2. Cardinality(B \cup A) = Cardinality(B) + Cardinality(A) - Cardinality(B \cap A)
  BY <1>1, FS_Union
<1>3. B \cup A \in SUBSET AllCases /\ B \cap A \in SUBSET Shifted
  BY DEF Sums
<1>4. Cardinality(B \cup A) \in Nat /\ Cardinality(B \cup A) <= Cardinality(AllCases)
  BY <1>3, CasesFinite
<1>5. /\ Cardinality(B \cap A) \in Nat
      /\ Cardinality(B \cap A) <= Cardinality(Shifted) /\ Cardinality(Shifted) \in Nat
  BY <1>3, ShiftedFinite, FS_Subset, FS_CardinalityType
<1> QED
  BY <1>1, <1>2, <1>4, <1>5 DEF Sums

(* The invariants hold before the first step. *)
LEMMA InitProgress == Init => WorkInv /\ ProgressInv
<1> SUFFICES ASSUME Init PROVE WorkInv /\ ProgressInv
  OBVIOUS
<1>1. WorkInv
  BY DEF Init, WorkInv, Busy
<1>2. progress = 0 /\ total = 0 /\ main = "load"
  BY DEF Init
<1> QED
  BY <1>1, <1>2, ShiftedFinite DEF ProgressInv, ProgressRight, Bounded

(* No goroutine touches what another one keeps of its job. *)
Unmoved(f) ==
    /\ dev'[f] = dev[f] /\ at'[f] = at[f] /\ worker'[f] = worker[f]
    /\ todo'[f] = todo[f] /\ current'[f] = current[f]
    /\ started'[f] = started[f] /\ runErr'[f] = runErr[f]

Beside(d) ==
    /\ main = "run" /\ main' = "run" /\ jobCases' = jobCases /\ total' = total
    /\ found' = found
    /\ ~returnErr' => ~returnErr
    /\ \A f \in Devices \ {d} : Unmoved(f)
    /\ \A e \in Envs \ {JobEnv(d)} : SameResults(e)

LEMMA DeviceStep ==
    ASSUME IInv, NEW d \in Devices, DeviceNext(d) PROVE Beside(d)
<1>1. /\ dev \in [Devices -> {"next", "done"} \cup Busy]
      /\ at \in [Devices -> Nat \ {0}] /\ runErr \in [Devices -> BOOLEAN]
      /\ worker \in [Devices -> SUBSET (Cases \X Nat)] /\ todo \in [Devices -> SUBSET Cases]
      /\ current \in [Devices -> Cases \cup {None}]
      /\ started \in [Devices -> BOOLEAN]
  BY DEF IInv, DeviceTypes, WorkerTypes
<1>2. main = "run"
  BY DEF DeviceNext, NoMoreJobs, StopDevice, SkipJob, StartJob, HasJob, Decode,
         EncodeUpdate, ReplaceUpdate, WorkerEnds, EncodeEnd, ReplaceEnd, Reading,
         IInv, LockInv, Busy
<1>3. main' = main /\ jobCases' = jobCases /\ total' = total /\ found' = found
  BY DEF DeviceNext, NoMoreJobs, StopDevice, SkipJob, StartJob, Decode,
         EncodeUpdate, ReplaceUpdate, WorkerEnds, EncodeEnd, ReplaceEnd, jobs
<1>4. ~returnErr' => ~returnErr
  BY DEF DeviceNext, NoMoreJobs, StopDevice, SkipJob, StartJob, Decode,
         EncodeUpdate, ReplaceUpdate, WorkerEnds, EncodeEnd, ReplaceEnd
<1>5. ASSUME NEW e \in Envs, e # JobEnv(d)
      PROVE  SameResults(e)
  <2>1. CASE EncodeUpdate(d)
    BY <1>5, <2>1, UpdateStep DEF SameResults
  <2>2. CASE StartJob(d) \/ EncodeEnd(d)
    BY <2>2, ErrorSteps DEF SameVerdicts, SameResults
  <2>3. CASE ~EncodeUpdate(d) /\ ~StartJob(d) /\ ~EncodeEnd(d)
    BY <2>3 DEF DeviceNext, NoMoreJobs, StopDevice, SkipJob, Decode,
                ReplaceUpdate, WorkerEnds, ReplaceEnd, SameResults
  <2> QED
    BY <2>1, <2>2, <2>3
<1>6. ASSUME NEW f \in Devices, f # d PROVE Unmoved(f)
  <2>1. CASE NoMoreJobs(d) \/ StopDevice(d) \/ SkipJob(d) \/ StartJob(d)
    BY <1>1, <1>6, <2>1 DEF NoMoreJobs, StopDevice, SkipJob, StartJob, MoveTo,
                            session, Unmoved
  <2>2. CASE Decode(d)
    BY <1>1, <1>6, <2>2 DEF Decode, Announce, Decide, Inform, MoveTo, Unmoved
  <2>3. CASE EncodeUpdate(d) \/ ReplaceUpdate(d) \/ WorkerEnds(d) \/ EncodeEnd(d)
    BY <1>1, <1>6, <2>3 DEF EncodeUpdate, ReplaceUpdate, WorkerEnds, EncodeEnd,
                            MoveTo, session, Unmoved
  <2>4. CASE ReplaceEnd(d)
    BY <1>1, <1>6, <2>4 DEF ReplaceEnd, MoveTo, Unmoved
  <2> QED
    BY <2>1, <2>2, <2>3, <2>4 DEF DeviceNext
<1> QED
  BY <1>2, <1>3, <1>4, <1>5, <1>6 DEF Beside

(* Nor what is shifted in this run. *)
LEMMA SameShifted ==
    ASSUME jobCases' = jobCases, found' = found
    PROVE  /\ AllCases' = AllCases /\ Shifted' = Shifted
           /\ \A e : Accepts(e)' = Accepts(e) /\ Settled(e)' = Settled(e)
BY DEF AllCases, Shifted, Moved, Accepts, Settled

(* What is shifted in the job of a goroutine that stays with it. *)
LEMMA SettledJob ==
    ASSUME NEW d \in Devices, jobCases' = jobCases, found' = found, at' = at
    PROVE  /\ JobEnv(d)' = JobEnv(d)
           /\ Settled(JobEnv(d))' = Settled(JobEnv(d))
           /\ Accepts(JobEnv(d))' = Accepts(JobEnv(d))
<1>1. PICK e : e = JobEnv(d)
  OBVIOUS
<1>2. e = JobEnv(d)'
  BY <1>1 DEF JobEnv
<1>3. Accepts(e)' = Accepts(e) /\ Settled(e)' = Settled(e)
  BY SameShifted
<1>4. Settled(e)' = Settled(JobEnv(d))' /\ Accepts(e)' = Accepts(JobEnv(d))'
  BY <1>2
<1> QED
  BY <1>1, <1>2, <1>3, <1>4

(* While a worker has the same to announce, its job is counted the same. *)
LEMMA CountedSame ==
    ASSUME NEW d \in Devices, jobCases' = jobCases, found' = found, at' = at,
           dev \in [Devices -> {"next", "done"} \cup Busy], at[d] \in Nat,
           dev[d] \in {"watch", "save"},
           NEW p \in {"save", "replace"}, dev' = [dev EXCEPT ![d] = p],
           Uncounted(d)' = Uncounted(d), NEW B, NEW A,
           JobCounted(d, at[d], Part(B, JobEnv(d)), Part(A, JobEnv(d)))
    PROVE  JobCounted(d, at[d], Part(B, JobEnv(d)), Part(A, JobEnv(d)))'
<1>1. dev'[d] = p /\ at'[d] = at[d]
  OBVIOUS
<1>2. /\ JobEnv(d)' = JobEnv(d) /\ Settled(JobEnv(d))' = Settled(JobEnv(d))
      /\ Accepts(JobEnv(d))' = Accepts(JobEnv(d))
  BY SettledJob
<1> QED
  BY <1>1, <1>2 DEF JobCounted, JobEnv

(* What was counted for the other jobs stays right. *)
LEMMA OthersCounted ==
    ASSUME IInv, NEW d \in Devices, Beside(d),
           NEW f \in Devices, NEW i \in 1 .. Len(Queue[f]), NEW SB, NEW SA,
           Queue[f][i] # JobEnv(d), f # d \/ (at'[d] = at[d] /\ i # at[d]),
           JobCounted(f, i, SB, SA)
    PROVE  JobCounted(f, i, SB, SA)'
<1>1. Queue[f][i] \in Envs
  OBVIOUS
<1>2. /\ Completed(Queue[f][i], memory)' = Completed(Queue[f][i], memory)
      /\ memory'.env[Queue[f][i]].workers = memory.env[Queue[f][i]].workers
  BY <1>1 DEF Beside, SameResults, Completed
<1>3. /\ Accepts(Queue[f][i])' = Accepts(Queue[f][i]) /\ found' = found
      /\ Settled(Queue[f][i])' = Settled(Queue[f][i])
  BY SameShifted DEF Beside
<1>4. CASE f # d
  <2>1. /\ dev'[f] = dev[f] /\ at'[f] = at[f] /\ runErr'[f] = runErr[f]
        /\ Uncounted(f)' = Uncounted(f) /\ (~returnErr' => ~returnErr)
    BY <1>4 DEF Beside, Unmoved, Uncounted, Open, Pending, WorkerKey, JobEnv
  <2> QED
    BY <1>2, <1>3, <2>1 DEF JobCounted
<1>5. CASE f = d /\ at'[d] = at[d] /\ i # at[d]
  BY <1>2, <1>3, <1>5 DEF Beside, JobCounted
<1> QED
  BY <1>4, <1>5

(* So a goroutine that goes on with its job has that job to answer for. *)
LEMMA CountedOn ==
    ASSUME IInv, NEW d \in Devices, Beside(d), at'[d] = at[d],
           at[d] <= Len(Queue[d]), NEW B, NEW A, NEW D, Counted(B, A),
           \A e \in Envs \ {JobEnv(d)} : Part(D, e) = Part(A, e),
           JobCounted(d, at[d], Part(B, JobEnv(d)), Part(D, JobEnv(d)))'
    PROVE  Counted(B, D)'
<1> SUFFICES ASSUME NEW f \in Devices, NEW i \in 1 .. Len(Queue[f])
             PROVE  JobCounted(f, i, Part(B, Queue[f][i]), Part(D, Queue[f][i]))'
  BY DEF Counted
<1>1. CASE f = d /\ i = at[d]
  BY <1>1 DEF JobEnv
<1>2. CASE f # d \/ i # at[d]
  <2>1. Queue[f][i] # JobEnv(d) /\ Queue[f][i] \in Envs
    BY <1>2, OwnJob
  <2>2. Part(D, Queue[f][i]) = Part(A, Queue[f][i])
    BY <2>1
  <2>3. JobCounted(f, i, Part(B, Queue[f][i]), Part(A, Queue[f][i]))
    BY DEF Counted
  <2>4. JobCounted(f, i, Part(B, Queue[f][i]), Part(D, Queue[f][i]))
    BY <2>2, <2>3
  <2> QED
    BY <1>2, <2>1, <2>4, OthersCounted
<1> QED
  BY <1>1, <1>2

(* The worker of a device announces, decides and ends within its job. *)
LEMMA WorkKept == IInv /\ WorkInv /\ [Next]_vars => WorkInv'
<1> SUFFICES ASSUME IInv, WorkInv, [Next]_vars, NEW f \in Devices
             PROVE  /\ dev'[f] \in {"next", "done"} => current'[f] = None
                    /\ dev'[f] \in Busy => todo'[f] \subseteq jobCases'[JobEnv(f)']
                    /\ dev'[f] \in Busy /\ current'[f] # None =>
                            current'[f] \in jobCases'[JobEnv(f)'] \ todo'[f]
                    /\ dev'[f] \in {"save", "replace"} /\ started'[f] =>
                            current'[f] # None
  BY DEF WorkInv
<1> DEFINE Kept ==
        /\ dev'[f] \in {"next", "done"} => current'[f] = None
        /\ dev'[f] \in Busy => todo'[f] \subseteq jobCases'[JobEnv(f)']
        /\ dev'[f] \in Busy /\ current'[f] # None =>
                current'[f] \in jobCases'[JobEnv(f)'] \ todo'[f]
        /\ dev'[f] \in {"save", "replace"} /\ started'[f] =>
                current'[f] # None
<1>1. /\ dev \in [Devices -> {"next", "done"} \cup Busy]
      /\ at \in [Devices -> Nat \ {0}]
      /\ worker \in [Devices -> SUBSET (Cases \X Nat)] /\ todo \in [Devices -> SUBSET Cases]
      /\ current \in [Devices -> Cases \cup {None}]
      /\ started \in [Devices -> BOOLEAN]
  BY DEF IInv, DeviceTypes, WorkerTypes
<1>2. /\ dev[f] \in {"next", "done"} => current[f] = None
      /\ dev[f] \in Busy => todo[f] \subseteq jobCases[JobEnv(f)]
      /\ dev[f] \in Busy /\ current[f] # None =>
              current[f] \in jobCases[JobEnv(f)] \ todo[f]
      /\ dev[f] \in {"save", "replace"} /\ started[f] =>
              current[f] # None
  BY DEF WorkInv
<1>3. ASSUME NEW d \in Devices, DeviceNext(d) PROVE Kept
  <2>1. Beside(d)
    BY <1>3, DeviceStep
  <2>2. CASE f # d
    BY <1>2, <2>1, <2>2 DEF Beside, Unmoved, JobEnv
  <2>3. CASE f = d
    <3>1. CASE NoMoreJobs(d) \/ StopDevice(d) \/ SkipJob(d)
      BY <1>1, <1>2, <2>3, <3>1
         DEF NoMoreJobs, StopDevice, SkipJob, HasJob, MoveTo, session, Busy
    <3>2. CASE StartJob(d)
      BY <1>1, <1>2, <2>3, <3>2 DEF StartJob, HasJob, MoveTo, jobs, JobEnv, Busy
    <3>3. CASE Decode(d)
      BY <1>1, <1>2, <2>3, <3>3
         DEF Decode, Announce, Decide, Inform, MoveTo, jobs, JobEnv, Busy
    <3>4. CASE EncodeUpdate(d) \/ ReplaceUpdate(d) \/ WorkerEnds(d) \/ EncodeEnd(d)
      BY <1>1, <1>2, <2>3, <3>4
         DEF EncodeUpdate, ReplaceUpdate, WorkerEnds, Reading, EncodeEnd, MoveTo,
             session, jobs, JobEnv, Busy
    <3>5. CASE ReplaceEnd(d)
      BY <1>1, <2>3, <3>5 DEF ReplaceEnd, MoveTo, Busy
    <3> QED
      BY <1>3, <3>1, <3>2, <3>3, <3>4, <3>5 DEF DeviceNext
  <2> QED
    BY <2>2, <2>3
<1>4. CASE main # "run" \/ StartDevices
  <2>1. dev[f] \notin Busy
    BY <1>4 DEF IInv, LockInv, StartDevices
  <2>2. ASSUME goroutine' = goroutine PROVE Kept
    BY <1>2, <2>1, <2>2 DEF goroutine, session, Busy
  <2>3. ASSUME NEW d \in Devices PROVE DeviceNext(d) => Kept
    BY <1>3
  <2>4. ASSUME NEW e \in Envs, Prepare(e) \/ PrepareFails(e) PROVE Kept
    BY <2>2, <2>4 DEF Prepare, PrepareFails
  <2>5. ASSUME MainNext \/ Interrupt \/ UNCHANGED vars PROVE Kept
    BY <2>2, <2>4, <2>5 DEF MainNext, Load, SetupFails, StartDevices, WaitDevices,
                            Close, Interrupt, vars
  <2> QED
    BY <2>3, <2>5 DEF Next, Over
<1>5. CASE main = "run" /\ ~StartDevices
  <2>1. ASSUME goroutine' = goroutine, jobCases' = jobCases PROVE Kept
    BY <1>2, <2>1 DEF goroutine, session, JobEnv
  <2>2. ~(\E e \in Envs : Prepare(e) \/ PrepareFails(e))
    BY <1>5 DEF Prepare, PrepareFails
  <2>3. MainNext \/ Interrupt \/ UNCHANGED vars => Kept
    BY <1>5, <2>1, <2>2 DEF MainNext, Load, SetupFails, WaitDevices,
                            Close, Interrupt, vars, jobs
  <2> QED
    BY <1>3, <2>3 DEF Next, Over
<1> QED
  BY <1>4, <1>5

(* A job's own steps: what is counted for it follows the goroutine.  When  *)
(* it starts, all but its completed cases are still to be announced.       *)
LEMMA CountedStart ==
    ASSUME IInv, NEW d \in Devices, StartJob(d), NEW B, NEW A, Counted(B, A)
    PROVE  Counted(B, A)'
<1>0. PICK e \in Envs : e = JobEnv(d)
  BY OwnJob DEF StartJob, HasJob
<1>1. /\ HasJob(d) /\ at' = at /\ jobCases' = jobCases /\ found' = found
      /\ dev' = [dev EXCEPT ![d] = "watch"]
      /\ worker' = [worker EXCEPT ![d] = memory.env[e].decided]
      /\ todo' = [todo EXCEPT ![d] = jobCases[e]]
  BY <1>0 DEF StartJob, MoveTo, jobs
<1>2. /\ dev \in [Devices -> {"next", "done"} \cup Busy]
      /\ worker \in [Devices -> SUBSET (Cases \X Nat)] /\ todo \in [Devices -> SUBSET Cases]
      /\ jobCases \in [Envs -> SUBSET Cases] /\ at[d] \in Nat
      /\ memory \in ResultReport
  BY DEF IInv, MainTypes, DeviceTypes, WorkerTypes
<1>3. at[d] \in 1 .. Len(Queue[d]) /\ at[d] <= Len(Queue[d])
  BY <1>1, OwnJob DEF HasJob
<1>4. JobCounted(d, at[d], Part(B, e), Part(A, e))
  BY <1>0, <1>3 DEF Counted, JobEnv
<1>5. /\ Part(B, e) = Completed(e, memory) /\ Part(A, e) = {}
      /\ memory.env[e].workers = found.env[e].workers
  BY <1>0, <1>1, <1>4 DEF JobCounted, HasJob, JobEnv
<1>6. /\ dev'[d] = "watch" /\ todo'[d] = jobCases[e]
      /\ worker'[d] = memory.env[e].decided /\ JobEnv(d)' = e
  BY <1>0, <1>1, <1>2 DEF JobEnv
<1>7. Uncounted(d)' = {c \in jobCases[e] : Key(e, c, Machine[e]) \notin memory.env[e].decided}
  BY <1>6 DEF Uncounted, Open, Pending, WorkerKey
<1>8. ASSUME Accepts(e), NEW c \in Settled(e)
      PROVE  c \in Part(B, e) <=> c \notin Uncounted(d)'
  <2>1. c \in jobCases[e] /\ <<e, c>> \notin Shifted /\ c \in Cases
    BY <1>2, <1>3, <1>8 DEF Settled
  <2>2. <<e, c>> \in AllCases
    BY <1>3, <2>1 DEF AllCases
  <2>3. <<e, c>> \notin MultiQueue \/ memory.env[e].workers \in {0, Machine[e]}
    BY <1>5, <1>8, <2>1, <2>2 DEF Shifted, Moved
  <2>4. memory.env[e].workers = 0 => memory.env[e].decided = {}
    BY <1>2, <1>3 DEF ResultReport, Entry
  <2>5. Key(e, c, memory.env[e].workers) \in memory.env[e].decided
            <=> Key(e, c, Machine[e]) \in memory.env[e].decided
    <3>1. CASE <<e, c>> \notin MultiQueue
      BY <3>1 DEF Key
    <3>2. CASE memory.env[e].workers = 0
      BY <2>4, <3>2
    <3>3. CASE memory.env[e].workers = Machine[e]
      BY <3>3
    <3> QED
      BY <2>3, <3>1, <3>2, <3>3
  <2> QED
    BY <1>5, <1>7, <2>1, <2>5 DEF Completed
<1>9. JobCounted(d, at[d], Part(B, JobEnv(d)), Part(A, JobEnv(d)))'
  <2>1. dev'[d] = "watch" /\ at'[d] = at[d] /\ Queue[d][at[d]] = e
    BY <1>0, <1>1, <1>6 DEF JobEnv
  <2>2. Accepts(e)' = Accepts(e) /\ Settled(e)' = Settled(e)
    BY <1>1, SameShifted
  <2>3. Accepts(e)' => /\ Part(A, e) \cap Uncounted(d)' = {}
                       /\ \A c \in Settled(e)' :
                            c \in Part(B, e) \cup Part(A, e) <=> c \notin Uncounted(d)'
    BY <1>5, <1>8, <2>2
  <2> QED
    BY <1>2, <1>6, <2>1, <2>3 DEF JobCounted
<1>10. Beside(d)
  BY DeviceStep DEF DeviceNext
<1> QED
  BY <1>1, <1>3, <1>9, <1>10, CountedOn

(* An update in hand is not counted yet. *)
LEMMA CountedDecode ==
    ASSUME IInv, WorkInv, NEW d \in Devices, Decode(d),
           NEW B, NEW A, Counted(B, A)
    PROVE  Counted(B, A)'
<1>1. /\ dev[d] = "watch" /\ dev' = [dev EXCEPT ![d] = "save"]
      /\ at' = at /\ jobCases' = jobCases /\ found' = found
  BY DEF Decode, MoveTo, jobs
<1>2. /\ dev \in [Devices -> {"next", "done"} \cup Busy]
      /\ worker \in [Devices -> SUBSET (Cases \X Nat)] /\ todo \in [Devices -> SUBSET Cases]
      /\ current \in [Devices -> Cases \cup {None}]
      /\ started \in [Devices -> BOOLEAN] /\ at[d] \in Nat
      /\ at[d] <= Len(Queue[d])
  BY <1>1 DEF IInv, DeviceTypes, WorkerTypes, Busy
<1>3. at[d] \in 1 .. Len(Queue[d]) /\ JobEnv(d) \in Envs
  BY <1>2, OwnJob
<1>4. JobCounted(d, at[d], Part(B, JobEnv(d)), Part(A, JobEnv(d)))
  BY <1>3 DEF Counted, JobEnv
<1>5. current[d] # None => current[d] \notin todo[d]
  BY <1>1 DEF WorkInv, Busy
<1>6. \A c : WorkerKey(d, c)' = WorkerKey(d, c)
  BY <1>1 DEF WorkerKey, JobEnv
<1>7. \A b, c : WorkerKey(d, b) = WorkerKey(d, c) => b = c
  BY DEF WorkerKey, Key
<1>8. Uncounted(d)' = Uncounted(d)
  <2>1. Uncounted(d) = Open(d) /\ dev'[d] = "save"
    BY <1>1, <1>2 DEF Uncounted, Pending
  <2>2. CASE Announce(d)
    <3>1. PICK c \in todo[d] :
            /\ WorkerKey(d, c) \notin worker[d]
            /\ todo' = [todo EXCEPT ![d] = @ \ {c}]
            /\ current' = [current EXCEPT ![d] = c]
      BY <2>2 DEF Announce
    <3>2. /\ worker' = worker /\ started'[d] /\ current'[d] = c
          /\ todo'[d] = todo[d] \ {c}
      BY <1>2, <2>2, <3>1 DEF Announce
    <3>3. Pending(d)' = {c} /\ Open(d)' = Open(d) \ {c} /\ c \in Open(d)
      BY <1>6, <2>1, <3>1, <3>2 DEF Pending, Open
    <3> QED
      BY <2>1, <3>3 DEF Uncounted
  <2>3. CASE Decide(d)
    <3>1. /\ current[d] # None /\ todo' = todo /\ ~started'[d]
          /\ worker'[d] = worker[d] \cup {WorkerKey(d, current[d])}
      BY <1>2, <2>3 DEF Decide
    <3>2. \A c \in todo[d] : WorkerKey(d, c) \in worker'[d] <=> WorkerKey(d, c) \in worker[d]
      BY <1>5, <1>7, <3>1
    <3>3. Pending(d)' = {} /\ Open(d)' = Open(d)
      BY <1>6, <3>1, <3>2 DEF Pending, Open
    <3> QED
      BY <2>1, <3>3 DEF Uncounted
  <2>4. CASE Inform(d)
    <3>1. todo' = todo /\ worker' = worker /\ ~started'[d]
      BY <1>2, <2>4 DEF Inform
    <3>2. Pending(d)' = {} /\ Open(d)' = Open(d)
      BY <1>6, <3>1 DEF Pending, Open
    <3> QED
      BY <2>1, <3>2 DEF Uncounted
  <2> QED
    BY <2>2, <2>3, <2>4 DEF Decode
<1>9. JobCounted(d, at[d], Part(B, JobEnv(d)), Part(A, JobEnv(d)))'
  BY <1>1, <1>2, <1>4, <1>8, CountedSame
<1>10. Beside(d)
  BY DeviceStep DEF DeviceNext
<1> QED
  BY <1>1, <1>2, <1>9, <1>10, CountedOn

(* Nor while it is being saved. *)
LEMMA CountedEncode ==
    ASSUME IInv, NEW d \in Devices, EncodeUpdate(d), NEW B, NEW A, Counted(B, A)
    PROVE  Counted(B, A)'
<1>1. /\ dev[d] = "save" /\ dev' = [dev EXCEPT ![d] = "replace"]
      /\ at' = at /\ jobCases' = jobCases /\ worker' = worker /\ todo' = todo
      /\ current' = current /\ started' = started /\ found' = found
  BY DEF EncodeUpdate, MoveTo, jobs, session
<1>2. /\ dev \in [Devices -> {"next", "done"} \cup Busy] /\ at[d] \in Nat
      /\ at[d] <= Len(Queue[d])
  BY <1>1 DEF IInv, DeviceTypes, Busy
<1>3. at[d] \in 1 .. Len(Queue[d])
  BY <1>2, OwnJob
<1>4. JobCounted(d, at[d], Part(B, JobEnv(d)), Part(A, JobEnv(d)))
  BY <1>3 DEF Counted, JobEnv
<1>5. Uncounted(d)' = Uncounted(d)
  BY <1>1, <1>2 DEF Uncounted, Open, Pending, WorkerKey, JobEnv
<1>6. JobCounted(d, at[d], Part(B, JobEnv(d)), Part(A, JobEnv(d)))'
  BY <1>1, <1>2, <1>4, <1>5, CountedSame
<1>7. Beside(d)
  BY DeviceStep DEF DeviceNext
<1> QED
  BY <1>1, <1>2, <1>6, <1>7, CountedOn

(* A worker that ends without an error has nothing left to announce. *)
LEMMA CountedEnds ==
    ASSUME IInv, WorkInv, NEW d \in Devices, WorkerEnds(d),
           NEW B, NEW A, Counted(B, A)
    PROVE  Counted(B, A)'
<1>1. /\ dev[d] \in {"watch", "drain"} /\ dev' = [dev EXCEPT ![d] = "after"]
      /\ at' = at /\ jobCases' = jobCases /\ found' = found
  BY DEF WorkerEnds, MoveTo, jobs, Reading
<1>2. PICK failed \in BOOLEAN :
        /\ runErr' = [runErr EXCEPT ![d] = failed]
        /\ ~failed => /\ dev[d] = "watch" /\ received[d]
                      /\ \A c \in jobCases[JobEnv(d)] : WorkerKey(d, c) \in worker[d]
  BY DEF WorkerEnds
<1>3. /\ dev \in [Devices -> {"next", "done"} \cup Busy] /\ at[d] \in Nat
      /\ at[d] <= Len(Queue[d]) /\ runErr \in [Devices -> BOOLEAN]
  BY <1>1 DEF IInv, DeviceTypes, Busy
<1>4. at[d] \in 1 .. Len(Queue[d])
  BY <1>3, OwnJob
<1>5. JobCounted(d, at[d], Part(B, JobEnv(d)), Part(A, JobEnv(d)))
  BY <1>4 DEF Counted, JobEnv
<1>6. ASSUME ~failed
      PROVE  Settled(JobEnv(d)) \subseteq Part(B, JobEnv(d)) \cup Part(A, JobEnv(d))
  <2>1. Accepts(JobEnv(d))
    BY <1>2, <1>6 DEF IInv, NamedInv, Named
  <2>2. todo[d] \subseteq jobCases[JobEnv(d)]
    BY <1>1 DEF WorkInv, Busy
  <2>3. Uncounted(d) = {}
    BY <1>2, <1>6, <2>2 DEF Uncounted, Open, Pending
  <2> QED
    BY <1>2, <1>5, <1>6, <2>1, <2>3 DEF JobCounted, JobEnv
<1>7. dev'[d] = "after" /\ runErr'[d] = failed
  BY <1>1, <1>2, <1>3
<1>8. JobCounted(d, at[d], Part(B, JobEnv(d)), Part(A, JobEnv(d)))'
  <2>1. Settled(JobEnv(d))' = Settled(JobEnv(d)) /\ JobEnv(d)' = JobEnv(d)
    BY <1>1, SettledJob
  <2> QED
    BY <1>1, <1>3, <1>6, <1>7, <2>1 DEF JobCounted, JobEnv
<1>9. Beside(d)
  BY DeviceStep DEF DeviceNext
<1> QED
  BY <1>1, <1>3, <1>8, <1>9, CountedOn

(* The save after a worker counts nothing. *)
LEMMA CountedEncodeEnd ==
    ASSUME IInv, NEW d \in Devices, EncodeEnd(d), NEW B, NEW A, Counted(B, A)
    PROVE  Counted(B, A)'
<1>1. /\ dev[d] = "after" /\ dev' = [dev EXCEPT ![d] = "finish"]
      /\ at' = at /\ jobCases' = jobCases /\ runErr' = runErr /\ found' = found
  BY DEF EncodeEnd, MoveTo, jobs
<1>2. /\ dev \in [Devices -> {"next", "done"} \cup Busy] /\ at[d] \in Nat
      /\ at[d] <= Len(Queue[d])
  BY <1>1 DEF IInv, DeviceTypes, Busy
<1>3. at[d] \in 1 .. Len(Queue[d])
  BY <1>2, OwnJob
<1>4. JobCounted(d, at[d], Part(B, JobEnv(d)), Part(A, JobEnv(d)))
  BY <1>3 DEF Counted, JobEnv
<1>5. JobCounted(d, at[d], Part(B, JobEnv(d)), Part(A, JobEnv(d)))'
  <2>1. Settled(JobEnv(d))' = Settled(JobEnv(d)) /\ JobEnv(d)' = JobEnv(d)
    BY <1>1, SettledJob
  <2> QED
    BY <1>1, <1>2, <1>4, <2>1 DEF JobCounted, JobEnv
<1>6. Beside(d)
  BY DeviceStep DEF DeviceNext
<1> QED
  BY <1>1, <1>2, <1>5, <1>6, CountedOn

(* A device that is done keeps its jobs as they are. *)
LEMMA CountedDone ==
    ASSUME IInv, NEW d \in Devices, NoMoreJobs(d) \/ StopDevice(d),
           NEW B, NEW A, Counted(B, A)
    PROVE  Counted(B, A)'
<1>1. /\ dev[d] = "next" /\ dev' = [dev EXCEPT ![d] = "done"] /\ at' = at
      /\ memory' = memory /\ jobCases' = jobCases /\ worker' = worker
      /\ todo' = todo /\ current' = current /\ started' = started
      /\ runErr' = runErr /\ returnErr' = returnErr /\ found' = found
  BY DEF NoMoreJobs, StopDevice, HasJob, MoveTo, jobs, session
<1>2. dev \in [Devices -> {"next", "done"} \cup Busy]
  BY DEF IInv, DeviceTypes
<1>3. ASSUME NEW f \in Devices, NEW i \in 1 .. Len(Queue[f]), NEW SB, NEW SA,
             JobCounted(f, i, SB, SA)
      PROVE  JobCounted(f, i, SB, SA)'
  <2>1. /\ Accepts(Queue[f][i])' = Accepts(Queue[f][i])
        /\ Settled(Queue[f][i])' = Settled(Queue[f][i])
    BY <1>1, SameShifted
  <2>2. Completed(Queue[f][i], memory)' = Completed(Queue[f][i], memory)
    BY <1>1 DEF Completed
  <2>3. f # d => Uncounted(f)' = Uncounted(f)
    BY <1>1, <1>2 DEF Uncounted, Open, Pending, WorkerKey, JobEnv
  <2> QED
    BY <1>1, <1>2, <1>3, <2>1, <2>2, <2>3 DEF JobCounted
<1> QED
  BY <1>1, <1>3 DEF Counted

(* A device that passes to its next job has counted the last one.          *)
LEMMA CountedPassed ==
    ASSUME IInv, NEW d \in Devices, SkipJob(d) \/ ReplaceEnd(d),
           NEW B, NEW A, Counted(B, A)
    PROVE  Counted(B, A)'
<1>1. /\ at' = [at EXCEPT ![d] = @ + 1] /\ jobCases' = jobCases /\ found' = found
      /\ memory' = memory /\ dev' = [dev EXCEPT ![d] = "next"]
  BY DEF SkipJob, HasJob, ReplaceEnd, MoveTo, jobs, IInv, DeviceTypes
<1>2. /\ dev \in [Devices -> {"next", "done"} \cup Busy]
      /\ at \in [Devices -> Nat \ {0}] /\ at[d] <= Len(Queue[d])
  BY DEF IInv, DeviceTypes, SkipJob, HasJob, ReplaceEnd, Busy
<1>3. at[d] \in 1 .. Len(Queue[d]) /\ JobEnv(d) \in Envs
  BY <1>2, OwnJob
<1>4. Beside(d)
  BY DeviceStep DEF DeviceNext
<1>5. ~returnErr' =>
        Settled(JobEnv(d)) \subseteq Part(B, JobEnv(d)) \cup Part(A, JobEnv(d))
  <2>1. JobCounted(d, at[d], Part(B, JobEnv(d)), Part(A, JobEnv(d)))
    BY <1>3 DEF Counted, JobEnv
  <2>2. CASE SkipJob(d)
    <3>1. Part(B, JobEnv(d)) = jobCases[JobEnv(d)]
      BY <2>1, <2>2 DEF SkipJob, HasJob, JobCounted, JobEnv
    <3> QED
      BY <3>1 DEF Settled
  <2>3. CASE ReplaceEnd(d) /\ ~returnErr'
    <3>1. dev[d] = "finish" /\ ~returnErr
      BY <1>4, <2>3 DEF ReplaceEnd, Beside
    <3>2. ~runErr[d]
      BY <3>1 DEF IInv, CancelInv
    <3> QED
      BY <2>1, <3>1, <3>2 DEF JobCounted, JobEnv
  <2> QED
    BY <2>2, <2>3
<1> SUFFICES ASSUME NEW f \in Devices, NEW i \in 1 .. Len(Queue[f])
             PROVE  JobCounted(f, i, Part(B, Queue[f][i]), Part(A, Queue[f][i]))'
  BY DEF Counted
<1>6. JobCounted(f, i, Part(B, Queue[f][i]), Part(A, Queue[f][i]))
  BY DEF Counted
<1>7. CASE f # d
  <2>1. Queue[f][i] # JobEnv(d)
    BY <1>2, <1>7, OwnJob
  <2> QED
    BY <1>4, <1>6, <1>7, <2>1, OthersCounted
<1>8. CASE f = d
  <2>1. at'[d] = at[d] + 1 /\ dev'[d] = "next" /\ at[d] \in Nat /\ i \in Nat
    BY <1>1, <1>2
  <2>2. Completed(Queue[d][i], memory)' = Completed(Queue[d][i], memory)
    BY <1>1 DEF Completed
  <2>3. Settled(Queue[d][i])' = Settled(Queue[d][i])
    BY <1>1, SameShifted
  <2>4. CASE i = at[d]
    BY <1>1, <1>5, <1>8, <2>1, <2>3, <2>4 DEF JobCounted, JobEnv
  <2>5. CASE i < at[d]
    BY <1>1, <1>4, <1>6, <1>8, <2>1, <2>3, <2>5 DEF JobCounted, Beside
  <2>6. CASE i > at[d]
    BY <1>1, <1>6, <1>8, <2>1, <2>2, <2>6 DEF JobCounted
  <2> QED
    BY <2>1, <2>4, <2>5, <2>6
<1> QED
  BY <1>7, <1>8

(* A saved update counts the case it announces, which was not announced    *)
(* before, and was counted before only if it is shifted.                   *)
LEMMA CountedReplace ==
    ASSUME IInv, WorkInv, NEW d \in Devices, ReplaceUpdate(d),
           NEW B \in SUBSET AllCases, NEW A \in SUBSET AllCases,
           Sums(B, A), Counted(B, A)
    PROVE  \E D \in SUBSET AllCases : Sums(B, D)' /\ Counted(B, D)'
<1>1. /\ dev[d] = "replace" /\ at' = at /\ jobCases' = jobCases /\ worker' = worker
      /\ todo' = todo /\ current' = current /\ started' = started
      /\ runErr' = runErr /\ found' = found
  BY DEF ReplaceUpdate, jobs
<1>2. PICK ok \in BOOLEAN :
        /\ progress' = IF ok /\ started[d] THEN progress + 1 ELSE progress
        /\ dev' = [dev EXCEPT ![d] = IF ok THEN "watch" ELSE "drain"]
  BY DEF ReplaceUpdate, Announces, MoveTo
<1>3. /\ dev \in [Devices -> {"next", "done"} \cup Busy] /\ at[d] \in Nat
      /\ at[d] <= Len(Queue[d]) /\ started \in [Devices -> BOOLEAN]
      /\ jobCases \in [Envs -> SUBSET Cases]
  BY <1>1 DEF IInv, MainTypes, DeviceTypes, WorkerTypes, Busy
<1>4. at[d] \in 1 .. Len(Queue[d])
  BY <1>3, OwnJob
<1>5. PICK e \in Envs : e = JobEnv(d)
  BY <1>3, OwnJob
<1>6. Accepts(e) /\ JobCounted(d, at[d], Part(B, e), Part(A, e))
  BY <1>1, <1>4, <1>5 DEF Counted, JobEnv, IInv, NamedInv, Named
<1>7. /\ Part(A, e) \cap Uncounted(d) = {}
      /\ \A c \in Settled(e) : c \in Part(B, e) \cup Part(A, e) <=> c \notin Uncounted(d)
  BY <1>1, <1>5, <1>6 DEF JobCounted, JobEnv
<1>8. Beside(d)
  BY DeviceStep DEF DeviceNext
<1>9. /\ at'[d] = at[d] /\ JobEnv(d)' = e /\ Open(d)' = Open(d)
      /\ Settled(e)' = Settled(e) /\ Shifted' = Shifted
  BY <1>1, <1>5, SameShifted DEF JobEnv, Open, WorkerKey
<1>10. CASE ok /\ started[d]
  <2>1. PICK c : c = current[d]
    OBVIOUS
  <2>2. c \in jobCases[e] \ todo[d] /\ Uncounted(d) = Open(d) \cup {c}
    BY <1>1, <1>5, <1>10, <2>1 DEF WorkInv, Busy, Uncounted, Pending
  <2>3. c \in Cases /\ c \notin Open(d) /\ c \notin Part(A, e)
    BY <1>3, <1>7, <2>2 DEF Open
  <2>4. PICK k : k = <<e, c>>
    OBVIOUS
  <2>5. k \in AllCases /\ k \notin A
    BY <2>2, <2>3, <2>4 DEF AllCases, Part
  <2>6. k \in B => k \in Shifted
    <3>1. c \in Settled(e) => c \notin Part(B, e)
      BY <1>7, <2>2
    <3> QED
      BY <2>2, <2>3, <2>4, <3>1 DEF Settled, Part
  <2>7. PICK D : D = A \cup {k}
    OBVIOUS
  <2>8. D \in SUBSET AllCases
    BY <2>5, <2>7
  <2>9. Sums(B, D)'
    <3>1. /\ IsFiniteSet(A) /\ Cardinality(A) \in Nat /\ Cardinality(B) \in Nat
      BY CasesFinite
    <3>2. Cardinality(D) = Cardinality(A) + 1
      BY <2>5, <2>7, <3>1, FS_AddElement
    <3>3. progress' = Cardinality(B) + Cardinality(D)
      BY <1>2, <1>10, <3>1, <3>2 DEF Sums
    <3>4. B \cap D \subseteq Shifted
      BY <2>6, <2>7 DEF Sums
    <3> QED
      BY <1>9, <3>3, <3>4 DEF Sums
  <2>10. Part(D, e) = Part(A, e) \cup {c}
    BY <2>3, <2>4, <2>7 DEF Part
  <2>11. \A f \in Envs \ {e} : Part(D, f) = Part(A, f)
    BY <2>4, <2>7 DEF Part
  <2>12. dev'[d] = "watch" /\ Uncounted(d)' = Open(d)
    BY <1>1, <1>2, <1>3, <1>9, <1>10 DEF Uncounted, Pending
  <2>13. /\ Part(D, e) \cap Open(d) = {}
         /\ \A b \in Settled(e) : b \in Part(B, e) \cup Part(D, e) <=> b \notin Open(d)
    BY <1>7, <2>2, <2>3, <2>10
  <2>14. JobCounted(d, at[d], Part(B, JobEnv(d)), Part(D, JobEnv(d)))'
    BY <1>3, <1>9, <2>12, <2>13 DEF JobCounted, JobEnv
  <2>15. Counted(B, D)'
    BY <1>1, <1>3, <1>5, <1>8, <2>11, <2>14, CountedOn
  <2> QED
    BY <1>1, <2>8, <2>9, <2>15, SameShifted
<1>11. CASE ~(ok /\ started[d])
  <2>1. Sums(B, A)'
    BY <1>2, <1>9, <1>11 DEF Sums
  <2>2. dev'[d] = (IF ok THEN "watch" ELSE "drain")
    BY <1>2, <1>3
  <2>3. ok => Uncounted(d)' = Uncounted(d)
    BY <1>1, <1>3, <1>9, <1>11, <2>2 DEF Uncounted, Pending
  <2>4. JobCounted(d, at[d], Part(B, JobEnv(d)), Part(A, JobEnv(d)))'
    BY <1>3, <1>7, <1>9, <2>2, <2>3 DEF JobCounted, JobEnv
  <2>5. Counted(B, A)'
    BY <1>1, <1>3, <1>8, <2>4, CountedOn
  <2> QED
    BY <1>1, <2>1, <2>5, SameShifted
<1> QED
  BY <1>10, <1>11

(* Before a device starts, all its jobs wait. *)
LEMMA CountedFirst ==
    ASSUME IInv, StartDevices
    PROVE  RunProgress'
<1>1. /\ main = "prepare" /\ memory' = memory /\ jobCases' = jobCases
      /\ goroutine' = goroutine /\ found' = found
      /\ total' = Cardinality(AllCases) /\ progress' = Cardinality(AllCompleted(memory))
  BY DEF StartDevices
<1>2. AllCases' = AllCases
  BY <1>1 DEF AllCases
<1>3. jobCases \in [Envs -> SUBSET Cases]
  BY DEF IInv, MainTypes
<1>4. PICK B : B = AllCompleted(memory)
  OBVIOUS
<1>5. PICK A : A = {}
  OBVIOUS
<1>6. B \in SUBSET AllCases /\ A \in SUBSET AllCases
  BY <1>4, <1>5 DEF AllCompleted
<1>7. \A e \in Envs : Part(B, e) = Completed(e, memory) /\ Part(A, e) = {}
  BY <1>3, <1>4, <1>5 DEF Part, AllCompleted, AllCases, Completed
<1>8. \A e \in Envs : memory.env[e].workers = found.env[e].workers
  BY <1>1 DEF IInv, NamedInv
<1>9. \A d \in Devices : dev'[d] = "next" /\ at'[d] = 1
  BY <1>1 DEF IInv, LockInv, goroutine
<1>10. Counted(B, A)'
  <2>1. ASSUME NEW d \in Devices, NEW i \in 1 .. Len(Queue[d])
        PROVE  JobCounted(d, i, Part(B, Queue[d][i]), Part(A, Queue[d][i]))'
    <3>1. Queue[d][i] \in Envs
      OBVIOUS
    <3>2. /\ Part(B, Queue[d][i]) = Completed(Queue[d][i], memory)'
          /\ Part(A, Queue[d][i]) = {}
          /\ memory'.env[Queue[d][i]].workers = found'.env[Queue[d][i]].workers
      BY <1>1, <1>7, <1>8, <3>1 DEF Completed
    <3> QED
      BY <1>9, <3>2 DEF JobCounted
  <2> QED
    BY <2>1 DEF Counted
<1>11. Sums(B, A)'
  <2>1. Cardinality(A) = 0 /\ Cardinality(B) \in Nat
    BY <1>5, <1>6, FS_EmptySet, CasesFinite
  <2> QED
    BY <1>1, <1>4, <1>5, <2>1 DEF Sums
<1> QED
  BY <1>1, <1>2, <1>6, <1>10, <1>11 DEF RunProgress

(* All devices are done: without an error every case has been counted,     *)
(* but for shifted ones.                                                   *)
LEMMA CountedLast ==
    ASSUME IInv, WaitDevices, RunProgress, ~returnErr'
    PROVE  progress + Cardinality(Shifted) >= total
<1>1. main = "run" /\ (\A d \in Devices : dev[d] = "done") /\ ~returnErr /\ ~interrupted
  BY DEF WaitDevices, RunError, IInv, MainTypes
<1>2. ~canceled
  BY <1>1 DEF IInv, CancelInv, Blamed
<1>3. \A d \in Devices : at[d] > Len(Queue[d])
  BY <1>1, <1>2 DEF IInv, DoneInv
<1>4. PICK B \in SUBSET AllCases, A \in SUBSET AllCases : Sums(B, A) /\ Counted(B, A)
  BY DEF RunProgress
<1>5. ASSUME NEW e \in Envs PROVE Settled(e) \subseteq Part(B \cup A, e)
  <2>1. PICK d \in Devices : \E i \in 1 .. Len(Queue[d]) : Queue[d][i] = e
    BY QueueAssumption
  <2>2. PICK i \in 1 .. Len(Queue[d]) : Queue[d][i] = e
    BY <2>1
  <2>3. i < at[d]
    BY <1>3 DEF IInv, DeviceTypes
  <2>4. JobCounted(d, i, Part(B, e), Part(A, e))
    BY <1>4, <2>2 DEF Counted
  <2>5. Settled(e) \subseteq Part(B, e) \cup Part(A, e)
    BY <1>1, <2>2, <2>3, <2>4 DEF JobCounted
  <2> QED
    BY <2>5 DEF Part
<1>6. AllCases \ Shifted \subseteq B \cup A
  BY <1>5, PartsOfAll
<1>7. /\ IsFiniteSet(AllCases) /\ Cardinality(AllCases) \in Nat
      /\ IsFiniteSet(B \cup A) /\ Cardinality(B \cup A) \in Nat
  BY CasesFinite
<1>8. Cardinality(AllCases \ Shifted) = Cardinality(AllCases) - Cardinality(Shifted)
  <2>1. AllCases \cap Shifted = Shifted
    BY ShiftedFinite
  <2> QED
    BY <1>7, <2>1, FS_Difference
<1>9. Cardinality(AllCases \ Shifted) <= Cardinality(B \cup A)
  BY <1>6, <1>7, FS_Subset
<1>10. Cardinality(B \cup A) <= progress /\ progress \in Nat
  BY <1>4, SumBounds
<1>11. Cardinality(Shifted) \in Nat
  BY ShiftedFinite
<1> QED
  BY <1>7, <1>8, <1>9, <1>10, <1>11 DEF RunProgress

(* The progress of a run is within its bounds. *)
LEMMA RunBounds == RunProgress => Bounded
<1> SUFFICES ASSUME RunProgress PROVE Bounded
  OBVIOUS
<1>1. PICK B \in SUBSET AllCases, A \in SUBSET AllCases : Sums(B, A)
  BY DEF RunProgress
<1> QED
  BY <1>1, SumBounds, CasesFinite DEF RunProgress, Bounded

(* While the devices run, every step keeps the count. *)
LEMMA RunKept ==
    ASSUME IInv, WorkInv, RunProgress, NEW d \in Devices, DeviceNext(d)
    PROVE  RunProgress'
<1>1. Beside(d)
  BY DeviceStep
<1>2. AllCases' = AllCases /\ total' = total /\ Shifted' = Shifted
  BY <1>1, SameShifted DEF Beside
<1>3. PICK B \in SUBSET AllCases, A \in SUBSET AllCases : Sums(B, A) /\ Counted(B, A)
  BY DEF RunProgress
<1>4. CASE ReplaceUpdate(d)
  <2>1. \E D \in SUBSET AllCases : Sums(B, D)' /\ Counted(B, D)'
    BY <1>3, <1>4, CountedReplace
  <2> QED
    BY <1>2, <2>1 DEF RunProgress
<1>5. CASE ~ReplaceUpdate(d)
  <2>1. progress' = progress
    BY <1>5 DEF DeviceNext, NoMoreJobs, StopDevice, SkipJob, StartJob, Decode,
                EncodeUpdate, WorkerEnds, EncodeEnd, ReplaceEnd
  <2>2. Counted(B, A)'
    BY <1>3, <1>5, CountedDone, CountedPassed, CountedStart, CountedDecode,
       CountedEncode, CountedEnds, CountedEncodeEnd DEF DeviceNext
  <2>3. Sums(B, A)'
    BY <1>2, <1>3, <2>1 DEF Sums
  <2> QED
    BY <1>2, <2>2, <2>3 DEF RunProgress
<1> QED
  BY <1>4, <1>5

(* Nothing else changes what was counted. *)
LEMMA RunUnchanged ==
    ASSUME RunProgress, memory' = memory, jobs' = jobs,
           goroutine' = goroutine, progress' = progress, returnErr' = returnErr
    PROVE  RunProgress'
<1>1. jobCases' = jobCases /\ found' = found /\ total' = total
  BY DEF jobs
<1>2. AllCases' = AllCases /\ Shifted' = Shifted
  BY <1>1, SameShifted
<1>3. PICK B \in SUBSET AllCases, A \in SUBSET AllCases : Sums(B, A) /\ Counted(B, A)
  BY DEF RunProgress
<1>4. ASSUME NEW f \in Devices, NEW i \in 1 .. Len(Queue[f]), NEW SB, NEW SA,
             JobCounted(f, i, SB, SA)
      PROVE  JobCounted(f, i, SB, SA)'
  <2>1. /\ Accepts(Queue[f][i])' = Accepts(Queue[f][i])
        /\ Settled(Queue[f][i])' = Settled(Queue[f][i])
    BY <1>1, SameShifted
  <2>2. /\ Completed(Queue[f][i], memory)' = Completed(Queue[f][i], memory)
        /\ Uncounted(f)' = Uncounted(f)
    BY <1>1 DEF Completed, Uncounted, Open, Pending, WorkerKey, JobEnv, goroutine,
                session
  <2> QED
    BY <1>1, <1>4, <2>1, <2>2 DEF JobCounted, goroutine
<1>5. Counted(B, A)'
  BY <1>3, <1>4 DEF Counted
<1>6. Sums(B, A)'
  BY <1>2, <1>3 DEF Sums
<1> QED
  BY <1>1, <1>2, <1>5, <1>6 DEF RunProgress

(* The count is right in every step of the invocation. *)
LEMMA ProgressKept ==
    IInv /\ WorkInv /\ ProgressInv /\ [Next]_vars => ProgressInv'
<1> SUFFICES ASSUME IInv, WorkInv, ProgressInv, [Next]_vars PROVE ProgressInv'
  OBVIOUS
<1>1. Bounded
  BY RunBounds DEF ProgressInv
<1>2. returnErr \in BOOLEAN
  BY DEF IInv, MainTypes
<1>3. ASSUME NEW d \in Devices, DeviceNext(d) PROVE ProgressInv'
  <2>1. main = "run" /\ main' = "run"
    BY <1>3, DeviceStep DEF Beside
  <2>2. RunProgress'
    BY <1>3, <2>1, RunKept DEF ProgressInv
  <2>3. Bounded'
    BY <2>2, RunBounds, PTL
  <2> QED
    BY <2>1, <2>2, <2>3 DEF ProgressInv, ProgressRight, Bounded
<1>4. CASE StartDevices
  <2>1. RunProgress' /\ main' = "run"
    BY <1>4, CountedFirst DEF StartDevices
  <2>2. Bounded'
    BY <2>1, RunBounds, PTL
  <2> QED
    BY <2>1, <2>2 DEF ProgressInv, ProgressRight, Bounded
<1>5. CASE WaitDevices
  <2>1. /\ main = "run" /\ main' = "close" /\ progress' = progress /\ total' = total
        /\ Shifted' = Shifted
    BY <1>5, SameShifted DEF WaitDevices, jobs
  <2>2. ~returnErr' => progress + Cardinality(Shifted) >= total
    BY <1>5, <2>1, CountedLast DEF ProgressInv
  <2> QED
    BY <1>1, <2>1, <2>2 DEF ProgressInv, ProgressRight, Bounded
<1>6. CASE Close
  <2>1. /\ main = "close" /\ main' = "returned" /\ progress' = progress
        /\ total' = total /\ Shifted' = Shifted /\ (~returnErr' => ~returnErr)
    BY <1>6, SameShifted DEF Close, jobs
  <2> QED
    BY <1>1, <2>1 DEF ProgressInv, ProgressRight, Bounded
<1>7. ASSUME main \in {"load", "prepare"}, progress' = progress, total' = total,
             main' \in {"load", "prepare"} \/ (main' = "close" /\ returnErr')
      PROVE  ProgressInv'
  <2>1. progress \in Nat /\ total \in Nat /\ progress <= total
    BY <1>1, <1>7 DEF ProgressInv, Bounded
  <2>2. (Cardinality(Shifted) \in Nat)'
    BY ShiftedFinite, PTL
  <2>3. Bounded'
    BY <1>7, <2>1, <2>2 DEF Bounded
  <2> QED
    BY <1>7, <2>1, <2>3 DEF ProgressInv, ProgressRight, Bounded
<1>8. CASE Load \/ SetupFails
  BY <1>7, <1>8 DEF Load, SetupFails, jobs
<1>9. ASSUME NEW e \in Envs, Prepare(e) \/ PrepareFails(e) PROVE ProgressInv'
  BY <1>7, <1>9 DEF Prepare, PrepareFails, jobs
<1>10. CASE Interrupt \/ UNCHANGED vars
  <2>1. /\ main' = main /\ memory' = memory /\ jobs' = jobs
        /\ goroutine' = goroutine /\ progress' = progress
        /\ returnErr' = returnErr
    BY <1>10 DEF Interrupt, vars
  <2>2. total' = total /\ Shifted' = Shifted
    BY <2>1, SameShifted DEF jobs
  <2>3. main = "run" => RunProgress'
    BY <2>1, RunUnchanged DEF ProgressInv
  <2> QED
    BY <1>1, <2>1, <2>2, <2>3 DEF ProgressInv, ProgressRight, Bounded
<1> QED
  BY <1>3, <1>4, <1>5, <1>6, <1>8, <1>9, <1>10 DEF Next, MainNext, Over

(* All three invariants hold in every reachable state. *)
LEMMA ProgressInvariance == Spec => [](IInv /\ WorkInv /\ ProgressInv)
<1>1. Init => IInv /\ WorkInv /\ ProgressInv
  BY InitInvariant, InitProgress
<1>2. (IInv /\ WorkInv /\ ProgressInv) /\ [Next]_vars
        => (IInv /\ WorkInv /\ ProgressInv)'
  BY Inductive, WorkKept, ProgressKept
<1> QED
  BY <1>1, <1>2, PTL DEF Spec

(* The progress a run prints never passes its total by more than the       *)
(* shifted cases, and when the run returns nil it falls short of it by no  *)
(* more than those, for any number of devices, environments and cases: on  *)
(* the machine that the report names, it is exact.                         *)
THEOREM ProgressIsRight == Spec => []ProgressRight
<1>1. ProgressInv => ProgressRight
  BY DEF ProgressInv
<1> QED
  BY <1>1, ProgressInvariance, PTL

(* Every variable has its type, and whoever writes the file holds the      *)
(* mutex.                                                                  *)
THEOREM TypesHold == Spec => []TypeOK
<1>1. IInv /\ ProgressInv => TypeOK
  <2> SUFFICES ASSUME IInv, ProgressInv PROVE TypeOK
    OBVIOUS
  <2>1. progress \in Nat /\ total \in Nat
    BY RunBounds DEF ProgressInv, Bounded
  <2> QED
    BY <2>1 DEF IInv, MainTypes, DeviceTypes, WorkerTypes, LockInv, TypeOK, Busy
<1> QED
  BY <1>1, ProgressInvariance, PTL
=============================================================================
