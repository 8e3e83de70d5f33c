------------------------------ MODULE Session ------------------------------
(***************************************************************************)
(* One environment, from the command line to the file (controller.go,      *)
(* environmentMatrix.run and runWorkerProcess; result.go, save and         *)
(* readReport): a controller that resumes a result file, starts a worker,  *)
(* writes the file again for every report the worker sends, and may be     *)
(* interrupted, killed, or run again, any number of times.                 *)
(*                                                                         *)
(* The file is replaced by rename after fsync: a crash leaves the old file *)
(* or the new one.  A worker whose controller died keeps running as an     *)
(* orphan with a pipe nobody reads; the next worker is launched once it    *)
(* has gone (what two workers do to one host's routes is not this          *)
(* module's subject).                                                      *)
(***************************************************************************)
EXTENDS Matrix

CONSTANT Jobs   \* the selections of cases a user may ask for

ASSUME JobsAssumption == Jobs \subseteq SUBSET Cases

VARIABLES
    file,       \* the result file: the environment's Report and Error
    phase,      \* where the controller is; "down" when none runs
    entry,      \* report.Environments[job.index] in its memory
    wanted,     \* job.cases of the current, or last, invocation
    flags,      \* failFast of the invocation
    received,   \* runWorkerProcess has saved a report of this worker
    stopping,   \* runCtx is canceled
    exit        \* what the invocation returns: None until it is known

controller == <<file, phase, entry, wanted, flags, received, stopping, exit>>
allVars == <<vars, controller>>

NoFile == [report |-> NoReport, error |-> FALSE]
Saved(e) == [report |-> e.report, error |-> e.error]
Forgotten == [report |-> NoReport, error |-> FALSE]

Init ==
    /\ Idle
    /\ file = NoFile /\ phase = "down" /\ entry = Forgotten
    /\ wanted = {} /\ flags = FALSE /\ received = FALSE
    /\ stopping = FALSE /\ exit = None

(* resultReport.save: the file is replaced, or nothing happened to it. *)
Write(e, ok) == file' = IF ok THEN Saved(e) ELSE file

Readable(f) == f.report # NoReport => Valid(f.report)

(* The command line: the file is read, validated and written back. *)
Invoke ==
    /\ phase = "down" /\ pc = "absent" /\ Readable(file)
    /\ \E cs \in Jobs \ {{}} : wanted' = cs
    /\ \E ff \in BOOLEAN : flags' = ff
    /\ entry' = [report |-> file.report, error |-> file.error]
    /\ \E ok \in BOOLEAN :
        /\ Write(entry', ok)
        /\ phase' = IF ok THEN "prepare" ELSE "close"
        /\ exit' = IF ok THEN None ELSE "error"
    /\ UNCHANGED <<vars, received, stopping>>

(* completedCases(...) == len(job.cases): no worker is started. *)
NothingLeft ==
    /\ phase = "prepare" /\ Completed(wanted, entry.report) = wanted
    /\ phase' = "close" /\ exit' = "ok"
    /\ UNCHANGED <<vars, file, entry, wanted, flags, received, stopping>>

(* The artifacts cannot be prepared, or the context is already canceled    *)
(* when the device's goroutine looks at the job.                           *)
PrepareFails ==
    /\ phase = "prepare" /\ Completed(wanted, entry.report) # wanted
    /\ \/ entry' = [entry EXCEPT !.error = TRUE]
       \/ stopping /\ entry' = [entry EXCEPT !.error = FALSE]
    /\ phase' = "close" /\ exit' = "error"
    /\ UNCHANGED <<vars, file, wanted, flags, received, stopping>>

StartWorker ==
    /\ phase = "prepare" /\ ~stopping
    /\ Completed(wanted, entry.report) # wanted
    /\ Launch(entry.report, wanted, flags)
    /\ phase' = "watch" /\ received' = FALSE
    /\ entry' = [entry EXCEPT !.error = FALSE]
    /\ UNCHANGED <<file, wanted, flags, stopping, exit>>

(* Decode one update and run the closure save; if the file cannot be       *)
(* written the worker is told to stop and its output is discarded.         *)
SaveUpdate ==
    /\ phase = "watch" /\ out # <<>> /\ out' = Tail(out)
    /\ entry' = [entry EXCEPT !.report = Head(out)]
    /\ \E ok \in BOOLEAN :
        /\ Write(entry', ok)
        /\ phase' = IF ok THEN "watch" ELSE "drain"
        /\ received' = (received \/ ok)
        /\ stopping' = (stopping \/ ~ok)
    /\ UNCHANGED <<pc, worker, report, todo, current, run, failed, outcome,
                   canceled, broken, wanted, flags, exit>>

(* Mutant: after a failed save the output is left unread. *)
NoDrain == FALSE

Drain ==
    /\ phase = "drain" /\ Receive
    /\ UNCHANGED controller

(* Mutant: a worker that sent nothing counts as successful. *)
SilentWorkerSucceeds ==
    phase = "drain" \/ stopping \/ pc = "absent" \/ outcome = "error"

(* The end of the output and command.Wait: the worker has returned or is   *)
(* dead, and everything it wrote has been read.                            *)
WorkerFailed ==
    \/ phase = "drain" \/ stopping \/ ~received
    \/ pc = "absent" \/ outcome = "error"

Reap ==
    /\ phase \in {"watch", "drain"} /\ out = <<>>
    /\ pc \in {"ended", "refused", "absent"}
    /\ entry' = [entry EXCEPT !.error = @ \/ WorkerFailed]
    /\ \E ok \in BOOLEAN :
        /\ Write(entry', ok)
        /\ exit' = IF ok /\ ~WorkerFailed THEN "ok" ELSE "error"
    /\ phase' = "close"
    /\ Vanish /\ broken' = FALSE
    /\ UNCHANGED <<out, wanted, flags, received, stopping>>

(* The deferred function of environmentMatrix.run. *)
Close ==
    /\ phase = "close" /\ phase' = "down"
    /\ \E ok \in BOOLEAN :
        /\ Write(entry, ok)
        /\ exit' = IF ok /\ ~stopping THEN exit ELSE "error"
    /\ entry' = Forgotten /\ received' = FALSE /\ stopping' = FALSE
    /\ UNCHANGED <<vars, wanted, flags>>

WorkerStep == WorkerNext /\ UNCHANGED controller

ControllerStep ==
    \/ NothingLeft \/ PrepareFails \/ StartWorker
    \/ SaveUpdate \/ Drain \/ Reap \/ Close

-----------------------------------------------------------------------------
(* Interruptions and crashes.                                              *)

(* SIGINT or SIGTERM to the controller. *)
Interrupt ==
    /\ phase # "down" /\ ~stopping /\ stopping' = TRUE
    /\ UNCHANGED <<vars, file, phase, entry, wanted, flags, received, exit>>

(* The worker is told to stop: command.Cancel, the end of its control pipe *)
(* when the controller has died, or a signal of its own.                   *)
CancelWorker == Cancel /\ UNCHANGED controller

(* The worker crashes, or is killed because it outlived the cleanup        *)
(* timeout.                                                                *)
WorkerDies ==
    /\ pc \in Running /\ ~broken
    /\ Vanish /\ UNCHANGED <<broken, out, controller>>

(* The controller dies: what was in its memory and in the pipe is lost. *)
ControllerDies ==
    /\ phase # "down" /\ phase' = "down"
    /\ entry' = Forgotten /\ wanted' = {} /\ flags' = FALSE
    /\ received' = FALSE /\ stopping' = FALSE /\ exit' = None
    /\ out' = <<>>
    /\ IF pc \in Running
       THEN /\ broken' = TRUE
            /\ UNCHANGED <<pc, worker, report, todo, current, run, failed,
                           outcome, canceled>>
       ELSE Vanish /\ broken' = FALSE
    /\ UNCHANGED file

(* An orphan returns, or dies writing to the pipe nobody reads. *)
OrphanGone ==
    /\ phase = "down" /\ pc # "absent"
    /\ Vanish /\ broken' = FALSE /\ UNCHANGED <<out, controller>>

Next ==
    \/ Invoke \/ ControllerStep \/ WorkerStep
    \/ Interrupt \/ CancelWorker \/ WorkerDies \/ ControllerDies \/ OrphanGone

Spec == Init /\ [][Next]_allVars

(* Every step of a living process is taken: each call of the worker ends   *)
(* (probes, iperf3 and shutdown all have timeouts), the controller reads   *)
(* until the end of the output.  Nothing is assumed of signals or crashes. *)
FairSpec == Spec /\ WF_allVars(WorkerStep) /\ WF_allVars(ControllerStep)

-----------------------------------------------------------------------------
(* Properties.                                                             *)

Reports == Report \cup {NoReport}

(* Every variable has its type; the pipe never holds more than it can. *)
TypeOK ==
    /\ pc \in Locations
    /\ host \in [place : Placements \cup {None}, iperf : Iperfs \cup {None}]
    /\ pc # "absent" => host.place # None /\ host.iperf # None
    /\ job \subseteq Cases /\ failFast \in BOOLEAN
    /\ report \in Reports /\ todo \subseteq job
    /\ pc \notin {"absent", "start", "refused"} => report # NoReport
    /\ current \in Cases \cup {None}
    /\ pc \in {"case", "settle"} => current \in job
    /\ run \in [err : Errors, dirty : BOOLEAN, record : BOOLEAN]
    /\ failed \in BOOLEAN /\ canceled \in BOOLEAN /\ broken \in BOOLEAN
    /\ outcome \in {None, "ok", "error"}
    /\ out \in Seq(Report) /\ Len(out) <= PipeCapacity
    /\ file \in [report : Reports, error : BOOLEAN]
    /\ phase \in {"down", "prepare", "watch", "drain", "close"}
    /\ entry \in [report : Reports, error : BOOLEAN]
    /\ wanted \subseteq Cases
    /\ flags \in BOOLEAN /\ received \in BOOLEAN /\ stopping \in BOOLEAN
    /\ exit \in {None, "ok", "error"}

(* Whatever was interrupted, killed or lost, the file left behind passes   *)
(* the validation of the next invocation (readReport): no half-finished    *)
(* case is saved as passed, no bug without its details.                    *)
Resumable == Readable(file)

(* All numbers in the file were measured on the placement the report       *)
(* names, and all throughput samples with the iperf3 it names, although    *)
(* the machine may change between invocations (prepareReport's check of    *)
(* the environment, the check of the iperf3 version before the first save). *)
MeasuredHere ==
    file.report # NoReport =>
        \A k \in Keys :
            LET r == file.report.cases[k]
            IN  Measured(r) =>
                    /\ r.at = file.report.place
                    /\ k[1] \in Throughput => r.tool = file.report.iperf

(* When an invocation returns nil, the file holds a verdict for every case *)
(* it selected, also after saves that failed on the way, a worker that     *)
(* skipped decided cases, or cases whose queue count changed.              *)
SuccessIsComplete ==
    phase = "down" /\ exit = "ok" => Completed(wanted, file.report) = wanted

(* Once a worker has returned and its output is read, the controller's     *)
(* copy holds no selected case as "running", and says of the session what  *)
(* the worker's exit status says (the deferred save of                     *)
(* benchmarkMatrix.run).                                                   *)
LastReportSettled ==
    phase = "watch" /\ pc = "ended" /\ out = <<>> =>
        /\ \A c \in job : entry.report.cases[CaseKey(c)].status # "running"
        /\ entry.report.error = (outcome = "error")
        /\ entry.report.finished

(* No case is started on a host the case before it could not clean up: its *)
(* processes, routes and interface may still be there.                     *)
CleanStart == [][pc # "case" /\ pc' = "case" => ~run.dirty]_allVars

(* With --fail-fast a case is started only while every case visited before *)
(* it, skipped or run, has a verdict; a bug is a verdict.                  *)
FailFastStops ==
    [][pc # "case" /\ pc' = "case" /\ failFast =>
        \A c \in job \ todo : report.cases[CaseKey(c)].status \in Decided
      ]_allVars

(* The file implements the ledger: a verdict in it is final, over every    *)
(* retry, resume, crash, cancellation and change of machine.               *)
FileLedger ==
    INSTANCE Ledger WITH
        Entries <- Keys,
        Verdicts <- {r \in CaseResult : r.status \in Decided},
        Open <- Blank("absent"),
        verdict <- [k \in Keys |->
            IF file.report = NoReport \/ file.report.cases[k].status \notin Decided
            THEN Blank("absent") ELSE file.report.cases[k]]

VerdictsFinal == FileLedger!Spec

(* Every invocation ends: the worker's loop, the pipe, the save closure    *)
(* and the drain after a failed save never wait for each other forever.    *)
InvocationEnds == phase # "down" ~> phase = "down"
=============================================================================
