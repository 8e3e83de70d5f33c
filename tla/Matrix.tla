------------------------------- MODULE Matrix -------------------------------
(***************************************************************************)
(* The worker: benchmarkMatrix.run and prepareReport (worker.go), what     *)
(* benchmark.run (benchmark.go, iperf.go, memory.go) does to the report,   *)
(* and the pipe the reports travel through (encoder.Encode to stdout).     *)
(*                                                                         *)
(* The worker owns the report in its memory and sends the whole report at  *)
(* every save.  A save blocks while the pipe is full and fails once the    *)
(* reader has gone.  What a benchmark does on the host is abstracted to    *)
(* how many measurements it saves and how it ends.  The order of the list  *)
(* of cases is an input on which nothing depends: the loop takes any case  *)
(* it has not visited.                                                     *)
(***************************************************************************)
EXTENDS Results, Sequences, FiniteSets

CONSTANT PipeCapacity   \* reports the pipe holds before a write blocks

ASSUME PipeAssumption == PipeCapacity \in Nat \ {0}

VARIABLES
    pc,         \* where the worker is; "absent" while no worker exists
    host,       \* the machine it finds: placement and iperf3 version
    job,        \* m.cases, without duplicates
    failFast,   \* m.failFast
    report,     \* m.report
    todo,       \* the cases the loop has not visited
    current,    \* the case being run, None outside
    run,        \* how the last benchmark ended: err, cleanupErr, recordErr
    failed,     \* the local variable of the same name
    outcome,    \* returnErr: None until it is known, then "ok" or "error"
    canceled,   \* ctx.Err() != nil
    broken,     \* nobody reads the pipe any more
    out         \* reports written and not yet read

worker == <<host, job, failFast>>
vars == <<pc, worker, report, todo, current, run, failed, outcome,
          canceled, broken, out>>

Locations == {"absent", "start", "open", "iperf", "loop", "case", "settle",
              "finish", "ended", "refused"}
Running == Locations \ {"absent", "ended", "refused"}
Errors == BugTypes \cup {None, "other"}
NoRun == [err |-> None, dirty |-> FALSE, record |-> FALSE]

(* No worker: everything it would remember is gone. *)
Idle ==
    /\ pc = "absent"
    /\ host = [place |-> None, iperf |-> None]
    /\ job = {} /\ failFast = FALSE /\ report = NoReport
    /\ todo = {} /\ current = None /\ run = NoRun /\ failed = FALSE
    /\ outcome = None /\ canceled = FALSE /\ broken = FALSE /\ out = <<>>

(* runWorker has read the bundle: the request is in place. *)
Launch(rep, cs, ff) ==
    /\ pc = "absent" /\ pc' = "start"
    /\ \E p \in Placements, v \in Iperfs : host' = [place |-> p, iperf |-> v]
    /\ job' = cs /\ failFast' = ff /\ report' = rep
    /\ UNCHANGED <<todo, current, run, failed, outcome, canceled, broken, out>>

(* Mutant: a write never waits for the reader. *)
SaveUnbounded(rep) == ~broken /\ out' = Append(out, rep)

(* saveReport: the encoder writes the report, or the pipe has no reader. *)
SaveOK(rep) == ~broken /\ Len(out) < PipeCapacity /\ out' = Append(out, rep)
SaveFails == broken /\ UNCHANGED out

(* Mutant: any machine may continue a report. *)
AnyPlacement(rep, p) == TRUE

(* prepareReport: whether the report may be continued on this placement,   *)
(* and the report with the selected cases added.                           *)
SamePlacement(rep, p) ==
    (\E k \in Keys : Measured(rep.cases[k])) => rep.place = p

(* Mutant: every selected case starts afresh. *)
ResetCases(rep, p) ==
    [rep EXCEPT !.place = p,
        !.cases = [k \in Keys |->
            IF k \in {Key(c, p) : c \in job} THEN Blank("pending")
                                             ELSE rep.cases[k]]]

WithCases(rep, p) ==
    [rep EXCEPT !.place = p,
        !.cases = [k \in Keys |->
            IF /\ k \in {Key(c, p) : c \in job}
               /\ rep.cases[k].status = "absent"
            THEN Blank("pending") ELSE rep.cases[k]]]

Prepared == WithCases(IF report = NoReport THEN NewReport(host.place)
                                           ELSE report, host.place)

CaseKey(c) == Key(c, host.place)
DecidedIn(rep) == {c \in job : rep.cases[CaseKey(c)].status \in Decided}

(* Mutant: the version is not compared with the saved one. *)
IperfFree(rep) == FALSE

(* The version of iperf3 is compared before anything is written only when  *)
(* the report names one and holds a throughput sample.                     *)
IperfPinned(rep) ==
    /\ job \cap Throughput # {}
    /\ rep.iperf # None
    /\ \E k \in Keys : k[1] \in Throughput /\ Measured(rep.cases[k])

(* Everything before the deferred function is installed: an error returns  *)
(* at once and nothing is sent.                                            *)
Refuse ==
    /\ pc = "start" /\ pc' = "refused" /\ outcome' = "error"
    /\ UNCHANGED <<worker, report, todo, current, run, failed, canceled,
                   broken, out>>

NothingToRun ==
    /\ pc = "start"
    /\ report # NoReport => SamePlacement(report, host.place)
    /\ report' = Prepared
    /\ DecidedIn(Prepared) = job
    /\ pc' = "refused" /\ outcome' = "ok"
    /\ UNCHANGED <<worker, todo, current, run, failed, canceled, broken, out>>

Prepare ==
    /\ pc = "start"
    /\ report # NoReport => SamePlacement(report, host.place)
    /\ DecidedIn(Prepared) # job
    /\ IperfPinned(Prepared) => Prepared.iperf = host.iperf
    /\ report' = [Prepared EXCEPT !.finished = FALSE, !.error = FALSE]
    /\ pc' = "open"
    /\ UNCHANGED <<worker, todo, current, run, failed, outcome, canceled,
                   broken, out>>

Leave(result) == pc' = "finish" /\ outcome' = result

Open ==
    /\ pc = "open"
    /\ \/ SaveOK(report) /\ pc' = "iperf" /\ UNCHANGED outcome
       \/ SaveFails /\ Leave("error")
    /\ UNCHANGED <<worker, report, todo, current, run, failed, canceled,
                   broken>>

CheckIperf ==
    /\ pc = "iperf"
    /\ \/ /\ pc' = "loop" /\ todo' = job
          /\ report' = IF job \cap Throughput = {} THEN report
                       ELSE [report EXCEPT !.iperf = host.iperf]
          /\ UNCHANGED outcome
       \/ /\ job \cap Throughput # {} /\ ~IperfPinned(report)
          /\ Leave("error") /\ UNCHANGED <<report, todo>>
    /\ UNCHANGED <<worker, current, run, failed, canceled, broken, out>>

LoopCanceled ==
    /\ pc = "loop" /\ todo # {} /\ canceled
    /\ Leave("error")
    /\ UNCHANGED <<worker, report, todo, current, run, failed, canceled,
                   broken, out>>

SkipCase ==
    /\ pc = "loop" /\ ~canceled
    /\ \E c \in todo : /\ report.cases[CaseKey(c)].status \in Decided
                       /\ todo' = todo \ {c}
    /\ UNCHANGED <<pc, worker, report, current, run, failed, outcome,
                   canceled, broken, out>>

SetCase(k, r) == report' = [report EXCEPT !.cases[k] = r]

(* What a case is given when it starts: no trace of an earlier attempt. *)
Started(old) == Blank("running")

StartCase ==
    /\ pc = "loop" /\ ~canceled
    /\ \E c \in todo :
        /\ report.cases[CaseKey(c)].status \notin Decided
        /\ todo' = todo \ {c} /\ current' = c
        /\ SetCase(CaseKey(c), Started(report.cases[CaseKey(c)]))
    /\ \/ SaveOK(report') /\ pc' = "case" /\ run' = NoRun /\ UNCHANGED outcome
       \/ SaveFails /\ Leave("error") /\ UNCHANGED run
    /\ UNCHANGED <<worker, failed, canceled, broken>>

LoopEnds ==
    /\ pc = "loop" /\ todo = {}
    /\ Leave(IF failed THEN "error" ELSE "ok")
    /\ UNCHANGED <<worker, report, todo, current, run, failed, canceled,
                   broken, out>>

(* A sample or a memory point is stored and saved while the case runs; if  *)
(* the save fails the benchmark records recordErr and returns it.          *)
Measure ==
    /\ pc = "case" /\ ~run.record
    /\ LET k == CaseKey(current)
           r == report.cases[k]
       IN  /\ r.points < Full(current)
           /\ SetCase(k, [r EXCEPT !.points = @ + 1, !.at = host.place,
                 !.tool = IF current \in MemoryCases THEN None
                                                     ELSE host.iperf])
    /\ \/ SaveOK(report') /\ UNCHANGED run
       \/ SaveFails /\ run' = [run EXCEPT !.record = TRUE]
    /\ UNCHANGED <<pc, worker, todo, current, failed, outcome, canceled,
                   broken>>

(* Mutant: a bug is recorded without its details. *)
VerdictWithoutDetails(r, e, stopped) ==
    [r EXCEPT !.status =
        IF e.err = None THEN "passed"
        ELSE IF stopped THEN "canceled"
        ELSE IF e.err \in BugTypes /\ ~e.dirty /\ ~e.record THEN "bug"
        ELSE "failed"]

(* The verdict benchmarkMatrix.run gives on how the benchmark ended. *)
Verdict(r, e, stopped) ==
    IF e.err = None THEN [r EXCEPT !.status = "passed"]
    ELSE IF stopped THEN [r EXCEPT !.status = "canceled"]
    ELSE IF e.err \in BugTypes /\ ~e.dirty /\ ~e.record
         THEN [r EXCEPT !.status = "bug", !.bug = e.err]
         ELSE [r EXCEPT !.status = "failed"]

(* benchmark.run returns.  It returns nil only when every measurement was  *)
(* saved and Close succeeded; a missing UDP payload is noticed before the  *)
(* sample is stored; a panic may be reported at any moment.                *)
PossibleEnd(c, r, e) ==
    /\ e.err = None => r.points = Full(c) /\ ~e.dirty /\ ~e.record
    /\ e.err = "udp-no-payload" => c \in Throughput /\ r.points = 0

EndCase ==
    /\ pc = "case" /\ pc' = "settle"
    /\ LET k == CaseKey(current)
       IN  \E err \in Errors, dirty \in BOOLEAN :
            LET e == [err |-> err, dirty |-> dirty, record |-> run.record]
            IN  /\ PossibleEnd(current, report.cases[k], e)
                /\ run' = e
                /\ SetCase(k, Verdict(report.cases[k], e, canceled))
    /\ UNCHANGED <<worker, todo, current, failed, outcome, canceled, broken,
                   out>>

(* Mutants: going on after a failed cleanup; ignoring --fail-fast. *)
GivesUpClean(e) == failFast \/ canceled \/ e.record
GivesUpSlow(e) == canceled \/ e.dirty \/ e.record

(* Whether the loop gives up after a case that is no bug and no success. *)
GivesUp(e) == failFast \/ canceled \/ e.dirty \/ e.record

Settle ==
    /\ pc = "settle" /\ current' = None
    /\ LET isBug == report.cases[CaseKey(current)].status = "bug"
       IN  \/ SaveFails /\ Leave("error") /\ UNCHANGED failed
           \/ /\ SaveOK(report)
              /\ \/ /\ isBug \/ run.err = None
                    /\ pc' = "loop" /\ UNCHANGED <<outcome, failed>>
                 \/ /\ ~isBug /\ run.err # None /\ GivesUp(run)
                    /\ Leave("error") /\ UNCHANGED failed
                 \/ /\ ~isBug /\ run.err # None /\ ~GivesUp(run)
                    /\ failed' = TRUE
                    /\ pc' = "loop" /\ UNCHANGED outcome
    /\ UNCHANGED <<worker, report, todo, run, canceled, broken>>

(* Mutant: only the case that was running is closed. *)
UnfinishedCurrent(k) ==
    /\ current # None /\ k = CaseKey(current)
    /\ report.cases[k].status = "running"

(* The deferred function of benchmarkMatrix.run. *)
Unfinished(k) ==
    /\ k \in {CaseKey(c) : c \in job}
    /\ report.cases[k].status = "running"

Finalized(stopped) ==
    [report EXCEPT !.finished = TRUE,
        !.error = @ \/ outcome = "error",
        !.cases = [k \in Keys |->
            IF outcome = "error" /\ Unfinished(k)
            THEN [report.cases[k] EXCEPT
                    !.status = IF stopped THEN "canceled" ELSE "failed"]
            ELSE report.cases[k]]]

Finish ==
    /\ pc = "finish" /\ pc' = "ended" /\ current' = None
    /\ report' = Finalized(canceled)
    /\ \/ SaveOK(report') /\ UNCHANGED outcome
       \/ SaveFails /\ outcome' = "error"
    /\ UNCHANGED <<worker, todo, run, failed, canceled, broken>>

WorkerNext ==
    \/ Refuse \/ NothingToRun \/ Prepare \/ Open \/ CheckIperf
    \/ LoopCanceled \/ SkipCase \/ StartCase \/ LoopEnds
    \/ Measure \/ EndCase \/ Settle \/ Finish

-----------------------------------------------------------------------------
(* What reaches the worker from outside while it runs.                     *)

(* A signal, or a byte or the end of the control pipe (runWorker). *)
Cancel ==
    /\ pc \in Running /\ ~canceled /\ canceled' = TRUE
    /\ UNCHANGED <<pc, worker, report, todo, current, run, failed, outcome,
                   broken, out>>

(* Read one report from the pipe. *)
Receive ==
    /\ out # <<>> /\ out' = Tail(out)
    /\ UNCHANGED <<pc, worker, report, todo, current, run, failed, outcome,
                   canceled, broken>>

(* The worker's process is gone, with all its memory; what it wrote is     *)
(* still in the pipe.                                                      *)
Vanish ==
    /\ pc' = "absent" /\ host' = [place |-> None, iperf |-> None]
    /\ job' = {} /\ failFast' = FALSE /\ report' = NoReport
    /\ todo' = {} /\ current' = None /\ run' = NoRun /\ failed' = FALSE
    /\ outcome' = None /\ canceled' = FALSE
=============================================================================
