--------------------------- MODULE SessionProofs ---------------------------
(***************************************************************************)
(* Proofs about Session, for every set of cases, placements, versions,     *)
(* memory points, selections and pipe capacity.                            *)
(*                                                                         *)
(* The same report exists in four places: the worker's memory, the pipe,   *)
(* the controller's memory and the file.  The invariant says that every    *)
(* copy is good (typed, valid, pinned to one machine and one iperf3) and   *)
(* that the copies form a chain: whatever is decided in an older copy is   *)
(* the same in every newer one.  Steps of the worker only move the newest  *)
(* copy forward; the controller only passes copies on.                     *)
(*                                                                         *)
(* The second part is about the outcome: what exit status zero means, what *)
(* the last report of a worker says, and when a case may start.            *)
(***************************************************************************)
EXTENDS Session, SequenceTheorems, TLAPS

USE CasesAssumption, PipeAssumption, JobsAssumption

PinnedResult(rep, k, r) ==
    Measured(r) =>
        /\ r.at = rep.place
        /\ k[1] \in Throughput => r.tool = rep.iperf /\ r.tool \in Iperfs

Pinned(rep) == \A k \in Keys : PinnedResult(rep, k, rep.cases[k])

GoodReports == {rep \in Report : Valid(rep) /\ Pinned(rep)}
GoodOrNone == GoodReports \cup {NoReport}

(* Nothing decided in a is lost or changed in b. *)
Leq(a, b) ==
    a # NoReport =>
        /\ b # NoReport
        /\ \A k \in Keys : a.cases[k].status \in Decided => b.cases[k] = a.cases[k]

HostType ==
    host \in [place : Placements \cup {None}, iperf : Iperfs \cup {None}]

WorkerTypes ==
    /\ pc \in Locations /\ HostType
    /\ pc # "absent" => host.place \in Placements /\ host.iperf \in Iperfs
    /\ job \in SUBSET Cases /\ failFast \in BOOLEAN
    /\ todo \in SUBSET job /\ (pc = "absent" => todo = {})
    /\ current \in Cases \cup {None}
    /\ pc \in {"case", "settle"} => current \in job
    /\ run \in [err : Errors, dirty : BOOLEAN, record : BOOLEAN]
    /\ failed \in BOOLEAN /\ canceled \in BOOLEAN /\ broken \in BOOLEAN
    /\ outcome \in {None, "ok", "error"}

ControllerTypes ==
    /\ file \in [report : GoodOrNone, error : BOOLEAN]
    /\ phase \in {"down", "prepare", "watch", "drain", "close"}
    /\ entry \in [report : GoodOrNone, error : BOOLEAN]
    /\ wanted \in SUBSET Cases
    /\ flags \in BOOLEAN /\ received \in BOOLEAN /\ stopping \in BOOLEAN
    /\ exit \in {None, "ok", "error"}

PipeType == out \in Seq(GoodReports) /\ Len(out) <= PipeCapacity

SampleSaved(rep) == \E k \in Keys : k[1] \in Throughput /\ Measured(rep.cases[k])

(* What the worker has established about its report. *)
ReportInv ==
    /\ report \in GoodOrNone
    /\ pc \notin {"absent", "start", "refused"} =>
            report \in GoodReports /\ report.place = host.place
    /\ pc \in {"open", "iperf"} /\ job \cap Throughput # {} /\ SampleSaved(report)
            => report.iperf = host.iperf
    /\ pc \in {"loop", "case", "settle"} /\ job \cap Throughput # {}
            => report.iperf = host.iperf
    /\ pc = "case" => report.cases[CaseKey(current)].status = "running"

WorkerInv == WorkerTypes /\ ReportInv

(* The reports in the pipe lie between two copies and are ordered. *)
Between(low, q, high) ==
    /\ \A i \in 1..Len(q) : Leq(low, q[i]) /\ Leq(q[i], high)
    /\ \A i, j \in 1..Len(q) : i < j => Leq(q[i], q[j])

(* The newest copy: the worker's report, or what a dead worker left in the *)
(* pipe.                                                                   *)
Chain ==
    /\ phase \notin {"watch", "drain"} => out = <<>>
    /\ broken => phase = "down" /\ pc # "absent"
    /\ phase = "down" /\ pc \in Running => broken
    /\ phase \in {"prepare", "close"} => pc = "absent"
    /\ phase # "down" => Leq(file.report, entry.report)
    /\ phase \in {"watch", "drain"} =>
            \E newest \in GoodOrNone :
                /\ Leq(entry.report, newest) /\ Between(entry.report, out, newest)
                /\ pc # "absent" => newest = report

IInv == WorkerInv /\ ControllerTypes /\ PipeType /\ Chain

-----------------------------------------------------------------------------
(* Facts about records.                                                    *)

(* A case always has a key. *)
LEMMA KeyType ==
    ASSUME NEW c \in Cases, NEW p \in Placements
    PROVE  Key(c, p) \in Keys /\ Key(c, p)[1] = c
<1>1. Queues(c, p) \in QueueCounts
  BY DEF Queues, QueueCounts
<1> QED
  BY <1>1 DEF Key, Keys

LEMMA KeyIsCase == \A k \in Keys : k[1] \in Cases
BY DEF Keys

(* A fresh result is typed, valid and measured nowhere. *)
LEMMA BlankGood ==
    ASSUME NEW s \in {"absent", "pending", "running", "failed", "canceled"},
           NEW k \in Keys, NEW rep
    PROVE  /\ Blank(s) \in CaseResult /\ Blank(s).status = s
           /\ ValidResult(k[1], Blank(s)) /\ PinnedResult(rep, k, Blank(s))
           /\ ~Measured(Blank(s))
<1>1. Blank(s) \in CaseResult
  BY DEF Blank, CaseResult, Status, Decided
<1>2. Full(k[1]) \in Nat \ {0}
  BY DEF Full
<1> QED
  BY <1>1, <1>2 DEF Blank, ValidResult, PinnedResult, Measured

(* A report is not the nil report. *)
LEMMA ReportExists == \A rep \in Report : rep # NoReport
BY DEF Report, NoReport, None

LEMMA LeqRefl == \A a : Leq(a, a)
BY DEF Leq

LEMMA LeqTrans ==
    ASSUME NEW a, NEW b, NEW c, Leq(a, b), Leq(b, c)
    PROVE  Leq(a, c)
BY DEF Leq

(* Replacing the result of a case without a verdict by a good one keeps    *)
(* the report good and loses no verdict.                                   *)
LEMMA SetCaseGood ==
    ASSUME NEW rep \in GoodReports, NEW k \in Keys, NEW r \in CaseResult,
           ValidResult(k[1], r), PinnedResult(rep, k, r),
           rep.cases[k].status \notin Decided
    PROVE  LET new == [rep EXCEPT !.cases[k] = r]
           IN  /\ new \in GoodReports /\ Leq(rep, new)
               /\ new.place = rep.place /\ new.iperf = rep.iperf
               /\ new.cases = [rep.cases EXCEPT ![k] = r]
<1> DEFINE new == [rep EXCEPT !.cases[k] = r]
<1>1. /\ new \in Report /\ new.place = rep.place /\ new.iperf = rep.iperf
      /\ new.cases = [rep.cases EXCEPT ![k] = r]
  BY DEF Report, GoodReports
<1>2. \A j \in Keys : new.cases[j] = IF j = k THEN r ELSE rep.cases[j]
  BY <1>1 DEF Report, GoodReports
<1>3. Valid(new) /\ Pinned(new)
  BY <1>1, <1>2 DEF GoodReports, Valid, Pinned, PinnedResult
<1>4. Leq(rep, new)
  BY <1>1, <1>2, ReportExists DEF Leq
<1> QED
  BY <1>1, <1>3, <1>4 DEF GoodReports

(* The first report of a machine is good. *)
LEMMA NewReportGood ==
    ASSUME NEW p \in Placements
    PROVE  /\ NewReport(p) \in GoodReports
           /\ \A k \in Keys : ~Measured(NewReport(p).cases[k])
<1> DEFINE new == NewReport(p)
<1>1. new \in Report /\ \A k \in Keys : new.cases[k] = Blank("absent")
  BY BlankGood DEF NewReport, Report
<1>2. \A k \in Keys : /\ ValidResult(k[1], new.cases[k])
                      /\ PinnedResult(new, k, new.cases[k])
                      /\ ~Measured(new.cases[k])
  BY <1>1, BlankGood
<1> QED
  BY <1>1, <1>2 DEF GoodReports, Valid, Pinned

(* prepareReport: adding cases keeps a report good, loses no verdict and   *)
(* measures nothing, when the placement may continue it.                   *)
LEMMA WithCasesGood ==
    ASSUME NEW rep \in GoodReports, NEW p \in Placements, SamePlacement(rep, p)
    PROVE  LET new == WithCases(rep, p)
           IN  /\ new \in GoodReports /\ Leq(rep, new)
               /\ new.place = p /\ new.iperf = rep.iperf
<1> DEFINE new == WithCases(rep, p)
<1>1. new \in Report /\ new.place = p /\ new.iperf = rep.iperf
  <2>1. \A k \in Keys : rep.cases[k] \in CaseResult /\ Blank("pending") \in CaseResult
    BY BlankGood DEF GoodReports, Report
  <2> QED
    BY <2>1 DEF WithCases, GoodReports, Report
<1>2. \A k \in Keys : \/ new.cases[k] = rep.cases[k]
                      \/ /\ new.cases[k] = Blank("pending")
                         /\ rep.cases[k].status = "absent"
  BY DEF WithCases, GoodReports, Report
<1>3. \A k \in Keys : ValidResult(k[1], new.cases[k])
  BY <1>2, BlankGood DEF GoodReports, Valid
<1>4. \A k \in Keys : PinnedResult(new, k, new.cases[k])
  <2> SUFFICES ASSUME NEW k \in Keys PROVE PinnedResult(new, k, new.cases[k])
    OBVIOUS
  <2>1. CASE new.cases[k] = Blank("pending")
    BY <2>1, BlankGood
  <2>2. CASE new.cases[k] = rep.cases[k]
    BY <1>1, <2>2 DEF GoodReports, Pinned, PinnedResult, SamePlacement
  <2> QED
    BY <1>2, <2>1, <2>2
<1>5. Leq(rep, new)
  BY <1>1, <1>2, ReportExists DEF Leq, Decided
<1> QED
  BY <1>1, <1>3, <1>4, <1>5 DEF GoodReports, Valid, Pinned

(* The fields FinishedAt and Error do not matter to a report's goodness. *)
LEMMA FlagsGood ==
    ASSUME NEW rep \in GoodReports, NEW f \in BOOLEAN, NEW e \in BOOLEAN
    PROVE  LET new == [rep EXCEPT !.finished = f, !.error = e]
           IN  /\ new \in GoodReports /\ Leq(rep, new)
               /\ new.place = rep.place /\ new.iperf = rep.iperf
               /\ new.cases = rep.cases
<1> DEFINE new == [rep EXCEPT !.finished = f, !.error = e]
<1>1. /\ new \in Report /\ new.place = rep.place /\ new.iperf = rep.iperf
      /\ new.cases = rep.cases
  BY DEF GoodReports, Report
<1> QED
  BY <1>1, ReportExists DEF GoodReports, Valid, Pinned, PinnedResult, Leq

(* The report the worker opens its session with. *)
LEMMA PreparedGood ==
    ASSUME WorkerInv, pc = "start",
           report # NoReport => SamePlacement(report, host.place)
    PROVE  /\ Prepared \in GoodReports /\ Leq(report, Prepared)
           /\ Prepared.place = host.place
<1>1. host.place \in Placements
  BY DEF WorkerInv, WorkerTypes
<1>2. CASE report = NoReport
  <2>1. SamePlacement(NewReport(host.place), host.place)
    BY <1>1, NewReportGood DEF SamePlacement
  <2> QED
    BY <1>1, <1>2, <2>1, NewReportGood, WithCasesGood DEF Prepared, Leq
<1>3. CASE report # NoReport
  BY <1>1, <1>3, WithCasesGood DEF Prepared, WorkerInv, ReportInv, GoodOrNone
<1> QED
  BY <1>2, <1>3

(* The deferred function: closing unfinished cases loses no verdict. *)
LEMMA FinalizedGood ==
    ASSUME WorkerInv, pc = "finish", NEW stopped \in BOOLEAN
    PROVE  /\ Finalized(stopped) \in GoodReports
           /\ Finalized(stopped).place = report.place
           /\ Leq(report, Finalized(stopped))
<1> DEFINE new == Finalized(stopped)
           closed(k) == [report.cases[k] EXCEPT
                            !.status = IF stopped THEN "canceled" ELSE "failed"]
<1>1. report \in GoodReports /\ report \in Report
  BY DEF WorkerInv, ReportInv, GoodReports
<1>2. ASSUME NEW k \in Keys
      PROVE  closed(k) \in CaseResult /\ report.cases[k] \in CaseResult
  <2>1. report.cases[k] \in CaseResult
    BY <1>1 DEF Report
  <2> QED
    BY <2>1 DEF CaseResult, Status
<1>3. \A k \in Keys : \/ new.cases[k] = report.cases[k]
                      \/ new.cases[k] = closed(k) /\ report.cases[k].status = "running"
  BY <1>1 DEF Finalized, Unfinished, Report
<1>4. new \in Report /\ new.place = report.place /\ new.iperf = report.iperf
  BY <1>1, <1>2 DEF Finalized, Report
<1>5. \A k \in Keys : /\ closed(k).points = report.cases[k].points
                      /\ closed(k).at = report.cases[k].at
                      /\ closed(k).tool = report.cases[k].tool
                      /\ closed(k).status \notin Decided
  BY <1>2 DEF CaseResult, Decided
<1>6. Valid(new)
  <2> SUFFICES ASSUME NEW k \in Keys PROVE ValidResult(k[1], new.cases[k])
    BY DEF Valid
  <2>1. ValidResult(k[1], report.cases[k])
    BY <1>1 DEF GoodReports, Valid
  <2>2. ValidResult(k[1], closed(k))
    <3>1. Full(k[1]) \in Nat
      BY DEF Full
    <3>2. closed(k).status \notin {"passed", "bug"}
      BY <1>5 DEF Decided
    <3> QED
      BY <1>5, <2>1, <3>1, <3>2 DEF ValidResult
  <2> QED
    BY <1>3, <2>1, <2>2
<1>7. Pinned(new)
  BY <1>1, <1>3, <1>4, <1>5 DEF Pinned, PinnedResult, Measured, GoodReports
<1>8. Leq(report, new)
  BY <1>3, <1>4, ReportExists DEF Leq, Decided
<1> QED
  BY <1>4, <1>6, <1>7, <1>8 DEF GoodReports

-----------------------------------------------------------------------------
(* Steps of the worker.                                                    *)

(* What every step of the worker does to the copies: its own report moves  *)
(* forward, and what it puts into the pipe is its own report.              *)
StepEffect ==
    /\ pc \in Running /\ pc' # "absent" /\ broken' = broken
    /\ Leq(report, report')
    /\ \/ out' = out
       \/ /\ ~broken /\ Len(out) < PipeCapacity
          /\ report' \in GoodReports /\ out' = Append(out, report')

(* Steps that leave the report alone. *)
LEMMA QuietSteps ==
    ASSUME WorkerInv, Refuse \/ Open \/ LoopCanceled \/ SkipCase \/ LoopEnds \/ Settle
    PROVE  WorkerInv' /\ StepEffect
<1> USE DEF worker, WorkerInv, WorkerTypes, ReportInv, HostType, Locations,
            Running, StepEffect, Leave, CaseKey, SampleSaved
<1>0. report' = report => Leq(report, report')
  BY LeqRefl
<1>1. CASE Refuse
  BY <1>0, <1>1 DEF Refuse
<1>2. CASE Open
  BY <1>0, <1>2 DEF Open, SaveOK, SaveFails
<1>3. CASE LoopCanceled
  BY <1>0, <1>3 DEF LoopCanceled
<1>4. CASE SkipCase
  BY <1>0, <1>4 DEF SkipCase
<1>5. CASE LoopEnds
  BY <1>0, <1>5 DEF LoopEnds
<1>6. CASE Settle
  <2>1. /\ report' = report /\ current' = None /\ pc' \in {"loop", "finish"}
        /\ UNCHANGED <<host, job, failFast, todo, run, canceled, broken>>
        /\ failed' \in BOOLEAN /\ outcome' \in {None, "ok", "error"}
        /\ \/ out' = out
           \/ ~broken /\ Len(out) < PipeCapacity /\ out' = Append(out, report)
    BY <1>6 DEF Settle, SaveOK, SaveFails
  <2> QED
    BY <1>0, <1>6, <2>1 DEF Settle
<1> QED
  BY <1>1, <1>2, <1>3, <1>4, <1>5, <1>6

(* The session is prepared. *)
LEMMA PrepareSteps ==
    ASSUME WorkerInv, NothingToRun \/ Prepare
    PROVE  WorkerInv' /\ StepEffect
<1> DEFINE new == [Prepared EXCEPT !.finished = FALSE, !.error = FALSE]
<1>1. /\ Prepared \in GoodReports /\ Leq(report, Prepared)
      /\ Prepared.place = host.place
  BY PreparedGood DEF NothingToRun, Prepare
<1>2. /\ new \in GoodReports /\ Leq(report, new) /\ new.place = host.place
      /\ new.iperf = Prepared.iperf /\ new.cases = Prepared.cases
  BY <1>1, FlagsGood, LeqTrans
<1>3. (IperfPinned(Prepared) => Prepared.iperf = host.iperf)
      => (job \cap Throughput # {} /\ SampleSaved(new) => new.iperf = host.iperf)
  <2> SUFFICES ASSUME IperfPinned(Prepared) => Prepared.iperf = host.iperf,
                      job \cap Throughput # {}, SampleSaved(new)
               PROVE  new.iperf = host.iperf
    OBVIOUS
  <2>1. Prepared.iperf \in Iperfs /\ SampleSaved(Prepared)
    BY <1>1, <1>2 DEF SampleSaved, GoodReports, Pinned, PinnedResult
  <2>2. IperfPinned(Prepared)
    BY <2>1 DEF IperfPinned, SampleSaved
  <2> QED
    BY <1>2, <2>2
<1> USE DEF worker, WorkerInv, WorkerTypes, ReportInv, HostType, Locations,
            Running, StepEffect
<1>4. CASE NothingToRun
  BY <1>1, <1>4 DEF NothingToRun, GoodOrNone
<1>5. CASE Prepare
  <2>1. /\ pc = "start" /\ pc' = "open" /\ report' = new
        /\ UNCHANGED <<host, job, failFast, todo, current, run, failed,
                       outcome, canceled, broken, out>>
    BY <1>5 DEF Prepare
  <2>2. job \cap Throughput # {} /\ SampleSaved(new) => new.iperf = host.iperf
    <3>1. IperfPinned(Prepared) => Prepared.iperf = host.iperf
      BY <1>5 DEF Prepare
    <3> QED
      BY <1>3, <3>1
  <2>3. SampleSaved(report)' => SampleSaved(new)
    BY <2>1 DEF SampleSaved
  <2> QED
    BY <1>2, <2>1, <2>2, <2>3 DEF GoodOrNone
<1> QED
  BY <1>4, <1>5

(* The version of iperf3 is entered into the report. *)
LEMMA IperfStep ==
    ASSUME WorkerInv, CheckIperf
    PROVE  WorkerInv' /\ StepEffect
<1> USE DEF worker, WorkerInv, WorkerTypes, ReportInv, HostType, Locations,
            Running, StepEffect, Leave
<1>0. report \in GoodReports /\ report.place = host.place /\ host.iperf \in Iperfs
  BY DEF CheckIperf
<1>1. CASE report' = report
  BY <1>0, <1>1, LeqRefl DEF CheckIperf, GoodOrNone, GoodReports, Report
<1>2. CASE report' # report
  <2> DEFINE new == [report EXCEPT !.iperf = host.iperf]
  <2>1. /\ pc = "iperf" /\ pc' = "loop" /\ report' = new /\ todo' = job
        /\ job \cap Throughput # {}
        /\ UNCHANGED <<host, job, failFast, current, run, failed, outcome,
                       canceled, broken, out>>
    BY <1>2 DEF CheckIperf
  <2>2. /\ new \in Report /\ new.place = report.place /\ new.iperf = host.iperf
        /\ new.cases = report.cases
    BY <1>0 DEF GoodReports, Report
  <2>3. \A k \in Keys : PinnedResult(new, k, new.cases[k])
    BY <1>0, <2>1, <2>2 DEF GoodReports, Pinned, PinnedResult, SampleSaved
  <2>4. new \in GoodReports /\ Leq(report, new)
    BY <1>0, <2>2, <2>3, ReportExists DEF GoodReports, Valid, Pinned, Leq
  <2> QED
    BY <1>0, <2>1, <2>2, <2>4 DEF GoodOrNone
<1> QED
  BY <1>1, <1>2

(* A case starts, is measured, ends, and the session is closed. *)
LEMMA StartStep ==
    ASSUME WorkerInv, StartCase
    PROVE  WorkerInv' /\ StepEffect
<1> USE DEF worker, WorkerInv, WorkerTypes, ReportInv, HostType, Locations,
            Running, StepEffect, Leave
<1>1. /\ pc = "loop" /\ report \in GoodReports /\ report.place = host.place
      /\ host.place \in Placements
  BY DEF StartCase
<1>2. PICK c \in todo :
        /\ report.cases[CaseKey(c)].status \notin Decided
        /\ todo' = todo \ {c} /\ current' = c
        /\ SetCase(CaseKey(c), Started(report.cases[CaseKey(c)]))
  BY DEF StartCase
<1>3. c \in Cases /\ CaseKey(c) \in Keys
  BY <1>1, KeyType DEF CaseKey
<1>4. /\ report' \in GoodReports /\ Leq(report, report')
      /\ report'.place = report.place /\ report'.iperf = report.iperf
      /\ report'.cases[CaseKey(c)] = Blank("running")
  <2> DEFINE k == CaseKey(c)
             b == Blank("running")
  <2>1. report' = [report EXCEPT !.cases[k] = b]
    BY <1>2 DEF SetCase, Started
  <2>2. b \in CaseResult /\ ValidResult(k[1], b) /\ PinnedResult(report, k, b)
    BY <1>3, BlankGood
  <2>3. /\ report' \in GoodReports /\ Leq(report, report')
        /\ report'.place = report.place /\ report'.iperf = report.iperf
        /\ report'.cases = [report.cases EXCEPT ![k] = b]
    <3> HIDE DEF b, k, WorkerInv, StepEffect
    <3> QED
      BY <1>1, <1>2, <1>3, <2>1, <2>2, SetCaseGood DEF k
  <2>4. report.cases \in [Keys -> CaseResult]
    BY <1>1 DEF GoodReports, Report
  <2> QED
    BY <1>3, <2>3, <2>4
<1>5. Blank("running").status = "running"
  BY DEF Blank
<1>6. /\ UNCHANGED <<host, job, failFast, failed, canceled, broken>>
      /\ run' \in [err : Errors, dirty : BOOLEAN, record : BOOLEAN]
      /\ pc' \in {"case", "finish"} /\ outcome' \in {None, "ok", "error"}
      /\ \/ out' = out
         \/ ~broken /\ Len(out) < PipeCapacity /\ out' = Append(out, report')
  <2>1. NoRun \in [err : Errors, dirty : BOOLEAN, record : BOOLEAN]
    BY DEF NoRun, Errors
  <2>2. CASE SaveOK(report') /\ pc' = "case" /\ run' = NoRun /\ UNCHANGED outcome
    BY <2>1, <2>2 DEF StartCase, SaveOK
  <2>3. CASE SaveFails /\ Leave("error") /\ UNCHANGED run
    BY <2>3 DEF StartCase, SaveFails
  <2> QED
    BY <2>2, <2>3 DEF StartCase
<1> QED
  BY <1>1, <1>2, <1>3, <1>4, <1>5, <1>6 DEF GoodOrNone, CaseKey

LEMMA MeasureStep ==
    ASSUME WorkerInv, Measure
    PROVE  WorkerInv' /\ StepEffect
<1> USE DEF worker, WorkerInv, WorkerTypes, ReportInv, HostType, Locations,
            Running, StepEffect
<1> DEFINE k == CaseKey(current)
           r == report.cases[k]
           more == [r EXCEPT !.points = @ + 1, !.at = host.place,
                     !.tool = IF current \in MemoryCases THEN None
                                                         ELSE host.iperf]
<1>1. /\ pc = "case" /\ report \in GoodReports /\ report.place = host.place
      /\ host.place \in Placements /\ host.iperf \in Iperfs /\ current \in Cases
      /\ r.status = "running" /\ current \in job
  BY DEF Measure
<1>2. k \in Keys /\ k[1] = current
  BY <1>1, KeyType DEF CaseKey
<1>3. r \in CaseResult /\ r.points < Full(current) /\ report' = [report EXCEPT !.cases[k] = more]
  BY <1>1, <1>2 DEF Measure, SetCase, GoodReports, Report
<1>4. /\ more \in CaseResult /\ more.status = "running"
      /\ more.points = r.points + 1 /\ more.at = host.place
      /\ current \in Throughput => more.tool = host.iperf
  <2>1. r.points + 1 \in Nat
    BY <1>3 DEF CaseResult
  <2>2. (IF current \in MemoryCases THEN None ELSE host.iperf) \in Iperfs \cup {None}
    BY <1>1
  <2> QED
    BY <1>1, <1>3, <2>1, <2>2 DEF CaseResult, Throughput
<1>5. ValidResult(k[1], more)
  <2>1. Full(current) \in Nat /\ r.points \in Nat
    BY <1>3 DEF Full, CaseResult
  <2> QED
    BY <1>2, <1>3, <1>4, <2>1 DEF ValidResult
<1>6. PinnedResult(report, k, more)
  BY <1>1, <1>2, <1>4 DEF PinnedResult
<1>7. /\ report' \in GoodReports /\ Leq(report, report')
      /\ report'.place = report.place /\ report'.iperf = report.iperf
      /\ report'.cases[k] = more
  <2>1. r.status \notin Decided
    BY <1>1 DEF Decided
  <2>2. /\ report' \in GoodReports /\ Leq(report, report')
        /\ report'.place = report.place /\ report'.iperf = report.iperf
        /\ report'.cases = [report.cases EXCEPT ![k] = more]
    <3> HIDE DEF more, k, WorkerInv, StepEffect
    <3> QED
      BY <1>1, <1>2, <1>3, <1>4, <1>5, <1>6, <2>1, SetCaseGood DEF r
  <2>3. report.cases \in [Keys -> CaseResult]
    BY <1>1 DEF GoodReports, Report
  <2> QED
    BY <1>2, <2>2, <2>3
<1>8. /\ UNCHANGED <<pc, host, job, failFast, todo, current, failed, outcome,
                     canceled, broken>>
      /\ run' \in [err : Errors, dirty : BOOLEAN, record : BOOLEAN]
      /\ \/ out' = out
         \/ ~broken /\ Len(out) < PipeCapacity /\ out' = Append(out, report')
  BY DEF Measure, SaveOK, SaveFails
<1> QED
  BY <1>1, <1>4, <1>7, <1>8 DEF GoodOrNone, CaseKey

LEMMA EndStep ==
    ASSUME WorkerInv, EndCase
    PROVE  WorkerInv' /\ StepEffect
<1> USE DEF worker, WorkerInv, WorkerTypes, ReportInv, HostType, Locations,
            Running, StepEffect
<1> DEFINE k == CaseKey(current)
           r == report.cases[k]
<1>1. /\ pc = "case" /\ report \in GoodReports /\ report.place = host.place
      /\ host.place \in Placements /\ current \in Cases /\ r.status = "running"
      /\ run.record \in BOOLEAN /\ current \in job
  BY DEF EndCase
<1>2. k \in Keys /\ k[1] = current
  BY <1>1, KeyType DEF CaseKey
<1>3. PICK err \in Errors, dirty \in BOOLEAN :
        LET e == [err |-> err, dirty |-> dirty, record |-> run.record]
        IN  /\ PossibleEnd(current, r, e)
            /\ run' = e
            /\ SetCase(k, Verdict(r, e, canceled))
  BY DEF EndCase
<1> DEFINE e == [err |-> err, dirty |-> dirty, record |-> run.record]
           v == Verdict(r, e, canceled)
<1>4. r \in CaseResult /\ ValidResult(k[1], r) /\ PinnedResult(report, k, r)
  BY <1>1, <1>2 DEF GoodReports, Report, Valid, Pinned
<1>5. /\ v \in CaseResult /\ v.points = r.points /\ v.at = r.at /\ v.tool = r.tool
      /\ v.status = "passed" => e.err = None
      /\ v.status = "bug" => v.bug # None
  <2>1. CASE e.err = None
    <3>1. v = [r EXCEPT !.status = "passed"]
      BY <2>1 DEF Verdict
    <3> QED
      BY <1>4, <2>1, <3>1 DEF CaseResult, Status, Decided
  <2>2. CASE e.err # None
    <3>1. \/ v = [r EXCEPT !.status = "canceled"]
          \/ v = [r EXCEPT !.status = "failed"]
          \/ v = [r EXCEPT !.status = "bug", !.bug = e.err] /\ e.err \in BugTypes
      BY <2>2 DEF Verdict
    <3>2. r \in [status : Status, points : Nat, bug : BugTypes \cup {None},
                  at : Placements \cup {None}, tool : Iperfs \cup {None}]
      BY <1>4 DEF CaseResult
    <3>3. CASE e.err \in BugTypes /\ v = [r EXCEPT !.status = "bug", !.bug = e.err]
      BY <2>2, <3>2, <3>3 DEF CaseResult, Status, Decided
    <3>4. CASE v = [r EXCEPT !.status = "canceled"]
      BY <3>2, <3>4 DEF CaseResult, Status, Decided
    <3>5. CASE v = [r EXCEPT !.status = "failed"]
      BY <3>2, <3>5 DEF CaseResult, Status, Decided
    <3> QED
      BY <3>1, <3>3, <3>4, <3>5
  <2> QED
    BY <2>1, <2>2
<1>6. ValidResult(k[1], v) /\ PinnedResult(report, k, v)
  <2>1. e.err = None => r.points = Full(current)
    BY <1>3 DEF PossibleEnd
  <2> QED
    BY <1>2, <1>4, <1>5, <2>1 DEF ValidResult, PinnedResult, Measured
<1>7. /\ report' \in GoodReports /\ Leq(report, report')
      /\ report'.place = report.place /\ report'.iperf = report.iperf
  <2>1. r.status \notin Decided /\ report' = [report EXCEPT !.cases[k] = v]
    BY <1>1, <1>3 DEF Decided, SetCase
  <2> HIDE DEF v, k, WorkerInv, StepEffect
  <2> QED
    BY <1>1, <1>2, <1>5, <1>6, <2>1, SetCaseGood DEF r
<1>8. /\ UNCHANGED <<host, job, failFast, todo, current, failed, outcome,
                     canceled, broken, out>>
      /\ run' \in [err : Errors, dirty : BOOLEAN, record : BOOLEAN]
      /\ pc' = "settle"
  BY <1>1, <1>3 DEF EndCase
<1> QED
  BY <1>1, <1>7, <1>8 DEF GoodOrNone, CaseKey

LEMMA FinishStep ==
    ASSUME WorkerInv, Finish
    PROVE  WorkerInv' /\ StepEffect
<1>1. /\ report' \in GoodReports /\ Leq(report, report')
      /\ report'.place = report.place
  BY FinalizedGood DEF Finish, WorkerInv, WorkerTypes
<1>2. /\ UNCHANGED <<host, job, failFast, todo, run, failed, canceled, broken>>
      /\ pc = "finish" /\ pc' = "ended" /\ current' = None
      /\ outcome' \in {None, "ok", "error"}
      /\ \/ out' = out
         \/ ~broken /\ Len(out) < PipeCapacity /\ out' = Append(out, report')
  BY DEF Finish, SaveOK, SaveFails, worker, WorkerInv, WorkerTypes
<1> QED
  BY <1>1, <1>2 DEF WorkerInv, WorkerTypes, ReportInv, HostType, Locations,
     Running, StepEffect, GoodOrNone, SampleSaved

(* Every step of the worker moves its report forward. *)
LEMMA WorkerSteps ==
    ASSUME WorkerInv, WorkerNext
    PROVE  WorkerInv' /\ StepEffect
BY QuietSteps, PrepareSteps, IperfStep, StartStep, MeasureStep, EndStep,
   FinishStep DEF WorkerNext

-----------------------------------------------------------------------------
(* The pipe between two ends of a chain.                                   *)

LEMMA BetweenGrows ==
    ASSUME NEW low, NEW q \in Seq(GoodReports), NEW high, NEW higher,
           Between(low, q, high), Leq(high, higher)
    PROVE  Between(low, q, higher)
BY LeqTrans DEF Between

LEMMA BetweenAppend ==
    ASSUME NEW low, NEW q \in Seq(GoodReports), NEW high,
           NEW r \in GoodReports, Between(low, q, high), Leq(low, high),
           Leq(high, r)
    PROVE  Between(low, Append(q, r), r)
<1> DEFINE new == Append(q, r)
<1>1. /\ Len(q) \in Nat /\ Len(new) = Len(q) + 1
      /\ \A i \in 1..Len(q) : new[i] = q[i]
      /\ new[Len(q) + 1] = r
  BY AppendProperties, LenProperties
<1>2. \A i \in 1..Len(q) : Leq(q[i], r)
  BY LeqTrans DEF Between
<1>3. Leq(low, r) /\ Leq(r, r)
  BY LeqTrans, LeqRefl
<1>4. \A i \in 1..Len(new) : i \in 1..Len(q) \/ i = Len(q) + 1
  BY <1>1
<1> HIDE DEF new
<1>5. \A i \in 1..Len(new) : Leq(low, new[i]) /\ Leq(new[i], r)
  BY <1>1, <1>2, <1>3, <1>4 DEF Between
<1>6. ASSUME NEW i \in 1..Len(new), NEW j \in 1..Len(new), i < j
      PROVE  Leq(new[i], new[j])
  <2>1. i \in 1..Len(q)
    BY <1>1, <1>6
  <2> QED
    BY <1>1, <1>2, <1>4, <1>6, <2>1 DEF Between
<1> QED
  BY <1>5, <1>6 DEF Between, new

LEMMA BetweenTail ==
    ASSUME NEW low, NEW q \in Seq(GoodReports), NEW high,
           Between(low, q, high), q # <<>>
    PROVE  /\ Head(q) \in GoodReports /\ Tail(q) \in Seq(GoodReports)
           /\ Len(Tail(q)) = Len(q) - 1 /\ Len(q) \in Nat
           /\ Leq(low, Head(q)) /\ Leq(Head(q), high)
           /\ Between(Head(q), Tail(q), high) /\ Between(low, Tail(q), high)
<1>1. /\ Head(q) \in GoodReports /\ Tail(q) \in Seq(GoodReports)
      /\ Len(Tail(q)) = Len(q) - 1 /\ Len(q) \in Nat \ {0}
      /\ \A i \in 1..Len(Tail(q)) : Tail(q)[i] = q[i + 1]
  BY HeadTailProperties, EmptySeq
<1>2. Head(q) = q[1] /\ 1 \in 1..Len(q)
  BY <1>1
<1>3. \A i \in 1..Len(Tail(q)) : i + 1 \in 1..Len(q) /\ 1 < i + 1
  BY <1>1
<1>4. \A i \in 1..Len(Tail(q)) :
        /\ Leq(low, Tail(q)[i]) /\ Leq(Tail(q)[i], high)
        /\ Leq(Head(q), Tail(q)[i])
  BY <1>1, <1>2, <1>3 DEF Between
<1>5. ASSUME NEW i \in 1..Len(Tail(q)), NEW j \in 1..Len(Tail(q)), i < j
      PROVE  Leq(Tail(q)[i], Tail(q)[j])
  <2>1. i + 1 \in 1..Len(q) /\ j + 1 \in 1..Len(q) /\ i + 1 < j + 1
    BY <1>1, <1>5
  <2> QED
    BY <1>1, <2>1 DEF Between
<1> QED
  BY <1>1, <1>2, <1>4, <1>5 DEF Between

-----------------------------------------------------------------------------
(* Steps of the session.  Each keeps the invariant and loses no verdict    *)
(* from the file.                                                          *)

FileGrows == Leq(file.report, file'.report)

LEMMA WorkerStepInv ==
    ASSUME IInv, WorkerStep
    PROVE  IInv' /\ FileGrows
<1>1. WorkerInv' /\ StepEffect
  BY WorkerSteps DEF WorkerStep, IInv
<1>2. ControllerTypes' /\ FileGrows
  BY LeqRefl DEF WorkerStep, controller, IInv, ControllerTypes, FileGrows
<1>3. PipeType'
  <2>1. CASE out' = out
    BY <2>1 DEF IInv, PipeType
  <2>2. CASE out' # out
    BY <1>1, <2>2, AppendProperties, LenProperties DEF IInv, PipeType, StepEffect
  <2> QED
    BY <2>1, <2>2
<1>4. Chain'
  <2>1. CASE phase \notin {"watch", "drain"}
    <3>1. out' = out
      BY <1>1, <2>1 DEF IInv, Chain, ControllerTypes, StepEffect, Running
    <3> QED
      BY <1>1, <2>1, <3>1 DEF WorkerStep, controller, IInv, Chain, StepEffect,
         ControllerTypes, Running
  <2>2. CASE phase \in {"watch", "drain"}
    <3>1. /\ Leq(entry.report, report) /\ Between(entry.report, out, report)
          /\ out \in Seq(GoodReports) /\ pc \in Running
      BY <1>1, <2>2 DEF IInv, Chain, PipeType, StepEffect, Running
    <3>2. Leq(report, report') /\ report' \in GoodOrNone
      BY <1>1 DEF StepEffect, WorkerInv, ReportInv
    <3>3. Leq(entry.report, report')
      BY <3>1, <3>2, LeqTrans
    <3>4. Between(entry.report, out', report')
      <4>1. CASE out' = out
        BY <3>1, <3>2, <4>1, BetweenGrows
      <4>2. CASE report' \in GoodReports /\ out' = Append(out, report')
        BY <3>1, <3>2, <4>2, BetweenAppend
      <4> QED
        BY <1>1, <4>1, <4>2 DEF StepEffect
    <3> QED
      BY <1>1, <2>2, <3>2, <3>3, <3>4
         DEF WorkerStep, controller, IInv, Chain, StepEffect
  <2> QED
    BY <2>1, <2>2
<1> QED
  BY <1>1, <1>2, <1>3, <1>4 DEF IInv

(* A process that is gone has the state of no process. *)
LEMMA VanishInv ==
    ASSUME Vanish, broken' \in BOOLEAN
    PROVE  WorkerInv' /\ pc' = "absent"
<1>1. NoRun \in [err : Errors, dirty : BOOLEAN, record : BOOLEAN]
  BY DEF NoRun, Errors
<1> QED
  BY <1>1 DEF Vanish, WorkerInv, WorkerTypes, ReportInv, HostType, Locations,
     GoodOrNone

LEMMA InitInv == Init => IInv
<1> SUFFICES ASSUME Init PROVE IInv
  OBVIOUS
<1>1. NoRun \in [err : Errors, dirty : BOOLEAN, record : BOOLEAN]
  BY DEF NoRun, Errors
<1>2. WorkerInv
  BY <1>1 DEF Init, Idle, WorkerInv, WorkerTypes, ReportInv, HostType,
     Locations, GoodOrNone
<1>3. ControllerTypes
  BY DEF Init, NoFile, Forgotten, ControllerTypes, GoodOrNone
<1>4. PipeType /\ Chain
  BY DEF Init, Idle, PipeType, Chain, Running, Locations
<1> QED
  BY <1>2, <1>3, <1>4 DEF IInv

(* The worker's own facts do not depend on the controller. *)
LEMMA WorkerKept ==
    ASSUME WorkerInv, UNCHANGED <<pc, worker, report, todo, current, run,
                                  failed, outcome, broken>>,
           canceled' \in BOOLEAN
    PROVE  WorkerInv'
BY DEF WorkerInv, WorkerTypes, ReportInv, HostType, worker, CaseKey, SampleSaved

(* A save writes the controller's copy or leaves the file alone. *)
LEMMA WriteKeeps ==
    ASSUME NEW e \in [report : GoodOrNone, error : BOOLEAN], NEW ok \in BOOLEAN,
           file \in [report : GoodOrNone, error : BOOLEAN],
           Leq(file.report, e.report), Write(e, ok)
    PROVE  /\ file' \in [report : GoodOrNone, error : BOOLEAN]
           /\ FileGrows /\ Leq(file'.report, e.report)
BY LeqRefl DEF Write, Saved, FileGrows

LEMMA InvokeInv ==
    ASSUME IInv, Invoke
    PROVE  IInv' /\ FileGrows
<1>1. WorkerInv'
  BY WorkerKept DEF Invoke, vars, IInv, WorkerInv, WorkerTypes
<1>2. /\ entry' = [report |-> file.report, error |-> file.error]
      /\ entry' \in [report : GoodOrNone, error : BOOLEAN]
      /\ entry'.report = file.report
  BY DEF Invoke, IInv, ControllerTypes
<1>3. PICK ok \in BOOLEAN :
        /\ Write(entry', ok)
        /\ phase' = IF ok THEN "prepare" ELSE "close"
        /\ exit' = IF ok THEN None ELSE "error"
  BY DEF Invoke
<1>4. /\ file' \in [report : GoodOrNone, error : BOOLEAN]
      /\ FileGrows /\ Leq(file'.report, entry'.report)
  <2>1. file \in [report : GoodOrNone, error : BOOLEAN] /\ Leq(file.report, entry'.report)
    BY <1>2, LeqRefl DEF IInv, ControllerTypes
  <2> QED
    BY <1>2, <1>3, <2>1, LeqRefl DEF Write, Saved, FileGrows
<1>5. ControllerTypes'
  <2>1. wanted' \in SUBSET Cases /\ flags' \in BOOLEAN
    BY DEF Invoke
  <2>2. phase' \in {"prepare", "close"} /\ exit' \in {None, "error"}
    BY <1>3
  <2> QED
    BY <1>2, <1>4, <2>1, <2>2 DEF Invoke, IInv, ControllerTypes
<1>6. PipeType' /\ Chain'
  BY <1>3, <1>4 DEF Invoke, vars, IInv, PipeType, Chain
<1> QED
  BY <1>1, <1>4, <1>5, <1>6 DEF IInv

(* No worker is started, or the user interrupts. *)
LEMMA IdleSteps ==
    ASSUME IInv, NothingLeft \/ PrepareFails \/ Interrupt
    PROVE  IInv' /\ FileGrows
<1>1. WorkerInv'
  BY WorkerKept DEF NothingLeft, PrepareFails, Interrupt, vars, IInv,
     WorkerInv, WorkerTypes
<1>2. /\ entry' \in [report : GoodOrNone, error : BOOLEAN]
      /\ entry'.report = entry.report /\ file' = file
  BY DEF NothingLeft, PrepareFails, Interrupt, IInv, ControllerTypes
<1>3. ControllerTypes' /\ FileGrows
  BY <1>2, LeqRefl DEF NothingLeft, PrepareFails, Interrupt, IInv,
     ControllerTypes, FileGrows
<1>4. PipeType'
  BY DEF NothingLeft, PrepareFails, Interrupt, vars, IInv, PipeType
<1>5. Chain'
  <2>1. CASE Interrupt
    BY <2>1 DEF Interrupt, vars, worker, IInv, Chain
  <2>2. CASE phase = "prepare" /\ phase' = "close" /\ UNCHANGED vars
    BY <1>2, <2>2 DEF vars, IInv, Chain
  <2> QED
    BY <2>1, <2>2 DEF NothingLeft, PrepareFails
<1> QED
  BY <1>1, <1>3, <1>4, <1>5 DEF IInv

LEMMA StartWorkerInv ==
    ASSUME IInv, StartWorker
    PROVE  IInv' /\ FileGrows
<1>1. /\ pc = "absent" /\ pc' = "start" /\ out = <<>> /\ out' = <<>>
      /\ phase' = "watch" /\ broken' = FALSE
      /\ report' = entry.report /\ entry'.report = entry.report
      /\ entry' \in [report : GoodOrNone, error : BOOLEAN] /\ file' = file
      /\ entry.report \in GoodOrNone
  BY DEF StartWorker, Launch, IInv, Chain, ControllerTypes, WorkerInv, WorkerTypes
<1>2. WorkerInv'
  <2>1. PICK p \in Placements, v \in Iperfs : host' = [place |-> p, iperf |-> v]
    BY DEF StartWorker, Launch
  <2> QED
    BY <1>1, <2>1 DEF StartWorker, Launch, IInv, ControllerTypes, WorkerInv,
       WorkerTypes, ReportInv, HostType, Locations
<1>3. ControllerTypes' /\ FileGrows
  BY <1>1, LeqRefl DEF StartWorker, IInv, ControllerTypes, FileGrows
<1>4. PipeType'
  BY <1>1 DEF IInv, PipeType
<1>5. Chain'
  <2>1. Leq(entry'.report, report') /\ Between(entry'.report, out', report')
    BY <1>1, LeqRefl DEF Between
  <2> QED
    BY <1>1, <2>1 DEF IInv, Chain, StartWorker
<1> QED
  BY <1>2, <1>3, <1>4, <1>5 DEF IInv

LEMMA SaveUpdateInv ==
    ASSUME IInv, SaveUpdate
    PROVE  IInv' /\ FileGrows
<1>1. PICK newest \in GoodOrNone :
        /\ Leq(entry.report, newest) /\ Between(entry.report, out, newest)
        /\ pc # "absent" => newest = report
  BY DEF SaveUpdate, IInv, Chain
<1>2. /\ out \in Seq(GoodReports) /\ out # <<>> /\ out' = Tail(out)
      /\ Len(out) <= PipeCapacity
  BY DEF SaveUpdate, IInv, PipeType
<1>3. /\ Head(out) \in GoodReports /\ out' \in Seq(GoodReports)
      /\ Len(out') = Len(out) - 1 /\ Len(out) \in Nat
      /\ Leq(entry.report, Head(out)) /\ Leq(Head(out), newest)
      /\ Between(Head(out), out', newest)
  BY <1>1, <1>2, BetweenTail
<1>4. /\ entry' \in [report : GoodOrNone, error : BOOLEAN]
      /\ entry'.report = Head(out)
  BY <1>3 DEF SaveUpdate, IInv, ControllerTypes, GoodOrNone
<1>5. PICK ok \in BOOLEAN :
        /\ Write(entry', ok)
        /\ phase' = IF ok THEN "watch" ELSE "drain"
        /\ received' = (received \/ ok)
        /\ stopping' = (stopping \/ ~ok)
  BY DEF SaveUpdate
<1>6. /\ file' \in [report : GoodOrNone, error : BOOLEAN]
      /\ FileGrows /\ Leq(file'.report, entry'.report)
  <2>1. /\ file \in [report : GoodOrNone, error : BOOLEAN]
        /\ Leq(file.report, entry'.report)
    BY <1>3, <1>4, LeqTrans DEF SaveUpdate, IInv, ControllerTypes, Chain
  <2> QED
    BY <1>4, <1>5, <2>1, LeqRefl DEF Write, Saved, FileGrows
<1>7. ControllerTypes'
  <2>1. received' \in BOOLEAN /\ stopping' \in BOOLEAN
    BY <1>5 DEF IInv, ControllerTypes
  <2> QED
    BY <1>4, <1>5, <1>6, <2>1 DEF SaveUpdate, IInv, ControllerTypes
<1>8. WorkerInv'
  BY WorkerKept DEF SaveUpdate, IInv, WorkerInv, WorkerTypes
<1>9. PipeType'
  BY <1>2, <1>3, PipeAssumption DEF PipeType
<1>10. Chain'
  <2>1. pc' = pc /\ broken' = broken /\ report' = report /\ phase' \in {"watch", "drain"}
    BY <1>5 DEF SaveUpdate
  <2> QED
    BY <1>1, <1>3, <1>4, <1>6, <2>1 DEF SaveUpdate, IInv, Chain
<1> QED
  BY <1>6, <1>7, <1>8, <1>9, <1>10 DEF IInv

LEMMA DrainInv ==
    ASSUME IInv, Drain
    PROVE  IInv' /\ FileGrows
<1>1. PICK newest \in GoodOrNone :
        /\ Leq(entry.report, newest) /\ Between(entry.report, out, newest)
        /\ pc # "absent" => newest = report
  BY DEF Drain, IInv, Chain
<1>2. /\ out \in Seq(GoodReports) /\ out # <<>> /\ out' = Tail(out)
      /\ Len(out) <= PipeCapacity
  BY DEF Drain, Receive, IInv, PipeType
<1>3. /\ out' \in Seq(GoodReports) /\ Len(out') = Len(out) - 1 /\ Len(out) \in Nat
      /\ Between(entry.report, out', newest)
  BY <1>1, <1>2, BetweenTail
<1>4. WorkerInv'
  BY WorkerKept DEF Drain, Receive, IInv, WorkerInv, WorkerTypes
<1>5. ControllerTypes' /\ FileGrows
  BY LeqRefl DEF Drain, controller, IInv, ControllerTypes, FileGrows
<1>6. PipeType'
  BY <1>2, <1>3, PipeAssumption DEF PipeType
<1>7. Chain'
  BY <1>1, <1>3 DEF Drain, Receive, controller, IInv, Chain
<1> QED
  BY <1>4, <1>5, <1>6, <1>7 DEF IInv

LEMMA ReapInv ==
    ASSUME IInv, Reap
    PROVE  IInv' /\ FileGrows
<1>1. WorkerInv' /\ pc' = "absent" /\ broken' = FALSE
  BY VanishInv DEF Reap
<1>2. /\ entry' = [entry EXCEPT !.error = @ \/ WorkerFailed]
      /\ entry \in [report : GoodOrNone, error : BOOLEAN]
      /\ Leq(file.report, entry.report)
  BY DEF Reap, IInv, ControllerTypes, Chain
<1>3. entry' \in [report : GoodOrNone, error : BOOLEAN] /\ entry'.report = entry.report
  BY <1>2
<1>4. PICK ok \in BOOLEAN :
        /\ Write(entry', ok)
        /\ exit' = IF ok /\ ~WorkerFailed THEN "ok" ELSE "error"
  BY DEF Reap
<1>5. /\ file' \in [report : GoodOrNone, error : BOOLEAN]
      /\ FileGrows /\ Leq(file'.report, entry'.report)
  BY <1>2, <1>3, <1>4, LeqRefl DEF Write, Saved, FileGrows, IInv, ControllerTypes
<1>6. ControllerTypes'
  BY <1>3, <1>4, <1>5 DEF Reap, IInv, ControllerTypes
<1>7. PipeType' /\ Chain'
  BY <1>1, <1>5 DEF Reap, IInv, PipeType, Chain
<1> QED
  BY <1>1, <1>5, <1>6, <1>7 DEF IInv

LEMMA CloseInv ==
    ASSUME IInv, Close
    PROVE  IInv' /\ FileGrows
<1>1. WorkerInv'
  BY WorkerKept DEF Close, vars, IInv, WorkerInv, WorkerTypes
<1>2. PICK ok \in BOOLEAN :
        /\ Write(entry, ok)
        /\ exit' = IF ok /\ ~stopping THEN exit ELSE "error"
  BY DEF Close
<1>3. file' \in [report : GoodOrNone, error : BOOLEAN] /\ FileGrows
  <2>1. /\ entry \in [report : GoodOrNone, error : BOOLEAN]
        /\ file \in [report : GoodOrNone, error : BOOLEAN]
        /\ Leq(file.report, entry.report)
    BY DEF Close, IInv, ControllerTypes, Chain
  <2> QED
    BY <1>2, <2>1, LeqRefl DEF Write, Saved, FileGrows
<1>4. ControllerTypes'
  <2>1. entry' \in [report : GoodOrNone, error : BOOLEAN]
    BY DEF Close, Forgotten, GoodOrNone
  <2> QED
    BY <1>2, <1>3, <2>1 DEF Close, IInv, ControllerTypes
<1>5. PipeType' /\ Chain'
  BY DEF Close, vars, IInv, PipeType, Chain, Running
<1> QED
  BY <1>1, <1>3, <1>4, <1>5 DEF IInv

LEMMA CancelWorkerInv ==
    ASSUME IInv, CancelWorker
    PROVE  IInv' /\ FileGrows
<1>1. WorkerInv'
  BY WorkerKept DEF CancelWorker, Cancel, IInv
<1>2. ControllerTypes' /\ FileGrows /\ PipeType'
  BY LeqRefl DEF CancelWorker, Cancel, controller, IInv, ControllerTypes,
     PipeType, FileGrows
<1>3. Chain'
  BY DEF CancelWorker, Cancel, controller, IInv, Chain
<1> QED
  BY <1>1, <1>2, <1>3 DEF IInv

(* A worker dies: what it wrote stays in the pipe, in order. *)
LEMMA WorkerDiesInv ==
    ASSUME IInv, WorkerDies
    PROVE  IInv' /\ FileGrows
<1>1. WorkerInv' /\ pc' = "absent"
  BY VanishInv DEF WorkerDies, IInv, WorkerInv, WorkerTypes
<1>2. ControllerTypes' /\ FileGrows /\ PipeType'
  BY LeqRefl DEF WorkerDies, controller, IInv, ControllerTypes, PipeType, FileGrows
<1>3. phase \in {"watch", "drain"}
  BY DEF WorkerDies, IInv, Chain, ControllerTypes, Running
<1>4. Chain'
  BY <1>1, <1>3 DEF WorkerDies, controller, IInv, Chain
<1> QED
  BY <1>1, <1>2, <1>4 DEF IInv

(* The controller dies: its memory and the pipe are lost, the file is not. *)
LEMMA ControllerDiesInv ==
    ASSUME IInv, ControllerDies
    PROVE  IInv' /\ FileGrows
<1>1. ControllerTypes' /\ FileGrows /\ PipeType'
  <2>1. file' = file /\ out' = <<>> /\ entry' = Forgotten
    BY DEF ControllerDies
  <2>2. ControllerTypes'
    <3>1. Forgotten \in [report : GoodOrNone, error : BOOLEAN]
      BY DEF Forgotten, GoodOrNone
    <3>2. /\ phase' = "down" /\ wanted' = {} /\ flags' = FALSE
          /\ received' = FALSE /\ stopping' = FALSE /\ exit' = None
      BY DEF ControllerDies
    <3> QED
      BY <2>1, <3>1, <3>2 DEF IInv, ControllerTypes
  <2>3. FileGrows
    BY <2>1, LeqRefl DEF FileGrows
  <2>4. PipeType'
    <3>1. <<>> \in Seq(GoodReports) /\ Len(<<>>) = 0
      OBVIOUS
    <3> QED
      BY <2>1, <3>1, PipeAssumption DEF PipeType
  <2> QED
    BY <2>2, <2>3, <2>4
<1>2. CASE pc \in Running
  <2>1. WorkerInv'
    BY <1>2 DEF ControllerDies, IInv, WorkerInv, WorkerTypes, ReportInv,
       HostType, worker, CaseKey, SampleSaved
  <2>2. Chain'
    BY <1>2 DEF ControllerDies, IInv, Chain, Running
  <2> QED
    BY <1>1, <2>1, <2>2 DEF IInv
<1>3. CASE pc \notin Running
  <2>1. WorkerInv' /\ pc' = "absent" /\ broken' = FALSE
    BY <1>3, VanishInv DEF ControllerDies
  <2>2. Chain'
    BY <2>1 DEF ControllerDies, Chain, Running
  <2> QED
    BY <1>1, <2>1, <2>2 DEF IInv
<1> QED
  BY <1>2, <1>3

LEMMA OrphanGoneInv ==
    ASSUME IInv, OrphanGone
    PROVE  IInv' /\ FileGrows
<1>1. WorkerInv' /\ pc' = "absent" /\ broken' = FALSE
  BY VanishInv DEF OrphanGone
<1>2. ControllerTypes' /\ FileGrows /\ PipeType'
  BY LeqRefl DEF OrphanGone, controller, IInv, ControllerTypes, PipeType, FileGrows
<1>3. Chain'
  BY <1>1 DEF OrphanGone, controller, IInv, Chain, Running
<1> QED
  BY <1>1, <1>2, <1>3 DEF IInv

(* Nothing happens. *)
LEMMA StutterInv ==
    ASSUME IInv, UNCHANGED allVars
    PROVE  IInv' /\ FileGrows
<1>1. WorkerInv'
  BY WorkerKept DEF allVars, vars, IInv, WorkerInv, WorkerTypes
<1>2. ControllerTypes' /\ PipeType' /\ FileGrows
  BY LeqRefl DEF allVars, vars, controller, IInv, ControllerTypes, PipeType,
     FileGrows
<1>3. Chain'
  BY DEF allVars, vars, controller, IInv, Chain
<1> QED
  BY <1>1, <1>2, <1>3 DEF IInv

LEMMA StepInv ==
    ASSUME IInv, [Next]_allVars
    PROVE  IInv' /\ FileGrows
BY WorkerStepInv, InvokeInv, IdleSteps, StartWorkerInv, SaveUpdateInv, DrainInv,
   ReapInv, CloseInv, CancelWorkerInv, WorkerDiesInv, ControllerDiesInv,
   OrphanGoneInv, StutterInv DEF Next, ControllerStep

-----------------------------------------------------------------------------
(* The theorems.                                                           *)

(* Every reachable state satisfies the inductive invariant: every copy of  *)
(* the report is good, and the copies in the file, the controller, the     *)
(* pipe and the worker agree on what is decided.                           *)
THEOREM Invariance == Spec => []IInv
<1>1. Init => IInv
  BY InitInv
<1>2. IInv /\ [Next]_allVars => IInv'
  BY StepInv
<1> QED
  BY <1>1, <1>2, PTL DEF Spec

(* Every variable keeps its type and the pipe its capacity. *)
THEOREM TypeCorrect == Spec => []TypeOK
<1>1. IInv => TypeOK
  <2> SUFFICES ASSUME IInv PROVE TypeOK
    OBVIOUS
  <2>1. GoodReports \subseteq Report /\ GoodOrNone \subseteq Reports
    BY DEF GoodReports, GoodOrNone, Reports
  <2>2. /\ pc \in Locations
        /\ host \in [place : Placements \cup {None}, iperf : Iperfs \cup {None}]
        /\ pc # "absent" => host.place # None /\ host.iperf # None
        /\ job \subseteq Cases /\ failFast \in BOOLEAN
        /\ todo \subseteq job /\ current \in Cases \cup {None}
        /\ pc \in {"case", "settle"} => current \in job
        /\ run \in [err : Errors, dirty : BOOLEAN, record : BOOLEAN]
        /\ failed \in BOOLEAN /\ canceled \in BOOLEAN /\ broken \in BOOLEAN
        /\ outcome \in {None, "ok", "error"}
    BY CasesAssumption DEF IInv, WorkerInv, WorkerTypes, HostType
  <2>3. /\ report \in Reports
        /\ pc \notin {"absent", "start", "refused"} => report # NoReport
    BY <2>1, ReportExists DEF IInv, WorkerInv, ReportInv
  <2>4. out \in Seq(Report) /\ Len(out) <= PipeCapacity
    BY <2>1 DEF IInv, PipeType
  <2>5. /\ file \in [report : Reports, error : BOOLEAN]
        /\ entry \in [report : Reports, error : BOOLEAN]
        /\ phase \in {"down", "prepare", "watch", "drain", "close"}
        /\ wanted \subseteq Cases
        /\ flags \in BOOLEAN /\ received \in BOOLEAN /\ stopping \in BOOLEAN
        /\ exit \in {None, "ok", "error"}
    BY <2>1 DEF IInv, ControllerTypes
  <2> QED
    BY <2>2, <2>3, <2>4, <2>5 DEF TypeOK
<1> QED
  BY <1>1, Invariance, PTL

(* The file always passes the validation of the next invocation. *)
THEOREM FileResumable == Spec => []Resumable
<1>1. IInv => Resumable
  BY DEF IInv, ControllerTypes, Resumable, Readable, GoodOrNone, GoodReports
<1> QED
  BY <1>1, Invariance, PTL

(* Every number in the file was measured on the machine and with the       *)
(* iperf3 the report names.                                                *)
THEOREM FilePinned == Spec => []MeasuredHere
<1>1. IInv => MeasuredHere
  BY DEF IInv, ControllerTypes, MeasuredHere, GoodOrNone, GoodReports, Pinned,
     PinnedResult
<1> QED
  BY <1>1, Invariance, PTL

(* The file implements the ledger: no verdict in it is ever changed or     *)
(* taken back, over every crash, resume, retry and cancellation.           *)
THEOREM VerdictsAreFinal == Spec => VerdictsFinal
<1> DEFINE Verdicts == {r \in CaseResult : r.status \in Decided}
           open == Blank("absent")
           of(f) == [k \in Keys |->
                IF f.report = NoReport \/ f.report.cases[k].status \notin Decided
                THEN open ELSE f.report.cases[k]]
<1>1. open.status \notin Decided
  BY DEF Blank, Decided
<1>2. Init => FileLedger!Init
  BY DEF Init, NoFile, FileLedger!Init
<1>3. ASSUME IInv, [Next]_allVars
      PROVE  [FileLedger!Next]_(of(file))
  <2>1. IInv' /\ FileGrows
    BY <1>3, StepInv
  <2>2. of(file)' = of(file')
    OBVIOUS
  <2>3. file'.report \in GoodOrNone
    BY <2>1 DEF IInv, ControllerTypes
  <2>4. of(file') \in [Keys -> Verdicts \cup {open}]
    <3> SUFFICES ASSUME NEW k \in Keys, file'.report # NoReport,
                        file'.report.cases[k].status \in Decided
                 PROVE  file'.report.cases[k] \in Verdicts
      OBVIOUS
    <3> QED
      BY <2>3 DEF GoodOrNone, GoodReports, Report
  <2>5. ASSUME NEW k \in Keys, of(file)[k] # open
        PROVE  of(file')[k] = of(file)[k]
    <3>1. /\ file.report # NoReport /\ file.report.cases[k].status \in Decided
          /\ of(file)[k] = file.report.cases[k]
      BY <2>5
    <3>2. /\ file'.report # NoReport
          /\ file'.report.cases[k] = file.report.cases[k]
      BY <2>1, <3>1 DEF FileGrows, Leq
    <3> QED
      BY <3>1, <3>2
  <2> QED
    BY <2>2, <2>4, <2>5 DEF FileLedger!Next, FileLedger!Record
<1> QED
  BY <1>2, <1>3, Invariance, PTL DEF Spec, VerdictsFinal, FileLedger!Spec
-----------------------------------------------------------------------------
(* The first part shows that verdicts are not lost on their way.  The      *)
(* invariant of this one follows the loop of the worker: which of the      *)
(* cases it has visited are decided, what it knows of the benchmark        *)
(* before, what it marks in the report at the end; and then how the exit   *)
(* status travels to the controller and the report through the pipe to the *)
(* file.                                                                   *)

(* All cases of a set have a verdict in the worker's report. *)
Settled(S) == \A c \in S : report.cases[CaseKey(c)].status \in Decided

(* What the loop knows of the cases it has visited: without a failure, all *)
(* of them have a verdict; with --fail-fast there is no failure.           *)
VisitInv ==
    /\ pc \in {"absent", "start", "open", "iperf"} => ~failed
    /\ failFast /\ pc \in {"loop", "case", "settle"} => ~failed
    /\ pc = "loop" /\ ~failed => Settled(job \ todo)
    /\ pc \in {"case", "settle"} /\ ~failed =>
            Settled(job \ (todo \cup {current}))
    /\ outcome = "ok" /\ pc \in {"finish", "ended"} => Settled(job)
    /\ pc \in {"finish", "ended"} => outcome \in {"ok", "error"}

(* How the last benchmark ended, and what was made of it: the loop only    *)
(* goes on from a clean host.                                              *)
RunInv ==
    /\ pc \in {"absent", "start", "open", "iperf", "loop"} => ~run.dirty
    /\ pc = "settle" /\ run.err = None =>
            ~run.dirty /\ report.cases[CaseKey(current)].status \in Decided
    /\ pc = "settle" /\ report.cases[CaseKey(current)].status = "bug" =>
            ~run.dirty

(* The marks of the report follow the session. *)
MarkInv ==
    /\ pc \in {"open", "iperf", "loop", "case", "settle", "finish"} =>
            ~report.error
    /\ pc = "ended" => /\ report.finished
                       /\ ~broken => report.error = (outcome = "error")
                       /\ \A c \in job :
                            report.cases[CaseKey(c)].status # "running"

LoopInv == VisitInv /\ RunInv /\ MarkInv

(* The last report that was sent and may still be on its way. *)
Newest == IF out = <<>> THEN entry.report ELSE out[Len(out)]

(* The controller watches the worker of its cases; one that refuses sends  *)
(* nothing, and the last report of one that ended is the one it ended with.*)
LinkInv ==
    /\ phase \in {"watch", "drain"} /\ pc # "absent" => job = wanted
    /\ phase = "watch" /\ pc \in {"start", "refused"} => out = <<>> /\ ~received
    /\ phase = "watch" /\ pc = "ended" => Newest = report

(* What the exit status says is in the file that is closed. *)
ExitInv ==
    /\ phase = "close" /\ exit = "ok" =>
            Completed(wanted, entry.report) = wanted
    /\ SuccessIsComplete

OInv == LoopInv /\ LinkInv /\ ExitInv

-----------------------------------------------------------------------------
(* Steps of the worker.                                                    *)

(* What has a verdict before a step has one after it. *)
LEMMA SettledKept ==
    ASSUME WorkerInv, pc \notin {"absent", "start", "refused"}, StepEffect,
           host' = host, NEW S \in SUBSET job, Settled(S)
    PROVE  \A c \in S : report'.cases[Key(c, host'.place)].status \in Decided
<1>1. /\ report \in GoodReports /\ host.place \in Placements
      /\ job \in SUBSET Cases
  BY DEF WorkerInv, WorkerTypes, ReportInv
<1>2. report # NoReport
  BY <1>1, ReportExists DEF GoodReports
<1>3. \A k \in Keys : report.cases[k].status \in Decided
                        => report'.cases[k] = report.cases[k]
  BY <1>2 DEF StepEffect, Leq
<1>4. \A c \in S : Key(c, host.place) \in Keys
  BY <1>1, KeyType
<1> QED
  BY <1>3, <1>4 DEF Settled, CaseKey

(* Before the loop nothing has been visited. *)
LEMMA OpeningLoop ==
    ASSUME WorkerInv, LoopInv,
           Refuse \/ NothingToRun \/ Prepare \/ Open \/ CheckIperf
    PROVE  LoopInv'
<1> USE DEF LoopInv, VisitInv, RunInv, MarkInv, worker, Leave
<1>1. CASE Refuse
  BY <1>1 DEF Refuse
<1>2. CASE NothingToRun
  BY <1>2 DEF NothingToRun
<1>3. CASE Prepare
  <2>1. Prepared \in GoodReports
    BY <1>3, PreparedGood DEF Prepare
  <2>2. report' = [Prepared EXCEPT !.finished = FALSE, !.error = FALSE]
    BY <1>3 DEF Prepare
  <2>3. ~report'.error
    BY <2>1, <2>2 DEF GoodReports, Report
  <2> QED
    BY <1>3, <2>3 DEF Prepare
<1>4. CASE Open
  BY <1>4 DEF Open
<1>5. CASE CheckIperf
  <2>1. report \in Report /\ ~report.error /\ ~failed /\ ~run.dirty
    BY <1>5 DEF CheckIperf, WorkerInv, ReportInv, GoodReports
  <2>2. ~report'.error
    BY <1>5, <2>1 DEF CheckIperf, Report
  <2>3. /\ UNCHANGED <<failFast, failed, run>>
        /\ \/ pc' = "loop" /\ todo' = job /\ job' = job
           \/ pc' = "finish" /\ outcome' = "error"
    BY <1>5 DEF CheckIperf
  <2> QED
    BY <2>1, <2>2, <2>3 DEF Settled
<1> QED
  BY <1>1, <1>2, <1>3, <1>4, <1>5

(* The loop passes over a case, ends, or is left. *)
LEMMA PassingLoop ==
    ASSUME WorkerInv, LoopInv, LoopCanceled \/ SkipCase \/ LoopEnds
    PROVE  LoopInv'
<1> USE DEF LoopInv, VisitInv, RunInv, MarkInv, worker, Leave
<1>1. CASE LoopCanceled
  BY <1>1 DEF LoopCanceled
<1>2. CASE SkipCase
  <2>1. PICK c \in todo : /\ report.cases[CaseKey(c)].status \in Decided
                          /\ todo' = todo \ {c}
    BY <1>2 DEF SkipCase
  <2>2. ~failed => Settled(job \ todo')
    BY <1>2, <2>1 DEF SkipCase, Settled
  <2>3. UNCHANGED <<pc, host, job, failFast, report, current, run, failed,
                    outcome, broken>> /\ pc = "loop"
    BY <1>2 DEF SkipCase
  <2>4. ~failed' => Settled(job \ todo)'
    BY <2>2, <2>3 DEF Settled, CaseKey
  <2> QED
    BY <2>3, <2>4
<1>3. CASE LoopEnds
  <2>1. /\ pc = "loop" /\ todo = {} /\ pc' = "finish"
        /\ outcome' = (IF failed THEN "error" ELSE "ok")
        /\ UNCHANGED <<host, job, report>>
    BY <1>3 DEF LoopEnds
  <2>2. ~failed => Settled(job)'
    BY <2>1 DEF Settled, CaseKey
  <2> QED
    BY <2>1, <2>2
<1> QED
  BY <1>1, <1>2, <1>3

(* A case starts or is measured: its verdict is still to come. *)
LEMMA RunningLoop ==
    ASSUME WorkerInv, LoopInv, StartCase \/ Measure
    PROVE  LoopInv'
<1>0. StepEffect
  BY StartStep, MeasureStep
<1>1. report \in Report /\ pc \in {"loop", "case"}
  BY DEF StartCase, Measure, WorkerInv, ReportInv, GoodReports
<1>2. \A k, r : SetCase(k, r) => report'.error = report.error
  BY <1>1 DEF SetCase, Report
<1>3. report'.error = report.error
  BY <1>2 DEF StartCase, Measure
<1>4. UNCHANGED <<host, job, failFast, failed, broken>>
  BY DEF StartCase, Measure, worker
<1>5. CASE StartCase
  <2>1. PICK c \in todo : todo' = todo \ {c} /\ current' = c
    BY <1>5 DEF StartCase
  <2>2. todo' \cup {current'} = todo
    BY <2>1
  <2>3. pc = "loop" /\ (pc' = "case" \/ (pc' = "finish" /\ outcome' = "error"))
    BY <1>5 DEF StartCase, Leave
  <2>4. ~failed => Settled(job \ (todo \cup {current}))'
    <3> SUFFICES ASSUME ~failed PROVE Settled(job \ (todo \cup {current}))'
      OBVIOUS
    <3>1. Settled(job \ todo)
      BY <2>3 DEF LoopInv, VisitInv
    <3>2. \A d \in job \ todo : report'.cases[Key(d, host'.place)].status \in Decided
      BY <1>0, <1>4, <2>3, <3>1, SettledKept
    <3> QED
      BY <1>4, <2>2, <3>2 DEF Settled, CaseKey
  <2> QED
    BY <1>3, <1>4, <2>3, <2>4 DEF LoopInv, VisitInv, RunInv, MarkInv
<1>6. CASE Measure
  <2>1. pc = "case" /\ pc' = "case" /\ UNCHANGED <<todo, current>>
    BY <1>6 DEF Measure
  <2>2. ~failed => Settled(job \ (todo \cup {current}))'
    <3> SUFFICES ASSUME ~failed PROVE Settled(job \ (todo \cup {current}))'
      OBVIOUS
    <3>1. Settled(job \ (todo \cup {current}))
      BY <2>1 DEF LoopInv, VisitInv
    <3>2. \A c \in job \ (todo \cup {current}) :
            report'.cases[Key(c, host'.place)].status \in Decided
      BY <1>0, <1>4, <2>1, <3>1, SettledKept
    <3> QED
      BY <1>4, <2>1, <3>2 DEF Settled, CaseKey
  <2> QED
    BY <1>3, <1>4, <2>1, <2>2 DEF LoopInv, VisitInv, RunInv, MarkInv
<1> QED
  BY <1>5, <1>6

(* The benchmark ends: only one that ended well, or a clean one with a     *)
(* bug, gives a verdict.                                                   *)
LEMMA EndingLoop ==
    ASSUME WorkerInv, LoopInv, EndCase
    PROVE  LoopInv'
<1> DEFINE k == CaseKey(current)
           r == report.cases[k]
<1>0. StepEffect
  BY EndStep
<1>1. /\ pc = "case" /\ pc' = "settle" /\ report \in Report
      /\ host.place \in Placements /\ current \in Cases /\ current \in job
      /\ r.status = "running"
      /\ UNCHANGED <<host, job, failFast, todo, current, failed, outcome, broken>>
  BY DEF EndCase, worker, WorkerInv, WorkerTypes, ReportInv, GoodReports
<1>2. k \in Keys /\ r \in CaseResult
  BY <1>1, KeyType DEF CaseKey, Report
<1>3. PICK err \in Errors, dirty \in BOOLEAN :
        LET e == [err |-> err, dirty |-> dirty, record |-> run.record]
        IN  /\ PossibleEnd(current, r, e)
            /\ run' = e
            /\ SetCase(k, Verdict(r, e, canceled))
  BY DEF EndCase
<1> DEFINE e == [err |-> err, dirty |-> dirty, record |-> run.record]
           v == Verdict(r, e, canceled)
<1>4. /\ e.err = None => ~e.dirty /\ v.status \in Decided
      /\ v.status = "bug" => ~e.dirty
  <2>1. CASE e.err = None
    <3>1. v = [r EXCEPT !.status = "passed"] /\ ~e.dirty
      BY <1>3, <2>1 DEF Verdict, PossibleEnd
    <3> QED
      BY <1>2, <3>1 DEF CaseResult, Decided
  <2>2. CASE e.err # None
    <3>1. \/ v = [r EXCEPT !.status = "canceled"]
          \/ v = [r EXCEPT !.status = "failed"]
          \/ ~e.dirty
      BY <2>2 DEF Verdict
    <3> QED
      BY <1>2, <2>2, <3>1 DEF CaseResult
  <2> QED
    BY <2>1, <2>2
<1>5. /\ report' = [report EXCEPT !.cases[k] = v] /\ run' = e
  BY <1>3 DEF SetCase
<1> HIDE DEF v, e, k
<1>6. /\ report'.error = report.error /\ report'.cases[k] = v
  BY <1>1, <1>2, <1>5 DEF Report
<1>7. ~failed => Settled(job \ (todo \cup {current}))'
  <2> SUFFICES ASSUME ~failed PROVE Settled(job \ (todo \cup {current}))'
    OBVIOUS
  <2>1. Settled(job \ (todo \cup {current}))
    BY <1>1 DEF LoopInv, VisitInv
  <2>2. \A c \in job \ (todo \cup {current}) :
          report'.cases[Key(c, host'.place)].status \in Decided
    BY <1>0, <1>1, <2>1, SettledKept
  <2> QED
    BY <1>1, <2>2 DEF Settled, CaseKey
<1>8. CaseKey(current)' = k
  BY <1>1 DEF CaseKey, k
<1>9. /\ VisitInv'
  BY <1>1, <1>7 DEF LoopInv, VisitInv
<1>10. RunInv'
  BY <1>1, <1>4, <1>5, <1>6, <1>8 DEF RunInv
<1>11. MarkInv'
  BY <1>1, <1>6 DEF LoopInv, MarkInv
<1> QED
  BY <1>9, <1>10, <1>11 DEF LoopInv

(* The verdict is saved and the loop goes on or gives up. *)
LEMMA SettlingLoop ==
    ASSUME WorkerInv, LoopInv, Settle
    PROVE  LoopInv'
<1> DEFINE status == report.cases[CaseKey(current)].status
<1>1. /\ pc = "settle" /\ UNCHANGED <<host, job, failFast, report, todo, run, broken>>
      /\ current \in job /\ ~report.error
      /\ failed \in BOOLEAN /\ failFast \in BOOLEAN
  BY DEF Settle, worker, WorkerInv, WorkerTypes, LoopInv, MarkInv
<1>2. \/ pc' = "finish" /\ outcome' = "error"
      \/ /\ pc' = "loop" /\ failed' = failed
         /\ status = "bug" \/ run.err = None
      \/ pc' = "loop" /\ failed' = TRUE /\ ~GivesUp(run)
  BY DEF Settle, Leave
<1>3. CASE pc' = "finish" /\ outcome' = "error"
  BY <1>1, <1>3 DEF LoopInv, VisitInv, RunInv, MarkInv
<1>4. CASE /\ pc' = "loop" /\ failed' = failed
           /\ status = "bug" \/ run.err = None
  <2>1. status \in Decided /\ ~run.dirty
    BY <1>1, <1>4 DEF LoopInv, RunInv, Decided
  <2>2. ~failed => Settled(job \ (todo \cup {current}))
    BY <1>1 DEF LoopInv, VisitInv
  <2>3. ~failed => Settled(job \ todo)
    BY <2>1, <2>2 DEF Settled
  <2>4. ~failed' => Settled(job \ todo)'
    BY <1>1, <1>4, <2>3 DEF Settled, CaseKey
  <2>5. failFast' => ~failed'
    BY <1>1, <1>4 DEF LoopInv, VisitInv
  <2> QED
    BY <1>1, <1>4, <2>1, <2>4, <2>5 DEF LoopInv, VisitInv, RunInv, MarkInv
<1>5. CASE pc' = "loop" /\ failed' = TRUE /\ ~GivesUp(run)
  BY <1>1, <1>5 DEF GivesUp, LoopInv, VisitInv, RunInv, MarkInv
<1> QED
  BY <1>2, <1>3, <1>4, <1>5

(* The deferred function closes the session. *)
LEMMA ClosingLoop ==
    ASSUME WorkerInv, LoopInv, Finish
    PROVE  LoopInv'
<1>0. StepEffect
  BY FinishStep
<1>1. /\ pc = "finish" /\ pc' = "ended" /\ report' = Finalized(canceled)
      /\ UNCHANGED <<host, job, failFast, todo, run, failed, broken>>
      /\ report \in Report /\ host.place \in Placements /\ job \in SUBSET Cases
      /\ ~report.error /\ outcome \in {"ok", "error"}
  BY DEF Finish, worker, WorkerInv, WorkerTypes, ReportInv, GoodReports,
     LoopInv, MarkInv, VisitInv
<1>2. \/ outcome' = outcome
      \/ broken /\ outcome' = "error"
  BY DEF Finish, SaveFails
<1>3. report'.finished /\ report'.error = (outcome = "error")
  BY <1>1 DEF Finalized, Report
<1>4. ASSUME NEW k \in Keys
      PROVE  report'.cases[k] =
                IF outcome = "error" /\ Unfinished(k)
                THEN [report.cases[k] EXCEPT
                        !.status = IF canceled THEN "canceled" ELSE "failed"]
                ELSE report.cases[k]
  BY <1>1 DEF Finalized, Report
<1>5. \A c \in job : CaseKey(c) \in Keys /\ report.cases[CaseKey(c)] \in CaseResult
  BY <1>1, KeyType DEF CaseKey, Report
<1>6. outcome = "ok" => Settled(job)
  BY <1>1 DEF LoopInv, VisitInv
<1>7. ASSUME NEW c \in job
      PROVE  report'.cases[CaseKey(c)].status # "running"
  <2> DEFINE k == CaseKey(c)
             s == IF canceled THEN "canceled" ELSE "failed"
  <2>1. CASE outcome = "ok"
    BY <1>4, <1>5, <1>6, <2>1 DEF Settled, Decided
  <2>2. CASE outcome = "error" /\ report.cases[k].status = "running"
    <3>1. Unfinished(k)
      BY <2>2 DEF Unfinished
    <3>2. report'.cases[k] = [report.cases[k] EXCEPT !.status = s]
      BY <1>4, <1>5, <2>2, <3>1
    <3>3. report.cases[k] \in CaseResult /\ s # "running"
      BY <1>5
    <3> HIDE DEF s, k
    <3> QED
      BY <3>2, <3>3 DEF CaseResult, k
  <2>3. CASE outcome = "error" /\ report.cases[k].status # "running"
    BY <1>4, <1>5, <2>3 DEF Unfinished
  <2> QED
    BY <1>1, <2>1, <2>2, <2>3
<1>8. outcome = "ok" => Settled(job)'
  <2> SUFFICES ASSUME outcome = "ok" PROVE Settled(job)'
    OBVIOUS
  <2>1. \A c \in job : report'.cases[Key(c, host'.place)].status \in Decided
    BY <1>0, <1>1, <1>6, SettledKept
  <2> QED
    BY <1>1, <2>1 DEF Settled, CaseKey
<1>9. MarkInv'
  <2>1. \A c \in job' : report'.cases[CaseKey(c)'].status # "running"
    BY <1>1, <1>7 DEF CaseKey
  <2>2. ~broken' => report'.error = (outcome' = "error")
    BY <1>1, <1>2, <1>3
  <2> QED
    BY <1>1, <1>3, <2>1, <2>2 DEF MarkInv, CaseKey
<1>10. VisitInv' /\ RunInv'
  BY <1>1, <1>2, <1>8 DEF VisitInv, RunInv
<1> QED
  BY <1>9, <1>10 DEF LoopInv

(* Every step of the worker keeps what its loop knows. *)
LEMMA LoopSteps ==
    ASSUME WorkerInv, LoopInv, WorkerNext
    PROVE  LoopInv'
BY OpeningLoop, PassingLoop, RunningLoop, EndingLoop, SettlingLoop, ClosingLoop
   DEF WorkerNext

(* No worker, no loop. *)
LEMMA NoLoop == Vanish => LoopInv'
BY DEF Vanish, LoopInv, VisitInv, RunInv, MarkInv, NoRun

(* Steps of others leave the loop alone; a broken pipe promises less. *)
LEMMA LoopKept ==
    ASSUME LoopInv,
           UNCHANGED <<pc, worker, report, todo, current, run, failed, outcome>>,
           broken' = broken \/ pc # "ended"
    PROVE  LoopInv'
BY DEF LoopInv, VisitInv, RunInv, MarkInv, Settled, CaseKey, worker

-----------------------------------------------------------------------------
(* From the worker to the file.                                            *)

(* The last report in a pipe is what was put there last. *)
LEMMA LastOfAppend ==
    ASSUME NEW q \in Seq(GoodReports), NEW r \in GoodReports
    PROVE  Append(q, r) # <<>> /\ Append(q, r)[Len(Append(q, r))] = r
BY AppendProperties, LenProperties

(* Reading one report leaves the last one, or has read it. *)
LEMMA LastOfTail ==
    ASSUME NEW q \in Seq(GoodReports), q # <<>>
    PROVE  q[Len(q)] = IF Tail(q) = <<>> THEN Head(q) ELSE Tail(q)[Len(Tail(q))]
<1>1. /\ Len(q) \in Nat \ {0} /\ Head(q) = q[1]
      /\ Tail(q) \in Seq(GoodReports) /\ Len(Tail(q)) = Len(q) - 1
      /\ \A i \in 1..Len(Tail(q)) : Tail(q)[i] = q[i + 1]
  BY HeadTailProperties, EmptySeq
<1>2. CASE Tail(q) = <<>>
  <2>1. Len(Tail(q)) = 0
    BY <1>2, EmptySeq
  <2>2. Len(q) \in Nat /\ Len(q) - 1 = 0
    BY <1>1, <2>1
  <2>3. Len(q) = 1
    BY <2>2
  <2> QED
    BY <1>1, <1>2, <2>3
<1>3. CASE Tail(q) # <<>>
  <2>1. Len(Tail(q)) \in 1..Len(Tail(q))
    BY <1>1, <1>3, EmptySeq
  <2> QED
    BY <1>1, <1>3, <2>1
<1> QED
  BY <1>2, <1>3

(* The worker's steps: what it sends last is what it ends with. *)
LEMMA LinkOfWorker ==
    ASSUME IInv, OInv, WorkerStep
    PROVE  LinkInv'
<1>1. WorkerNext /\ UNCHANGED controller /\ WorkerInv
  BY DEF WorkerStep, IInv
<1>2. StepEffect /\ job' = job
  BY <1>1, WorkerSteps DEF WorkerNext, Refuse, NothingToRun, Prepare, Open,
     CheckIperf, LoopCanceled, SkipCase, StartCase, LoopEnds, Measure, EndCase,
     Settle, Finish, worker
<1>3. UNCHANGED <<phase, wanted, received, entry>> /\ pc # "absent"
  BY <1>1, <1>2 DEF controller, StepEffect, Running
<1>4. pc' \in {"start", "refused"} => pc = "start" /\ out' = out
  BY <1>1 DEF WorkerNext, Refuse, NothingToRun, Prepare, Open,
     CheckIperf, LoopCanceled, SkipCase, StartCase, LoopEnds, Measure, EndCase,
     Settle, Finish, Leave
<1>5. pc' = "ended" => Finish
  BY <1>1, <1>2 DEF WorkerNext, Refuse, NothingToRun, Prepare, Open,
     CheckIperf, LoopCanceled, SkipCase, StartCase, LoopEnds, Measure, EndCase,
     Settle, Leave, StepEffect, Running
<1>6. phase = "watch" => ~broken
  BY DEF IInv, Chain
<1>7. phase = "watch" /\ pc' = "ended" => Newest' = report'
  <2> SUFFICES ASSUME phase = "watch", pc' = "ended" PROVE Newest' = report'
    OBVIOUS
  <2>1. out' = Append(out, report')
    BY <1>5, <1>6 DEF Finish, SaveOK, SaveFails
  <2>2. report' \in GoodReports /\ out \in Seq(GoodReports)
    BY <1>5, <1>1, FinishStep DEF WorkerInv, ReportInv, Finish, IInv, PipeType
  <2> QED
    BY <2>1, <2>2, LastOfAppend DEF Newest
<1> QED
  BY <1>2, <1>3, <1>4, <1>7 DEF OInv, LinkInv

(* The controller's own steps keep the link. *)
LEMMA LinkOfReading ==
    ASSUME IInv, OInv, SaveUpdate \/ Drain
    PROVE  LinkInv'
<1>1. out \in Seq(GoodReports) /\ out # <<>> /\ out' = Tail(out)
  BY DEF SaveUpdate, Drain, Receive, IInv, PipeType
<1>2. UNCHANGED <<pc, job, report, wanted>>
  BY DEF SaveUpdate, Drain, Receive, controller, worker
<1>3. CASE Drain
  BY <1>2, <1>3 DEF Drain, controller, OInv, LinkInv, IInv, Chain
<1>4. CASE SaveUpdate
  <2>1. phase = "watch" /\ phase' \in {"watch", "drain"}
    BY <1>4 DEF SaveUpdate
  <2>2. entry'.report = Head(out)
    BY <1>4 DEF SaveUpdate, IInv, ControllerTypes
  <2>3. pc \notin {"start", "refused"}
    BY <1>1, <2>1 DEF OInv, LinkInv
  <2>4. pc = "ended" => Newest' = report
    BY <1>1, <2>1, <2>2, LastOfTail DEF OInv, LinkInv, Newest
  <2> QED
    BY <1>2, <2>1, <2>3, <2>4 DEF OInv, LinkInv
<1> QED
  BY <1>3, <1>4

(* A worker that was not told to stop, ended well and sent something has   *)
(* run its loop to the end: its report, now in the controller's memory,    *)
(* has a verdict for every case.                                           *)
LEMMA ReapedComplete ==
    ASSUME IInv, OInv, Reap, ~WorkerFailed
    PROVE  Completed(wanted, entry.report) = wanted
<1>1. /\ phase = "watch" /\ pc = "ended" /\ outcome = "ok" /\ out = <<>>
  <2>1. /\ phase \in {"watch", "drain"} /\ out = <<>>
        /\ pc \in {"ended", "refused", "absent"}
    BY DEF Reap
  <2>2. phase # "drain" /\ received /\ pc # "absent" /\ outcome # "error"
    BY DEF WorkerFailed
  <2>3. pc = "ended"
    BY <2>1, <2>2 DEF OInv, LinkInv
  <2> QED
    BY <2>1, <2>2, <2>3 DEF OInv, LoopInv, VisitInv
<1>2. entry.report = report /\ job = wanted /\ Settled(job)
  BY <1>1 DEF OInv, LinkInv, Newest, LoopInv, VisitInv
<1>3. report \in GoodReports /\ report.place = host.place
  BY <1>1 DEF IInv, WorkerInv, ReportInv
<1>4. report # NoReport
  BY <1>3, ReportExists DEF GoodReports
<1> QED
  BY <1>2, <1>3, <1>4 DEF Completed, Settled, CaseKey

(* Exit status zero stays true from the worker's end to the closed file. *)
LEMMA ExitOfController ==
    ASSUME IInv, OInv, Invoke \/ ControllerStep
    PROVE  ExitInv'
<1> USE DEF ExitInv, SuccessIsComplete
<1>1. CASE Invoke
  BY <1>1 DEF Invoke
<1>2. CASE NothingLeft
  BY <1>2 DEF NothingLeft
<1>3. CASE PrepareFails
  BY <1>3 DEF PrepareFails
<1>4. CASE StartWorker
  BY <1>4 DEF StartWorker
<1>5. CASE SaveUpdate
  BY <1>5 DEF SaveUpdate
<1>6. CASE Drain
  BY <1>6 DEF Drain, controller, IInv, Chain, OInv
<1>7. CASE Reap
  <2>1. exit' = "ok" => ~WorkerFailed
    BY <1>7 DEF Reap
  <2>2. phase' = "close" /\ wanted' = wanted
    BY <1>7 DEF Reap
  <2>3. entry'.report = entry.report
    BY <1>7 DEF Reap, IInv, ControllerTypes
  <2> QED
    BY <1>7, <2>1, <2>2, <2>3, ReapedComplete
<1>8. CASE Close
  <2>1. PICK ok \in BOOLEAN :
          /\ Write(entry, ok)
          /\ exit' = IF ok /\ ~stopping THEN exit ELSE "error"
    BY <1>8 DEF Close
  <2>2. phase = "close" /\ phase' = "down" /\ wanted' = wanted
    BY <1>8 DEF Close
  <2>3. exit' = "ok" => exit = "ok" /\ file'.report = entry.report
    BY <2>1 DEF Write, Saved
  <2> QED
    BY <2>2, <2>3 DEF OInv
<1> QED
  BY <1>1, <1>2, <1>3, <1>4, <1>5, <1>6, <1>7, <1>8 DEF ControllerStep

(* Before the first invocation. *)
LEMMA OutcomeInit == Init => OInv
<1> SUFFICES ASSUME Init PROVE OInv
  OBVIOUS
<1>1. LoopInv
  BY DEF Init, Idle, LoopInv, VisitInv, RunInv, MarkInv, NoRun
<1>2. LinkInv /\ ExitInv
  BY DEF Init, LinkInv, ExitInv, SuccessIsComplete, None
<1> QED
  BY <1>1, <1>2 DEF OInv

(* What the worker remembers changes only by its own steps, or is gone. *)
LEMMA OutcomeLoop ==
    ASSUME IInv, OInv, [Next]_allVars
    PROVE  LoopInv'
<1>0. WorkerInv /\ LoopInv
  BY DEF IInv, OInv
<1>1. CASE WorkerStep
  BY <1>0, <1>1, LoopSteps DEF WorkerStep
<1>2. CASE Invoke \/ NothingLeft \/ PrepareFails \/ Close \/ Interrupt
  BY <1>0, <1>2, LoopKept
     DEF Invoke, NothingLeft, PrepareFails, Close, Interrupt, vars, worker
<1>3. CASE StartWorker
  BY <1>0, <1>3 DEF StartWorker, Launch, LoopInv, VisitInv, RunInv, MarkInv
<1>4. CASE SaveUpdate
  BY <1>0, <1>4, LoopKept DEF SaveUpdate, worker
<1>5. CASE Drain
  BY <1>0, <1>5, LoopKept DEF Drain, Receive, worker
<1>6. CASE Reap \/ WorkerDies \/ OrphanGone
  BY <1>6, NoLoop DEF Reap, WorkerDies, OrphanGone
<1>7. CASE CancelWorker
  BY <1>0, <1>7, LoopKept DEF CancelWorker, Cancel, worker
<1>8. CASE ControllerDies
  <2>1. CASE pc \in Running
    BY <1>0, <1>8, <2>1, LoopKept DEF ControllerDies, worker, Running
  <2>2. CASE pc \notin Running
    BY <1>8, <2>2, NoLoop DEF ControllerDies
  <2> QED
    BY <2>1, <2>2
<1>9. CASE UNCHANGED allVars
  BY <1>0, <1>9, LoopKept DEF allVars, vars, worker
<1> QED
  BY <1>1, <1>2, <1>3, <1>4, <1>5, <1>6, <1>7, <1>8, <1>9 DEF Next, ControllerStep

(* What travels between worker and controller. *)
LEMMA OutcomeLink ==
    ASSUME IInv, OInv, [Next]_allVars
    PROVE  LinkInv'
<1>0. LinkInv
  BY DEF OInv
<1>1. CASE WorkerStep
  BY <1>1, LinkOfWorker
<1>2. CASE SaveUpdate \/ Drain
  BY <1>2, LinkOfReading
<1>3. CASE Invoke \/ NothingLeft \/ PrepareFails \/ Close \/ ControllerDies
              \/ Reap
  <2>1. phase' \notin {"watch", "drain"}
    BY <1>3 DEF Invoke, NothingLeft, PrepareFails, Close, ControllerDies, Reap
  <2> QED
    BY <2>1 DEF LinkInv
<1>4. CASE StartWorker
  <2>1. out' = <<>>
    BY <1>4 DEF StartWorker, Launch, IInv, Chain
  <2> QED
    BY <1>4, <2>1 DEF StartWorker, Launch, LinkInv
<1>5. CASE Interrupt
  BY <1>0, <1>5 DEF Interrupt, vars, worker, LinkInv, Newest
<1>6. CASE CancelWorker
  BY <1>0, <1>6 DEF CancelWorker, Cancel, controller, worker, LinkInv, Newest
<1>7. CASE WorkerDies \/ OrphanGone
  BY <1>7 DEF WorkerDies, OrphanGone, Vanish, LinkInv
<1>8. CASE UNCHANGED allVars
  BY <1>0, <1>8 DEF allVars, vars, controller, worker, LinkInv, Newest
<1> QED
  BY <1>1, <1>2, <1>3, <1>4, <1>5, <1>6, <1>7, <1>8 DEF Next, ControllerStep

(* What the exit status promises. *)
LEMMA OutcomeExit ==
    ASSUME IInv, OInv, [Next]_allVars
    PROVE  ExitInv'
<1>0. ExitInv
  BY DEF OInv
<1>1. CASE Invoke \/ ControllerStep
  BY <1>1, ExitOfController
<1>2. CASE ControllerDies
  BY <1>2 DEF ControllerDies, ExitInv, SuccessIsComplete, None
<1>3. CASE UNCHANGED <<phase, exit, wanted, entry, file>>
  BY <1>0, <1>3 DEF ExitInv, SuccessIsComplete
<1> QED
  BY <1>1, <1>2, <1>3 DEF Next, WorkerStep, Interrupt, CancelWorker, WorkerDies,
     OrphanGone, allVars, controller

(* Every step keeps the invariant. *)
LEMMA OutcomeStep ==
    ASSUME IInv, OInv, [Next]_allVars
    PROVE  OInv'
BY OutcomeLoop, OutcomeLink, OutcomeExit DEF OInv

(* Only the head of the loop starts a case. *)
LEMMA OnlyLoopStarts ==
    ASSUME [Next]_allVars, pc # "case", pc' = "case"
    PROVE  pc = "loop"
BY DEF Next, Invoke, ControllerStep, NothingLeft, PrepareFails, StartWorker,
   Launch, SaveUpdate, Drain, Receive, Reap, Vanish, Close, WorkerStep,
   WorkerNext, Refuse, NothingToRun, Prepare, Open, CheckIperf, LoopCanceled,
   SkipCase, StartCase, LoopEnds, Measure, EndCase, Settle, Finish, Leave,
   Interrupt, CancelWorker, Cancel, WorkerDies, ControllerDies, OrphanGone,
   allVars, vars

-----------------------------------------------------------------------------
(* The theorems.                                                           *)

(* Every reachable state satisfies the second invariant: what the loop has *)
(* visited is decided, the worker's last report is what the controller     *)
(* reads last, and exit status zero means what it says.                    *)
THEOREM OutcomeInvariance == Spec => [](IInv /\ OInv)
<1>1. Init => IInv /\ OInv
  BY InitInv, OutcomeInit
<1>2. IInv /\ OInv /\ [Next]_allVars => IInv' /\ OInv'
  BY StepInv, OutcomeStep
<1> QED
  BY <1>1, <1>2, PTL DEF Spec

(* An invocation that returns nil has left a verdict in the file for every *)
(* case it selected.                                                       *)
THEOREM SuccessComplete == Spec => []SuccessIsComplete
<1>1. OInv => SuccessIsComplete
  BY DEF OInv, ExitInv
<1> QED
  BY <1>1, OutcomeInvariance, PTL

(* When a worker has returned and its output is read, the controller's     *)
(* copy has no running case and tells of the session what the exit status  *)
(* tells.                                                                  *)
THEOREM LastReportIsSettled == Spec => []LastReportSettled
<1>1. IInv /\ OInv => LastReportSettled
  <2> SUFFICES ASSUME IInv, OInv, phase = "watch", pc = "ended", out = <<>>
               PROVE  /\ \A c \in job :
                            entry.report.cases[CaseKey(c)].status # "running"
                      /\ entry.report.error = (outcome = "error")
                      /\ entry.report.finished
    BY DEF LastReportSettled
  <2>1. entry.report = report
    BY DEF OInv, LinkInv, Newest
  <2>2. ~broken
    BY DEF IInv, Chain
  <2> QED
    BY <2>1, <2>2 DEF OInv, LoopInv, MarkInv
<1> QED
  BY <1>1, OutcomeInvariance, PTL

(* No case is started on a host the case before it could not clean up. *)
THEOREM StartsAreClean == Spec => CleanStart
<1>1. OInv /\ [Next]_allVars
        => [pc # "case" /\ pc' = "case" => ~run.dirty]_allVars
  BY OnlyLoopStarts DEF OInv, LoopInv, RunInv
<1> QED
  BY <1>1, OutcomeInvariance, PTL DEF Spec, CleanStart

(* With --fail-fast a case is started only while every case visited before *)
(* it has a verdict.                                                       *)
THEOREM FailuresStopCases == Spec => FailFastStops
<1>1. ASSUME OInv, [Next]_allVars
      PROVE  [pc # "case" /\ pc' = "case" /\ failFast =>
                \A c \in job \ todo :
                    report.cases[CaseKey(c)].status \in Decided]_allVars
  <2>1. pc # "case" /\ pc' = "case" => pc = "loop"
    BY <1>1, OnlyLoopStarts
  <2> QED
    BY <1>1, <2>1 DEF OInv, LoopInv, VisitInv, Settled
<1> QED
  BY <1>1, OutcomeInvariance, PTL DEF Spec, FailFastStops
=============================================================================
