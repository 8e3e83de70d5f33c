------------------------------ MODULE Results ------------------------------
(***************************************************************************)
(* What one environment's saved report holds (result.go, options.go).      *)
(*                                                                         *)
(* A case is the identity of one benchmark (caseConfiguration).  A report  *)
(* stores a case under its key: the case and the number of tunnel queues   *)
(* it runs with, which for some cases depends on the machine.  Numbers     *)
(* that were measured are abstracted to how many of them were saved; time  *)
(* stamps, labels and error texts are left out.                            *)
(*                                                                         *)
(* The fields "at" and "tool" of a result are auxiliary: they record where *)
(* and with which iperf3 the saved numbers were measured.  The program     *)
(* does not store them; no guard reads them.                               *)
(***************************************************************************)
EXTENDS Integers

CONSTANTS
    Cases,          \* all benchmark cases
    MemoryCases,    \* the cases of type "memory"; the others are "throughput"
    QueueCases,     \* the cases for which benchmarkOptions.multiQueue is true
    MemoryPoints,   \* points of a complete memory curve
    Placements,     \* what preparePlatform can find: host, CPUs, workers
    Workers,        \* environment.workers of each placement
    Iperfs,         \* versions (with their architecture) of iperf3
    BugTypes        \* "panic", "udp-payload" and "udp-no-payload" in the code

None == "none"

ASSUME CasesAssumption ==
    /\ MemoryCases \subseteq Cases
    /\ QueueCases \subseteq Cases \ MemoryCases
    /\ MemoryPoints \in Nat \ {0}
    /\ Workers \in [Placements -> Nat \ {0}]
    /\ None \notin Placements
    /\ None \notin Iperfs
    /\ BugTypes \subseteq {"panic", "udp-payload", "udp-no-payload"}

Throughput == Cases \ MemoryCases

(* benchmarkOptions.resolveQueues, and the key matches() looks for. *)
QueueCounts == {1} \cup {Workers[p] : p \in Placements}
Keys == Cases \X QueueCounts
Queues(c, p) == IF c \in QueueCases THEN Workers[p] ELSE 1
Key(c, p) == <<c, Queues(c, p)>>

Decided == {"passed", "bug"}
Status == {"absent", "pending", "running", "failed", "canceled"} \cup Decided

CaseResult ==
    [status : Status, points : Nat, bug : BugTypes \cup {None},
     at : Placements \cup {None}, tool : Iperfs \cup {None}]

Blank(s) ==
    [status |-> s, points |-> 0, bug |-> None, at |-> None, tool |-> None]

(* "absent" stands for a case the list Cases of the report does not hold. *)
Report ==
    [place : Placements, iperf : Iperfs \cup {None}, finished : BOOLEAN,
     error : BOOLEAN, cases : [Keys -> CaseResult]]

(* A nil *benchmarkReport. *)
NoReport == [place |-> None]

NewReport(p) ==
    [place |-> p, iperf |-> None, finished |-> FALSE, error |-> FALSE,
     cases |-> [k \in Keys |-> Blank("absent")]]

(* How many measurements a case needs before it may pass. *)
Full(c) == IF c \in MemoryCases THEN MemoryPoints ELSE 1

Measured(r) == r.points > 0

(* caseResult and memoryResult part of benchmarkReport.validate. *)
ValidResult(c, r) ==
    /\ r.points <= Full(c)
    /\ r.status = "passed" => r.points = Full(c)
    /\ r.status = "bug" => r.bug # None

Valid(rep) == \A k \in Keys : ValidResult(k[1], rep.cases[k])

(* completedCases: the controller resolves the queue count with the worker *)
(* count of the saved report, not of the machine the worker will find.     *)
Completed(job, rep) ==
    IF rep = NoReport THEN {}
    ELSE {c \in job : rep.cases[Key(c, rep.place)].status \in Decided}
=============================================================================
