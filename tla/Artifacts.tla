----------------------------- MODULE Artifacts -----------------------------
(***************************************************************************)
(* Preparing the programs of an invocation (artifacts.go, and the parts of *)
(* environmentMatrix.run and prepareReport that decide about versions):    *)
(* one environment after the other, iperf3 first, then the implementation  *)
(* of every case, then a relay for those that speak only SOCKS.            *)
(*                                                                         *)
(* This follows one output file through all invocations that write it.     *)
(* Other invocations add to the release cache and releases are published   *)
(* meanwhile.  A worker is one step here: Matrix follows it.               *)
(***************************************************************************)
EXTENDS ReleaseCache, SequencesExt

CONSTANTS
    Place,        \* environments
    TargetOf,     \* [Place -> Target]
    HasIperf,     \* local environments with an iperf3 of their own
    Order,        \* the environments of the file, a sequence
    Jobs,         \* [Place -> Seq(JobCase)]
    SoftwareBy,   \* [implementation -> Software]
    FromPackage,  \* implementations built from a Go package
    Wishes,       \* configured versions, [implementation -> Latest or a version]
    Iperf,        \* iperf3, a software
    SingBox,      \* sing-box, another one
    Socks,        \* software that needs a SOCKS relay
    Emulated      \* [Target -> the target its iperf3 may be taken of]

Implementation == DOMAIN SoftwareBy
JobCase == [memory : BOOLEAN, implementation : Implementation]

(* The source in the key of an executable built from a package.            *)
Built == -1

ASSUME ArtifactAssumption ==
    /\ TargetOf \in [Place -> Target] /\ HasIperf \subseteq Place
    /\ Order \in Seq(Place) /\ IsInjective(Order)
    /\ SoftwareBy \in [Implementation -> Software]
    /\ Jobs \in [Place -> Seq(JobCase)] /\ Wishes \subseteq [Implementation -> Nat]
    /\ {Iperf, SingBox} \cup Socks \subseteq Software
    /\ \A i \in FromPackage : SoftwareBy[i] = SingBox

VARIABLES
    step,         \* where the invocation is
    wish,         \* its configured versions
    todo,         \* environments left to prepare
    cases,        \* cases of the current one left to prepare
    kit,          \* what its environment has so far
    jobs,         \* environments ready to be measured
    versions,     \* [Software -> what "latest" means to it]
    binaries,     \* prepared executables by key
    unsupported,  \* keys without a release
    report,       \* [Place -> its saved versions and verdicts]
    ran           \* auxiliary: what was measured with which version

place == <<step, todo, cases, kit, jobs>>
preparer == <<versions, binaries, unsupported>>
vars == <<cacheVars, place, wish, preparer, report, ran>>

NoBinary == [software |-> "none", version |-> Latest, made |-> {}]
EmptyKit == [iperf |-> NoBinary, throughput |-> TRUE, supported |-> <<>>]
NoReport == [implementations |-> <<>>, iperf |-> Latest, decided |-> {}]

Init ==
    /\ CacheInit /\ wish \in Wishes
    /\ step = "over" /\ todo = <<>> /\ cases = <<>> /\ kit = EmptyKit /\ jobs = <<>>
    /\ versions = [s \in Software |-> Latest] /\ binaries = <<>> /\ unsupported = {}
    /\ report = [e \in Place |-> NoReport] /\ ran = {}
-----------------------------------------------------------------------------
Environment == Head(todo)
Saved(e) == report[e].implementations

(* environmentMatrix.run: the version an implementation is asked with.  A  *)
(* saved version stands for "latest".                                      *)
Asked(e, i) ==
    IF i \in FromPackage THEN Built
    ELSE IF wish[i] = Latest /\ i \in DOMAIN Saved(e) THEN Saved(e)[i]
    ELSE wish[i]

Differs(w) ==
    \E e \in ToSet(Order) : \E i \in DOMAIN Saved(e) \ FromPackage :
        w[i] \notin {Latest, Saved(e)[i]}

Completed(e) == ToSet(Jobs[e]) \subseteq report[e].decided

Throughput(someCases) == \E c \in someCases : ~c.memory

(* artifactPreparer.prepare starts with the environment at the head,       *)
(* unless all its cases are decided.                                       *)
Enter(environments) ==
    /\ todo' = environments /\ kit' = EmptyKit
    /\ IF environments = <<>> THEN cases' = <<>> /\ step' = "measure"
       ELSE LET e == Head(environments) IN
            /\ cases' = Jobs[e]
            /\ step' = IF Completed(e) THEN "skip"
                       ELSE IF Throughput(ToSet(Jobs[e])) /\ e \notin HasIperf
                       THEN "iperf" ELSE "case"

(* The end of an invocation, with or without an error. *)
Over == step' = "over" /\ todo' = <<>> /\ cases' = <<>> /\ kit' = EmptyKit

(* Every invocation has a preparer of its own. *)
Discard ==
    versions' = [s \in Software |-> Latest] /\ binaries' = <<>> /\ unsupported' = {}

(* A new invocation; its configuration may have changed. *)
Start ==
    /\ step = "over"
    /\ \E w \in Wishes : wish' = w /\ IF Differs(w) THEN Over ELSE Enter(Order)
    /\ jobs' = <<>> /\ Discard
    /\ UNCHANGED <<cacheVars, report, ran>>

Skip ==
    /\ step = "skip" /\ Enter(Tail(todo))
    /\ UNCHANGED <<cacheVars, wish, jobs, preparer, report, ran>>
-----------------------------------------------------------------------------
(* artifactPreparer.binary, called by the step the invocation is at. *)

NeedsRelay == \E s \in ToSet(kit.supported) : s.binary.software \in Socks
SingBoxes == {s \in ToSet(kit.supported) : s.binary.software = SingBox}

(* Without iperf3 all throughput cases are dropped. *)
AnyCase(c) == TRUE
NeedsNoIperf(c) == c.memory
Kept(c) == kit.throughput \/ NeedsNoIperf(c)

Asking ==
    \/ step \in {"iperf", "emulated"}
    \/ step = "case" /\ Kept(Head(cases))
    \/ step = "relay" /\ NeedsRelay /\ SingBoxes = {}

Wanted ==
    LET target == TargetOf[Environment] IN
    IF step = "case" THEN
        LET i == Head(cases).implementation IN
        [software |-> SoftwareBy[i], version |-> Asked(Environment, i), target |-> target]
    ELSE IF step = "relay" THEN
        [software |-> SingBox, version |-> Latest, target |-> target]
    ELSE [software |-> Iperf, version |-> report[Environment].iperf,
          target |-> IF step = "emulated" THEN Emulated[target] ELSE target]

(* "latest" stands for what it meant the first time in this invocation. *)
Unpinned(w) == w.version
Pinned(w) == IF w.version = Latest THEN versions[w.software] ELSE w.version

KeyOf(w, source) == <<w.software, source, w.target>>
WantedKey == KeyOf(Wanted, Pinned(Wanted))

(* The next case, or after the last one the relay. *)
MoveOn ==
    /\ step' = IF step = "case" /\ Tail(cases) = <<>> THEN "relay" ELSE "case"
    /\ cases' = IF step = "case" THEN Tail(cases) ELSE cases
    /\ UNCHANGED <<todo, jobs>>

Ready(relay) ==
    /\ jobs' = Append(jobs, [place |-> Environment, relay |-> relay,
                             iperf |-> kit.iperf, supported |-> kit.supported])
    /\ Enter(Tail(todo))

UseBinary(binary) ==
    \/ step = "relay" /\ Ready(binary)
    \/ /\ step = "case" /\ MoveOn
       /\ kit' = [kit EXCEPT !.supported = Append(@,
              [case |-> Head(cases), binary |-> binary, asked |-> Wanted.version])]
    \/ /\ step \in {"iperf", "emulated"} /\ MoveOn
       /\ kit' = [kit EXCEPT !.iperf = binary]

(* A case without a release is dropped, and without iperf3 all throughput  *)
(* cases are; without a relay the invocation ends.                         *)
Dropped ==
    /\ step = "case" /\ ~Kept(Head(cases)) /\ MoveOn
    /\ UNCHANGED <<cacheVars, wish, kit, preparer, report, ran>>

Emulates == step = "iperf" /\ TargetOf[Environment] \in DOMAIN Emulated

WithoutRelease ==
    \/ Emulates /\ step' = "emulated" /\ UNCHANGED <<todo, cases, kit, jobs>>
    \/ /\ step \in {"iperf", "emulated"} /\ ~Emulates /\ MoveOn
       /\ kit' = [kit EXCEPT !.throughput = FALSE]
    \/ step = "case" /\ MoveOn /\ UNCHANGED kit
    \/ step = "relay" /\ Over /\ UNCHANGED jobs

Remembered ==
    /\ at = "idle" /\ Asking
    /\ \/ WantedKey \in DOMAIN binaries /\ UseBinary(binaries[WantedKey])
       \/ WantedKey \in unsupported /\ WithoutRelease
    /\ UNCHANGED <<cacheVars, wish, preparer, report, ran>>

New == at = "idle" /\ Asking /\ WantedKey \notin DOMAIN binaries \cup unsupported

WithBinary(keys, binary) ==
    [k \in DOMAIN binaries \cup keys |-> IF k \in keys THEN binary ELSE binaries[k]]

Build ==
    /\ New /\ Wanted.version = Built
    /\ LET binary == [software |-> Wanted.software, version |-> Latest,
                      made |-> {<<Wanted.software, "whole">>}] IN
       \/ UseBinary(binary) /\ binaries' = WithBinary({WantedKey}, binary)
       \/ Over /\ UNCHANGED <<jobs, binaries>>
    /\ UNCHANGED <<cacheVars, wish, versions, unsupported, report, ran>>

Download ==
    /\ New /\ Wanted.version # Built
    /\ Request(Wanted.software, Pinned(Wanted), Wanted.target)
    /\ UNCHANGED <<disk, outside, place, wish, preparer, report, ran>>

(* The release client answers. *)
Downloaded ==
    LET binary == [software |-> ask.software, version |-> found, made |-> made] IN
    /\ at = "ok" /\ UseBinary(binary)
    /\ binaries' = WithBinary({WantedKey, KeyOf(Wanted, found)}, binary)
    /\ versions' = IF Wanted.version = Latest
                   THEN [versions EXCEPT ![ask.software] = found] ELSE versions
    /\ UNCHANGED unsupported

Refused ==
    /\ at = "unsupported" /\ WithoutRelease
    /\ unsupported' = unsupported \cup {WantedKey} /\ UNCHANGED <<versions, binaries>>

Failed == at = "failed" /\ Over /\ Discard /\ UNCHANGED jobs

Answered ==
    /\ Downloaded \/ Refused \/ Failed
    /\ Reset /\ UNCHANGED <<disk, outside, wish, report, ran>>

(* The relay is a sing-box of the cases, the one from a package first. *)
Relay ==
    LET fromPackage == {s \in SingBoxes : s.asked = Built} IN
    IF ~NeedsRelay THEN NoBinary
    ELSE (CHOOSE s \in IF fromPackage # {} THEN fromPackage ELSE SingBoxes : TRUE).binary

Prepared ==
    /\ step = "relay" /\ ~Asking /\ Ready(Relay)
    /\ UNCHANGED <<cacheVars, wish, preparer, report, ran>>
-----------------------------------------------------------------------------
(* The worker of the next environment records the versions it does not     *)
(* know yet, refuses another iperf3, and decides some of its cases.        *)
Supported(job) == ToSet(job.supported)
CasesOf(job) == {s.case : s \in Supported(job)}

IperfDiffers(job) ==
    /\ Throughput(CasesOf(job)) /\ Throughput(report[job.place].decided)
    /\ report[job.place].iperf # job.iperf.version

Recorded(job, done) ==
    LET old == report[job.place]
        names == {c.implementation : c \in CasesOf(job)}
        known == DOMAIN old.implementations
        firstOf(i) == CHOOSE s \in Supported(job) : s.case.implementation = i IN
    [implementations |-> [i \in known \cup names |->
        IF i \in known THEN old.implementations[i] ELSE firstOf(i).binary.version],
     iperf |-> IF Throughput(CasesOf(job)) THEN job.iperf.version ELSE old.iperf,
     decided |-> old.decided \cup {s.case : s \in done}]

Measure ==
    /\ step = "measure" /\ jobs # <<>>
    /\ LET job == Head(jobs) IN
       IF IperfDiffers(job) \/ job.supported = <<>> THEN UNCHANGED <<report, ran>>
       ELSE \E done \in SUBSET {s \in Supported(job) : s.case \notin report[job.place].decided} :
            /\ report' = [report EXCEPT ![job.place] = Recorded(job, done)]
            /\ ran' = ran \cup {<<job.place, s.case.implementation, s.binary.version>> : s \in done}
    /\ jobs' = Tail(jobs)
    /\ UNCHANGED <<cacheVars, step, wish, todo, cases, kit, preparer>>

Finish ==
    /\ step = "measure" /\ jobs = <<>> /\ Over /\ Discard
    /\ UNCHANGED <<cacheVars, wish, jobs, report, ran>>

(* A kill forgets the invocation; its file stays. *)
Crash == Lose /\ Over /\ Discard /\ jobs' = <<>> /\ UNCHANGED <<wish, report, ran>>

Next ==
    \/ Start \/ Skip \/ Dropped \/ Remembered \/ Build \/ Download \/ Answered \/ Prepared
    \/ Measure \/ Finish \/ Crash
    \/ /\ ClientStep \/ Visit \/ \E s \in Software : Publish(s)
       /\ UNCHANGED <<place, wish, preparer, report, ran>>

Spec == Init /\ [][Next]_vars
-----------------------------------------------------------------------------
ReadyJobs == ToSet(jobs)
Chosen == UNION {Supported(job) : job \in ReadyJobs \cup {kit}}

(* All "latest" of a software in an invocation are one version, in every   *)
(* environment and whatever is published meanwhile; a configured or saved  *)
(* version is the one that runs; and all cases of an implementation in a   *)
(* file were measured with the version the file names, over all            *)
(* invocations, changed configurations and crashes.                        *)
OneVersion ==
    /\ \A s \in Chosen : s.asked > Latest => s.binary.version = s.asked
    /\ \A s, t \in Chosen :
           s.asked = Latest /\ t.asked = Latest /\ s.binary.software = t.binary.software
               => s.binary.version = t.binary.version
    /\ \A r \in ran : Saved(r[1])[r[2]] = r[3]

(* Nothing that was cut off runs, however the cache was damaged; and with  *)
(* a digest nothing else than the release runs.                            *)
OnlyWhole ==
    \A b \in {s.binary : s \in Chosen} \cup UNION {{job.iperf, job.relay} : job \in ReadyJobs} :
        \A m \in b.made : m[2] = "whole" \/ (m[2] = "wrong" /\ m[1] \in Software \ Digested)

(* A prepared environment has all that its cases need, and a case is       *)
(* dropped only if what it needs was not released for the environment.     *)
Unreleased(software, asked, target) ==
    \E v \in 1 .. newest[software] :
        asked \in {Latest, v} /\ target \notin Assets[software][v]

MayBeDropped(e, case) ==
    \/ Unreleased(SoftwareBy[case.implementation], Asked(e, case.implementation), TargetOf[e])
    \/ ~case.memory /\ Unreleased(Iperf, report[e].iperf, TargetOf[e])

Equipped(job, s) ==
    /\ (~s.case.memory /\ job.place \notin HasIperf) => job.iperf.software = Iperf
    /\ s.binary.software \in Socks => job.relay.software = SingBox
    /\ (<<s.binary.software, TargetOf[job.place]>> \in Helped /\ s.asked # Built)
           => Helper \in {m[1] : m \in s.binary.made}

Runnable ==
    \A job \in ReadyJobs :
        /\ \A s \in Supported(job) : Equipped(job, s)
        /\ \A c \in ToSet(Jobs[job.place]) \ CasesOf(job) : MayBeDropped(job.place, c)
=============================================================================
