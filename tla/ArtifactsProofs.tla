-------------------------- MODULE ArtifactsProofs --------------------------
(***************************************************************************)
(* OnlyWhole, OneVersion and Runnable for any software, targets, releases, *)
(* environments, cases and configured versions.                            *)
(***************************************************************************)
EXTENDS Artifacts, TLAPS

(* What may be extracted: something that passed verify. *)
Piece == {m \in (Software \cup {Helper}) \X Content :
              m[2] = "whole" \/ (m[2] = "wrong" /\ m[1] \in Software \ Digested)}
Binary == [software : Software, version : Nat, made : SUBSET Piece] \cup {NoBinary}
Support == [case : JobCase, binary : Binary, asked : Int]
Kit == [iperf : Binary, throughput : BOOLEAN, supported : Seq(Support)]
Job == [place : Place, relay : Binary, iperf : Binary, supported : Seq(Support)]

CacheType ==
    /\ newest \in [Software -> Nat]
    /\ \A s \in Software : newest[s] \in 1 .. Len(Assets[s])
    /\ meta \in [Release -> {"none", "torn", "whole"}]
    /\ file \in [Asset -> Content \cup {"none"}]
    /\ at \in {"idle", "resolve", "cached", "extract", "ok", "unsupported", "failed"}
    /\ made \in SUBSET Piece

PlaceType ==
    /\ step \in {"over", "skip", "iperf", "emulated", "case", "relay", "measure"}
    /\ todo \in Seq(Place) /\ cases \in Seq(JobCase)
    /\ kit \in Kit /\ jobs \in Seq(Job)
    /\ wish \in [Implementation -> Nat] /\ versions \in [Software -> Nat]

(* The release client was asked for what its caller still wants; what it   *)
(* extracts was verified, and nothing can damage it in between.            *)
ClientInv ==
    /\ at # "idle" =>
           /\ Asking /\ Wanted.version # Built
           /\ ask = [software |-> Wanted.software, version |-> Pinned(Wanted),
                     target |-> Wanted.target]
    /\ at \in {"cached", "extract"} => asset \in Asset
    /\ at = "extract" => Verified(file[asset], SoftwareOf(asset))
    /\ at \in {"cached", "extract", "ok"} =>
           found \in Nat \ {Latest} /\ ask.version \in {Latest, found}

PlaceInv ==
    /\ step \in {"skip", "iperf", "emulated", "case", "relay"} => todo # <<>>
    /\ step \in {"iperf", "emulated", "case"} => cases # <<>>
    /\ step \in {"over", "skip", "measure"} => kit = EmptyKit
    /\ ToSet(todo) \cup {job.place : job \in ReadyJobs} \subseteq ToSet(Order)
    /\ step # "over" => ~Differs(wish)

(* A key with a version leads to that version; one with "latest" is never  *)
(* looked up again, since by then "latest" stands for a version.           *)
BinaryInv ==
    \A k \in DOMAIN binaries :
        /\ k[1] \in Software /\ k[2] \in Nat \cup {Built}
        /\ binaries[k] \in Binary /\ binaries[k].software = k[1]
        /\ k[2] = Built => binaries[k].version = Latest
        /\ k[2] = Latest => versions[k[1]] # Latest
        /\ k[2] \in Nat \ {Latest} => binaries[k].version = k[2]

(* A prepared case has a binary of the version it was asked with.          *)
Right(s) ==
    /\ s.binary.software = SoftwareBy[s.case.implementation]
    /\ s.case.implementation \in FromPackage <=> s.asked = Built
    /\ s.asked = Built => s.binary.version = Latest
    /\ s.asked # Built => /\ s.binary.version # Latest
                          /\ s.asked \in {Latest, s.binary.version}

(* It was asked with the version of the report or the configuration.       *)
Fits(e, s) ==
    LET i == s.case.implementation IN
    \/ i \in DOMAIN Saved(e) /\ s.binary.version = Saved(e)[i]
    \/ i \notin DOMAIN Saved(e) /\ i \in FromPackage
    \/ i \notin DOMAIN Saved(e) /\ s.asked = wish[i]

SameLatest ==
    \A s, t \in Chosen :
        s.asked = Latest /\ t.asked = Latest /\ s.binary.software = t.binary.software
            => s.binary.version = t.binary.version

ChosenInv ==
    /\ \A s \in Chosen : Right(s)
    /\ \A s \in Supported(kit) : Fits(Environment, s)
    /\ \A job \in ReadyJobs : \A s \in Supported(job) : Fits(job.place, s)
    /\ SameLatest
    /\ step # "over" => \A s \in Chosen :
           s.asked = Latest => versions[s.binary.software] = s.binary.version

ReportInv ==
    /\ report = [e \in Place |-> [implementations |-> Saved(e), iperf |-> report[e].iperf,
                                  decided |-> report[e].decided]]
    /\ \A e \in Place : /\ report[e].iperf \in Nat /\ report[e].decided \subseteq JobCase
                        /\ DOMAIN Saved(e) \subseteq Implementation
    /\ \A e \in Place : \A i \in DOMAIN Saved(e) :
           Saved(e)[i] \in Nat /\ (i \in FromPackage <=> Saved(e)[i] = Latest)
    /\ \A r \in ran : r[1] \in Place /\ r[2] \in DOMAIN Saved(r[1]) /\ Saved(r[1])[r[2]] = r[3]

IInv == CacheType /\ PlaceType /\ ClientInv /\ PlaceInv /\ BinaryInv /\ ChosenInv /\ ReportInv
-----------------------------------------------------------------------------
(* Sequences and the elements they have.                                   *)

LEMMA Elements ==
    ASSUME NEW S, NEW s \in Seq(S)
    PROVE  /\ ToSet(s) \subseteq S
           /\ s = <<>> => ToSet(s) = {}
           /\ s # <<>> => /\ Head(s) \in S /\ Head(s) \in ToSet(s)
                          /\ Tail(s) \in Seq(S) /\ ToSet(Tail(s)) \subseteq ToSet(s)
<1>1. ToSet(s) \subseteq S  BY DEF ToSet
<1>2. s = <<>> => ToSet(s) = {}  BY DEF ToSet
<1>3. ASSUME s # <<>>
      PROVE  /\ Head(s) \in S /\ Head(s) \in ToSet(s)
             /\ Tail(s) \in Seq(S) /\ ToSet(Tail(s)) \subseteq ToSet(s)
    BY <1>3 DEF ToSet
<1> QED  BY <1>1, <1>2, <1>3

LEMMA Appended ==
    ASSUME NEW S, NEW s \in Seq(S), NEW x \in S
    PROVE  Append(s, x) \in Seq(S) /\ ToSet(Append(s, x)) = ToSet(s) \cup {x}
<1> DEFINE t == Append(s, x)
<1>1. t \in Seq(S) /\ Len(t) = Len(s) + 1 /\ Len(s) \in Nat /\ t[Len(s) + 1] = x
      /\ \A i \in 1 .. Len(s) : t[i] = s[i]
    OBVIOUS
<1>2. DOMAIN t = 1 .. Len(s) + 1 /\ DOMAIN s = 1 .. Len(s)  BY <1>1
<1> HIDE DEF t
<1>3. ToSet(t) \subseteq ToSet(s) \cup {x}  BY <1>1, <1>2 DEF ToSet
<1>4. ToSet(s) \cup {x} \subseteq ToSet(t)  BY <1>1, <1>2 DEF ToSet
<1> QED  BY <1>1, <1>3, <1>4 DEF t

-----------------------------------------------------------------------------
(* Releases and their assets.                                              *)

LEMMA IsRelease ==
    ASSUME NEW s \in Software, NEW v \in 1 .. Len(Assets[s]) PROVE <<s, v>> \in Release
BY DEF Release

LEMMA IsAsset ==
    ASSUME NEW s \in Software, NEW v \in 1 .. Len(Assets[s]), NEW t \in Assets[s][v]
    PROVE  <<<<s, v>>, t>> \in Asset
<1> DEFINE r == <<s, v>>
<1>1. r \in Release /\ t \in Assets[r[1]][r[2]]  BY IsRelease
<1> HIDE DEF r
<1>2. <<r, t>> \in Asset  BY <1>1 DEF Asset
<1> QED  BY <1>2 DEF r

LEMMA IsHelper ==
    ASSUME NEW s, NEW t, <<s, t>> \in Helped PROVE HelperAsset(t) \in Asset
BY DEF Asset

LEMMA VerifiedPiece ==
    ASSUME NEW a \in Asset, NEW c \in Content \cup {"none"}, Verified(c, SoftwareOf(a))
    PROVE  <<SoftwareOf(a), c>> \in Piece
<1>1. SoftwareOf(a) \in Software \cup {Helper}
    BY DEF Asset, Release, SoftwareOf, HelperAsset
<1>2. c \in Content  BY DEF Verified, Content
<1> QED  BY <1>1, <1>2 DEF Verified, Piece

LEMMA EmptyTypes == NoBinary \in Binary /\ EmptyKit \in Kit /\ Supported(EmptyKit) = {}
<1>1. NoBinary \in Binary  BY DEF Binary
<1>2. <<>> \in Seq(Support) /\ ToSet(<<>>) = {}  BY DEF ToSet
<1> QED  BY <1>1, <1>2 DEF EmptyKit, Kit, Supported

LEMMA InitInv == Init => IInv
<1> SUFFICES ASSUME Init PROVE IInv  OBVIOUS
<1> USE DEF Init, CacheInit
<1>1. CacheType
  <2>1. ASSUME NEW s \in Software PROVE newest[s] \in 1 .. Len(Assets[s])
      BY CacheAssumption DEF Init, CacheInit
  <2> QED  BY <2>1 DEF CacheType
<1>2. ReadyJobs = {} /\ Supported(kit) = {} /\ ToSet(todo) = {}
    BY EmptyTypes DEF ReadyJobs, ToSet
<1>3. Chosen = {}  BY <1>2 DEF Chosen
<1>4. PlaceType  BY EmptyTypes, ArtifactAssumption DEF PlaceType, Latest
<1>5. ClientInv  BY DEF ClientInv
<1>6. PlaceInv  BY <1>2 DEF PlaceInv
<1>7. BinaryInv  BY DEF BinaryInv
<1>8. ChosenInv  BY <1>2, <1>3 DEF ChosenInv, SameLatest
<1>9. ReportInv  BY DEF ReportInv, NoReport, Saved, Latest
<1> QED  BY <1>1, <1>4, <1>5, <1>6, <1>7, <1>8, <1>9 DEF IInv
-----------------------------------------------------------------------------
(* The release client and the cache.                                       *)

LEMMA Frame ==
    ASSUME IInv, UNCHANGED <<place, wish, preparer, report, ran>>
    PROVE  /\ PlaceType' /\ PlaceInv' /\ BinaryInv' /\ ChosenInv' /\ ReportInv'
           /\ Asking' = Asking /\ Wanted' = Wanted /\ Pinned(Wanted)' = Pinned(Wanted)
<1> USE DEF IInv, place, preparer
<1>1. PlaceType'  BY DEF PlaceType
<1>2. PlaceInv'  BY DEF PlaceInv, ReadyJobs, Differs, Saved
<1>3. BinaryInv'  BY DEF BinaryInv
<1>4. ChosenInv'
    BY DEF ChosenInv, Chosen, ReadyJobs, Supported, Right, Fits, SameLatest, Saved, Environment
<1>5. ReportInv'  BY DEF ReportInv, Saved
<1>6. Asking' = Asking  BY DEF Asking, Kept, NeedsNoIperf, NeedsRelay, SingBoxes
<1>7. Wanted' = Wanted /\ Pinned(Wanted)' = Pinned(Wanted)
    BY DEF Wanted, Environment, Asked, Saved, Pinned
<1> QED  BY <1>1, <1>2, <1>3, <1>4, <1>5, <1>6, <1>7

(* What is asked for can be asked for.                                     *)
LEMMA WantedType ==
    ASSUME IInv, Asking
    PROVE  /\ Wanted.software \in Software /\ Wanted.version \in Nat \cup {Built}
           /\ step = "case" => /\ Head(cases) \in JobCase /\ Environment \in Place
                               /\ Wanted.software = SoftwareBy[Head(cases).implementation]
                               /\ Wanted.version = Asked(Environment, Head(cases).implementation)
           /\ step # "case" => Wanted.version \in Nat
<1>1. todo # <<>> /\ Environment \in Place
    BY Elements DEF IInv, PlaceInv, PlaceType, Asking, Environment
<1>2. report[Environment].iperf \in Nat  BY <1>1 DEF IInv, ReportInv
<1>3. CASE step = "case"
  <2>1. Head(cases) \in JobCase  BY <1>3, Elements DEF IInv, PlaceInv, PlaceType
  <2> DEFINE i == Head(cases).implementation
  <2>2. i \in Implementation /\ SoftwareBy[i] \in Software
      BY <2>1, ArtifactAssumption DEF JobCase
  <2>3. Asked(Environment, i) \in Nat \cup {Built}
      BY <1>1, <2>2 DEF Asked, IInv, PlaceType, ReportInv
  <2>4. Wanted.software = SoftwareBy[i] /\ Wanted.version = Asked(Environment, i)
      BY <1>3 DEF Wanted
  <2> QED  BY <1>1, <1>3, <2>1, <2>2, <2>3, <2>4
<1>4. CASE step = "relay"
    BY <1>4, ArtifactAssumption DEF Wanted, Latest
<1>5. CASE step \notin {"case", "relay"}
    BY <1>2, <1>5, ArtifactAssumption DEF Wanted
<1> QED  BY <1>3, <1>4, <1>5

(* A step of the client, once the facts about it are there.                *)
LEMMA ClientFrame ==
    ASSUME IInv, UNCHANGED <<place, wish, preparer, report, ran>>, CacheType',
           at = "idle" => at' = "idle", UNCHANGED ask,
           at' \in {"cached", "extract"} => asset' \in Asset,
           at' = "extract" => Verified(file[asset], SoftwareOf(asset))',
           at' \in {"cached", "extract", "ok"} =>
               found' \in Nat \ {Latest} /\ ask.version \in {Latest, found'}
    PROVE  IInv'
<1>1. ClientInv'  BY Frame DEF IInv, ClientInv
<1> QED  BY <1>1, Frame DEF IInv

LEMMA ResolveInv ==
    ASSUME IInv, Resolve, UNCHANGED <<place, wish, preparer, report, ran>> PROVE IInv'
<1>1. PICK v \in Resolved : LET release == <<ask.software, v>> IN
        /\ found' = v
        /\ IF HasAsset(release, ask.target)
           THEN /\ at' = "cached" /\ asset' = <<release, ask.target>>
                /\ meta' = [meta EXCEPT ![release] = "whole"]
           ELSE at' = "unsupported" /\ UNCHANGED <<asset, meta>>
    BY DEF Resolve
<1>2. at = "resolve" /\ ask.software \in Software /\ UNCHANGED <<file, ask, made, newest>>
    BY WantedType DEF Resolve, IInv, ClientInv, outside
<1>3. v \in 1 .. Len(Assets[ask.software]) /\ v \in Nat \ {Latest} /\ ask.version \in {Latest, v}
  <2>1. Len(Assets[ask.software]) \in Nat  BY <1>2, CacheAssumption
  <2>2. newest[ask.software] \in 1 .. Len(Assets[ask.software])
      BY <1>2 DEF IInv, CacheType
  <2> QED  BY <1>1, <2>1, <2>2 DEF Resolved, Latest
<1>4. at' = "cached" => asset' \in Asset
  <2> SUFFICES ASSUME at' = "cached" PROVE asset' \in Asset  OBVIOUS
  <2>1. asset' = <<<<ask.software, v>>, ask.target>> /\ ask.target \in Assets[ask.software][v]
      BY <1>1 DEF HasAsset
  <2> QED  BY <1>2, <1>3, <2>1, IsAsset
<1>5. at' \in {"cached", "unsupported"} /\ found' = v  BY <1>1
<1>6. meta' \in [Release -> {"none", "torn", "whole"}]
    BY <1>1 DEF IInv, CacheType
<1>7. CacheType'  BY <1>2, <1>5, <1>6 DEF IInv, CacheType
<1> QED  BY <1>2, <1>3, <1>4, <1>5, <1>7, ClientFrame

LEMMA UseCachedInv ==
    ASSUME IInv, UseCached, UNCHANGED <<place, wish, preparer, report, ran>> PROVE IInv'
<1>1. CacheType'  BY DEF UseCached, IInv, CacheType, disk, outside
<1>2. asset \in Asset /\ found \in Nat \ {Latest} /\ ask.version \in {Latest, found}
    BY DEF UseCached, IInv, ClientInv
<1> QED  BY <1>1, <1>2, ClientFrame DEF UseCached, disk

LEMMA FetchInv ==
    ASSUME IInv, Fetch, UNCHANGED <<place, wish, preparer, report, ran>> PROVE IInv'
<1>1. asset \in Asset /\ found \in Nat \ {Latest} /\ ask.version \in {Latest, found}
    BY DEF Fetch, IInv, ClientInv
<1>2. PICK c \in Content : Verified(c, SoftwareOf(asset)) /\ file' = [file EXCEPT ![asset] = c]
    BY DEF Fetch
<1>3. file' \in [Asset -> Content \cup {"none"}] /\ file'[asset] = c
    BY <1>1, <1>2 DEF IInv, CacheType
<1>4. CacheType'  BY <1>3 DEF Fetch, IInv, CacheType, outside
<1>5. Verified(file[asset], SoftwareOf(asset))'  BY <1>2, <1>3 DEF Fetch, Verified, SoftwareOf
<1> QED  BY <1>1, <1>4, <1>5, ClientFrame DEF Fetch

LEMMA UnpackType ==
    ASSUME IInv, NEW a, Unpack(a), at' \in {"ok", "cached"}, UNCHANGED <<disk, outside>>
    PROVE  CacheType'
<1>1. a \in Asset /\ Verified(file[a], SoftwareOf(a)) /\ file[a] \in Content \cup {"none"}
    BY DEF Unpack, IInv, ClientInv, CacheType
<1>2. <<SoftwareOf(a), file[a]>> \in Piece  BY <1>1, VerifiedPiece
<1>3. made' \in SUBSET Piece  BY <1>2 DEF Unpack, IInv, CacheType
<1> QED  BY <1>3 DEF IInv, CacheType, disk, outside

LEMMA ExtractInv ==
    ASSUME IInv, Extract, UNCHANGED <<place, wish, preparer, report, ran>> PROVE IInv'
<1>1. at' \in {"ok", "cached"} /\ at = "extract" /\ UNCHANGED <<disk, ask, found, outside>>
    BY DEF Extract, Unpack
<1>2. CacheType'  BY <1>1, UnpackType DEF Extract
<1>3. at' = "cached" => asset' \in Asset
    BY IsHelper DEF Extract, NeedsHelper
<1>4. found \in Nat \ {Latest} /\ ask.version \in {Latest, found}
    BY <1>1 DEF IInv, ClientInv
<1> QED  BY <1>1, <1>2, <1>3, <1>4, ClientFrame

LEMMA ExtractHelperInv ==
    ASSUME IInv, ExtractHelper, UNCHANGED <<place, wish, preparer, report, ran>> PROVE IInv'
<1>1. at' = "ok" /\ at = "extract" /\ UNCHANGED <<disk, ask, found, outside>>
    BY DEF ExtractHelper, Unpack
<1>2. CacheType'  BY <1>1, UnpackType DEF ExtractHelper
<1>3. found \in Nat \ {Latest} /\ ask.version \in {Latest, found}
    BY <1>1 DEF IInv, ClientInv
<1> QED  BY <1>1, <1>2, <1>3, ClientFrame

LEMMA ClientStepInv ==
    ASSUME IInv, ClientStep, UNCHANGED <<place, wish, preparer, report, ran>> PROVE IInv'
<1>1. CASE PrepareFails
  <2>1. CacheType'  BY <1>1 DEF PrepareFails, IInv, CacheType, disk, outside
  <2> QED  BY <1>1, <2>1, ClientFrame DEF PrepareFails
<1> QED  BY <1>1, ResolveInv, UseCachedInv, FetchInv, ExtractInv, ExtractHelperInv DEF ClientStep

LEMMA PublishInv ==
    ASSUME IInv, NEW s \in Software, Publish(s), UNCHANGED <<place, wish, preparer, report, ran>>
    PROVE  IInv'
<1>1. newest'[s] \in 1 .. Len(Assets[s]) /\ newest' \in [Software -> Nat]
  <2>1. Len(Assets[s]) \in Nat  BY CacheAssumption
  <2> QED  BY <2>1 DEF Publish, IInv, CacheType
<1>2. \A t \in Software : t # s => newest'[t] = newest[t]  BY DEF Publish, IInv, CacheType
<1>3. CacheType'  BY <1>1, <1>2 DEF Publish, IInv, CacheType, disk, client
<1>4. ClientInv => ClientInv'
    BY Frame DEF ClientInv, Publish, disk, client, Verified, SoftwareOf
<1> QED  BY <1>3, <1>4, Frame DEF IInv

(* Another invocation replaces only what would not be used anyway.         *)
LEMMA VisitInv ==
    ASSUME IInv, Visit, UNCHANGED <<place, wish, preparer, report, ran>> PROVE IInv'
<1>0. PICK r \in Release : \E t \in Assets[r[1]][r[2]], c \in Content :
          /\ meta' = [meta EXCEPT ![r] = "whole"]
          /\ Verified(c, r[1])
          /\ file' = [file EXCEPT ![<<r, t>>] = IF Verified(@, r[1]) THEN @ ELSE c]
    BY DEF Visit
<1>1. PICK t \in Assets[r[1]][r[2]], c \in Content :
          /\ meta' = [meta EXCEPT ![r] = "whole"]
          /\ Verified(c, r[1])
          /\ file' = [file EXCEPT ![<<r, t>>] = IF Verified(@, r[1]) THEN @ ELSE c]
    BY <1>0
<1>2. file' \in [Asset -> Content \cup {"none"}]
    BY <1>1 DEF IInv, CacheType
<1>3. CacheType'  BY <1>1, <1>2 DEF Visit, IInv, CacheType, client
<1>4. ASSUME NEW a \in Asset, Verified(file[a], SoftwareOf(a))
      PROVE  file'[a] = file[a]
    BY <1>1, <1>4 DEF IInv, CacheType, SoftwareOf
<1>5. UNCHANGED <<at, ask, found, asset>>  BY DEF Visit, client
<1>6. at = "extract" => asset \in Asset /\ Verified(file[asset], SoftwareOf(asset))
    BY DEF IInv, ClientInv
<1>7. at = "extract" => Verified(file'[asset], SoftwareOf(asset))  BY <1>4, <1>6
<1>8. ClientInv'  BY <1>5, <1>7, Frame DEF IInv, ClientInv, SoftwareOf, Verified
<1> QED  BY <1>3, <1>8, Frame DEF IInv
-----------------------------------------------------------------------------
(* The preparer: where it goes on, and what it has prepared.               *)

LEMMA Entered ==
    ASSUME NEW environments \in Seq(Place), ToSet(environments) \subseteq ToSet(Order),
           Enter(environments)
    PROVE  /\ step' \in {"skip", "iperf", "case", "measure"} /\ kit' = EmptyKit
           /\ todo' \in Seq(Place) /\ cases' \in Seq(JobCase) /\ ToSet(todo') \subseteq ToSet(Order)
           /\ step' # "measure" => todo' # <<>>
           /\ step' \in {"iperf", "case"} => cases' # <<>>
<1>1. CASE environments = <<>>  BY <1>1 DEF Enter
<1>2. CASE environments # <<>>
  <2> DEFINE e == Head(environments)
  <2>1. e \in Place  BY <1>2, Elements
  <2>2. Jobs[e] \in Seq(JobCase)  BY <2>1, ArtifactAssumption
  <2>3. ~Completed(e) => Jobs[e] # <<>>
      BY <2>2, Elements DEF Completed
  <2> HIDE DEF e
  <2>4. /\ todo' = environments /\ kit' = EmptyKit /\ cases' = Jobs[e]
        /\ step' = IF Completed(e) THEN "skip"
                   ELSE IF Throughput(ToSet(Jobs[e])) /\ e \notin HasIperf
                   THEN "iperf" ELSE "case"
      BY <1>2 DEF Enter, e
  <2> QED  BY <1>2, <2>2, <2>3, <2>4
<1> QED  BY <1>1, <1>2

LEMMA NotAsking ==
    ASSUME IInv, step \in {"over", "skip", "measure"} \/ ~Asking PROVE at = "idle"
<1>1. step \in {"over", "skip", "measure"} => ~Asking  BY DEF Asking
<1> QED  BY <1>1 DEF IInv, ClientInv

LEMMA CacheFrame ==
    ASSUME IInv, at = "idle", UNCHANGED cacheVars PROVE CacheType' /\ ClientInv'
BY DEF IInv, CacheType, ClientInv, cacheVars, disk, client, outside

(* The client has answered.                                                *)
LEMMA ResetFrame ==
    ASSUME IInv, Reset, UNCHANGED <<disk, outside>> PROVE CacheType' /\ ClientInv'
<1>1. CacheType'  BY DEF IInv, CacheType, Reset, disk, outside
<1>2. ClientInv'  BY DEF ClientInv, Reset
<1> QED  BY <1>1, <1>2

LEMMA StartInv ==
    ASSUME IInv, Start PROVE IInv'
<1>1. PICK w \in Wishes : wish' = w /\ IF Differs(w) THEN Over ELSE Enter(Order)
    BY DEF Start
<1>2. /\ step = "over" /\ jobs' = <<>> /\ versions' = [s \in Software |-> Latest]
      /\ binaries' = <<>> /\ UNCHANGED <<cacheVars, report, ran>>
    BY DEF Start, Discard
<1>3. /\ step' \in {"over", "skip", "iperf", "case", "measure"} /\ kit' = EmptyKit
      /\ todo' \in Seq(Place) /\ cases' \in Seq(JobCase) /\ ToSet(todo') \subseteq ToSet(Order)
      /\ step' \notin {"over", "measure"} => todo' # <<>>
      /\ step' \in {"iperf", "case"} => cases' # <<>>
      /\ step' # "over" => ~Differs(wish')
  <2>1. CASE Differs(w)
    <3>1. ToSet(<<>>) = {}  BY DEF ToSet
    <3> QED  BY <1>1, <2>1, <3>1 DEF Over
  <2>2. CASE ~Differs(w)  BY <1>1, <2>2, Entered, ArtifactAssumption
  <2> QED  BY <2>1, <2>2
<1>4. ReadyJobs' = {} /\ Supported(kit') = {}
    BY <1>2, <1>3, EmptyTypes DEF ReadyJobs, ToSet
<1>5. CacheType' /\ ClientInv'  BY <1>2, NotAsking, CacheFrame
<1>6. PlaceType'
    BY <1>1, <1>2, <1>3, EmptyTypes, ArtifactAssumption DEF PlaceType, Latest
<1>7. PlaceInv'
  <2>1. Differs(wish)' <=> Differs(wish')  BY <1>2 DEF Differs, Saved
  <2> QED  BY <1>3, <1>4, <2>1 DEF PlaceInv
<1>8. BinaryInv'  BY <1>2 DEF BinaryInv
<1>9. Chosen' = {}  BY <1>4 DEF Chosen, Supported
<1>10. ChosenInv'  BY <1>4, <1>9 DEF ChosenInv, SameLatest, Supported
<1>11. ReportInv'  BY <1>2 DEF IInv, ReportInv, Saved
<1> QED  BY <1>5, <1>6, <1>7, <1>8, <1>10, <1>11 DEF IInv

LEMMA ChosenType ==
    ASSUME PlaceType
    PROVE  Chosen \subseteq Support /\ Supported(kit) \subseteq Support
           /\ \A job \in ReadyJobs : job \in Job /\ Supported(job) \subseteq Support
<1>1. ReadyJobs \subseteq Job  BY Elements DEF PlaceType, ReadyJobs
<1>2. ASSUME NEW job \in ReadyJobs PROVE Supported(job) \subseteq Support
  <2>1. job.supported \in Seq(Support)  BY <1>1 DEF Job
  <2> QED  BY <2>1, Elements DEF Supported
<1>3. Supported(kit) \subseteq Support
  <2>1. kit.supported \in Seq(Support)  BY DEF PlaceType, Kit
  <2> QED  BY <2>1, Elements DEF Supported
<1> QED  BY <1>1, <1>2, <1>3 DEF Chosen

(* A step that adds at most new, and may turn the kit into a job.          *)
LEMMA Grown ==
    ASSUME IInv, UNCHANGED <<wish, report, ran>>,
           NEW new \in SUBSET Support, new # {} => step' # "over",
           step' # "over" => step # "over"
               /\ \A s \in Software : versions[s] \in {Latest, versions'[s]},
           \A s \in Supported(kit)' : s \in Supported(kit) \cup new /\ Environment' = Environment,
           \A job \in ReadyJobs' : \/ job \in ReadyJobs
                                   \/ job.place = Environment /\ Supported(job) = Supported(kit),
           \A s \in new : /\ Right(s) /\ Fits(Environment, s)
                          /\ s.asked = Latest => versions'[s.binary.software] = s.binary.version
    PROVE  ChosenInv' /\ ReportInv'
<1>1. Chosen \subseteq Support  BY ChosenType DEF IInv
<1>2. Chosen' \subseteq Chosen \cup new  BY DEF Chosen, Supported
<1>3. \A s \in Chosen' : Right(s)'  BY <1>2 DEF IInv, ChosenInv, Right
<1>4. ASSUME NEW e, NEW s, Fits(e, s) PROVE Fits(e, s)'  BY <1>4 DEF Fits, Saved
<1>5. \A s \in Supported(kit)' : Fits(Environment, s)'
  <2> SUFFICES ASSUME NEW s \in Supported(kit)' PROVE Fits(Environment, s)'  OBVIOUS
  <2>1. Fits(Environment, s) /\ Environment' = Environment  BY DEF IInv, ChosenInv
  <2> QED  BY <2>1 DEF Fits, Saved
<1>6. \A job \in ReadyJobs' : \A s \in Supported(job)' : Fits(job.place, s)'
  <2> SUFFICES ASSUME NEW job \in ReadyJobs', NEW s \in Supported(job) PROVE Fits(job.place, s)'
      BY DEF Supported
  <2>1. Fits(job.place, s)  BY DEF IInv, ChosenInv
  <2> QED  BY <1>4, <2>1
<1>7. ASSUME NEW s \in Chosen \cup new, s.asked = Latest, step' # "over"
      PROVE  versions'[s.binary.software] = s.binary.version
  <2>1. CASE s \in Chosen
    <3>1. versions[s.binary.software] = s.binary.version /\ Right(s)
        BY <1>7, <2>1 DEF IInv, ChosenInv
    <3>2. s.binary.software \in Software
        BY <1>1, <2>1, <3>1, ArtifactAssumption DEF Right, Support, JobCase
    <3>3. s.binary.version # Latest  BY <1>7, <3>1 DEF Right, Latest, Built
    <3> QED  BY <1>7, <3>1, <3>2, <3>3
  <2> QED  BY <1>7, <2>1
<1>8. SameLatest'
  <2> SUFFICES ASSUME NEW s \in Chosen', NEW t \in Chosen', s.asked = Latest, t.asked = Latest,
                      s.binary.software = t.binary.software
               PROVE  s.binary.version = t.binary.version
      BY DEF SameLatest
  <2>1. CASE s \in Chosen /\ t \in Chosen  BY <2>1 DEF IInv, ChosenInv, SameLatest
  <2>2. CASE new # {}  BY <1>2, <1>7, <2>2
  <2> QED  BY <1>2, <2>1, <2>2
<1>9. ChosenInv'  BY <1>2, <1>3, <1>5, <1>6, <1>7, <1>8 DEF ChosenInv
<1>10. ReportInv'  BY DEF IInv, ReportInv, Saved
<1> QED  BY <1>9, <1>10

(* A step that prepares no case. *)
LEMMA NothingNew ==
    ASSUME IInv, UNCHANGED <<wish, report, ran>>,
           step' # "over" => step # "over"
               /\ \A s \in Software : versions[s] \in {Latest, versions'[s]},
           Supported(kit)' = {} \/ (Supported(kit)' = Supported(kit) /\ Environment' = Environment),
           \A job \in ReadyJobs' : \/ job \in ReadyJobs
                                   \/ job.place = Environment /\ Supported(job) = Supported(kit)
    PROVE  ChosenInv' /\ ReportInv'
<1> DEFINE new == {}
<1>1. new \in SUBSET Support /\ new = {}  OBVIOUS
<1>2. \A s \in Supported(kit)' : s \in Supported(kit) \cup new /\ Environment' = Environment
    OBVIOUS
<1> HIDE DEF new
<1> QED  BY <1>1, <1>2, Grown

LEMMA WishFrame ==
    ASSUME PlaceInv, UNCHANGED <<wish, report>>
    PROVE  step # "over" => ~Differs(wish)'
BY DEF PlaceInv, Differs, Saved

LEMMA VersionsFrame ==
    ASSUME UNCHANGED preparer PROVE \A s \in Software : versions[s] \in {Latest, versions'[s]}
BY DEF preparer

LEMMA SkipInv ==
    ASSUME IInv, Skip PROVE IInv'
<1>1. step = "skip" /\ Enter(Tail(todo)) /\ UNCHANGED <<cacheVars, wish, jobs, preparer, report, ran>>
    BY DEF Skip
<1>2. Tail(todo) \in Seq(Place) /\ ToSet(Tail(todo)) \subseteq ToSet(Order)
    BY <1>1, Elements DEF IInv, PlaceType, PlaceInv
<1>3. /\ step' \in {"skip", "iperf", "case", "measure"} /\ kit' = EmptyKit
      /\ todo' \in Seq(Place) /\ cases' \in Seq(JobCase) /\ ToSet(todo') \subseteq ToSet(Order)
      /\ step' # "measure" => todo' # <<>>
      /\ step' \in {"iperf", "case"} => cases' # <<>>
    BY <1>1, <1>2, Entered
<1>4. CacheType' /\ ClientInv'  BY <1>1, NotAsking, CacheFrame
<1>5. PlaceType'  BY <1>1, <1>3, EmptyTypes DEF IInv, PlaceType, preparer
<1>6. ReadyJobs' = ReadyJobs /\ Supported(kit)' = {}
    BY <1>1, <1>3, EmptyTypes DEF ReadyJobs, Supported
<1>7. PlaceInv'  BY <1>1, <1>3, <1>6, WishFrame DEF IInv, PlaceInv
<1>8. BinaryInv'  BY <1>1 DEF IInv, BinaryInv, preparer
<1>9. ChosenInv' /\ ReportInv'  BY <1>1, <1>6, VersionsFrame, NothingNew
<1> QED  BY <1>4, <1>5, <1>7, <1>8, <1>9 DEF IInv

LEMMA Moved ==
    ASSUME IInv, MoveOn, step \in {"iperf", "emulated", "case"}
    PROVE  /\ step' \in {"case", "relay"} /\ cases' \in Seq(JobCase) /\ todo' \in Seq(Place)
           /\ step' = "case" => cases' # <<>>
           /\ todo' # <<>> /\ UNCHANGED <<todo, jobs>> /\ Environment' = Environment
<1>1. cases # <<>> /\ cases \in Seq(JobCase) /\ todo # <<>> /\ todo \in Seq(Place)
    BY DEF IInv, PlaceInv, PlaceType
<1>2. Tail(cases) \in Seq(JobCase)  BY <1>1, Elements
<1> QED  BY <1>1, <1>2 DEF MoveOn, Environment

LEMMA DroppedInv ==
    ASSUME IInv, Dropped PROVE IInv'
<1>1. step = "case" /\ ~Asking /\ MoveOn /\ UNCHANGED <<cacheVars, wish, kit, preparer, report, ran>>
    BY DEF Dropped, Asking
<1>2. /\ step' \in {"case", "relay"} /\ cases' \in Seq(JobCase) /\ todo' \in Seq(Place)
      /\ step' = "case" => cases' # <<>>
      /\ todo' # <<>> /\ UNCHANGED <<todo, jobs>> /\ Environment' = Environment
    BY <1>1, Moved
<1>3. CacheType' /\ ClientInv'  BY <1>1, NotAsking, CacheFrame
<1>4. PlaceType'  BY <1>1, <1>2 DEF IInv, PlaceType, preparer
<1>5. ReadyJobs' = ReadyJobs /\ Supported(kit)' = Supported(kit)
    BY <1>1, <1>2 DEF ReadyJobs, Supported
<1>6. PlaceInv'  BY <1>1, <1>2, <1>5, WishFrame DEF IInv, PlaceInv
<1>7. BinaryInv'  BY <1>1 DEF IInv, BinaryInv, preparer
<1>8. ChosenInv' /\ ReportInv'  BY <1>1, <1>2, <1>5, VersionsFrame, NothingNew
<1> QED  BY <1>3, <1>4, <1>6, <1>7, <1>8 DEF IInv

(* The kit of the current environment is complete. *)
LEMMA ReadyInv ==
    ASSUME IInv, NEW relay \in Binary, Ready(relay), step = "relay",
           UNCHANGED <<wish, report, ran>>, versions' \in [Software -> Nat],
           \A s \in Software : versions[s] \in {Latest, versions'[s]}
    PROVE  PlaceType' /\ PlaceInv' /\ ChosenInv' /\ ReportInv'
<1> DEFINE job == [place |-> Environment, relay |-> relay,
                   iperf |-> kit.iperf, supported |-> kit.supported]
<1>1. todo # <<>> /\ todo \in Seq(Place) /\ kit \in Kit /\ jobs \in Seq(Job)
    BY DEF IInv, PlaceType, PlaceInv
<1>2. /\ Environment \in Place /\ Environment \in ToSet(Order)
      /\ Tail(todo) \in Seq(Place) /\ ToSet(Tail(todo)) \subseteq ToSet(Order)
    BY <1>1, Elements DEF IInv, PlaceInv, Environment
<1>3. job \in Job  BY <1>1, <1>2 DEF Job, Kit
<1>4. jobs' = Append(jobs, job) /\ Enter(Tail(todo))  BY DEF Ready
<1>5. job.place = Environment /\ job.supported = kit.supported  OBVIOUS
<1> HIDE DEF job
<1>6. jobs' \in Seq(Job) /\ ReadyJobs' = ReadyJobs \cup {job}
    BY <1>1, <1>3, <1>4, Appended DEF ReadyJobs
<1>7. /\ step' \in {"skip", "iperf", "case", "measure"} /\ kit' = EmptyKit
      /\ todo' \in Seq(Place) /\ cases' \in Seq(JobCase) /\ ToSet(todo') \subseteq ToSet(Order)
      /\ step' # "measure" => todo' # <<>>
      /\ step' \in {"iperf", "case"} => cases' # <<>>
    BY <1>2, <1>4, Entered
<1>8. Supported(kit)' = {}  BY <1>7, EmptyTypes DEF Supported
<1>9. PlaceType'  BY <1>6, <1>7, EmptyTypes DEF IInv, PlaceType
<1>10. PlaceInv'  BY <1>2, <1>5, <1>6, <1>7, WishFrame DEF IInv, PlaceInv
<1>11. ChosenInv' /\ ReportInv'
    BY <1>5, <1>6, <1>8, NothingNew DEF Supported
<1> QED  BY <1>9, <1>10, <1>11

(* The relay is one of the cases' own, or none is needed. *)
LEMMA RelayOfCases ==
    ASSUME IInv, step = "relay", ~Asking
    PROVE  Relay \in Binary /\ (NeedsRelay => Relay.software = SingBox)
<1>1. CASE ~NeedsRelay  BY <1>1, EmptyTypes DEF Relay
<1>2. CASE NeedsRelay
  <2> DEFINE fromPackage == {s \in SingBoxes : s.asked = Built}
             choice == IF fromPackage # {} THEN fromPackage ELSE SingBoxes
  <2>1. choice # {}  BY <1>2 DEF Asking
  <2>2. choice \subseteq Support /\ \A s \in choice : s.binary.software = SingBox
      BY ChosenType DEF SingBoxes, IInv, Supported
  <2>3. Relay = (CHOOSE s \in choice : TRUE).binary  BY <1>2 DEF Relay
  <2> HIDE DEF choice
  <2> QED  BY <2>1, <2>2, <2>3 DEF Support
<1> QED  BY <1>1, <1>2

LEMMA PreparedInv ==
    ASSUME IInv, Prepared PROVE IInv'
<1>1. /\ step = "relay" /\ ~Asking /\ Ready(Relay)
      /\ UNCHANGED <<cacheVars, wish, preparer, report, ran>>
    BY DEF Prepared
<1>2. Relay \in Binary  BY <1>1, RelayOfCases
<1>3. CacheType' /\ ClientInv'  BY <1>1, NotAsking, CacheFrame
<1>4. versions \in [Software -> Nat] /\ versions' = versions
    BY <1>1 DEF IInv, PlaceType, preparer
<1>5. PlaceType' /\ PlaceInv' /\ ChosenInv' /\ ReportInv'
    BY <1>1, <1>2, <1>4, ReadyInv
<1>6. BinaryInv'  BY <1>1 DEF IInv, BinaryInv, preparer
<1> QED  BY <1>3, <1>5, <1>6 DEF IInv

(* binary returns what was asked for; its caller goes on.                  *)
LEMMA UseBinaryInv ==
    ASSUME IInv, Asking, NEW binary \in Binary, UseBinary(binary),
           binary.software = Wanted.software,
           Wanted.version = Built => binary.version = Latest,
           Wanted.version # Built => /\ binary.version # Latest
                                     /\ Wanted.version \in {Latest, binary.version},
           Wanted.version = Latest => versions'[Wanted.software] = binary.version,
           UNCHANGED <<wish, report, ran>>, versions' \in [Software -> Nat],
           \A s \in Software : versions[s] \in {Latest, versions'[s]}
    PROVE  PlaceType' /\ PlaceInv' /\ ChosenInv' /\ ReportInv'
<1>1. CASE step = "relay"
    BY <1>1, ReadyInv DEF UseBinary
<1>2. CASE step = "case"
  <2> DEFINE c == Head(cases)
             i == c.implementation
             new == [case |-> c, binary |-> binary, asked |-> Wanted.version]
  <2>1. MoveOn /\ kit' = [kit EXCEPT !.supported = Append(@, new)]
      BY <1>2 DEF UseBinary
  <2>2. /\ step' \in {"case", "relay"} /\ cases' \in Seq(JobCase) /\ todo' \in Seq(Place)
        /\ step' = "case" => cases' # <<>>
        /\ todo' # <<>> /\ UNCHANGED <<todo, jobs>> /\ Environment' = Environment
      BY <1>2, <2>1, Moved
  <2>3. /\ c \in JobCase /\ Environment \in Place /\ Wanted.version \in Nat \cup {Built}
        /\ Wanted.software = SoftwareBy[i] /\ Wanted.version = Asked(Environment, i)
      BY <1>2, WantedType
  <2>4. new \in Support
      BY <2>3 DEF Support, Built
  <2>5. new.case = c /\ new.binary = binary /\ new.asked = Wanted.version  OBVIOUS
  <2>6. kit \in Kit /\ jobs \in Seq(Job)  BY DEF IInv, PlaceType
  <2>7. i \in Implementation  BY <2>3 DEF JobCase
  <2> HIDE DEF new, c
  <2>8. Append(kit.supported, new) \in Seq(Support)
        /\ ToSet(Append(kit.supported, new)) = ToSet(kit.supported) \cup {new}
      BY <2>4, <2>6, Appended DEF Kit
  <2>9. kit' \in Kit /\ kit'.supported = Append(kit.supported, new)
      BY <2>1, <2>6, <2>8 DEF Kit
  <2>10. Supported(kit)' = Supported(kit) \cup {new}  BY <2>8, <2>9 DEF Supported
  <2>11. new.case.implementation \in FromPackage <=> new.asked = Built
      BY <2>3, <2>5, <2>7 DEF Asked, IInv, ReportInv, PlaceType, Built
  <2>12. Right(new)  BY <2>3, <2>5, <2>11 DEF Right
  <2>13. Fits(Environment, new)
    <3>1. CASE i \in FromPackage
      <4>1. new.binary.version = Latest /\ new.case.implementation = i
          BY <2>5, <2>11, <3>1
      <4>2. i \in DOMAIN Saved(Environment) => Saved(Environment)[i] = Latest
          BY <2>3, <3>1 DEF IInv, ReportInv
      <4> QED  BY <3>1, <4>1, <4>2 DEF Fits
    <3>2. CASE i \notin FromPackage /\ i \in DOMAIN Saved(Environment)
      <4>1. Saved(Environment)[i] # Latest /\ Saved(Environment)[i] \in Nat
          BY <2>3, <3>2 DEF IInv, ReportInv
      <4>2. Environment \in ToSet(Order)
          BY Elements DEF IInv, PlaceInv, PlaceType, Environment, Asking
      <4>3. wish[i] \in {Latest, Saved(Environment)[i]}
          BY <1>2, <3>2, <4>2 DEF IInv, PlaceInv, Differs
      <4>4. Wanted.version = Saved(Environment)[i]  BY <2>3, <3>2, <4>3 DEF Asked
      <4>5. binary.version = Saved(Environment)[i]
          BY <4>1, <4>4 DEF Built, Latest
      <4> QED  BY <2>5, <3>2, <4>5 DEF Fits
    <3>3. CASE i \notin FromPackage /\ i \notin DOMAIN Saved(Environment)
        BY <2>3, <2>5, <3>3 DEF Fits, Asked
    <3> QED  BY <3>1, <3>2, <3>3
  <2>14. ReadyJobs' = ReadyJobs  BY <2>2 DEF ReadyJobs
  <2>15. PlaceType'  BY <2>2, <2>6, <2>9 DEF IInv, PlaceType
  <2>16. PlaceInv'  BY <1>2, <2>2, <2>14, WishFrame DEF IInv, PlaceInv
  <2>17. new.asked = Latest => versions'[new.binary.software] = new.binary.version
      BY <2>5
  <2>18. ChosenInv' /\ ReportInv'
    <3> DEFINE added == {new}
    <3>1. /\ added \in SUBSET Support
          /\ \A s \in added : /\ Right(s) /\ Fits(Environment, s)
                              /\ s.asked = Latest => versions'[s.binary.software] = s.binary.version
        BY <2>4, <2>12, <2>13, <2>17
    <3>2. \A s \in Supported(kit)' : s \in Supported(kit) \cup added /\ Environment' = Environment
        BY <2>2, <2>10
    <3>3. step # "over" /\ step' # "over"  BY <1>2, <2>2
    <3> HIDE DEF added
    <3> QED  BY <2>14, <3>1, <3>2, <3>3, Grown
  <2> QED  BY <2>15, <2>16, <2>18
<1>3. CASE step \in {"iperf", "emulated"}
  <2>1. MoveOn /\ kit' = [kit EXCEPT !.iperf = binary]
      BY <1>3 DEF UseBinary
  <2>2. /\ step' \in {"case", "relay"} /\ cases' \in Seq(JobCase) /\ todo' \in Seq(Place)
        /\ step' = "case" => cases' # <<>>
        /\ todo' # <<>> /\ UNCHANGED <<todo, jobs>> /\ Environment' = Environment
      BY <1>3, <2>1, Moved
  <2>3. kit' \in Kit /\ kit'.supported = kit.supported
      BY <2>1 DEF IInv, PlaceType, Kit
  <2>4. ReadyJobs' = ReadyJobs /\ Supported(kit)' = Supported(kit)
      BY <2>2, <2>3 DEF ReadyJobs, Supported
  <2>5. PlaceType'  BY <2>2, <2>3 DEF IInv, PlaceType
  <2>6. PlaceInv'  BY <1>3, <2>2, <2>4, WishFrame DEF IInv, PlaceInv
  <2>7. ChosenInv' /\ ReportInv'  BY <1>3, <2>2, <2>4, NothingNew
  <2> QED  BY <2>5, <2>6, <2>7
<1> QED  BY <1>1, <1>2, <1>3 DEF UseBinary

(* The end of an invocation. *)
LEMMA OverFrame ==
    ASSUME IInv, Over, jobs' = jobs \/ jobs' = <<>>, UNCHANGED <<wish, report, ran>>,
           versions' \in [Software -> Nat]
    PROVE  PlaceType' /\ PlaceInv' /\ ChosenInv' /\ ReportInv'
<1>1. step' = "over" /\ todo' = <<>> /\ cases' = <<>> /\ kit' = EmptyKit  BY DEF Over
<1>2. ToSet(<<>>) = {}  BY DEF ToSet
<1>3. ReadyJobs' \subseteq ReadyJobs /\ Supported(kit)' = {} /\ ToSet(todo') = {}
    BY <1>1, <1>2, EmptyTypes DEF ReadyJobs, Supported
<1>4. PlaceType'
  <2>1. <<>> \in Seq(Place) /\ <<>> \in Seq(JobCase) /\ <<>> \in Seq(Job)  OBVIOUS
  <2>2. jobs' \in Seq(Job)  BY <2>1 DEF IInv, PlaceType
  <2>3. wish' \in [Implementation -> Nat]  BY DEF IInv, PlaceType
  <2> QED  BY <1>1, <2>1, <2>2, <2>3, EmptyTypes DEF PlaceType
<1>5. PlaceInv'  BY <1>1, <1>3 DEF IInv, PlaceInv
<1>6. ChosenInv' /\ ReportInv'  BY <1>1, <1>3, NothingNew
<1> QED  BY <1>4, <1>5, <1>6

(* There is no release of it; the case, all throughput cases or the        *)
(* invocation are given up.                                                *)
LEMMA WithoutReleaseInv ==
    ASSUME IInv, Asking, WithoutRelease, UNCHANGED <<wish, report, ran, versions>>
    PROVE  PlaceType' /\ PlaceInv' /\ ChosenInv' /\ ReportInv'
<1>1. \A s \in Software : versions[s] \in {Latest, versions'[s]}  OBVIOUS
<1>2. CASE Emulates /\ step' = "emulated" /\ UNCHANGED <<todo, cases, kit, jobs>>
  <2>1. step = "iperf"  BY <1>2 DEF Emulates
  <2>2. ReadyJobs' = ReadyJobs /\ Supported(kit)' = Supported(kit) /\ Environment' = Environment
      BY <1>2 DEF ReadyJobs, Supported, Environment
  <2>3. PlaceType'  BY <1>2 DEF IInv, PlaceType
  <2>4. PlaceInv'  BY <1>2, <2>1, <2>2, WishFrame DEF IInv, PlaceInv
  <2>5. ChosenInv' /\ ReportInv'  BY <1>1, <2>1, <2>2, NothingNew
  <2> QED  BY <2>3, <2>4, <2>5
<1>3. CASE /\ step \in {"iperf", "emulated", "case"} /\ MoveOn
           /\ kit' \in {kit, [kit EXCEPT !.throughput = FALSE]}
  <2>1. /\ step' \in {"case", "relay"} /\ cases' \in Seq(JobCase) /\ todo' \in Seq(Place)
        /\ step' = "case" => cases' # <<>>
        /\ todo' # <<>> /\ UNCHANGED <<todo, jobs>> /\ Environment' = Environment
      BY <1>3, Moved
  <2>2. kit' \in Kit /\ kit'.supported = kit.supported
      BY <1>3 DEF IInv, PlaceType, Kit
  <2>3. ReadyJobs' = ReadyJobs /\ Supported(kit)' = Supported(kit)
      BY <2>1, <2>2 DEF ReadyJobs, Supported
  <2>4. PlaceType'  BY <2>1, <2>2 DEF IInv, PlaceType
  <2>5. PlaceInv'  BY <1>3, <2>1, <2>3, WishFrame DEF IInv, PlaceInv
  <2>6. ChosenInv' /\ ReportInv'  BY <1>1, <1>3, <2>1, <2>3, NothingNew
  <2> QED  BY <2>4, <2>5, <2>6
<1>4. CASE Over /\ UNCHANGED jobs  BY <1>4, OverFrame DEF IInv, PlaceType
<1> QED  BY <1>2, <1>3, <1>4 DEF WithoutRelease

LEMMA RememberedInv ==
    ASSUME IInv, Remembered PROVE IInv'
<1>1. at = "idle" /\ Asking /\ UNCHANGED <<cacheVars, wish, preparer, report, ran>>
    BY DEF Remembered
<1>2. CacheType' /\ ClientInv'  BY <1>1, CacheFrame
<1>3. BinaryInv'  BY <1>1 DEF IInv, BinaryInv, preparer
<1>4. versions \in [Software -> Nat] /\ versions' = versions
    BY <1>1 DEF IInv, PlaceType, preparer
<1>5. PlaceType' /\ PlaceInv' /\ ChosenInv' /\ ReportInv'
  <2>1. CASE WantedKey \in DOMAIN binaries /\ UseBinary(binaries[WantedKey])
    <3> DEFINE w == Wanted
    <3>1. /\ WantedKey[1] = w.software /\ WantedKey[2] = Pinned(w)
        BY DEF WantedKey, KeyOf
    <3>2. w.software \in Software /\ w.version \in Nat \cup {Built}
        BY <1>1, WantedType
    <3> DEFINE b == binaries[WantedKey]
    <3>3. /\ b \in Binary /\ b.software = w.software
          /\ Pinned(w) \in Nat \cup {Built}
          /\ Pinned(w) = Built => b.version = Latest
          /\ Pinned(w) = Latest => versions[w.software] # Latest
          /\ Pinned(w) \in Nat \ {Latest} => b.version = Pinned(w)
        BY <2>1, <3>1 DEF IInv, BinaryInv
    <3> HIDE DEF w, b
    <3>4. Pinned(w) = IF w.version = Latest THEN versions[w.software] ELSE w.version
        BY DEF Pinned
    <3>5. versions[w.software] \in Nat  BY <1>4, <3>2
    <3>6. Pinned(w) # Latest  BY <3>3, <3>4
    <3>7. w.version = Built => b.version = Latest  BY <3>3, <3>4 DEF Built, Latest
    <3>8. w.version # Built => /\ b.version # Latest /\ w.version \in {Latest, b.version}
        BY <3>2, <3>3, <3>4, <3>5, <3>6 DEF Built, Latest
    <3>9. w.version = Latest => versions'[w.software] = b.version
        BY <1>4, <3>3, <3>4, <3>5, <3>6
    <3>10. UNCHANGED <<wish, report, ran>>  BY <1>1
    <3> QED  BY <1>1, <1>4, <2>1, <3>3, <3>7, <3>8, <3>9, <3>10, UseBinaryInv DEF w, b
  <2>2. CASE WithoutRelease  BY <1>1, <1>4, <2>2, WithoutReleaseInv
  <2> QED  BY <2>1, <2>2 DEF Remembered
<1> QED  BY <1>2, <1>3, <1>5 DEF IInv

(* New binaries under new keys.                                            *)
LEMMA WithBinaryInv ==
    ASSUME BinaryInv, NEW keys, NEW binary \in Binary,
           binaries' = WithBinary(keys, binary),
           \A s \in Software : versions[s] \in {Latest, versions'[s]},
           \A k \in keys :
               /\ k[1] \in Software /\ k[2] \in Nat \cup {Built} /\ binary.software = k[1]
               /\ k[2] = Built => binary.version = Latest
               /\ k[2] = Latest => versions'[k[1]] # Latest
               /\ k[2] \in Nat \ {Latest} => binary.version = k[2]
    PROVE  BinaryInv'
<1>1. DOMAIN binaries' = DOMAIN binaries \cup keys
      /\ \A k \in DOMAIN binaries' : binaries'[k] = IF k \in keys THEN binary ELSE binaries[k]
    BY DEF WithBinary
<1>2. ASSUME NEW k \in DOMAIN binaries, k \notin keys, k[2] = Latest
      PROVE  versions'[k[1]] # Latest
    BY <1>2 DEF BinaryInv
<1> QED  BY <1>1, <1>2 DEF BinaryInv

LEMMA BuildInv ==
    ASSUME IInv, Build PROVE IInv'
<1> DEFINE binary == [software |-> Wanted.software, version |-> Latest,
                      made |-> {<<Wanted.software, "whole">>}]
<1>1. /\ at = "idle" /\ Asking /\ Wanted.version = Built
      /\ UNCHANGED <<cacheVars, wish, versions, unsupported, report, ran>>
    BY DEF Build, New
<1>2. CacheType' /\ ClientInv'  BY <1>1, CacheFrame
<1>3. Wanted.software \in Software  BY <1>1, WantedType
<1>4. binary \in Binary
  <2>1. <<Wanted.software, "whole">> \in Piece  BY <1>3 DEF Piece, Content
  <2> QED  BY <1>3, <2>1 DEF Binary, Latest
<1>5. binary.software = Wanted.software /\ binary.version = Latest  OBVIOUS
<1>6. \/ UseBinary(binary) /\ binaries' = WithBinary({WantedKey}, binary)
      \/ Over /\ UNCHANGED <<jobs, binaries>>
    BY DEF Build
<1> HIDE DEF binary
<1>7. versions \in [Software -> Nat] /\ versions' = versions
    BY <1>1 DEF IInv, PlaceType
<1>8. Built # Latest  BY DEF Built, Latest
<1>9. CASE UseBinary(binary) /\ binaries' = WithBinary({WantedKey}, binary)
  <2>1. PlaceType' /\ PlaceInv' /\ ChosenInv' /\ ReportInv'
      BY <1>1, <1>4, <1>5, <1>7, <1>8, <1>9, UseBinaryInv
  <2>2. WantedKey[1] = Wanted.software /\ WantedKey[2] = Built
      BY <1>1, <1>8 DEF WantedKey, KeyOf, Pinned
  <2>3. Built \notin Nat  BY DEF Built
  <2>4. BinaryInv'
      BY <1>3, <1>4, <1>5, <1>7, <1>8, <1>9, <2>2, <2>3, WithBinaryInv DEF IInv
  <2> QED  BY <1>2, <2>1, <2>4 DEF IInv
<1>10. CASE Over /\ UNCHANGED <<jobs, binaries>>
  <2>1. BinaryInv'  BY <1>7, <1>10 DEF IInv, BinaryInv
  <2> QED  BY <1>1, <1>2, <1>7, <1>10, <2>1, OverFrame DEF IInv
<1> QED  BY <1>6, <1>9, <1>10

LEMMA DownloadInv ==
    ASSUME IInv, Download PROVE IInv'
<1>1. /\ Asking /\ Wanted.version # Built /\ Request(Wanted.software, Pinned(Wanted), Wanted.target)
      /\ UNCHANGED <<disk, outside, place, wish, preparer, report, ran>>
    BY DEF Download, New
<1>2. CacheType'  BY <1>1 DEF Request, IInv, CacheType, disk, outside
<1>3. ClientInv'  BY <1>1, Frame DEF Request, ClientInv
<1> QED  BY <1>1, <1>2, <1>3, Frame DEF IInv

LEMMA DownloadedInv ==
    ASSUME IInv, Downloaded, UNCHANGED <<wish, report, ran>>
    PROVE  PlaceType' /\ PlaceInv' /\ BinaryInv' /\ ChosenInv' /\ ReportInv'
<1> DEFINE binary == [software |-> ask.software, version |-> found, made |-> made]
           w == Wanted
<1>1. /\ at = "ok" /\ UseBinary(binary)
      /\ binaries' = WithBinary({WantedKey, KeyOf(w, found)}, binary)
      /\ versions' = IF w.version = Latest
                     THEN [versions EXCEPT ![ask.software] = found] ELSE versions
    BY DEF Downloaded
<1>2. /\ Asking /\ w.version # Built /\ ask.software = w.software /\ ask.version = Pinned(w)
      /\ found \in Nat \ {Latest} /\ ask.version \in {Latest, found}
    BY <1>1 DEF IInv, ClientInv
<1>3. w.software \in Software /\ w.version \in Nat \cup {Built}  BY <1>2, WantedType
<1>4. binary \in Binary
    BY <1>2, <1>3 DEF Binary, IInv, CacheType
<1>5. binary.software = w.software /\ binary.version = found  BY <1>2
<1>6. /\ WantedKey[1] = w.software /\ WantedKey[2] = Pinned(w)
      /\ KeyOf(w, found)[1] = w.software /\ KeyOf(w, found)[2] = found
    BY DEF WantedKey, KeyOf
<1> HIDE DEF binary, w
<1>7. Pinned(w) = IF w.version = Latest THEN versions[w.software] ELSE w.version
    BY DEF Pinned
<1>8. versions \in [Software -> Nat]  BY DEF IInv, PlaceType
<1>9. versions' \in [Software -> Nat]
      /\ (w.version = Latest => versions'[w.software] = found)
    BY <1>1, <1>2, <1>3, <1>8
<1>10. \A s \in Software : versions[s] \in {Latest, versions'[s]}
    BY <1>1, <1>2, <1>3, <1>7, <1>8
<1>11. w.version \in {Latest, found}  BY <1>2, <1>7
<1>12. PlaceType' /\ PlaceInv' /\ ChosenInv' /\ ReportInv'
    BY <1>1, <1>2, <1>4, <1>5, <1>9, <1>10, <1>11, UseBinaryInv DEF w
<1>13. Pinned(w) \in {Latest, found} /\ (Pinned(w) = Latest => versions'[w.software] # Latest)
    BY <1>2, <1>7, <1>9
<1>14. ASSUME NEW k \in {WantedKey, KeyOf(w, found)}
       PROVE  /\ k[1] \in Software /\ k[2] \in Nat \cup {Built} /\ binary.software = k[1]
              /\ k[2] = Built => binary.version = Latest
              /\ k[2] = Latest => versions'[k[1]] # Latest
              /\ k[2] \in Nat \ {Latest} => binary.version = k[2]
  <2>1. k[1] = w.software /\ k[2] \in {Pinned(w), found}  BY <1>6
  <2>2. k[2] \in {Latest, found} /\ (k[2] = Latest => versions'[w.software] # Latest)
      BY <1>2, <1>13, <2>1
  <2>3. Built \notin Nat /\ Latest \in Nat  BY DEF Built, Latest
  <2> QED  BY <1>2, <1>3, <1>5, <2>1, <2>2, <2>3
<1>15. BinaryInv'
    BY <1>1, <1>4, <1>10, <1>14, WithBinaryInv DEF IInv
<1> QED  BY <1>12, <1>15

LEMMA AnsweredInv ==
    ASSUME IInv, Answered PROVE IInv'
<1>1. /\ Downloaded \/ Refused \/ Failed
      /\ Reset /\ UNCHANGED <<disk, outside, wish, report, ran>>
    BY DEF Answered
<1>2. CacheType' /\ ClientInv'  BY <1>1, ResetFrame
<1>3. CASE Downloaded  BY <1>1, <1>2, <1>3, DownloadedInv DEF IInv
<1>4. CASE Refused
  <2>1. Asking  BY <1>4 DEF Refused, IInv, ClientInv
  <2>2. WithoutRelease /\ UNCHANGED <<versions, binaries>>  BY <1>4 DEF Refused
  <2>3. PlaceType' /\ PlaceInv' /\ ChosenInv' /\ ReportInv'
      BY <1>1, <2>1, <2>2, WithoutReleaseInv
  <2>4. BinaryInv'  BY <2>2 DEF IInv, BinaryInv
  <2> QED  BY <1>2, <2>3, <2>4 DEF IInv
<1>5. CASE Failed
  <2>1. /\ Over /\ UNCHANGED jobs /\ binaries' = <<>>
        /\ versions' = [s \in Software |-> Latest]
      BY <1>5 DEF Failed, Discard
  <2>2. BinaryInv'  BY <2>1 DEF BinaryInv
  <2>3. versions' \in [Software -> Nat]  BY <2>1 DEF Latest
  <2> QED  BY <1>1, <1>2, <2>1, <2>2, <2>3, OverFrame DEF IInv
<1> QED  BY <1>1, <1>3, <1>4, <1>5
-----------------------------------------------------------------------------
(* The measurements.                                                       *)

(* Two cases of an implementation that the report does not know yet have   *)
(* the same version.                                                       *)
LEMMA SameVersion ==
    ASSUME IInv, NEW e, NEW s \in Chosen, NEW t \in Chosen, Fits(e, s), Fits(e, t),
           s.case.implementation = t.case.implementation,
           s.case.implementation \notin DOMAIN Saved(e)
    PROVE  s.binary.version = t.binary.version
<1>1. Right(s) /\ Right(t)  BY DEF IInv, ChosenInv
<1>2. CASE s.case.implementation \in FromPackage  BY <1>1, <1>2 DEF Right
<1>3. CASE s.case.implementation \notin FromPackage
  <2>1. s.asked = t.asked /\ s.asked # Built /\ t.asked # Built
      BY <1>1, <1>3 DEF Fits, Right
  <2>2. CASE s.asked = Latest
      BY <1>1, <2>1, <2>2 DEF IInv, ChosenInv, SameLatest, Right
  <2>3. CASE s.asked # Latest  BY <1>1, <2>1, <2>3 DEF Right
  <2> QED  BY <2>2, <2>3
<1> QED  BY <1>2, <1>3

Records(job, e, done) ==
    /\ report' = [report EXCEPT ![e] = Recorded(job, done)]
    /\ ran' = ran \cup {<<e, s.case.implementation, s.binary.version>> : s \in done}

LEMMA RecordedInv ==
    ASSUME IInv, step = "measure", jobs # <<>>,
           NEW job, job = Head(jobs), NEW e, e = job.place,
           NEW done \in SUBSET Supported(job), Records(job, e, done),
           jobs' = Tail(jobs), UNCHANGED <<cacheVars, step, wish, todo, cases, kit, preparer>>
    PROVE  IInv'
<1> DEFINE names == {c.implementation : c \in CasesOf(job)}
           firstOf(i) == CHOOSE s \in Supported(job) : s.case.implementation = i
<1>1. jobs \in Seq(Job) /\ kit = EmptyKit /\ versions' = versions
    BY DEF IInv, PlaceType, PlaceInv, preparer
<1>2. job \in Job /\ job \in ReadyJobs /\ jobs' \in Seq(Job) /\ ReadyJobs' \subseteq ReadyJobs
    BY <1>1, Elements DEF ReadyJobs
<1>3. /\ Supported(job) \subseteq Support /\ Supported(job) \subseteq Chosen
      /\ e \in Place /\ e \in ToSet(Order)
    BY <1>2, ChosenType DEF IInv, Chosen, Job, PlaceInv
<1>4. Supported(kit)' = {} /\ Chosen' \subseteq Chosen /\ Chosen \subseteq Support
    BY <1>1, <1>2, EmptyTypes, ChosenType DEF IInv, Chosen, Supported
<1>5. ASSUME NEW i \in names
      PROVE  /\ firstOf(i) \in Supported(job) /\ firstOf(i).case.implementation = i
             /\ i \in Implementation /\ Right(firstOf(i)) /\ Fits(e, firstOf(i))
             /\ firstOf(i).binary.version \in Nat
  <2>1. \E s \in Supported(job) : s.case.implementation = i  BY DEF CasesOf
  <2>2. firstOf(i) \in Supported(job) /\ firstOf(i).case.implementation = i  BY <2>1
  <2> HIDE DEF firstOf
  <2>3. firstOf(i) \in Support /\ Right(firstOf(i)) /\ Fits(e, firstOf(i))
      BY <1>2, <1>3, <2>2 DEF IInv, ChosenInv
  <2>4. firstOf(i).binary \in Binary /\ i \in Implementation
      BY <2>2, <2>3 DEF Support, JobCase
  <2>5. firstOf(i).binary.version \in Nat  BY <2>4 DEF Binary, NoBinary, Latest
  <2> QED  BY <2>2, <2>3, <2>4, <2>5
<1> DEFINE known == DOMAIN Saved(e)
           imp == [i \in known \cup names |->
                      IF i \in known THEN Saved(e)[i] ELSE firstOf(i).binary.version]
<1>6. /\ Recorded(job, done).implementations = imp
      /\ Recorded(job, done).decided = report[e].decided \cup {s.case : s \in done}
      /\ Recorded(job, done).iperf \in {job.iperf.version, report[e].iperf}
      /\ Recorded(job, done) = [implementations |-> imp, iperf |-> Recorded(job, done).iperf,
                                decided |-> Recorded(job, done).decided]
    BY DEF Recorded, Saved
<1>7. DOMAIN report = Place  BY DEF IInv, ReportInv
<1>8. /\ DOMAIN report' = Place /\ report'[e] = Recorded(job, done)
      /\ \A o \in Place : o # e => report'[o] = report[o]
    BY <1>3, <1>7 DEF Records
<1>9. Saved(e)' = imp /\ \A o \in Place : o # e => Saved(o)' = Saved(o)
    BY <1>6, <1>8 DEF Saved
<1> HIDE DEF names, firstOf, known, imp
<1>10. /\ DOMAIN imp = known \cup names /\ known = DOMAIN Saved(e)
       /\ \A i \in known : imp[i] = Saved(e)[i]
       /\ \A i \in names : i \notin known => imp[i] = firstOf(i).binary.version
    BY DEF imp, known
(* What was prepared for this environment has the version now recorded. *)
<1>11. ASSUME NEW j \in ReadyJobs, NEW s \in Supported(j), j.place = e,
              s.case.implementation \in DOMAIN imp
       PROVE  s.binary.version = imp[s.case.implementation]
  <2> DEFINE i == s.case.implementation
  <2>1. Fits(e, s) /\ s \in Chosen  BY <1>11 DEF IInv, ChosenInv, Chosen
  <2>2. CASE i \in known  BY <1>10, <2>1, <2>2 DEF Fits
  <2>3. CASE i \notin known
    <3>1. i \in names /\ imp[i] = firstOf(i).binary.version  BY <1>10, <1>11, <2>3
    <3>2. firstOf(i) \in Chosen /\ firstOf(i).case.implementation = i /\ Fits(e, firstOf(i))
        BY <1>3, <1>5, <3>1
    <3> QED  BY <1>10, <2>1, <2>3, <3>1, <3>2, SameVersion
  <2> QED  BY <2>2, <2>3
<1>12. \A i \in DOMAIN imp : /\ i \in Implementation /\ imp[i] \in Nat
                             /\ i \in FromPackage <=> imp[i] = Latest
  <2> SUFFICES ASSUME NEW i \in DOMAIN imp
               PROVE  /\ i \in Implementation /\ imp[i] \in Nat
                      /\ i \in FromPackage <=> imp[i] = Latest
      OBVIOUS
  <2>1. CASE i \in known  BY <1>3, <1>10, <2>1 DEF IInv, ReportInv
  <2>2. CASE i \notin known  BY <1>5, <1>10, <2>2 DEF Right
  <2> QED  BY <2>1, <2>2
<1>13. ReportInv'
  <2>1. Recorded(job, done).iperf \in Nat
    <3>1. job.iperf.version \in Nat  BY <1>2 DEF Job, Binary, NoBinary, Latest
    <3> QED  BY <1>3, <1>6, <3>1 DEF IInv, ReportInv
  <2>2. Recorded(job, done).decided \subseteq JobCase
    <3>1. {s.case : s \in done} \subseteq JobCase  BY <1>3 DEF Support
    <3> QED  BY <1>3, <1>6, <3>1 DEF IInv, ReportInv
  <2>3. report' = [o \in Place |-> [implementations |-> Saved(o)', iperf |-> report'[o].iperf,
                                    decided |-> report'[o].decided]]
    <3> DEFINE shape(r) == [implementations |-> r.implementations, iperf |-> r.iperf,
                            decided |-> r.decided]
    <3>1. \A o \in Place : report[o] = shape(report[o])
        BY DEF IInv, ReportInv, Saved
    <3>2. report'[e] = shape(report'[e])  BY <1>6, <1>8
    <3>3. \A o \in Place : report'[o] = shape(report'[o])  BY <1>8, <3>1, <3>2
    <3>4. report' = [o \in Place |-> report'[o]]
        BY <1>7 DEF IInv, ReportInv, Records
    <3> QED  BY <3>3, <3>4 DEF Saved
  <2>4. \A o \in Place : /\ report'[o].iperf \in Nat /\ report'[o].decided \subseteq JobCase
                         /\ DOMAIN Saved(o)' \subseteq Implementation
    <3> SUFFICES ASSUME NEW o \in Place
                 PROVE  /\ report'[o].iperf \in Nat /\ report'[o].decided \subseteq JobCase
                        /\ DOMAIN Saved(o)' \subseteq Implementation
        OBVIOUS
    <3>1. CASE o = e  BY <1>8, <1>9, <1>12, <2>1, <2>2, <3>1
    <3>2. CASE o # e  BY <1>8, <1>9, <3>2 DEF IInv, ReportInv
    <3> QED  BY <3>1, <3>2
  <2>5. \A o \in Place : \A i \in DOMAIN Saved(o)' :
            Saved(o)'[i] \in Nat /\ (i \in FromPackage <=> Saved(o)'[i] = Latest)
      BY <1>9, <1>12 DEF IInv, ReportInv
  <2>6. ASSUME NEW r \in ran'
        PROVE  r[1] \in Place /\ r[2] \in DOMAIN Saved(r[1])' /\ Saved(r[1])'[r[2]] = r[3]
    <3>1. CASE r \in ran
      <4>1. r[1] \in Place /\ r[2] \in DOMAIN Saved(r[1]) /\ Saved(r[1])[r[2]] = r[3]
          BY <3>1 DEF IInv, ReportInv
      <4>2. CASE r[1] = e  BY <1>3, <1>9, <1>10, <4>1, <4>2
      <4>3. CASE r[1] # e  BY <1>9, <4>1, <4>3
      <4> QED  BY <4>2, <4>3
    <3>2. CASE r \notin ran
      <4>1. PICK s \in done : r = <<e, s.case.implementation, s.binary.version>>
          BY <3>2 DEF Records
      <4>2. s \in Supported(job) /\ s.case.implementation \in names
          BY DEF names, CasesOf
      <4>3. s.binary.version = imp[s.case.implementation]
          BY <1>2, <1>10, <1>11, <4>2
      <4> QED  BY <1>3, <1>9, <1>10, <4>1, <4>2, <4>3
    <3> QED  BY <3>1, <3>2
  <2> QED  BY <2>3, <2>4, <2>5, <2>6 DEF ReportInv, Saved
<1>14. ChosenInv'
  <2>1. ASSUME NEW j \in ReadyJobs', NEW s \in Supported(j) PROVE Fits(j.place, s)'
    <3> DEFINE i == s.case.implementation
    <3>1. j \in ReadyJobs /\ Fits(j.place, s)  BY <1>2 DEF IInv, ChosenInv
    <3>2. j.place \in Place  BY <3>1, ChosenType DEF IInv, Job
    <3>3. CASE j.place = e /\ i \in DOMAIN imp
        BY <1>9, <1>11, <3>1, <3>3 DEF Fits, Saved
    <3>4. CASE j.place = e /\ i \notin DOMAIN imp
        BY <1>9, <1>10, <3>1, <3>4 DEF Fits, Saved
    <3>5. CASE j.place # e  BY <1>9, <3>1, <3>2, <3>5 DEF Fits, Saved
    <3> QED  BY <3>3, <3>4, <3>5
  <2>2. \A s \in Chosen' : Right(s)'  BY <1>4 DEF IInv, ChosenInv, Right
  <2>3. SameLatest'  BY <1>4 DEF IInv, ChosenInv, SameLatest
  <2>4. step' # "over" => \A s \in Chosen' :
            s.asked = Latest => versions'[s.binary.software] = s.binary.version
      BY <1>1, <1>4 DEF IInv, ChosenInv
  <2>5. \A j \in ReadyJobs' : \A s \in Supported(j)' : Fits(j.place, s)'
      BY <2>1 DEF Supported
  <2> QED  BY <1>4, <2>2, <2>3, <2>4, <2>5 DEF ChosenInv
<1>15. ~Differs(wish)'
  <2> SUFFICES ASSUME NEW o \in ToSet(Order), NEW i \in DOMAIN Saved(o)' \ FromPackage
               PROVE  wish[i] \in {Latest, Saved(o)'[i]}
      BY DEF Differs, Saved
  <2>1. o \in Place  BY ArtifactAssumption, Elements
  <2>2. i \in DOMAIN Saved(o) => wish[i] \in {Latest, Saved(o)[i]}
      BY DEF IInv, PlaceInv, Differs
  <2>3. CASE o = e /\ i \notin known
    <3>1. i \in names /\ imp[i] = firstOf(i).binary.version  BY <1>9, <1>10, <2>3
    <3>2. Right(firstOf(i)) /\ firstOf(i).case.implementation = i /\ firstOf(i).asked = wish[i]
        BY <1>5, <1>10, <2>3, <3>1 DEF Fits
    <3>3. wish[i] \in {Latest, imp[i]}  BY <3>1, <3>2 DEF Right
    <3> QED  BY <1>9, <2>3, <3>3
  <2>4. CASE o # e \/ i \in known  BY <1>9, <1>10, <2>1, <2>2, <2>4
  <2> QED  BY <2>3, <2>4
<1>16. PlaceType'  BY <1>2 DEF IInv, PlaceType, preparer
<1>17. PlaceInv'  BY <1>2, <1>15 DEF IInv, PlaceInv
<1>18. BinaryInv'  BY DEF IInv, BinaryInv, preparer
<1>19. CacheType' /\ ClientInv'  BY NotAsking, CacheFrame
<1> QED  BY <1>13, <1>14, <1>16, <1>17, <1>18, <1>19 DEF IInv

LEMMA MeasureInv ==
    ASSUME IInv, Measure PROVE IInv'
<1>1. /\ step = "measure" /\ jobs # <<>> /\ jobs' = Tail(jobs)
      /\ UNCHANGED <<cacheVars, step, wish, todo, cases, kit, preparer>>
    BY DEF Measure
<1>2. CASE UNCHANGED <<report, ran>>
  <2>1. jobs' \in Seq(Job) /\ ReadyJobs' \subseteq ReadyJobs
      BY <1>1, Elements DEF IInv, PlaceType, ReadyJobs
  <2>2. Supported(kit)' = {}  BY <1>1, EmptyTypes DEF IInv, PlaceInv, Supported
  <2>3. PlaceType'  BY <1>1, <2>1 DEF IInv, PlaceType, preparer
  <2>4. PlaceInv'  BY <1>1, <1>2, <2>1, WishFrame DEF IInv, PlaceInv
  <2>5. BinaryInv'  BY <1>1 DEF IInv, BinaryInv, preparer
  <2>6. CacheType' /\ ClientInv'  BY <1>1, NotAsking, CacheFrame
  <2>7. ChosenInv' /\ ReportInv'  BY <1>1, <1>2, <2>1, <2>2, VersionsFrame, NothingNew
  <2> QED  BY <2>3, <2>4, <2>5, <2>6, <2>7 DEF IInv
<1>3. CASE ~UNCHANGED <<report, ran>>
  <2>1. PICK done \in SUBSET {s \in Supported(Head(jobs)) :
                                   s.case \notin report[Head(jobs).place].decided} :
            /\ report' = [report EXCEPT ![Head(jobs).place] = Recorded(Head(jobs), done)]
            /\ ran' = ran \cup {<<Head(jobs).place, s.case.implementation, s.binary.version>> : s \in done}
    BY <1>3 DEF Measure
  <2>2. ASSUME NEW job, job = Head(jobs), NEW e, e = job.place PROVE IInv'
    <3>1. done \in SUBSET Supported(job)  BY <2>2
    <3>2. Records(job, e, done)  BY <2>1, <2>2 DEF Records
    <3> HIDE <2>1
    <3> QED  BY <1>1, <2>2, <3>1, <3>2, RecordedInv
  <2> QED  BY <2>2
<1> QED  BY <1>2, <1>3

LEMMA FinishInv ==
    ASSUME IInv, Finish PROVE IInv'
<1>1. /\ step = "measure" /\ Over /\ binaries' = <<>> /\ versions' = [s \in Software |-> Latest]
      /\ UNCHANGED <<cacheVars, wish, jobs, report, ran>>
    BY DEF Finish, Discard
<1>2. BinaryInv'  BY <1>1 DEF BinaryInv
<1>3. versions' \in [Software -> Nat]  BY <1>1 DEF Latest
<1>4. CacheType' /\ ClientInv'  BY <1>1, NotAsking, CacheFrame
<1> QED  BY <1>1, <1>2, <1>3, <1>4, OverFrame DEF IInv

LEMMA CrashInv ==
    ASSUME IInv, Crash PROVE IInv'
<1>1. /\ Lose /\ Over /\ jobs' = <<>> /\ binaries' = <<>>
      /\ versions' = [s \in Software |-> Latest] /\ UNCHANGED <<wish, report, ran>>
    BY DEF Crash, Discard
<1>2. BinaryInv'  BY <1>1 DEF BinaryInv
<1>3. versions' \in [Software -> Nat]  BY <1>1 DEF Latest
<1>4. meta' \in [Release -> {"none", "torn", "whole"}] /\ file' \in [Asset -> Content \cup {"none"}]
    BY <1>1 DEF Lose, disk, IInv, CacheType, Content
<1>5. CacheType'  BY <1>1, <1>4 DEF Lose, Reset, IInv, CacheType
<1>6. ClientInv'  BY <1>1 DEF Lose, Reset, ClientInv
<1> QED  BY <1>1, <1>2, <1>3, <1>5, <1>6, OverFrame DEF IInv

LEMMA NextInv ==
    ASSUME IInv, [Next]_vars PROVE IInv'
<1>1. CASE /\ ClientStep \/ Visit \/ \E s \in Software : Publish(s)
           /\ UNCHANGED <<place, wish, preparer, report, ran>>
    BY <1>1, ClientStepInv, VisitInv, PublishInv
<1>2. CASE UNCHANGED vars
  <2>1. UNCHANGED <<place, wish, preparer, report, ran>> /\ UNCHANGED cacheVars
      BY <1>2 DEF vars
  <2>2. CacheType' /\ ClientInv'
    <3>1. CacheType'  BY <2>1 DEF IInv, CacheType, cacheVars, disk, client, outside
    <3>2. ClientInv'
        BY <2>1, Frame DEF IInv, ClientInv, cacheVars, disk, client, outside, Verified, SoftwareOf
    <3> QED  BY <3>1, <3>2
  <2> QED  BY <2>1, <2>2, Frame DEF IInv
<1> QED
    BY <1>1, <1>2, StartInv, SkipInv, DroppedInv, RememberedInv, BuildInv, DownloadInv,
       AnsweredInv, PreparedInv, MeasureInv, FinishInv, CrashInv DEF Next

LEMMA Invariant == Spec => []IInv
<1>1. IInv /\ [Next]_vars => IInv'  BY NextInv
<1> QED  BY InitInv, <1>1, PTL DEF Spec
-----------------------------------------------------------------------------
(* Nothing torn is ever run, and with a digest nothing wrong: all that a   *)
(* binary is made of has passed releaseAsset.verify.                       *)
THEOREM OnlyVerifiedRuns == Spec => []OnlyWhole
<1>1. IInv => OnlyWhole
  <2> SUFFICES ASSUME IInv,
                      NEW b \in {s.binary : s \in Chosen}
                                \cup UNION {{job.iperf, job.relay} : job \in ReadyJobs},
                      NEW m \in b.made
               PROVE  m[2] = "whole" \/ (m[2] = "wrong" /\ m[1] \in Software \ Digested)
      BY DEF OnlyWhole
  <2>1. Chosen \subseteq Support /\ \A job \in ReadyJobs : job \in Job
      BY ChosenType DEF IInv
  <2>2. b \in Binary  BY <2>1 DEF Support, Job
  <2>3. m \in Piece  BY <2>2 DEF Binary, NoBinary
  <2> QED  BY <2>3 DEF Piece
<1> QED  BY Invariant, <1>1, PTL

(* "latest" is one version in an invocation, a configured or saved version *)
(* is the one that runs, and a file holds no case of another version than  *)
(* it names, over all invocations (artifactPreparer.binary, prepareReport).*)
THEOREM VersionsAgree == Spec => []OneVersion
<1>1. IInv => OneVersion
  <2> SUFFICES ASSUME IInv PROVE OneVersion  OBVIOUS
  <2>1. ASSUME NEW s \in Chosen, s.asked > Latest PROVE s.binary.version = s.asked
    <3>1. Right(s) /\ s \in Support  BY ChosenType DEF IInv, ChosenInv
    <3>2. s.asked # Built /\ s.asked # Latest  BY <2>1, <3>1 DEF Support, Built, Latest
    <3> QED  BY <3>1, <3>2 DEF Right
  <2>2. SameLatest /\ \A r \in ran : Saved(r[1])[r[2]] = r[3]
      BY DEF IInv, ChosenInv, ReportInv
  <2> QED  BY <2>1, <2>2 DEF OneVersion, SameLatest
<1> QED  BY Invariant, <1>1, PTL
-----------------------------------------------------------------------------
(* What is dropped and what is equipped.  A release that lacks the target  *)
(* is known to be one that was published; a key without a release keeps    *)
(* its reason for the rest of the invocation, since releases only appear.  *)

AnswerInv ==
    /\ \A r \in Release : meta[r] # "none" => r[2] <= newest[r[1]]
    /\ at = "unsupported" => Unreleased(ask.software, ask.version, ask.target)
    /\ at = "ok" /\ NeedsHelper => Helper \in {m[1] : m \in made}

Helpful(software, target, binary) ==
    <<software, target>> \in Helped => Helper \in {m[1] : m \in binary.made}

MemoInv ==
    /\ \A k \in unsupported : k[1] \in Software /\ Unreleased(k[1], k[2], k[3])
    /\ \A k \in DOMAIN binaries : k[2] # Built => Helpful(k[1], k[3], binaries[k])

(* An environment is prepared once, and measured before its report changes.*)
OnceInv ==
    /\ IsInjective(todo)
    /\ \A i, j \in 1 .. Len(jobs) : jobs[i].place = jobs[j].place => i = j
    /\ \A job \in ReadyJobs : job.place \notin ToSet(todo)

(* Every case of the current environment is waiting, in the kit or has a   *)
(* reason to be dropped.                                                   *)
Lacking(e) == Unreleased(Iperf, report[e].iperf, TargetOf[e])

NeedsIperf(e) == Throughput(ToSet(Jobs[e])) /\ e \notin HasIperf

Accounted(e) ==
    \A c \in ToSet(Jobs[e]) :
        c \in ToSet(cases) \/ c \in CasesOf(kit) \/ MayBeDropped(e, c)

Preparing == {"iperf", "emulated", "case", "relay"}

KitInv ==
    /\ step \in Preparing =>
           /\ ToSet(cases) \subseteq ToSet(Jobs[Environment])
           /\ Accounted(Environment)
           /\ kit.throughput \/ Lacking(Environment)
    /\ step = "emulated" => Lacking(Environment)
    /\ step \in {"iperf", "emulated"} => kit = EmptyKit
    /\ step = "relay" => cases = <<>>
    /\ step \in {"case", "relay"} /\ kit.throughput /\ NeedsIperf(Environment) =>
           kit.iperf.software = Iperf
    /\ \A s \in Supported(kit) :
           /\ s.case \in ToSet(Jobs[Environment])
           /\ s.case.memory \/ kit.throughput
           /\ s.asked # Built =>
                  Helpful(s.binary.software, TargetOf[Environment], s.binary)

NeedsInv == AnswerInv /\ MemoInv /\ OnceInv /\ KitInv /\ Runnable

LEMMA AllButFirst ==
    ASSUME NEW S, NEW s \in Seq(S), s # <<>>
    PROVE  /\ Len(Tail(s)) \in Nat /\ \A i \in 1 .. Len(Tail(s)) :
                  Tail(s)[i] = s[i + 1] /\ i + 1 \in 1 .. Len(s)
           /\ IsInjective(s) => IsInjective(Tail(s)) /\ Head(s) \notin ToSet(Tail(s))
<1>1. Len(s) \in Nat /\ Len(s) > 0 /\ Head(s) = s[1] /\ Tail(s) \in Seq(S)
      /\ Len(Tail(s)) = Len(s) - 1 /\ \A i \in 1 .. Len(s) - 1 : Tail(s)[i] = s[i + 1]
    OBVIOUS
<1>2. DOMAIN s = 1 .. Len(s) /\ DOMAIN Tail(s) = 1 .. Len(s) - 1  BY <1>1
<1>3. ASSUME IsInjective(s)
      PROVE  IsInjective(Tail(s)) /\ Head(s) \notin ToSet(Tail(s))
  <2>1. \A i, j \in 1 .. Len(s) : s[i] = s[j] => i = j  BY <1>2, <1>3 DEF IsInjective
  <2>2. \A i, j \in 1 .. Len(s) - 1 : Tail(s)[i] = Tail(s)[j] => i = j  BY <1>1, <2>1
  <2>3. \A i \in 1 .. Len(s) - 1 : Tail(s)[i] # s[1]  BY <1>1, <2>1
  <2> QED  BY <1>1, <1>2, <2>2, <2>3 DEF IsInjective, ToSet
<1> QED  BY <1>1, <1>3

(* Releases only appear, so a reason to drop a case stays one.             *)
Grew == \A s \in Software : newest[s] \in Nat /\ newest'[s] \in Nat /\ newest[s] <= newest'[s]

LEMMA StillUnreleased ==
    ASSUME Grew, NEW s \in Software, NEW asked, NEW target, Unreleased(s, asked, target)
    PROVE  Unreleased(s, asked, target)'
BY DEF Grew, Unreleased

LEMMA StillLacking ==
    ASSUME Grew, NEW e, report'[e] = report[e], Lacking(e) PROVE Lacking(e)'
BY StillUnreleased, ArtifactAssumption DEF Lacking

LEMMA StillDropped ==
    ASSUME Grew, NEW e \in Place, NEW c \in JobCase, wish' = wish, report'[e] = report[e],
           MayBeDropped(e, c)
    PROVE  MayBeDropped(e, c)'
<1>1. Asked(e, c.implementation)' = Asked(e, c.implementation)  BY DEF Asked, Saved
<1>2. SoftwareBy[c.implementation] \in Software /\ Iperf \in Software
    BY ArtifactAssumption DEF JobCase
<1>3. Unreleased(Iperf, report[e].iperf, TargetOf[e])
          => Unreleased(Iperf, report[e].iperf, TargetOf[e])'
    BY <1>2, StillUnreleased
<1>4. Unreleased(SoftwareBy[c.implementation], Asked(e, c.implementation), TargetOf[e])
          => Unreleased(SoftwareBy[c.implementation], Asked(e, c.implementation), TargetOf[e])'
    BY <1>1, <1>2, StillUnreleased DEF Unreleased, Grew
<1> QED  BY <1>3, <1>4 DEF MayBeDropped

LEMMA CasesOfPlace ==
    ASSUME NEW e \in Place PROVE Jobs[e] \in Seq(JobCase) /\ ToSet(Jobs[e]) \subseteq JobCase
BY Elements, ArtifactAssumption

LEMMA SameReleases ==
    ASSUME IInv, newest' = newest PROVE Grew
BY DEF IInv, CacheType, Grew

(* Jobs whose report does not change stay as they are.                     *)
LEMMA JobsKept ==
    ASSUME IInv, Runnable, Grew, wish' = wish,
           \A job \in ReadyJobs' : job \in ReadyJobs /\ report'[job.place] = report[job.place]
    PROVE  Runnable'
<1> SUFFICES ASSUME NEW job \in ReadyJobs'
             PROVE  /\ \A s \in Supported(job) : Equipped(job, s)
                    /\ \A c \in ToSet(Jobs[job.place]) \ CasesOf(job) : MayBeDropped(job.place, c)'
    BY DEF Runnable, Supported, Equipped, CasesOf
<1>1. job \in ReadyJobs /\ job.place \in Place  BY ChosenType DEF IInv, Job
<1>2. ASSUME NEW c \in ToSet(Jobs[job.place]) \ CasesOf(job) PROVE MayBeDropped(job.place, c)'
  <2>1. MayBeDropped(job.place, c) /\ c \in JobCase  BY <1>1, CasesOfPlace DEF Runnable
  <2> QED  BY <1>1, <2>1, StillDropped
<1> QED  BY <1>1, <1>2 DEF Runnable

(* So does what the current environment has.                               *)
LEMMA KitKept ==
    ASSUME IInv, KitInv, Grew, UNCHANGED <<wish, report, step, todo, cases, kit>>
    PROVE  KitInv'
<1>1. Environment' = Environment  BY DEF Environment
<1>2. step \in Preparing => Environment \in Place
    BY Elements DEF IInv, PlaceInv, PlaceType, Environment, Preparing
<1>3. ASSUME step \in Preparing, Lacking(Environment) PROVE Lacking(Environment)'
    BY <1>1, <1>2, <1>3, StillLacking DEF Lacking, Unreleased
<1>4. ASSUME step \in Preparing PROVE Accounted(Environment)'
  <2> SUFFICES ASSUME NEW c \in ToSet(Jobs[Environment]), c \notin ToSet(cases), c \notin CasesOf(kit)
               PROVE  MayBeDropped(Environment, c)'
      BY <1>1 DEF Accounted, CasesOf, Supported
  <2>1. c \in JobCase /\ MayBeDropped(Environment, c)
      BY <1>2, <1>4, CasesOfPlace DEF KitInv, Accounted
  <2>2. ASSUME NEW e, e = Environment PROVE MayBeDropped(e, c)'
      BY <1>2, <1>4, <2>1, <2>2, StillDropped
  <2> QED  BY <1>1, <2>2 DEF MayBeDropped, Asked, Saved
<1>5. \A s \in Supported(kit)' : s \in Supported(kit)  BY DEF Supported
<1> QED  BY <1>1, <1>3, <1>4, <1>5 DEF KitInv, Preparing

(* The client and the cache change nothing but the answer.                 *)
LEMMA NeedsFrame ==
    ASSUME IInv, NeedsInv, Grew, AnswerInv',
           UNCHANGED <<place, wish, preparer, report, ran>>
    PROVE  NeedsInv'
<1> USE DEF place, preparer
<1>1. MemoInv'
  <2>1. \A k \in unsupported : Unreleased(k[1], k[2], k[3])'
      BY StillUnreleased DEF NeedsInv, MemoInv
  <2> QED  BY <2>1 DEF NeedsInv, MemoInv, Unreleased
<1>2. OnceInv'  BY DEF NeedsInv, OnceInv, ReadyJobs
<1>3. KitInv'  BY KitKept DEF NeedsInv
<1>4. Runnable'  BY JobsKept DEF NeedsInv, ReadyJobs
<1> QED  BY <1>1, <1>2, <1>3, <1>4 DEF NeedsInv

(* A release that lacks the target is one that was published.              *)
LEMMA ResolveAnswer ==
    ASSUME IInv, AnswerInv, Resolve PROVE AnswerInv'
<1>1. PICK v \in Resolved : LET release == <<ask.software, v>> IN
        /\ found' = v
        /\ IF HasAsset(release, ask.target)
           THEN /\ at' = "cached" /\ asset' = <<release, ask.target>>
                /\ meta' = [meta EXCEPT ![release] = "whole"]
           ELSE at' = "unsupported" /\ UNCHANGED <<asset, meta>>
    BY DEF Resolve
<1>2. at = "resolve" /\ ask.software \in Software /\ UNCHANGED <<ask, made, newest>>
    BY WantedType DEF Resolve, IInv, ClientInv, outside
<1>3. Len(Assets[ask.software]) \in Nat /\ newest[ask.software] \in 1 .. Len(Assets[ask.software])
      /\ newest[ask.software] \in Nat
    BY <1>2, CacheAssumption DEF IInv, CacheType
<1>4. v \in 1 .. newest[ask.software] /\ ask.version \in {Latest, v}
  <2>1. CASE ask.version = Latest  BY <1>3, <2>1 DEF Resolved
  <2>2. CASE ask.version # Latest
    <3>1. v \in 1 .. Len(Assets[ask.software]) /\ v = ask.version
          /\ (Known \/ v <= newest[ask.software])
        BY <2>2 DEF Resolved
    <3>2. ASSUME Known PROVE v <= newest[ask.software]
      <4> DEFINE r == <<ask.software, v>>
      <4>1. r \in Release  BY <1>2, <3>1, IsRelease
      <4>2. meta[r] # "none"  BY <3>1, <3>2 DEF Known
      <4>3. r[2] <= newest[r[1]]  BY <4>1, <4>2 DEF AnswerInv
      <4> QED  BY <4>3
    <3> QED  BY <1>3, <3>1, <3>2
  <2> QED  BY <2>1, <2>2
<1>5. ASSUME NEW r \in Release, meta'[r] # "none" PROVE r[2] <= newest'[r[1]]
  <2>1. CASE r = <<ask.software, v>>  BY <1>2, <1>3, <1>4, <2>1
  <2>2. CASE r # <<ask.software, v>>
    <3>1. meta'[r] = meta[r]  BY <1>1, <2>2 DEF IInv, CacheType
    <3> QED  BY <1>2, <1>5, <3>1 DEF AnswerInv
  <2> QED  BY <2>1, <2>2
<1>6. at' = "unsupported" => Unreleased(ask.software, ask.version, ask.target)'
    BY <1>1, <1>2, <1>4 DEF HasAsset, Unreleased
<1>7. at' # "ok"  BY <1>1
<1> QED  BY <1>5, <1>6, <1>7 DEF AnswerInv

(* The helper is among what was extracted before the answer is given.      *)
LEMMA ClientAnswer ==
    ASSUME IInv, AnswerInv, ClientStep PROVE AnswerInv'
<1>1. CASE Resolve  BY <1>1, ResolveAnswer
<1>2. CASE UseCached \/ Fetch \/ PrepareFails
    BY <1>2 DEF UseCached, Fetch, PrepareFails, disk, outside, AnswerInv
<1>3. CASE Extract
    BY <1>3 DEF Extract, Unpack, NeedsHelper, disk, outside, AnswerInv
<1>4. CASE ExtractHelper
  <2> DEFINE helper == <<Helper, file[HelperAsset(ask.target)]>>
  <2>1. at' = "ok" /\ UNCHANGED <<meta, newest>> /\ made' = made \cup {helper}
      BY <1>4 DEF ExtractHelper, Unpack, disk, outside, SoftwareOf, HelperAsset
  <2>2. helper \in made' /\ helper[1] = Helper  BY <2>1
  <2> HIDE DEF helper
  <2>3. Helper \in {m[1] : m \in made'}  BY <2>2
  <2> QED  BY <2>1, <2>3 DEF AnswerInv
<1> QED  BY <1>1, <1>2, <1>3, <1>4 DEF ClientStep

LEMMA ClientNeeds ==
    ASSUME IInv, NeedsInv, ClientStep, UNCHANGED <<place, wish, preparer, report, ran>>
    PROVE  NeedsInv'
<1>1. newest' = newest
    BY DEF ClientStep, Resolve, UseCached, Fetch, Extract, ExtractHelper, PrepareFails, outside
<1>2. AnswerInv'  BY ClientAnswer DEF NeedsInv
<1> QED  BY <1>1, <1>2, SameReleases, NeedsFrame

LEMMA PublishNeeds ==
    ASSUME IInv, NeedsInv, NEW s \in Software, Publish(s),
           UNCHANGED <<place, wish, preparer, report, ran>>
    PROVE  NeedsInv'
<1>1. /\ newest \in [Software -> Nat] /\ newest' = [newest EXCEPT ![s] = @ + 1]
      /\ UNCHANGED <<meta, at, ask, made>>
    BY DEF Publish, disk, client, IInv, CacheType
<1>2. Grew  BY <1>1 DEF Grew
<1>3. \A r \in Release : r[1] \in Software /\ r[2] \in Nat  BY CacheAssumption DEF Release
<1>4. \A r \in Release : meta'[r] # "none" => r[2] <= newest'[r[1]]
    BY <1>1, <1>2, <1>3 DEF NeedsInv, AnswerInv, Grew
<1>5. at' = "unsupported" => Unreleased(ask.software, ask.version, ask.target)'
  <2>1. ASSUME at = "unsupported" PROVE Unreleased(ask.software, ask.version, ask.target)'
    <3>1. ask.software \in Software  BY <2>1, WantedType DEF IInv, ClientInv
    <3>2. Unreleased(ask.software, ask.version, ask.target)
        BY <2>1 DEF NeedsInv, AnswerInv
    <3> QED  BY <1>1, <1>2, <3>1, <3>2 DEF Grew, Unreleased
  <2> QED  BY <1>1, <2>1
<1>6. AnswerInv'  BY <1>1, <1>4, <1>5 DEF NeedsInv, AnswerInv, NeedsHelper
<1> QED  BY <1>2, <1>6, NeedsFrame

LEMMA VisitNeeds ==
    ASSUME IInv, NeedsInv, Visit, UNCHANGED <<place, wish, preparer, report, ran>>
    PROVE  NeedsInv'
<1>1. PICK r \in Release :
          r[2] <= newest[r[1]] /\ meta' = [meta EXCEPT ![r] = "whole"]
    BY DEF Visit
<1>2. UNCHANGED <<newest, at, ask, made>>  BY DEF Visit, client
<1>3. \A o \in Release : meta'[o] # "none" => o[2] <= newest'[o[1]]
    BY <1>1, <1>2 DEF NeedsInv, AnswerInv, IInv, CacheType
<1>4. AnswerInv'  BY <1>2, <1>3 DEF NeedsInv, AnswerInv, Unreleased, NeedsHelper
<1> QED  BY <1>2, <1>4, SameReleases, NeedsFrame

(* Entering an environment, all its cases wait.                            *)
LEMMA EnteredNeeds ==
    ASSUME NEW environments \in Seq(Place), IsInjective(environments), Enter(environments)
    PROVE  KitInv' /\ IsInjective(todo')
<1>1. todo' = environments /\ kit' = EmptyKit  BY DEF Enter
<1>2. kit'.throughput /\ Supported(kit)' = {}
    BY <1>1, EmptyTypes DEF EmptyKit, Supported
<1>3. CASE environments = <<>>
  <2>1. step' = "measure"  BY <1>3 DEF Enter
  <2> QED  BY <1>1, <1>2, <2>1 DEF KitInv, Preparing
<1>4. CASE environments # <<>>
  <2>1. Environment' = Head(environments)  BY <1>1 DEF Environment
  <2>2. /\ cases' = Jobs[Environment']
        /\ step' = IF Completed(Environment') THEN "skip"
                   ELSE IF NeedsIperf(Environment') THEN "iperf" ELSE "case"
      BY <1>4, <2>1 DEF Enter, NeedsIperf
  <2>3. Accounted(Environment)'  BY <2>2 DEF Accounted
  <2> QED  BY <1>1, <1>2, <2>2, <2>3 DEF KitInv, Preparing, NeedsIperf
<1> QED  BY <1>1, <1>3, <1>4

(* Nothing is in the kit after the end of an invocation.                   *)
LEMMA OverNeeds ==
    ASSUME Over PROVE KitInv' /\ IsInjective(todo') /\ ToSet(todo') = {}
<1>1. step' = "over" /\ todo' = <<>> /\ Supported(kit)' = {}
    BY EmptyTypes DEF Over, Supported
<1>2. IsInjective(<<>>) /\ ToSet(<<>>) = {}  BY DEF IsInjective, ToSet
<1>3. KitInv'  BY <1>1 DEF KitInv, Preparing
<1> QED  BY <1>1, <1>2, <1>3

(* A step that ends the invocation keeps the jobs it had.                  *)
LEMMA EndedNeeds ==
    ASSUME IInv, NeedsInv, Over, jobs' = jobs \/ jobs' = <<>>, newest' = newest,
           UNCHANGED <<wish, report>>
    PROVE  OnceInv' /\ KitInv' /\ Runnable'
<1>1. ReadyJobs' \subseteq ReadyJobs  BY DEF ReadyJobs, ToSet
<1>2. OnceInv'  BY <1>1, OverNeeds DEF NeedsInv, OnceInv
<1>3. KitInv'  BY OverNeeds
<1>4. Runnable'  BY <1>1, SameReleases, JobsKept DEF NeedsInv
<1> QED  BY <1>2, <1>3, <1>4 DEF NeedsInv

LEMMA SameAnswer ==
    ASSUME NeedsInv, UNCHANGED cacheVars PROVE AnswerInv'
BY DEF NeedsInv, AnswerInv, cacheVars, disk, client, outside, Unreleased, NeedsHelper

LEMMA ResetAnswer ==
    ASSUME NeedsInv, Reset, UNCHANGED <<disk, outside>> PROVE AnswerInv'
BY DEF NeedsInv, AnswerInv, Reset, disk, outside

LEMMA SameMemo ==
    ASSUME NeedsInv, newest' = newest, UNCHANGED preparer PROVE MemoInv'
BY DEF NeedsInv, MemoInv, preparer, Unreleased

LEMMA StartNeeds ==
    ASSUME IInv, NeedsInv, Start PROVE NeedsInv'
<1>1. PICK w \in Wishes : wish' = w /\ IF Differs(w) THEN Over ELSE Enter(Order)
    BY DEF Start
<1>2. /\ jobs' = <<>> /\ binaries' = <<>> /\ unsupported' = {} /\ UNCHANGED cacheVars
    BY DEF Start, Discard
<1>3. KitInv' /\ IsInjective(todo')
    BY <1>1, OverNeeds, EnteredNeeds, ArtifactAssumption
<1>4. ReadyJobs' = {}  BY <1>2 DEF ReadyJobs, ToSet
<1>5. AnswerInv'  BY <1>2, SameAnswer
<1>6. MemoInv'  BY <1>2 DEF MemoInv
<1>7. OnceInv'  BY <1>2, <1>3, <1>4 DEF OnceInv
<1>8. Runnable'  BY <1>4 DEF Runnable
<1> QED  BY <1>3, <1>5, <1>6, <1>7, <1>8 DEF NeedsInv

LEMMA SkipNeeds ==
    ASSUME IInv, NeedsInv, Skip PROVE NeedsInv'
<1>1. step = "skip" /\ Enter(Tail(todo)) /\ UNCHANGED <<cacheVars, wish, jobs, preparer, report>>
    BY DEF Skip
<1>2. todo \in Seq(Place) /\ todo # <<>> /\ IsInjective(todo)
    BY <1>1 DEF IInv, PlaceType, PlaceInv, NeedsInv, OnceInv
<1>3. Tail(todo) \in Seq(Place) /\ ToSet(Tail(todo)) \subseteq ToSet(todo)
      /\ IsInjective(Tail(todo)) /\ todo' = Tail(todo)
    BY <1>1, <1>2, Elements, AllButFirst DEF Enter
<1>4. KitInv' /\ IsInjective(todo')  BY <1>1, <1>3, EnteredNeeds
<1>5. newest' = newest  BY <1>1 DEF cacheVars, outside
<1>6. AnswerInv' /\ MemoInv'  BY <1>1, <1>5, SameAnswer, SameMemo
<1>7. ReadyJobs' = ReadyJobs  BY <1>1 DEF ReadyJobs
<1>8. OnceInv'  BY <1>1, <1>3, <1>4, <1>7 DEF NeedsInv, OnceInv
<1>9. Runnable'  BY <1>1, <1>5, <1>7, SameReleases, JobsKept DEF NeedsInv
<1> QED  BY <1>4, <1>6, <1>8, <1>9 DEF NeedsInv

(* The kit that is handed over has what its cases need.                    *)
LEMMA ReadyNeeds ==
    ASSUME IInv, NeedsInv, NEW relay \in Binary, Ready(relay), step = "relay",
           NeedsRelay => relay.software = SingBox, newest' = newest,
           UNCHANGED <<wish, report>>
    PROVE  OnceInv' /\ KitInv' /\ Runnable'
<1> DEFINE job == [place |-> Environment, relay |-> relay,
                   iperf |-> kit.iperf, supported |-> kit.supported]
<1>1. todo # <<>> /\ todo \in Seq(Place) /\ kit \in Kit /\ jobs \in Seq(Job)
      /\ IsInjective(todo)
    BY DEF IInv, PlaceType, PlaceInv, NeedsInv, OnceInv
<1>2. /\ Environment \in Place /\ Environment \in ToSet(todo) /\ Environment = Head(todo)
      /\ Tail(todo) \in Seq(Place) /\ ToSet(Tail(todo)) \subseteq ToSet(todo)
      /\ IsInjective(Tail(todo)) /\ Head(todo) \notin ToSet(Tail(todo))
    BY <1>1, Elements, AllButFirst DEF Environment
<1>3. job \in Job  BY <1>1, <1>2 DEF Job, Kit
<1>4. jobs' = Append(jobs, job) /\ Enter(Tail(todo)) /\ todo' = Tail(todo)
    BY DEF Ready, Enter
<1>5. /\ job.place = Environment /\ job.supported = kit.supported
      /\ job.iperf = kit.iperf /\ job.relay = relay
    OBVIOUS
<1> HIDE DEF job
<1>6. ReadyJobs' = ReadyJobs \cup {job}
    BY <1>1, <1>3, <1>4, Appended DEF ReadyJobs
<1>7. KitInv' /\ IsInjective(todo')  BY <1>2, <1>4, EnteredNeeds
<1>8. \A j \in ReadyJobs : j.place \notin ToSet(todo)  BY DEF NeedsInv, OnceInv
<1>9. OnceInv'
  <2>1. /\ Len(jobs') = Len(jobs) + 1 /\ Len(jobs) \in Nat /\ jobs'[Len(jobs) + 1] = job
        /\ \A i \in 1 .. Len(jobs) : jobs'[i] = jobs[i]
      BY <1>1, <1>3, <1>4
  <2>2. \A i \in 1 .. Len(jobs) : jobs[i] \in ReadyJobs
      BY <1>1 DEF ReadyJobs, ToSet
  <2>3. \A i \in 1 .. Len(jobs) : jobs[i].place # Environment  BY <1>2, <1>8, <2>2
  <2>4. \A i, j \in 1 .. Len(jobs) : jobs[i].place = jobs[j].place => i = j
      BY DEF NeedsInv, OnceInv
  <2>5. \A i, j \in 1 .. Len(jobs') : jobs'[i].place = jobs'[j].place => i = j
      BY <1>5, <2>1, <2>3, <2>4
  <2>6. \A j \in ReadyJobs' : j.place \notin ToSet(todo')
      BY <1>2, <1>4, <1>5, <1>6, <1>8
  <2> QED  BY <1>7, <2>5, <2>6 DEF OnceInv
<1>10. Grew  BY SameReleases
<1>11. Supported(job) = Supported(kit) /\ CasesOf(job) = CasesOf(kit)
    BY <1>5 DEF Supported, CasesOf
<1>12. ASSUME NEW s \in Supported(job) PROVE Equipped(job, s)
  <2>1. /\ s.case \in ToSet(Jobs[Environment]) /\ (s.case.memory \/ kit.throughput)
        /\ s.asked # Built => Helpful(s.binary.software, TargetOf[Environment], s.binary)
      BY <1>11 DEF NeedsInv, KitInv
  <2>2. (~s.case.memory /\ Environment \notin HasIperf) => kit.iperf.software = Iperf
      BY <2>1 DEF NeedsInv, KitInv, NeedsIperf, Throughput
  <2>3. s.binary.software \in Socks => relay.software = SingBox
      BY <1>5 DEF NeedsRelay, Supported
  <2> QED  BY <1>5, <2>1, <2>2, <2>3 DEF Equipped, Helpful
<1>13. ASSUME NEW c \in ToSet(Jobs[Environment]) \ CasesOf(job), NEW e, e = Environment
       PROVE  MayBeDropped(e, c)'
  <2>1. c \in JobCase  BY <1>2, CasesOfPlace
  <2>2. cases = <<>> /\ Accounted(Environment)  BY DEF NeedsInv, KitInv, Preparing
  <2>3. c \notin ToSet(cases)  BY <2>2 DEF ToSet
  <2>4. MayBeDropped(e, c)  BY <1>11, <1>13, <2>2, <2>3 DEF Accounted
  <2> QED  BY <1>2, <1>10, <1>13, <2>1, <2>4, StillDropped
<1>14. Runnable'
  <2> SUFFICES ASSUME NEW j \in ReadyJobs'
               PROVE  /\ \A s \in Supported(j) : Equipped(j, s)
                      /\ \A c \in ToSet(Jobs[j.place]) \ CasesOf(j) : MayBeDropped(j.place, c)'
      BY DEF Runnable, Supported, CasesOf, Equipped
  <2>1. CASE j \in ReadyJobs
    <3>1. j.place \in Place  BY <2>1, ChosenType DEF IInv, Job
    <3>2. ASSUME NEW c \in ToSet(Jobs[j.place]) \ CasesOf(j) PROVE MayBeDropped(j.place, c)'
      <4>1. MayBeDropped(j.place, c) /\ c \in JobCase
          BY <2>1, <3>1, CasesOfPlace DEF NeedsInv, Runnable
      <4> QED  BY <1>10, <3>1, <4>1, StillDropped
    <3> QED  BY <2>1, <3>2 DEF NeedsInv, Runnable
  <2>2. CASE j = job
    <3>1. j.place = Environment  BY <1>5, <2>2
    <3> QED  BY <1>12, <1>13, <2>2, <3>1
  <2> QED  BY <1>6, <2>1, <2>2
<1> QED  BY <1>7, <1>9, <1>14

LEMMA HeadOrTail ==
    ASSUME NEW S, NEW s \in Seq(S), s # <<>> PROVE ToSet(s) \subseteq {Head(s)} \cup ToSet(Tail(s))
<1>1. Len(s) \in Nat /\ Len(s) > 0 /\ Head(s) = s[1] /\ Len(Tail(s)) = Len(s) - 1
      /\ \A i \in 1 .. Len(s) - 1 : Tail(s)[i] = s[i + 1]
    OBVIOUS
<1>2. DOMAIN s = 1 .. Len(s) /\ DOMAIN Tail(s) = 1 .. Len(s) - 1  BY <1>1
<1> SUFFICES ASSUME NEW i \in 1 .. Len(s), i # 1 PROVE s[i] \in ToSet(Tail(s))
    BY <1>1, <1>2 DEF ToSet
<1>3. i - 1 \in DOMAIN Tail(s) /\ Tail(s)[i - 1] = s[i]  BY <1>1, <1>2
<1> QED  BY <1>3 DEF ToSet

LEMMA AtPlace ==
    ASSUME IInv, step \in Preparing
    PROVE  todo # <<>> /\ Environment \in Place
BY Elements DEF IInv, PlaceInv, PlaceType, Environment, Preparing

LEMMA AccountedKept ==
    ASSUME IInv, Grew, UNCHANGED <<wish, report>>, NEW e \in Place, Accounted(e),
           \A c \in CasesOf(kit) : c \in CasesOf(kit)',
           \A c \in ToSet(cases) :
               c \in ToSet(cases)' \/ c \in CasesOf(kit)' \/ MayBeDropped(e, c)
    PROVE  Accounted(e)'
<1> SUFFICES ASSUME NEW c \in ToSet(Jobs[e]), c \notin ToSet(cases)', c \notin CasesOf(kit)'
             PROVE  MayBeDropped(e, c)'
    BY DEF Accounted
<1>1. c \in JobCase /\ MayBeDropped(e, c)  BY CasesOfPlace DEF Accounted
<1> QED  BY <1>1, StillDropped

(* The current environment goes on with what is left of its cases.         *)
LEMMA MovedNeeds ==
    ASSUME IInv, NeedsInv, MoveOn, step \in {"iperf", "emulated", "case"}, newest' = newest,
           UNCHANGED <<wish, report>>, NEW e, e = Environment,
           kit'.throughput \/ Lacking(e),
           kit'.throughput /\ NeedsIperf(e) => kit'.iperf.software = Iperf,
           \A c \in CasesOf(kit) : c \in CasesOf(kit)',
           step = "case" => Head(cases) \in CasesOf(kit)' \/ MayBeDropped(e, Head(cases)),
           \A s \in Supported(kit)' :
               /\ s.case \in ToSet(Jobs[e]) /\ (s.case.memory \/ kit'.throughput)
               /\ s.asked # Built => Helpful(s.binary.software, TargetOf[e], s.binary)
    PROVE  OnceInv' /\ KitInv' /\ Runnable'
<1>1. e \in Place /\ Grew  BY AtPlace, SameReleases DEF Preparing
<1>2. /\ step' \in {"case", "relay"} /\ UNCHANGED <<todo, jobs>> /\ Environment' = Environment
      /\ cases # <<>> /\ cases \in Seq(JobCase)
    BY Moved DEF IInv, PlaceInv, PlaceType
<1>3. /\ cases' = IF step = "case" THEN Tail(cases) ELSE cases
      /\ step' = "relay" => cases' = <<>>
    BY DEF MoveOn
<1>4. ToSet(cases') \subseteq ToSet(cases)  BY <1>2, <1>3, Elements
<1>5. Accounted(e)'
  <2>1. Accounted(e) /\ ToSet(cases) \subseteq ToSet(Jobs[e])
      BY DEF NeedsInv, KitInv, Preparing
  <2>2. \A c \in ToSet(cases) :
            c \in ToSet(cases)' \/ c \in CasesOf(kit)' \/ MayBeDropped(e, c)
      BY <1>2, <1>3, HeadOrTail
  <2> QED  BY <1>1, <2>1, <2>2, AccountedKept
<1>6. Lacking(e) => Lacking(e)'  BY <1>1, StillLacking
<1>7. KitInv'
  <2>1. ToSet(cases') \subseteq ToSet(Jobs[e])  BY <1>4 DEF NeedsInv, KitInv, Preparing
  <2> QED
      BY <1>2, <1>3, <1>5, <1>6, <2>1
      DEF KitInv, Accounted, Lacking, Unreleased, MayBeDropped, Asked, Saved
<1>8. OnceInv'  BY <1>2 DEF NeedsInv, OnceInv, ReadyJobs
<1>9. Runnable'  BY <1>1, <1>2, JobsKept DEF NeedsInv, ReadyJobs
<1> QED  BY <1>7, <1>8, <1>9

LEMMA PreparedNeeds ==
    ASSUME IInv, NeedsInv, Prepared PROVE NeedsInv'
<1>1. /\ step = "relay" /\ ~Asking /\ Ready(Relay)
      /\ UNCHANGED <<cacheVars, wish, preparer, report, ran>> /\ newest' = newest
    BY DEF Prepared, cacheVars, outside
<1>2. Relay \in Binary /\ (NeedsRelay => Relay.software = SingBox)  BY <1>1, RelayOfCases
<1>3. OnceInv' /\ KitInv' /\ Runnable'  BY <1>1, <1>2, ReadyNeeds
<1> QED  BY <1>1, <1>3, SameAnswer, SameMemo DEF NeedsInv

(* Without iperf3 the environment lacks it, so the case may go.            *)
LEMMA DroppedNeeds ==
    ASSUME IInv, NeedsInv, Dropped PROVE NeedsInv'
<1>1. /\ step = "case" /\ ~Kept(Head(cases)) /\ MoveOn /\ newest' = newest
      /\ UNCHANGED <<cacheVars, wish, kit, preparer, report, ran>>
    BY DEF Dropped, cacheVars, outside
<1>2. ~kit.throughput /\ ~Head(cases).memory  BY <1>1 DEF Kept, NeedsNoIperf
<1>3. ASSUME NEW e, e = Environment PROVE OnceInv' /\ KitInv' /\ Runnable'
  <2>1. Lacking(e)  BY <1>1, <1>2, <1>3 DEF NeedsInv, KitInv, Preparing
  <2>2. MayBeDropped(e, Head(cases))  BY <1>2, <2>1 DEF MayBeDropped, Lacking
  <2>3. /\ CasesOf(kit)' = CasesOf(kit) /\ Supported(kit)' = Supported(kit)
        /\ kit' = kit
      BY <1>1 DEF CasesOf, Supported
  <2>4. \A s \in Supported(kit)' :
               /\ s.case \in ToSet(Jobs[e]) /\ (s.case.memory \/ kit'.throughput)
               /\ s.asked # Built => Helpful(s.binary.software, TargetOf[e], s.binary)
      BY <1>3, <2>3 DEF NeedsInv, KitInv
  <2> QED  BY <1>1, <1>2, <1>3, <2>1, <2>2, <2>3, <2>4, MovedNeeds
<1> QED  BY <1>1, <1>3, SameAnswer, SameMemo DEF NeedsInv

(* What binary returns is what its caller needs.                           *)
LEMMA UseBinaryNeeds ==
    ASSUME IInv, NeedsInv, Asking, NEW binary \in Binary, UseBinary(binary),
           binary.software = Wanted.software,
           Wanted.version # Built => Helpful(Wanted.software, Wanted.target, binary),
           newest' = newest, UNCHANGED <<wish, report>>
    PROVE  OnceInv' /\ KitInv' /\ Runnable'
<1>1. CASE step = "relay"
  <2>1. binary.software = SingBox  BY <1>1 DEF Wanted
  <2> QED  BY <1>1, <2>1, ReadyNeeds DEF UseBinary
<1>2. CASE step = "case"
  <2> DEFINE new == [case |-> Head(cases), binary |-> binary, asked |-> Wanted.version]
  <2>1. MoveOn /\ kit' = [kit EXCEPT !.supported = Append(@, new)]
      BY <1>2 DEF UseBinary
  <2>2. /\ Head(cases) \in JobCase /\ Wanted.version \in Nat \cup {Built}
        /\ Wanted.target = TargetOf[Environment]
      BY <1>2, WantedType DEF Wanted
  <2>3. new \in Support  BY <2>2 DEF Support, Built
  <2>4. new.case = Head(cases) /\ new.binary = binary /\ new.asked = Wanted.version  OBVIOUS
  <2> HIDE DEF new
  <2>5. kit \in Kit  BY DEF IInv, PlaceType
  <2>6. Append(kit.supported, new) \in Seq(Support)
        /\ ToSet(Append(kit.supported, new)) = ToSet(kit.supported) \cup {new}
      BY <2>3, <2>5, Appended DEF Kit
  <2>7. /\ kit'.supported = Append(kit.supported, new)
        /\ kit'.throughput = kit.throughput /\ kit'.iperf = kit.iperf
      BY <2>1, <2>5 DEF Kit
  <2>8. Supported(kit)' = Supported(kit) \cup {new}  BY <2>6, <2>7 DEF Supported
  <2>9. CasesOf(kit)' = CasesOf(kit) \cup {new.case}  BY <2>8 DEF CasesOf, Supported
  <2>10. Head(cases) \in ToSet(cases)
      BY <1>2, Elements DEF IInv, PlaceInv, PlaceType
  <2>11. Head(cases).memory \/ kit.throughput  BY <1>2 DEF Asking, Kept, NeedsNoIperf
  <2>12. ASSUME NEW e, e = Environment PROVE OnceInv' /\ KitInv' /\ Runnable'
    <3>1. \A s \in Supported(kit)' :
               /\ s.case \in ToSet(Jobs[e]) /\ (s.case.memory \/ kit'.throughput)
               /\ s.asked # Built => Helpful(s.binary.software, TargetOf[e], s.binary)
        BY <1>2, <2>2, <2>4, <2>7, <2>8, <2>10, <2>11, <2>12 DEF NeedsInv, KitInv, Preparing
    <3>2. /\ kit'.throughput \/ Lacking(e)
          /\ kit'.throughput /\ NeedsIperf(e) => kit'.iperf.software = Iperf
        BY <1>2, <2>7, <2>12 DEF NeedsInv, KitInv, Preparing
    <3> QED  BY <1>2, <2>1, <2>4, <2>9, <2>12, <3>1, <3>2, MovedNeeds
  <2> QED  BY <2>12
<1>3. CASE step \in {"iperf", "emulated"}
  <2>1. MoveOn /\ kit' = [kit EXCEPT !.iperf = binary] /\ kit = EmptyKit
      BY <1>3 DEF UseBinary, NeedsInv, KitInv
  <2>2. binary.software = Iperf  BY <1>3 DEF Wanted
  <2>3. kit'.throughput /\ kit'.iperf = binary /\ kit'.supported = kit.supported
      BY <2>1 DEF EmptyKit
  <2>4. Supported(kit)' = {} /\ CasesOf(kit)' = CasesOf(kit)
      BY <2>1, <2>3, EmptyTypes DEF Supported, CasesOf
  <2>5. ASSUME NEW e, e = Environment PROVE OnceInv' /\ KitInv' /\ Runnable'
      BY <1>3, <2>1, <2>2, <2>3, <2>4, <2>5, MovedNeeds
  <2> QED  BY <2>5
<1> QED  BY <1>1, <1>2, <1>3 DEF UseBinary

(* There is no release of it: the environment lacks it, or the case does.  *)
LEMMA WithoutReleaseNeeds ==
    ASSUME IInv, NeedsInv, Asking, WithoutRelease,
           Unreleased(Wanted.software, Wanted.version, Wanted.target),
           newest' = newest, UNCHANGED <<wish, report>>
    PROVE  OnceInv' /\ KitInv' /\ Runnable'
<1>1. step = "iperf" => Lacking(Environment)  BY DEF Wanted, Lacking
<1>2. step \in {"iperf", "emulated"} => kit = EmptyKit /\ Lacking(Environment)
    BY <1>1 DEF NeedsInv, KitInv
<1>3. CASE Emulates /\ step' = "emulated" /\ UNCHANGED <<todo, cases, kit, jobs>>
  <2>1. step = "iperf" /\ Environment' = Environment  BY <1>3 DEF Emulates, Environment
  <2>2. Grew /\ Environment \in Place  BY <2>1, AtPlace, SameReleases DEF Preparing
  <2>3. ASSUME NEW e, e = Environment PROVE Accounted(e)' /\ Lacking(e)'
    <3>1. Accounted(e) /\ Lacking(e)
        BY <1>2, <2>1, <2>3 DEF NeedsInv, KitInv, Preparing
    <3>2. CasesOf(kit)' = CasesOf(kit)  BY <1>3 DEF CasesOf, Supported
    <3>3. Accounted(e)'  BY <1>3, <2>2, <2>3, <3>1, <3>2, AccountedKept
    <3> QED  BY <2>2, <2>3, <3>1, <3>3, StillLacking
  <2>4. Supported(kit)' = {}  BY <1>2, <1>3, <2>1, EmptyTypes DEF Supported
  <2>5. KitInv'
    <3>1. ToSet(cases) \subseteq ToSet(Jobs[Environment])
        BY <2>1 DEF NeedsInv, KitInv, Preparing
    <3>2. Accounted(Environment)' /\ Lacking(Environment)'
        BY <2>1, <2>3 DEF Accounted, Lacking, MayBeDropped, Asked, Saved, Unreleased
    <3> QED  BY <1>2, <1>3, <2>1, <2>4, <3>1, <3>2 DEF KitInv
  <2>6. OnceInv'  BY <1>3 DEF NeedsInv, OnceInv, ReadyJobs
  <2>7. Runnable'  BY <1>3, <2>2, JobsKept DEF NeedsInv, ReadyJobs
  <2> QED  BY <2>5, <2>6, <2>7
<1>4. CASE /\ step \in {"iperf", "emulated"} /\ MoveOn
           /\ kit' = [kit EXCEPT !.throughput = FALSE]
  <2>1. ~kit'.throughput /\ kit'.supported = kit.supported
      BY <1>2, <1>4 DEF EmptyKit
  <2>2. Supported(kit)' = {} /\ CasesOf(kit)' = CasesOf(kit)
      BY <1>2, <1>4, <2>1, EmptyTypes DEF Supported, CasesOf
  <2>3. ASSUME NEW e, e = Environment PROVE OnceInv' /\ KitInv' /\ Runnable'
      BY <1>2, <1>4, <2>1, <2>2, <2>3, MovedNeeds
  <2> QED  BY <2>3
<1>5. CASE step = "case" /\ MoveOn /\ UNCHANGED kit
  <2>1. ASSUME NEW e, e = Environment PROVE OnceInv' /\ KitInv' /\ Runnable'
    <3>1. MayBeDropped(e, Head(cases))  BY <1>5, <2>1 DEF Wanted, MayBeDropped
    <3>2. CasesOf(kit)' = CasesOf(kit) /\ Supported(kit)' = Supported(kit)
        BY <1>5 DEF CasesOf, Supported
    <3>3. \A s \in Supported(kit)' :
               /\ s.case \in ToSet(Jobs[e]) /\ (s.case.memory \/ kit'.throughput)
               /\ s.asked # Built => Helpful(s.binary.software, TargetOf[e], s.binary)
        BY <1>5, <2>1, <3>2 DEF NeedsInv, KitInv
    <3>4. /\ kit'.throughput \/ Lacking(e)
          /\ kit'.throughput /\ NeedsIperf(e) => kit'.iperf.software = Iperf
        BY <1>5, <2>1 DEF NeedsInv, KitInv, Preparing
    <3> QED  BY <1>5, <2>1, <3>1, <3>2, <3>3, <3>4, MovedNeeds
  <2> QED  BY <2>1
<1>6. CASE Over /\ UNCHANGED jobs  BY <1>6, EndedNeeds
<1> QED  BY <1>3, <1>4, <1>5, <1>6 DEF WithoutRelease
-----------------------------------------------------------------------------
(* What is remembered of earlier answers.                                  *)

LEMMA MemoGrown ==
    ASSUME MemoInv, newest' = newest,
           \A k \in unsupported' : \/ k \in unsupported
                                   \/ k[1] \in Software /\ Unreleased(k[1], k[2], k[3]),
           \A k \in DOMAIN binaries' : \/ k \in DOMAIN binaries /\ binaries'[k] = binaries[k]
                                       \/ k[2] # Built => Helpful(k[1], k[3], binaries'[k])
    PROVE  MemoInv'
BY DEF MemoInv, Unreleased

LEMMA UnreleasedPinned ==
    ASSUME Unreleased(Wanted.software, Pinned(Wanted), Wanted.target)
    PROVE  Unreleased(Wanted.software, Wanted.version, Wanted.target)
<1> DEFINE w == Wanted
<1>1. Pinned(w) = IF w.version = Latest THEN versions[w.software] ELSE w.version
    BY DEF Pinned
<1> HIDE DEF w
<1>2. Unreleased(w.software, Pinned(w), w.target) => Unreleased(w.software, w.version, w.target)
    BY <1>1 DEF Unreleased
<1> QED  BY <1>2 DEF w

LEMMA RememberedNeeds ==
    ASSUME IInv, NeedsInv, Remembered PROVE NeedsInv'
<1>1. /\ at = "idle" /\ Asking /\ newest' = newest
      /\ UNCHANGED <<cacheVars, wish, preparer, report, ran>>
    BY DEF Remembered, cacheVars, outside
<1>2. /\ WantedKey[1] = Wanted.software /\ WantedKey[2] = Pinned(Wanted)
      /\ WantedKey[3] = Wanted.target
    BY DEF WantedKey, KeyOf
<1>3. OnceInv' /\ KitInv' /\ Runnable'
  <2>1. CASE WantedKey \in DOMAIN binaries /\ UseBinary(binaries[WantedKey])
    <3>1. binaries[WantedKey] \in Binary /\ binaries[WantedKey].software = Wanted.software
        BY <1>2, <2>1 DEF IInv, BinaryInv
    <3>2. Wanted.version # Built => Pinned(Wanted) # Built
      <4>1. Wanted.software \in Software /\ versions \in [Software -> Nat]
          BY <1>1, WantedType DEF IInv, PlaceType
      <4> QED  BY <4>1 DEF Pinned, Built
    <3>3. Wanted.version # Built
              => Helpful(Wanted.software, Wanted.target, binaries[WantedKey])
        BY <1>2, <2>1, <3>2 DEF NeedsInv, MemoInv
    <3> QED  BY <1>1, <2>1, <3>1, <3>3, UseBinaryNeeds
  <2>2. CASE WantedKey \in unsupported /\ WithoutRelease
    <3>1. Unreleased(Wanted.software, Pinned(Wanted), Wanted.target)
        BY <1>2, <2>2 DEF NeedsInv, MemoInv
    <3> QED  BY <1>1, <2>2, <3>1, UnreleasedPinned, WithoutReleaseNeeds
  <2> QED  BY <2>1, <2>2 DEF Remembered
<1> QED  BY <1>1, <1>3, SameAnswer, SameMemo DEF NeedsInv

LEMMA BuildNeeds ==
    ASSUME IInv, NeedsInv, Build PROVE NeedsInv'
<1> DEFINE binary == [software |-> Wanted.software, version |-> Latest,
                      made |-> {<<Wanted.software, "whole">>}]
<1>1. /\ Asking /\ Wanted.version = Built /\ newest' = newest
      /\ UNCHANGED <<cacheVars, wish, versions, unsupported, report, ran>>
    BY DEF Build, New, cacheVars, outside
<1>2. Wanted.software \in Software  BY <1>1, WantedType
<1>3. binary \in Binary
  <2>1. <<Wanted.software, "whole">> \in Piece  BY <1>2 DEF Piece, Content
  <2> QED  BY <1>2, <2>1 DEF Binary, Latest
<1>4. binary.software = Wanted.software  OBVIOUS
<1>5. \/ UseBinary(binary) /\ binaries' = WithBinary({WantedKey}, binary)
      \/ Over /\ UNCHANGED <<jobs, binaries>>
    BY DEF Build
<1> HIDE DEF binary
<1>6. AnswerInv'  BY <1>1, SameAnswer
<1>7. CASE UseBinary(binary) /\ binaries' = WithBinary({WantedKey}, binary)
  <2>1. OnceInv' /\ KitInv' /\ Runnable'  BY <1>1, <1>3, <1>4, <1>7, UseBinaryNeeds
  <2>2. WantedKey[2] = Built  BY <1>1 DEF WantedKey, KeyOf, Pinned, Built, Latest
  <2>3. \A k \in DOMAIN binaries' : \/ k \in DOMAIN binaries /\ binaries'[k] = binaries[k]
                                    \/ k[2] = Built
      BY <1>7, <2>2 DEF WithBinary
  <2>4. MemoInv'  BY <1>1, <2>3, MemoGrown DEF NeedsInv
  <2> QED  BY <1>6, <2>1, <2>4 DEF NeedsInv
<1>8. CASE Over /\ UNCHANGED <<jobs, binaries>>
  <2>1. MemoInv'  BY <1>1, <1>8, MemoGrown DEF NeedsInv
  <2> QED  BY <1>1, <1>6, <1>8, <2>1, EndedNeeds DEF NeedsInv
<1> QED  BY <1>5, <1>7, <1>8

LEMMA DownloadNeeds ==
    ASSUME IInv, NeedsInv, Download PROVE NeedsInv'
<1>1. /\ at' = "resolve" /\ UNCHANGED <<disk, outside, place, wish, preparer, report, ran>>
    BY DEF Download, Request
<1>2. AnswerInv' /\ newest' = newest  BY <1>1 DEF NeedsInv, AnswerInv, disk, outside
<1> QED  BY <1>1, <1>2, SameReleases, NeedsFrame

LEMMA DownloadedNeeds ==
    ASSUME IInv, NeedsInv, Downloaded, newest' = newest, UNCHANGED <<wish, report, ran>>
    PROVE  MemoInv' /\ OnceInv' /\ KitInv' /\ Runnable'
<1> DEFINE binary == [software |-> ask.software, version |-> found, made |-> made]
<1>1. /\ at = "ok" /\ UseBinary(binary) /\ unsupported' = unsupported
      /\ binaries' = WithBinary({WantedKey, KeyOf(Wanted, found)}, binary)
    BY DEF Downloaded
<1>2. /\ Asking /\ ask.software = Wanted.software /\ ask.target = Wanted.target
      /\ found \in Nat
    BY <1>1 DEF IInv, ClientInv
<1>3. Wanted.software \in Software  BY <1>2, WantedType
<1>4. binary \in Binary  BY <1>2, <1>3 DEF Binary, IInv, CacheType
<1>5. Helpful(Wanted.software, Wanted.target, binary) /\ binary.software = Wanted.software
    BY <1>1, <1>2 DEF NeedsInv, AnswerInv, NeedsHelper, Helpful
<1> HIDE DEF binary
<1>6. \A k \in {WantedKey, KeyOf(Wanted, found)} :
          k[1] = Wanted.software /\ k[3] = Wanted.target
    BY DEF WantedKey, KeyOf
<1>7. \A k \in DOMAIN binaries' : \/ k \in DOMAIN binaries /\ binaries'[k] = binaries[k]
                                  \/ Helpful(k[1], k[3], binaries'[k])
    BY <1>1, <1>5, <1>6 DEF WithBinary
<1>8. MemoInv'  BY <1>1, <1>7, MemoGrown DEF NeedsInv
<1> QED  BY <1>1, <1>2, <1>4, <1>5, <1>8, UseBinaryNeeds

LEMMA RefusedNeeds ==
    ASSUME IInv, NeedsInv, Refused, newest' = newest, UNCHANGED <<wish, report, ran>>
    PROVE  MemoInv' /\ OnceInv' /\ KitInv' /\ Runnable'
<1>1. /\ at = "unsupported" /\ WithoutRelease /\ UNCHANGED binaries
      /\ unsupported' = unsupported \cup {WantedKey}
    BY DEF Refused
<1>2. /\ Asking /\ ask.software = Wanted.software /\ ask.target = Wanted.target
      /\ ask.version = Pinned(Wanted)
    BY <1>1 DEF IInv, ClientInv
<1>3. Unreleased(Wanted.software, Pinned(Wanted), Wanted.target)
    BY <1>1, <1>2 DEF NeedsInv, AnswerInv
<1>4. /\ WantedKey[1] = Wanted.software /\ WantedKey[2] = Pinned(Wanted)
      /\ WantedKey[3] = Wanted.target /\ Wanted.software \in Software
    BY <1>2, WantedType DEF WantedKey, KeyOf
<1>5. MemoInv'  BY <1>1, <1>3, <1>4, MemoGrown DEF NeedsInv
<1> QED  BY <1>1, <1>2, <1>3, <1>5, UnreleasedPinned, WithoutReleaseNeeds

LEMMA AnsweredNeeds ==
    ASSUME IInv, NeedsInv, Answered PROVE NeedsInv'
<1>1. /\ Downloaded \/ Refused \/ Failed
      /\ UNCHANGED <<wish, report, ran>> /\ AnswerInv'
    BY ResetAnswer DEF Answered, outside
<1>2. newest' = newest  BY DEF Answered, outside
<1>3. CASE Downloaded  BY <1>1, <1>2, <1>3, DownloadedNeeds DEF NeedsInv
<1>4. CASE Refused  BY <1>1, <1>2, <1>4, RefusedNeeds DEF NeedsInv
<1>5. CASE Failed
  <2>1. MemoInv'  BY <1>5 DEF Failed, Discard, MemoInv
  <2> QED  BY <1>1, <1>2, <1>5, <2>1, EndedNeeds DEF NeedsInv, Failed
<1> QED  BY <1>1, <1>3, <1>4, <1>5

(* The report of the environment that is measured changes; no other job    *)
(* is for it.                                                              *)
LEMMA MeasureNeeds ==
    ASSUME IInv, NeedsInv, Measure PROVE NeedsInv'
<1>1. /\ step = "measure" /\ jobs # <<>> /\ jobs' = Tail(jobs) /\ newest' = newest
      /\ UNCHANGED <<cacheVars, step, wish, todo, cases, kit, preparer>>
      /\ jobs \in Seq(Job) /\ kit = EmptyKit
    BY DEF Measure, cacheVars, outside, IInv, PlaceType, PlaceInv
<1>2. /\ Len(jobs') \in Nat /\ Head(jobs) = jobs[1] /\ 1 \in 1 .. Len(jobs)
      /\ \A i \in 1 .. Len(jobs') : jobs'[i] = jobs[i + 1] /\ i + 1 \in 1 .. Len(jobs)
    BY <1>1, AllButFirst
<1>3. jobs' \in Seq(Job) /\ ReadyJobs' \subseteq ReadyJobs
    BY <1>1, Elements DEF ReadyJobs
<1>4. \A i, j \in 1 .. Len(jobs) : jobs[i].place = jobs[j].place => i = j
    BY DEF NeedsInv, OnceInv
<1>5. OnceInv'
  <2>1. ASSUME NEW i \in 1 .. Len(jobs'), NEW j \in 1 .. Len(jobs'), jobs'[i].place = jobs'[j].place
        PROVE  i = j
    <3>1. i + 1 = j + 1  BY <1>2, <1>4, <2>1
    <3> QED  BY <3>1
  <2> QED  BY <1>1, <1>3, <2>1 DEF NeedsInv, OnceInv
<1>6. ASSUME NEW job \in ReadyJobs' PROVE report'[job.place] = report[job.place]
  <2>1. PICK i \in 1 .. Len(jobs') : job = jobs'[i]  BY <1>3 DEF ReadyJobs, ToSet
  <2>2. job.place # Head(jobs).place  BY <1>2, <1>4, <2>1
  <2>3. job.place \in Place  BY <1>3, ChosenType DEF IInv, Job
  <2>4. DOMAIN report = Place  BY DEF IInv, ReportInv
  <2>5. \/ report' = report
        \/ \E r : report' = [report EXCEPT ![Head(jobs).place] = r]
      BY DEF Measure
  <2> QED  BY <2>2, <2>3, <2>4, <2>5
<1>7. Runnable'  BY <1>1, <1>3, <1>6, SameReleases, JobsKept DEF NeedsInv
<1>8. KitInv'
  <2>1. Supported(kit)' = {}  BY <1>1, EmptyTypes DEF Supported
  <2> QED  BY <1>1, <2>1 DEF KitInv, Preparing
<1> QED  BY <1>1, <1>5, <1>7, <1>8, SameAnswer, SameMemo DEF NeedsInv

LEMMA FinishNeeds ==
    ASSUME IInv, NeedsInv, Finish PROVE NeedsInv'
<1>1. /\ Over /\ newest' = newest /\ UNCHANGED <<cacheVars, wish, jobs, report, ran>>
      /\ binaries' = <<>> /\ unsupported' = {}
    BY DEF Finish, Discard, cacheVars, outside
<1>2. MemoInv'  BY <1>1 DEF MemoInv
<1> QED  BY <1>1, <1>2, SameAnswer, EndedNeeds DEF NeedsInv

LEMMA CrashNeeds ==
    ASSUME IInv, NeedsInv, Crash PROVE NeedsInv'
<1>1. /\ Lose /\ Over /\ jobs' = <<>> /\ binaries' = <<>> /\ unsupported' = {}
      /\ UNCHANGED <<wish, report, ran>>
    BY DEF Crash, Discard
<1>2. at' = "idle" /\ newest' = newest  BY <1>1 DEF Lose, Reset
<1>3. \A r \in Release : meta'[r] # "none" => meta[r] # "none"
    BY <1>1 DEF Lose, disk, IInv, CacheType
<1>4. AnswerInv'  BY <1>2, <1>3 DEF NeedsInv, AnswerInv
<1>5. MemoInv'  BY <1>1 DEF MemoInv
<1> QED  BY <1>1, <1>2, <1>4, <1>5, EndedNeeds DEF NeedsInv

LEMMA InitNeeds == Init => NeedsInv
<1> SUFFICES ASSUME Init PROVE NeedsInv  OBVIOUS
<1>1. ReadyJobs = {} /\ ToSet(todo) = {} /\ Supported(kit) = {}
    BY EmptyTypes DEF Init, ReadyJobs, ToSet
<1>2. AnswerInv  BY DEF Init, CacheInit, AnswerInv
<1>3. MemoInv  BY DEF Init, MemoInv
<1>4. OnceInv  BY <1>1 DEF Init, OnceInv, IsInjective
<1>5. KitInv  BY <1>1 DEF Init, KitInv, Preparing
<1>6. Runnable  BY <1>1 DEF Runnable
<1> QED  BY <1>2, <1>3, <1>4, <1>5, <1>6 DEF NeedsInv

LEMMA NextNeeds ==
    ASSUME IInv, NeedsInv, [Next]_vars PROVE NeedsInv'
<1>1. CASE /\ ClientStep \/ Visit \/ \E s \in Software : Publish(s)
           /\ UNCHANGED <<place, wish, preparer, report, ran>>
    BY <1>1, ClientNeeds, VisitNeeds, PublishNeeds
<1>2. CASE UNCHANGED vars
  <2>1. /\ UNCHANGED <<place, wish, preparer, report, ran>> /\ UNCHANGED cacheVars
        /\ newest' = newest
      BY <1>2 DEF vars, cacheVars, outside
  <2> QED  BY <2>1, SameAnswer, SameReleases, NeedsFrame
<1> QED
    BY <1>1, <1>2, StartNeeds, SkipNeeds, DroppedNeeds, RememberedNeeds, BuildNeeds,
       DownloadNeeds, AnsweredNeeds, PreparedNeeds, MeasureNeeds, FinishNeeds, CrashNeeds DEF Next

LEMMA NeedsInvariant == Spec => []NeedsInv
<1>1. IInv /\ NeedsInv /\ [Next]_vars => NeedsInv'  BY NextNeeds
<1> QED  BY InitNeeds, <1>1, Invariant, PTL DEF Spec

(* A prepared environment has iperf3, the relay and the helper libraries   *)
(* that its cases need, and a case is dropped only if a release that was   *)
(* published lacks the environment's target (environmentMatrix.run,        *)
(* artifactPreparer.prepare).                                              *)
THEOREM PreparedIsRunnable == Spec => []Runnable
BY NeedsInvariant, PTL DEF NeedsInv
=============================================================================
