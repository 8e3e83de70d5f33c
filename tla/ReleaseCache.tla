---------------------------- MODULE ReleaseCache ----------------------------
(***************************************************************************)
(* The release client (release.go): which release a version names, its     *)
(* cached metadata, the download of an asset into the cache that all       *)
(* invocations of a user share, and its extraction.                        *)
(*                                                                         *)
(* This follows the client of one invocation.  Others run at the same time *)
(* without a lock and add to the cache.  A download is a step: its         *)
(* temporary file is private until it is renamed.  Nothing is synced, so a *)
(* power failure may leave a renamed file without its content.             *)
(***************************************************************************)
EXTENDS Integers, Sequences

CONSTANTS
    Software,    \* what releases are downloaded of
    Target,      \* operating systems with their architectures
    Assets,      \* [Software -> the sequence of its releases, SUBSET Target each]
    Digested,    \* software whose assets come with a SHA-256
    Helped,      \* pairs of software and target that need a helper library
    Disturbances \* bound: kills, power failures, downloads by other invocations

ASSUME CacheAssumption ==
    /\ Assets \in [Software -> Seq(SUBSET Target) \ {<<>>}]
    /\ Digested \subseteq Software /\ Helped \subseteq Software \X Target
    /\ Disturbances \in Nat

Latest == 0
Helper == "helper"
Release == UNION {{<<s, v>> : v \in 1 .. Len(Assets[s])} : s \in Software}
HelperAsset(t) == <<<<Helper, Latest>>, t>>
Asset == (UNION {{<<r, t>> : t \in Assets[r[1]][r[2]]} : r \in Release})
            \cup {HelperAsset(h[2]) : h \in Helped}
SoftwareOf(a) == a[1][1]

(* What a file may hold: all of the asset, too little or too much of it,   *)
(* or as many bytes as it should but other ones.                           *)
Content == {"whole", "torn", "wrong"}

VARIABLES
    newest,   \* [Software -> the latest release on GitHub]
    meta,     \* [Release -> the cached metadata]
    file,     \* [Asset -> the cached download]
    at,       \* where prepare of the release client is
    ask,      \* what it was asked for
    found,    \* the version it resolved
    asset,    \* the asset it downloads
    made,     \* what was extracted so far
    disturbed \* auxiliary: number of kills, power failures and visits

disk == <<meta, file>>
client == <<at, ask, found, asset, made>>
outside == <<newest, disturbed>>
cacheVars == <<disk, client, outside>>

NoAsk == [software |-> "none", version |-> Latest, target |-> "none"]
NoAsset == <<<<"none", Latest>>, "none">>

Reset ==
    /\ at' = "idle" /\ ask' = NoAsk /\ found' = Latest
    /\ asset' = NoAsset /\ made' = {}

CacheInit ==
    /\ newest = [s \in Software |-> 1]
    /\ meta = [r \in Release |-> "none"] /\ file = [a \in Asset |-> "none"]
    /\ at = "idle" /\ ask = NoAsk /\ found = Latest /\ asset = NoAsset /\ made = {}
    /\ disturbed = 0
-----------------------------------------------------------------------------
(* releaseClient.prepare; it answers with at = "ok", "unsupported" or      *)
(* "failed".                                                               *)

Request(software, version, target) ==
    /\ at' = "resolve" /\ found' = Latest /\ asset' = NoAsset /\ made' = {}
    /\ ask' = [software |-> software, version |-> version, target |-> target]

(* The releases that resolve may get: the cached one if its metadata can   *)
(* be read, or else what GitHub has now.                                   *)
Known == meta[<<ask.software, ask.version>>] = "whole"

Resolved ==
    IF ask.version = Latest THEN {newest[ask.software]}
    ELSE {v \in 1 .. Len(Assets[ask.software]) :
              v = ask.version /\ (Known \/ v <= newest[ask.software])}

(* What releaseAssetName and the names of the assets decide.               *)
HasAsset(release, target) == target \in Assets[release[1]][release[2]]

(* The metadata is cached once the release is known to have the asset.     *)
Resolve ==
    /\ at = "resolve"
    /\ \E v \in Resolved : LET release == <<ask.software, v>> IN
        /\ found' = v
        /\ IF HasAsset(release, ask.target)
           THEN /\ at' = "cached" /\ asset' = <<release, ask.target>>
                /\ meta' = [meta EXCEPT ![release] = "whole"]
           ELSE at' = "unsupported" /\ UNCHANGED <<asset, meta>>
    /\ UNCHANGED <<file, ask, made, outside>>

(* releaseAsset.verify: the size, and the digest if there is one.  The     *)
(* helpers have theirs in the source.                                      *)
AnyFile(content, software) == content # "none"
Verified(content, software) ==
    \/ content = "whole"
    \/ content = "wrong" /\ software \in Software \ Digested

UseCached ==
    /\ at = "cached" /\ Verified(file[asset], SoftwareOf(asset)) /\ at' = "extract"
    /\ UNCHANGED <<disk, ask, found, asset, made, outside>>

(* The file goes to the cache once it is verified. *)
Fetch ==
    /\ at = "cached" /\ ~Verified(file[asset], SoftwareOf(asset)) /\ at' = "extract"
    /\ \E c \in Content : Verified(c, SoftwareOf(asset)) /\ file' = [file EXCEPT ![asset] = c]
    /\ UNCHANGED <<meta, ask, found, asset, made, outside>>

NeedsHelper == <<ask.software, ask.target>> \in Helped

(* What is extracted goes to a directory of this invocation. *)
Unpack(a) == at = "extract" /\ asset = a
             /\ made' = made \cup {<<SoftwareOf(a), file[a]>>}

(* extractRelease; on Windows some releases lack a library. *)
Extract ==
    /\ Unpack(<<<<ask.software, found>>, ask.target>>)
    /\ IF NeedsHelper THEN at' = "cached" /\ asset' = HelperAsset(ask.target)
       ELSE at' = "ok" /\ UNCHANGED asset
    /\ UNCHANGED <<disk, ask, found, outside>>

(* prepareWintun and prepareMSYSSignal. *)
ExtractHelper ==
    /\ Unpack(HelperAsset(ask.target)) /\ at' = "ok"
    /\ UNCHANGED <<disk, ask, found, asset, outside>>

(* GitHub, the network, the disk and the archive may fail everywhere; so   *)
(* does a release that is not there, and a download that is not verified.  *)
PrepareFails ==
    /\ at \in {"resolve", "cached", "extract"} /\ at' = "failed"
    /\ UNCHANGED <<disk, ask, found, asset, made, outside>>

ClientStep == Resolve \/ UseCached \/ Fetch \/ Extract \/ ExtractHelper \/ PrepareFails

Publish(s) ==
    /\ newest[s] < Len(Assets[s]) /\ newest' = [newest EXCEPT ![s] = @ + 1]
    /\ UNCHANGED <<disk, client, disturbed>>

Disturbed == disturbed < Disturbances /\ disturbed' = disturbed + 1

(* Another invocation prepares an asset. *)
Visit ==
    /\ Disturbed
    /\ \E r \in Release : r[2] <= newest[r[1]] /\ \E t \in Assets[r[1]][r[2]], c \in Content :
        /\ meta' = [meta EXCEPT ![r] = "whole"]
        /\ Verified(c, r[1]) /\ file' = [file EXCEPT ![<<r, t>>] =
               IF Verified(@, r[1]) THEN @ ELSE c]
    /\ UNCHANGED <<client, newest>>

(* This invocation is killed, or the power fails and a file is damaged.    *)
Lose ==
    /\ Disturbed /\ Reset
    /\ \/ UNCHANGED disk
       \/ \E r \in Release :
              meta[r] = "whole" /\ meta' = [meta EXCEPT ![r] = "torn"] /\ UNCHANGED file
       \/ \E a \in Asset, c \in {"torn", "wrong"} :
              file[a] = "whole" /\ file' = [file EXCEPT ![a] = c] /\ UNCHANGED meta
    /\ UNCHANGED newest
=============================================================================
