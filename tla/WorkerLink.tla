---------------------------- MODULE WorkerLink -----------------------------
(***************************************************************************)
(* How the controller runs one worker (runLocal, runRemote and             *)
(* runWorkerProcess in controller.go) and how the worker takes what it is  *)
(* sent (runWorker in worker.go): the bundle and the cancel message that   *)
(* share the worker's input, the updates on its output, and the remote     *)
(* directory.                                                              *)
(*                                                                         *)
(* The bundle is written by one goroutine, the cancel message by others,   *)
(* without a lock between them.  What passes through the pipe is counted   *)
(* in units: the size, Blocks of the archive, and "cancel".                *)
(***************************************************************************)
EXTENDS Naturals, Sequences

CONSTANTS
    Blocks,       \* units of the archive
    Capacity,     \* units that fit into the input pipe
    MaxUpdates    \* bound: updates of one worker

ASSUME LinkAssumption ==
    Blocks \in Nat \ {0} /\ Capacity \in Nat \ {0} /\ MaxUpdates \in Nat \ {0}

VARIABLES
    kind,       \* how the worker is started, see Kinds
    pc,         \* where the goroutine of the environment is
    ctx,        \* the context of the environment is canceled
    err,        \* the errors that were met, as a set of causes
    dir,        \* the remote directory exists
    input,      \* units in the pipe to the worker
    open,       \* the controller's end of it is open
    sender,     \* the goroutine that sends the bundle
    copied,     \* ... and the blocks it has written
    canceler,   \* the goroutines of command.Cancel
    child,      \* the process: the worker itself, sudo, or ssh
    exit,       \* how it exited
    output,     \* messages on their way from the worker
    worker,     \* where the worker is
    got,        \* the units it took for the archive
    stopped,    \* its context is canceled
    emitted,    \* updates it encoded
    saved       \* updates the controller saved

link == <<input, open>>
senders == <<sender, copied>>
process == <<child, exit>>
workers == <<worker, got, stopped, emitted>>
main == <<pc, err, saved>>
vars == <<kind, main, ctx, dir, link, senders, canceler, process, output, workers>>

(* A worker on this machine, one behind sudo, which cannot be killed by    *)
(* its user, one behind ssh, and one whose bundle is copied by scp.        *)
Kinds == {"local", "sudo", "ssh", "windows"}
Remote == kind \in {"ssh", "windows"}
Cancelers == {"context", "failure"}
Archive == [n \in 1 .. Blocks |-> "block"]

Init ==
    /\ kind \in Kinds
    /\ pc = (IF kind \in {"local", "sudo"} THEN "pack" ELSE "upload")
    /\ ctx = FALSE /\ err = {} /\ dir = FALSE
    /\ input = <<>> /\ open = FALSE /\ sender = "none" /\ copied = 0
    /\ canceler = [c \in Cancelers |-> "none"]
    /\ child = "none" /\ exit = "none" /\ output = <<>>
    /\ worker = "none" /\ got = <<>> /\ stopped = FALSE
    /\ emitted = 0 /\ saved = 0
-----------------------------------------------------------------------------
(* runRemote and runLocal before the worker runs. *)

After == IF Remote THEN "cleanup" ELSE "returned"

FailTo(next, cause) == pc' = next /\ err' = err \cup {cause}

(* The script makes the directory, prints its name and reads the program;  *)
(* it may be cut off after each.  Without the name nothing can be removed. *)
Upload ==
    /\ pc = "upload"
    /\ \/ dir' = TRUE /\ pc' = "pack" /\ UNCHANGED err
       \/ dir' = TRUE /\ FailTo("cleanup", "upload")
       \/ dir' \in BOOLEAN /\ FailTo("returned", "upload")
    /\ UNCHANGED <<kind, ctx, saved, link, senders, canceler, process, output, workers>>

(* writeWorkerBundle, and scp for a worker on Windows. *)
Pack ==
    /\ pc = "pack"
    /\ \/ pc' = "start" /\ UNCHANGED err
       \/ FailTo(After, "bundle")
    /\ UNCHANGED <<kind, ctx, dir, saved, link, senders, canceler, process, output, workers>>

(* command.Start does nothing when the context is canceled already. *)
Start ==
    /\ pc = "start" /\ ~ctx
    /\ pc' = "decode" /\ child' = "running" /\ open' = TRUE
    /\ sender' = IF kind = "windows" THEN "done" ELSE "size"
    /\ worker' = IF kind = "windows" THEN "archive" ELSE "size"
    /\ UNCHANGED <<kind, ctx, err, dir, saved, input, copied, canceler, exit,
                   output, got, stopped, emitted>>

StartFails ==
    /\ pc = "start" /\ FailTo(After, "start")
    /\ UNCHANGED <<kind, ctx, dir, saved, link, senders, canceler, process, output, workers>>
-----------------------------------------------------------------------------
(* runWorkerProcess: the loop over updates and what follows it. *)

(* Cancel, called for an update that cannot be decoded or saved. *)
GiveUp(cause) ==
    /\ FailTo("drain", cause)
    /\ canceler' = [canceler EXCEPT !["failure"] = "write"]

Decode ==
    /\ pc = "decode" /\ output # <<>> /\ output' = Tail(output)
    /\ \/ Head(output) = "update" /\ saved' = saved + 1
          /\ UNCHANGED <<pc, err, canceler>>
       \/ Head(output) = "update" /\ GiveUp("save") /\ UNCHANGED saved
       \/ Head(output) = "garbage" /\ GiveUp("decode") /\ UNCHANGED saved
    /\ UNCHANGED <<kind, ctx, dir, link, senders, process, workers>>

Drain ==
    /\ pc = "drain" /\ output # <<>> /\ output' = Tail(output)
    /\ UNCHANGED <<kind, main, ctx, dir, link, senders, canceler, process, workers>>

(* The end of the output. *)
Closed ==
    /\ pc \in {"decode", "drain"} /\ output = <<>> /\ child = "exited"
    /\ pc' = "wait"
    /\ UNCHANGED <<kind, ctx, err, dir, saved, link, senders, canceler, process,
                   output, workers>>

(* command.Wait, which closes both pipes, and input.Close. *)
Wait ==
    /\ pc = "wait" /\ pc' = "join" /\ open' = FALSE
    /\ UNCHANGED <<kind, ctx, err, dir, saved, input, senders, canceler, process,
                   output, workers>>

SenderIgnored == TRUE
SenderOver == sender \in {"done", "failed"}

Errors ==
    err \cup (IF sender = "failed" THEN {"send"} ELSE {})
        \cup (IF exit # "ok" THEN {"exit"} ELSE {})
        \cup (IF err = {} /\ exit = "ok" /\ saved = 0 THEN {"no results"} ELSE {})
        \cup (IF ctx THEN {"canceled"} ELSE {})

Join ==
    /\ pc = "join" /\ SenderOver
    /\ pc' = After /\ err' = Errors
    /\ UNCHANGED <<kind, ctx, dir, saved, link, senders, canceler, process, output, workers>>

(* The deferred cleanup of runRemote has a context and a limit of its own. *)
Cleanup ==
    /\ pc = "cleanup"
    /\ \/ dir' = FALSE /\ pc' = "returned" /\ UNCHANGED err
       \/ FailTo("returned", "cleanup") /\ UNCHANGED dir
    /\ UNCHANGED <<kind, ctx, saved, link, senders, canceler, process, output, workers>>

MainStep ==
    Upload \/ Pack \/ Start \/ StartFails \/ Decode \/ Drain \/ Closed \/ Wait
        \/ Join \/ Cleanup
-----------------------------------------------------------------------------
(* The goroutines that write to the input. *)

Broken == ~open \/ child = "exited"
Put(unit) == ~Broken /\ Len(input) < Capacity /\ input' = Append(input, unit)

(* The size and the blocks; a failed write closes the input. *)
Send ==
    /\ \/ sender = "size" /\ Put("size") /\ sender' = "copy" /\ UNCHANGED copied
       \/ /\ sender = "copy" /\ Put("block") /\ copied' = copied + 1
          /\ sender' = IF copied' = Blocks THEN "done" ELSE "copy"
    /\ UNCHANGED <<kind, main, ctx, dir, open, canceler, process, output, workers>>

SendFails ==
    /\ sender \in {"size", "copy"} /\ Broken
    /\ sender' = "failed" /\ open' = FALSE
    /\ UNCHANGED <<kind, main, ctx, dir, input, copied, canceler, process, output, workers>>

(* The context of the command is canceled before Wait has returned. *)
Watch ==
    /\ ctx /\ pc \in {"decode", "drain", "wait"} /\ canceler["context"] = "none"
    /\ canceler' = [canceler EXCEPT !["context"] = "write"]
    /\ UNCHANGED <<kind, main, ctx, dir, link, senders, process, output, workers>>

(* "cancel" lands wherever the sender is; its errors are ignored. *)
WriteCancel(c) ==
    /\ canceler[c] = "write"
    /\ Put("cancel") \/ (Broken /\ UNCHANGED input)
    /\ canceler' = [canceler EXCEPT ![c] = "close"]
    /\ UNCHANGED <<kind, main, ctx, dir, open, senders, process, output, workers>>

CloseInput(c) ==
    /\ canceler[c] = "close" /\ open' = FALSE
    /\ canceler' = [canceler EXCEPT ![c] = "over"]
    /\ UNCHANGED <<kind, main, ctx, dir, input, senders, process, output, workers>>

(* The limit while the output is drained, and the WaitDelay after Cancel. *)
OnlyDelay == canceler["context"] # "none"
LimitPassed == pc = "drain" \/ canceler["context"] # "none"

(* A worker behind ssh loses its connection and what is on its way. *)
Lose(how) ==
    /\ child' = "exited" /\ exit' = how
    /\ \E n \in 0 .. Len(input) : input' = SubSeq(input, 1, n)
    /\ worker' = IF Remote THEN worker ELSE "ended"
    /\ UNCHANGED <<kind, main, ctx, dir, open, senders, canceler, output, got,
                   stopped, emitted>>

(* A user cannot kill sudo. *)
Kill == child = "running" /\ LimitPassed /\ kind # "sudo" /\ Lose("killed")

Disconnect == child = "running" /\ Remote /\ Lose("error")

Cancel ==
    /\ ~ctx /\ pc # "returned" /\ ctx' = TRUE
    /\ UNCHANGED <<kind, main, dir, link, senders, canceler, process, output, workers>>
-----------------------------------------------------------------------------
(* runWorker. *)

EndOfInput == input = <<>> /\ Broken

(* The worker gives up; its process ends with an error. *)
Refuse ==
    /\ worker' = "ended"
    /\ IF child = "running" THEN child' = "exited" /\ exit' = "error"
                            ELSE UNCHANGED process
    /\ dir' \in {dir, FALSE}

(* "cancel" read as a size exceeds the limit. *)
ReadSize ==
    /\ worker = "size"
    /\ \/ /\ input # <<>> /\ input' = Tail(input)
          /\ IF Head(input) = "size"
             THEN worker' = "archive" /\ UNCHANGED <<process, dir>>
             ELSE Refuse
       \/ EndOfInput /\ Refuse /\ UNCHANGED input
    /\ UNCHANGED <<kind, main, ctx, open, senders, canceler, output, got, stopped, emitted>>

(* The archive is read to its size; its format may show that it is broken, *)
(* and extracting it may fail.                                             *)
ReadArchive ==
    /\ worker = "archive" /\ kind # "windows" /\ Len(got) < Blocks
    /\ input # <<>> /\ input' = Tail(input)
    /\ got' = Append(got, Head(input))
    /\ UNCHANGED <<kind, main, ctx, dir, open, senders, canceler, process, output,
                   worker, stopped, emitted>>

ReadFile ==
    /\ worker = "archive" /\ kind = "windows" /\ got' = Archive /\ got # Archive
    /\ UNCHANGED <<kind, main, ctx, dir, link, senders, canceler, process, output,
                   worker, stopped, emitted>>

AnySize == EndOfInput \/ Len(got) = Blocks
WholeSize == Len(got) = Blocks

(* limited.N is zero and the request fits this platform. *)
Accept ==
    /\ worker = "archive" /\ WholeSize /\ worker' = "running"
    /\ UNCHANGED <<kind, main, ctx, dir, link, senders, canceler, process, output,
                   got, stopped, emitted>>

RefuseArchive ==
    /\ worker = "archive" /\ Refuse
    /\ UNCHANGED <<kind, main, ctx, link, senders, canceler, output, got, stopped, emitted>>

(* One byte of whatever follows, or the end of the input. *)
Control ==
    /\ worker = "running" /\ ~stopped /\ stopped' = TRUE
    /\ \/ input # <<>> /\ input' = Tail(input)
       \/ EndOfInput /\ UNCHANGED input
    /\ UNCHANGED <<kind, main, ctx, dir, open, senders, canceler, process, output,
                   worker, got, emitted>>

(* The output pipe holds one message; a full pipe blocks the worker.  What *)
(* a dead connection takes is lost.                                        *)
Emit ==
    /\ worker = "running" /\ emitted < MaxUpdates /\ emitted' = emitted + 1
    /\ \/ child = "running" /\ output = <<>> /\ output' \in {<<"update">>, <<"garbage">>}
       \/ child = "exited" /\ UNCHANGED output
    /\ UNCHANGED <<kind, main, ctx, dir, link, senders, canceler, process, worker,
                   got, stopped>>

(* The run ends, and with it the process; the trap of the remote shell     *)
(* removes the directory unless the shell was hung up.                     *)
WorkerEnds ==
    /\ worker = "running" /\ worker' = "ended"
    /\ IF child = "running" THEN child' = "exited" /\ exit' \in {"ok", "error"}
                            ELSE UNCHANGED process
    /\ dir' \in {dir, FALSE}
    /\ UNCHANGED <<kind, main, ctx, link, senders, canceler, output, got, stopped, emitted>>

WorkerReads == ReadSize \/ ReadArchive \/ ReadFile \/ Accept \/ Control

Next ==
    MainStep \/ Send \/ SendFails \/ Watch \/ Kill \/ Disconnect \/ Cancel
        \/ (\E c \in Cancelers : WriteCancel(c) \/ CloseInput(c))
        \/ WorkerReads \/ RefuseArchive \/ Emit \/ WorkerEnds

Spec == Init /\ [][Next]_vars

(* The goroutines run; commands of ssh and scp end, by their keep-alive or *)
(* because the context kills them; the kernel kills what may be killed.  A *)
(* worker may hang unless it is behind sudo, where nobody can kill it: it  *)
(* then has to read its input and to end when it is stopped.               *)
Fairness ==
    /\ WF_vars(MainStep) /\ WF_vars(Send) /\ WF_vars(SendFails)
    /\ WF_vars(Watch) /\ WF_vars(Kill)
    /\ \A c \in Cancelers : WF_vars(WriteCancel(c)) /\ WF_vars(CloseInput(c))
    /\ WF_vars(kind = "sudo" /\ WorkerReads)
    /\ WF_vars(kind = "sudo" /\ EndOfInput /\ RefuseArchive)
    /\ WF_vars(kind = "sudo" /\ stopped /\ WorkerEnds)

FairSpec == Spec /\ Fairness
-----------------------------------------------------------------------------
(* Properties. *)

Intact == got = Archive

(* A worker that runs with anything but the archive that was sent (it was  *)
(* cut off, or the cancel message landed inside) has been told to stop: a  *)
(* byte or the end of its input is waiting for the goroutine that listens. *)
IntactOrStopped ==
    worker = "running" /\ ~Intact =>
        /\ \E c \in Cancelers : canceler[c] \in {"close", "over"}
        /\ stopped \/ input # <<>> \/ Broken
              \/ \E c \in Cancelers : canceler[c] = "close"

(* When runRemote or runLocal returns, the process is reaped and the       *)
(* sender has ended; a remote directory that is left shows in the error;   *)
(* and no error means that the worker ran the whole archive to its end and *)
(* that all its updates were saved.                                        *)
ReturnsClean ==
    pc = "returned" =>
        /\ child # "running" /\ ~open
        /\ sender \in {"none", "done", "failed"}
        /\ dir => err # {}
        /\ err = {} => /\ Intact /\ exit = "ok"
                       /\ saved = emitted /\ saved > 0

(* After a failure or a cancellation the controller gets its goroutine     *)
(* back, whatever the worker does, and whichever pipe is full.             *)
LinkEnds == (ctx \/ err # {}) ~> (pc = "returned")
=============================================================================
