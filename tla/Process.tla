------------------------------ MODULE Process ------------------------------
(***************************************************************************)
(* One child process from startProcess to stop (process.go): the child,    *)
(* the goroutine in command.Wait, the supervising goroutine, and the       *)
(* benchmark that uses the child, checks it and stops it (the deferred     *)
(* function of benchmark.run).                                             *)
(*                                                                         *)
(* The child may print a panic and any dump after it, exit in any way at   *)
(* any time, ignore the shutdown signal, and leave its output open in a    *)
(* grandchild; of the output only the tail is kept.  Killing a running     *)
(* child works; everything else may go wrong.                              *)
(***************************************************************************)
EXTENDS Naturals

CONSTANT
    Limit       \* how much of its output a process keeps (1 MiB in the code),
                \* counted in pieces the size of one copy

ASSUME LimitAssumption == Limit \in Nat \ {0}

None == "none"

VARIABLES
    mode,       \* how children are stopped: SIGTERM on "unix", the interrupt
                \* helper on "windows", Kill at once for "terminate" (iperf3
                \* on Windows)
    child,      \* "running", "zombie" (exited) or "reaped" (Wait returned)
    exit,       \* how it exited
    held,       \* a grandchild keeps the output open (WaitDelay runs out)
    written,    \* what the child has written since it panicked: 0 before,
                \* the first piece has the line "panic:"
    copied,     \* how much of that has reached processOutput
    signaled,   \* the shutdown signal was delivered
    ctxDone,    \* the child's context is canceled
    early,      \* auxiliary: Wait had returned when it was canceled
    forced,     \* auxiliary: the forced Kill hit a running child
    waited,     \* the channel of the same name: what Wait returned
    sup,        \* where the supervising goroutine is
    terminated, \* its local variable
    stopErr,    \* child.stopErr: the set of causes it joins
    err,        \* child.err
    user,       \* where the benchmark is
    sawPanic,   \* check's panicErr
    errors      \* returnErr of benchmark.run as far as this child goes

os == <<child, exit, held, written, copied, signaled>>
vars == <<mode, os, ctxDone, early, forced, waited, sup, terminated,
          stopErr, err, user, sawPanic, errors>>

Modes == {"unix", "windows", "terminate"}
Exits == {"ok", "sigterm", "error", "killed", "code1"}
Causes == (Exits \ {"ok"}) \cup {"delay", "forced", "kill", "panic", "exited"}

Init ==
    /\ mode \in Modes
    /\ child = "running" /\ exit = None /\ held = FALSE
    /\ written = 0 /\ copied = 0 /\ signaled = FALSE
    /\ ctxDone = FALSE /\ early = FALSE /\ forced = FALSE
    /\ waited = None /\ sup = "select" /\ terminated = FALSE
    /\ stopErr = {} /\ err = {}
    /\ user = "using" /\ sawPanic = FALSE /\ errors = {}

supervisor == <<sup, terminated, stopErr, err>>
caller == <<user, sawPanic, errors>>
-----------------------------------------------------------------------------
(* The child and the operating system. *)

WritePanic ==
    /\ child = "running" /\ written = 0 /\ written' = 1
    /\ UNCHANGED <<mode, child, exit, held, copied, signaled, ctxDone, early,
                   forced, waited, supervisor, caller>>

(* The dump of a panic may be longer than what is kept; what comes after   *)
(* Limit + 1 pieces makes no difference and is the bound of written.       *)
WriteMore ==
    /\ child = "running" /\ written \in 1 .. Limit /\ written' = written + 1
    /\ UNCHANGED <<mode, child, exit, held, copied, signaled, ctxDone, early,
                   forced, waited, supervisor, caller>>

Copy ==
    /\ copied < written /\ child # "reaped" /\ copied' = copied + 1
    /\ UNCHANGED <<mode, child, exit, held, written, signaled, ctxDone, early,
                   forced, waited, supervisor, caller>>

(* What panicError finds: the line is in the tail while no more than Limit *)
(* pieces have been copied, itself included.                               *)
Kept == copied \in 1 .. Limit

(* A child ends with or without an error, whatever it wrote; SIGTERM ends  *)
(* it when no handler does something else.                                 *)
Exit ==
    /\ child = "running" /\ child' = "zombie"
    /\ exit' \in {"ok", "error"} \cup
                    (IF signaled /\ mode = "unix" THEN {"sigterm"} ELSE {})
    /\ held' \in BOOLEAN
    /\ UNCHANGED <<mode, written, copied, signaled, ctxDone, early, forced,
                   waited, supervisor, caller>>

(* command.Wait returns once the output is copied or WaitDelay has passed; *)
(* in the latter case a clean exit becomes ErrWaitDelay.                   *)
Wait ==
    /\ child = "zombie" /\ child' = "reaped"
    /\ held \/ copied = written
    /\ waited' = IF exit = "ok" /\ held THEN "delay" ELSE exit
    /\ UNCHANGED <<mode, exit, held, written, copied, signaled, ctxDone,
                   early, forced, supervisor, caller>>

(* Mutant: a failed signal is the end of the matter. *)
SignalGivesUp ==
    /\ sup = "interrupt" /\ mode # "terminate"
    /\ \/ sup' = "grace" /\ signaled' = (signaled \/ child = "running")
       \/ mode = "windows" /\ sup' = "done" /\ UNCHANGED signaled
    /\ UNCHANGED <<mode, child, exit, held, written, copied, ctxDone, early,
                   forced, waited, terminated, stopErr, err, caller>>

(* os.Process.Kill: the results it may have, and what it does.  A process  *)
(* that exited but was not waited for still takes the signal on unix; on   *)
(* Windows terminating it is refused.                                      *)
KillResult(r) ==
    \/ child = "running" /\ r = None
    \/ child = "zombie" /\ r = IF mode = "unix" THEN None ELSE "kill"
    \/ child = "reaped" /\ r = "done"

KillEffect ==
    IF child = "running"
    THEN /\ child' = "zombie" /\ held' \in BOOLEAN
         /\ exit' = IF mode = "unix" THEN "killed" ELSE "code1"
    ELSE UNCHANGED <<child, held, exit>>
-----------------------------------------------------------------------------
(* The supervising goroutine. *)

(* commandError adds the panic found in the output. *)
WithOutput(causes) ==
    IF causes # {} /\ Kept THEN causes \cup {"panic"} ELSE causes

(* expectedProcessExit, and exit code 1 of a child terminated on purpose. *)
Expected(w) ==
    \/ w = "ok"
    \/ w = "sigterm" /\ mode = "unix"
    \/ w = "code1" /\ terminated

Publish(stop, w) ==
    /\ sup' = "done"
    /\ stopErr' = WithOutput(stop)
    /\ err' = WithOutput(WithOutput(stop) \cup w)

(* Mutant: a clean exit is joined as if it were an error. *)
RawCause(w) == {w}

(* E.Errors leaves nil out. *)
WaitCause(w) == IF w = "ok" THEN {} ELSE {w}

(* Mutant: the context is not looked behind once it is canceled. *)
NoRecheck == {"select"}

(* Where a result of Wait counts as the child's own exit. *)
OwnExit == {"select", "recheck"}

(* The child ended by itself: select takes the result of Wait, at once or  *)
(* when it looks again after the context was canceled.                     *)
TakeExit ==
    /\ sup \in OwnExit /\ waited # None
    /\ Publish({}, WaitCause(waited))
    /\ UNCHANGED <<mode, os, ctxDone, early, forced, waited, terminated, caller>>

TakeCancel ==
    /\ sup = "select" /\ ctxDone /\ sup' = "recheck"
    /\ UNCHANGED <<mode, os, ctxDone, early, forced, waited, terminated,
                   stopErr, err, caller>>

GiveUpWaiting ==
    /\ sup = "recheck" /\ (waited # None => sup \notin OwnExit)
    /\ sup' = "interrupt"
    /\ UNCHANGED <<mode, os, ctxDone, early, forced, waited, terminated,
                   stopErr, err, caller>>

Terminate ==
    /\ sup = "interrupt" /\ mode = "terminate"
    /\ KillEffect
    /\ terminated' = KillResult(None)
    /\ sup' = IF KillResult("kill") THEN "force" ELSE "grace"
    /\ UNCHANGED <<mode, written, copied, signaled, ctxDone, early, forced,
                   waited, stopErr, err, caller>>

(* interruptProcess: on Windows a helper that may fail for any reason. *)
Signal ==
    /\ sup = "interrupt" /\ mode # "terminate"
    /\ \/ /\ sup' = "grace"
          /\ signaled' = (signaled \/ child = "running")
       \/ /\ mode = "windows" /\ sup' = "force" /\ UNCHANGED signaled
    /\ UNCHANGED <<mode, child, exit, held, written, copied, ctxDone, early,
                   forced, waited, terminated, stopErr, err, caller>>

(* Mutant: waiting for the child as long as it takes. *)
NoTimeout == FALSE

(* processShutdownTimeout. *)
Timeout ==
    /\ sup = "grace" /\ sup' = "force"
    /\ UNCHANGED <<mode, os, ctxDone, early, forced, waited, terminated,
                   stopErr, err, caller>>

(* The forced Kill; if the child turns out to be done nothing was forced. *)
ForceKill ==
    /\ sup = "force" /\ sup' = "reap"
    /\ KillEffect
    /\ forced' = (child = "running")
    /\ stopErr' = (IF KillResult("done") THEN {} ELSE {"forced"})
                    \cup IF KillResult("kill") THEN {"kill"} ELSE {}
    /\ UNCHANGED <<mode, written, copied, signaled, ctxDone, early, waited,
                   terminated, err, caller>>

(* Mutant: the result of Wait replaces what is known. *)
LastCause(w) == w

(* E.Errors(child.stopErr, waitErr). *)
StopCauses(w) == stopErr \cup w

Judge ==
    /\ sup \in {"grace", "reap"} /\ waited # None
    /\ LET w == IF Expected(waited) THEN {} ELSE {waited}
       IN  Publish(StopCauses(w), w)
    /\ UNCHANGED <<mode, os, ctxDone, early, forced, waited, terminated, caller>>

SupervisorNext ==
    \/ TakeExit \/ TakeCancel \/ GiveUpWaiting \/ Terminate \/ Signal
    \/ Timeout \/ ForceKill \/ Judge
-----------------------------------------------------------------------------
(* The benchmark: check reads the output first and then looks whether the  *)
(* child is done; stop cancels and waits for done; the output is searched  *)
(* for a panic once more at the end.                                       *)

CheckOutput ==
    /\ user = "using" /\ user' = "checking" /\ sawPanic' = Kept
    /\ UNCHANGED <<mode, os, ctxDone, early, forced, waited, supervisor, errors>>

CheckDone ==
    /\ user = "checking" /\ user' = "stopping"
    /\ errors' = (IF sawPanic THEN {"panic"} ELSE {})
            \cup IF sup # "done" THEN {}
                 ELSE IF err # {} \/ sawPanic THEN err ELSE {"exited"}
    /\ UNCHANGED <<mode, os, ctxDone, early, forced, waited, supervisor, sawPanic>>

SetCanceled ==
    /\ ctxDone' = TRUE
    /\ early' = IF ctxDone THEN early ELSE waited # None

Stop ==
    /\ user = "stopping" /\ user' = "waiting"
    /\ SetCanceled
    /\ UNCHANGED <<mode, os, forced, waited, supervisor, sawPanic, errors>>

(* The context of the whole run is canceled while the child is used. *)
ParentCanceled ==
    /\ ~ctxDone /\ SetCanceled
    /\ UNCHANGED <<mode, os, forced, waited, supervisor, caller>>

(* Mutant: only the error of stop counts. *)
NoLastLook(stop) == stop

(* cleanupErr and output.panicError. *)
LastLook(stop) == stop \cup (IF Kept THEN {"panic"} ELSE {})

StopReturns ==
    /\ user = "waiting" /\ sup = "done" /\ user' = "closed"
    /\ errors' = errors \cup LastLook(stopErr)
    /\ UNCHANGED <<mode, os, ctxDone, early, forced, waited, supervisor, sawPanic>>

CallerNext == CheckOutput \/ CheckDone \/ Stop \/ StopReturns

(* Everything is over and stays as it is. *)
Over == user = "closed" /\ UNCHANGED vars

Next ==
    \/ WritePanic \/ WriteMore \/ Copy \/ Exit \/ Wait
    \/ SupervisorNext \/ CallerNext \/ ParentCanceled \/ Over

Spec == Init /\ [][Next]_vars

(* The goroutines run, an exited child is waited for, WaitDelay and the    *)
(* shutdown timeout run out.  Nothing obliges a child to exit.             *)
FairSpec ==
    /\ Spec
    /\ WF_vars(SupervisorNext) /\ WF_vars(CallerNext)
    /\ WF_vars(Copy) /\ WF_vars(Wait)
-----------------------------------------------------------------------------
(* Properties.                                                             *)

(* Every variable has its type. *)
TypeOK ==
    /\ mode \in Modes
    /\ child \in {"running", "zombie", "reaped"} /\ exit \in Exits \cup {None}
    /\ written \in 0 .. Limit + 1 /\ copied \in 0 .. written
    /\ {held, signaled, ctxDone, early, forced, terminated, sawPanic}
        \subseteq BOOLEAN
    /\ waited \in Exits \cup {None, "delay"}
    /\ sup \in {"select", "recheck", "interrupt", "grace", "force", "reap", "done"}
    /\ stopErr \subseteq Causes /\ err \subseteq Causes /\ errors \subseteq Causes
    /\ user \in {"using", "checking", "stopping", "waiting", "closed"}

(* When done is closed the child has exited and was waited for, however    *)
(* the shutdown signal, the timeout and the Kill went: no child outlives   *)
(* its benchmark.                                                          *)
DoneMeansReaped == sup = "done" => child = "reaped" /\ waited # None

(* A running child that had to be killed by force is reported by stop (the *)
(* promise of TestProcessForcedShutdown), whatever Wait returns afterwards. *)
ForcedIsReported == sup = "done" /\ forced => "forced" \in stopErr

(* A panic line the child wrote reaches the benchmark's error, whether it  *)
(* came before the check, during it or during shutdown (the promise of     *)
(* TestProcessShutdownPanic).  Two exceptions the code makes: a grandchild *)
(* cut the output off, or more than the tail keeps came after the line and *)
(* no check had read the output before.                                    *)
PanicNotLost ==
    user = "closed" /\ written > 0 /\ ~held /\ (written <= Limit \/ sawPanic)
        => "panic" \in errors

(* If Wait had returned before the context was canceled, stop reports no   *)
(* error: the exit belongs to the run, and cleanup counts as clean.        *)
EarlyExitIsClean == sup = "done" /\ early => stopErr = {}

(* stop returns, even if the child ignores the signal. *)
StopEnds == user = "stopping" ~> user = "closed"
=============================================================================
