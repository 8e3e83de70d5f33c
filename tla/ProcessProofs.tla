--------------------------- MODULE ProcessProofs ---------------------------
(***************************************************************************)
(* Proofs of the safety properties of Process.  The inductive invariant    *)
(* ties the place of the supervising goroutine to what it may already rely *)
(* on: it publishes only after Wait has returned, an early exit never lets *)
(* it reach the interrupt, all output is copied before Wait returns unless *)
(* it was cut off, and a panic that was read is never taken back.          *)
(***************************************************************************)
EXTENDS Process, TLAPS

Types ==
    /\ mode \in Modes
    /\ child \in {"running", "zombie", "reaped"} /\ exit \in Exits \cup {None}
    /\ written \in 0 .. Limit + 1 /\ copied \in 0 .. written
    /\ held \in BOOLEAN /\ signaled \in BOOLEAN /\ ctxDone \in BOOLEAN /\ early \in BOOLEAN
    /\ forced \in BOOLEAN /\ terminated \in BOOLEAN /\ sawPanic \in BOOLEAN
    /\ waited \in Exits \cup {None, "delay"}
    /\ sup \in {"select", "recheck", "interrupt", "grace", "force", "reap", "done"}
    /\ stopErr \in SUBSET Causes /\ err \in SUBSET Causes
    /\ errors \in SUBSET Causes
    /\ user \in {"using", "checking", "stopping", "waiting", "closed"}

(* The channel carries a result exactly when Wait has returned. *)
ReapedHasResult == (child = "reaped") <=> (waited # None)

ExitKnown == (child = "running") <=> (exit = None)

DoneHasResult == sup = "done" => waited # None

(* Wait returns after the copy, except from an output that stays open. *)
CopiedByWait == child = "reaped" /\ ~held => copied = written

EarlySkipsInterrupt ==
    early => waited # None /\ stopErr = {} /\ sup \in {"select", "recheck", "done"}

ForcedKept == forced => "forced" \in stopErr

NoStopErrBefore ==
    /\ ~ctxDone => sup \in {"select", "done"} /\ stopErr = {}
    /\ sup \in {"select", "recheck"} => stopErr = {}

(* A panic in the tail at the end, or seen by check, is in the error.  Only *)
(* output that was written after the line pushes it out of the tail.        *)
PanicReported ==
    /\ user = "closed" => sup = "done" /\ (Kept => "panic" \in errors)
    /\ sawPanic /\ user \notin {"using", "checking"} => "panic" \in errors

IInv ==
    /\ Types /\ ReapedHasResult /\ ExitKnown /\ DoneHasResult /\ CopiedByWait
    /\ EarlySkipsInterrupt /\ ForcedKept /\ NoStopErrBefore /\ PanicReported

(* The initial states satisfy the invariant. *)
LEMMA InitInv == Init => IInv
<1> SUFFICES ASSUME Init PROVE IInv
  OBVIOUS
<1>0. written \in 0 .. Limit + 1 /\ copied \in 0 .. written
  BY LimitAssumption DEF Init
<1>1. Types
  BY <1>0 DEF Init, Types, Modes, Exits, None, Causes
<1> QED
  BY <1>1 DEF Init, IInv, ReapedHasResult, ExitKnown, DoneHasResult,
     CopiedByWait, EarlySkipsInterrupt, ForcedKept, NoStopErrBefore,
     PanicReported, Kept, None

(* commandError keeps every cause and adds at most the panic. *)
LEMMA WithOutputKeeps ==
    ASSUME NEW C \in SUBSET Causes
    PROVE  /\ WithOutput(C) \in SUBSET Causes
           /\ C \subseteq WithOutput(C)
           /\ C = {} => WithOutput(C) = {}
BY DEF WithOutput, Causes

(* Steps of the child and of the operating system. *)
LEMMA ChildInv ==
    ASSUME IInv, WritePanic \/ WriteMore \/ Copy \/ Exit \/ Wait
    PROVE  IInv'
<1> USE LimitAssumption DEF Kept, os, supervisor, caller, IInv, Types, ReapedHasResult, ExitKnown,
            DoneHasResult, CopiedByWait, EarlySkipsInterrupt, ForcedKept,
            NoStopErrBefore, PanicReported, Exits, None, Modes
<1>1. CASE WritePanic
  BY <1>1 DEF WritePanic
<1>5. CASE WriteMore
  BY <1>5 DEF WriteMore
<1>2. CASE Copy
  BY <1>2 DEF Copy
<1>3. CASE Exit
  BY <1>3 DEF Exit
<1>4. CASE Wait
  BY <1>4 DEF Wait
<1> QED
  BY <1>1, <1>2, <1>3, <1>4, <1>5

(* The supervisor publishes its result. *)
LEMMA PublishInv ==
    ASSUME IInv, waited # None,
           NEW stop \in SUBSET Causes, NEW w \in SUBSET Causes,
           forced => "forced" \in stop, early \/ ~ctxDone => stop = {},
           sup # "done", Publish(stop, w),
           UNCHANGED <<mode, os, ctxDone, early, forced, waited, terminated,
                       caller>>
    PROVE  IInv'
<1>1. /\ stopErr' \in SUBSET Causes /\ err' \in SUBSET Causes
      /\ stop \subseteq stopErr' /\ (stop = {} => stopErr' = {})
  BY WithOutputKeeps, WithOutput(stop) \cup w \in SUBSET Causes DEF Publish
<1>2. sup' = "done" /\ user # "closed"
  BY DEF Publish, IInv, PanicReported
<1> QED
  BY <1>1, <1>2 DEF os, caller, IInv, Types, ReapedHasResult, ExitKnown,
     DoneHasResult, CopiedByWait, EarlySkipsInterrupt, ForcedKept,
     NoStopErrBefore, PanicReported, Kept

(* Steps of the supervising goroutine, one per action. *)
LEMMA SupervisorInv ==
    ASSUME IInv, SupervisorNext
    PROVE  IInv'
<1>1. CASE TakeExit
  <2>1. WaitCause(waited) \in SUBSET Causes
    BY <1>1 DEF WaitCause, TakeExit, IInv, Types, Causes, Exits, None
  <2>2. ~forced /\ sup # "done"
    BY <1>1 DEF TakeExit, OwnExit, IInv, ForcedKept, NoStopErrBefore
  <2> QED
    BY <1>1, <2>1, <2>2, PublishInv, {} \in SUBSET Causes DEF TakeExit
<1>2. CASE Judge
  <2> DEFINE w == IF Expected(waited) THEN {} ELSE {waited}
  <2>1. w \in SUBSET Causes
    BY <1>2 DEF Expected, Judge, IInv, Types, Causes, Exits, None
  <2>2. StopCauses(w) \in SUBSET Causes /\ (forced => "forced" \in StopCauses(w))
    BY <2>1 DEF StopCauses, IInv, Types, ForcedKept
  <2>3. ~early /\ ctxDone /\ sup # "done" /\ waited # None
    BY <1>2 DEF Judge, IInv, Types, EarlySkipsInterrupt, NoStopErrBefore
  <2> QED
    BY <1>2, <2>1, <2>2, <2>3, PublishInv DEF Judge
<1> USE DEF os, caller, IInv, Types, ReapedHasResult, ExitKnown, OwnExit,
            DoneHasResult, CopiedByWait, EarlySkipsInterrupt, ForcedKept,
            NoStopErrBefore, PanicReported, Kept
<1>3. CASE TakeCancel
  BY <1>3 DEF TakeCancel
<1>4. CASE GiveUpWaiting
  BY <1>4 DEF GiveUpWaiting
<1>5. CASE Terminate
  BY <1>5 DEF Terminate, KillEffect, KillResult, Exits, None
<1>6. CASE Signal
  BY <1>6 DEF Signal
<1>7. CASE Timeout
  BY <1>7 DEF Timeout
<1>8. CASE ForceKill
  <2>1. stopErr' \in SUBSET Causes /\ (forced' => "forced" \in stopErr')
    BY <1>8 DEF ForceKill, KillResult, Causes, None
  <2>2. ~early /\ ctxDone /\ user # "closed" /\ sup' = "reap"
    BY <1>8 DEF ForceKill
  <2> QED
    BY <1>8, <2>1, <2>2 DEF ForceKill, KillEffect, Exits, None
<1> QED
  BY <1>1, <1>2, <1>3, <1>4, <1>5, <1>6, <1>7, <1>8 DEF SupervisorNext

(* Canceling the context: an exit that came first is remembered. *)
LEMMA CancelInv ==
    ASSUME IInv, SetCanceled
    PROVE  /\ ctxDone' = TRUE /\ early' \in BOOLEAN
           /\ early' => /\ waited # None /\ stopErr = {}
                        /\ sup \in {"select", "recheck", "done"}
<1>1. ctxDone' = TRUE
  BY DEF SetCanceled
<1>2. CASE ctxDone
  <2>1. early' = early
    BY <1>2, Zenon DEF SetCanceled
  <2> QED
    BY <1>1, <2>1 DEF IInv, Types, EarlySkipsInterrupt
<1>3. CASE ~ctxDone
  <2>1. early' = (waited # None)
    BY <1>3, Zenon DEF SetCanceled
  <2>2. early' \in BOOLEAN /\ (early' => waited # None)
    BY <2>1, Zenon
  <2>3. stopErr = {} /\ sup \in {"select", "recheck", "done"}
    BY <1>3 DEF IInv, NoStopErrBefore
  <2> QED
    BY <1>1, <2>2, <2>3
<1> QED
  BY <1>2, <1>3 DEF IInv, Types

(* Steps of the benchmark and of the context it passes. *)
LEMMA CallerInv ==
    ASSUME IInv, CallerNext \/ ParentCanceled
    PROVE  IInv'
<1> USE DEF os, supervisor, caller, IInv, Types, ReapedHasResult, ExitKnown,
            DoneHasResult, CopiedByWait, EarlySkipsInterrupt, ForcedKept,
            NoStopErrBefore, PanicReported, Kept
<1>1. CASE CheckOutput
  BY <1>1 DEF CheckOutput
<1>2. CASE CheckDone
  <2>1. errors' \in SUBSET Causes /\ (sawPanic => "panic" \in errors')
    BY <1>2 DEF CheckDone, Causes
  <2> QED
    BY <1>2, <2>1 DEF CheckDone
<1>0. ASSUME SetCanceled
      PROVE  /\ ctxDone' = TRUE /\ early' \in BOOLEAN
             /\ early' => /\ waited # None /\ stopErr = {}
                          /\ sup \in {"select", "recheck", "done"}
  BY <1>0, CancelInv
<1>3. CASE Stop
  <2>1. SetCanceled
    BY <1>3 DEF Stop
  <2> QED
    BY <1>3, <2>1, <1>0 DEF Stop
<1>4. CASE ParentCanceled
  <2>1. SetCanceled
    BY <1>4 DEF ParentCanceled
  <2> QED
    BY <1>4, <2>1, <1>0 DEF ParentCanceled
<1>5. CASE StopReturns
  <2>1. /\ errors' \in SUBSET Causes /\ errors \subseteq errors'
        /\ Kept => "panic" \in errors'
    BY <1>5 DEF StopReturns, LastLook, Causes
  <2> QED
    BY <1>5, <2>1 DEF StopReturns
<1> QED
  BY <1>1, <1>2, <1>3, <1>4, <1>5 DEF CallerNext

(* The invariant holds in every reachable state. *)
THEOREM Invariance == Spec => []IInv
<1>1. IInv /\ [Next]_vars => IInv'
  <2> SUFFICES ASSUME IInv, [Next]_vars PROVE IInv'
    OBVIOUS
  <2>1. CASE UNCHANGED vars
    BY <2>1 DEF vars, os, supervisor, caller, IInv, Types, ReapedHasResult,
       ExitKnown, DoneHasResult, CopiedByWait, EarlySkipsInterrupt,
       ForcedKept, NoStopErrBefore, PanicReported, Kept
  <2>2. CASE Over
    BY <2>1, <2>2 DEF Over
  <2> QED
    BY <2>1, <2>2, ChildInv, SupervisorInv, CallerInv DEF Next
<1> QED
  BY InitInv, <1>1, PTL DEF Spec

(* Every variable keeps its type. *)
THEOREM TypeCorrect == Spec => []TypeOK
<1>1. IInv => TypeOK
  BY DEF IInv, Types, TypeOK
<1> QED
  BY Invariance, <1>1, PTL

(* No child outlives its benchmark: done is closed only after Wait has     *)
(* returned, in every way a shutdown may go (startProcess).                *)
THEOREM NoChildLeft == Spec => []DoneMeansReaped
<1>1. IInv => DoneMeansReaped
  BY DEF IInv, DoneMeansReaped, DoneHasResult, ReapedHasResult
<1> QED
  BY Invariance, <1>1, PTL

(* A forced Kill of a running child always shows in the error of stop.     *)
THEOREM ForcedShows == Spec => []ForcedIsReported
<1>1. IInv => ForcedIsReported
  BY DEF IInv, ForcedIsReported, ForcedKept
<1> QED
  BY Invariance, <1>1, PTL

(* A panic line reaches the benchmark's error unless a grandchild cut the  *)
(* output off, or more output than processOutput keeps came after it and   *)
(* check had not read the line before (processOutput.Write, check, and the *)
(* last look of benchmark.run).                                            *)
THEOREM PanicShows == Spec => []PanicNotLost
<1>1. IInv => PanicNotLost
  BY LimitAssumption DEF IInv, Types, PanicNotLost, PanicReported,
     CopiedByWait, DoneHasResult, ReapedHasResult, Kept
<1> QED
  BY Invariance, <1>1, PTL

(* A child that ended before it was asked to stop never makes the cleanup  *)
(* fail.                                                                   *)
THEOREM EarlyExitClean == Spec => []EarlyExitIsClean
<1>1. IInv => EarlyExitIsClean
  BY DEF IInv, EarlyExitIsClean, EarlySkipsInterrupt
<1> QED
  BY Invariance, <1>1, PTL
=============================================================================
