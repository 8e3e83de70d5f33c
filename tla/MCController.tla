---------------------------- MODULE MCController ----------------------------
(* A small instance of Controller: two environments share a device.  The   *)
(* second case of the third has a queue per tunnel worker.                 *)
EXTENDS Controller

CONSTANTS a, b, c, x, y, d1, d2

MCQueue == [d \in Devices |-> IF d = d1 THEN <<a, b>> ELSE <<c>>]
MCWanted == [e \in Envs |-> Cases \cap (IF e = c THEN {x, y} ELSE {x})]
MCMultiQueue == {<<c, y>>}
MCMachine == [e \in Envs |-> 2]

(* A report with these verdicts, of a machine with so many workers.        *)
Left(workers, decided, err) ==
    [e \in Envs |-> [workers |-> workers, decided |-> decided[e],
                     pinned |-> FALSE, error |-> err]]
Open(env) == [env |-> env, finished |-> FALSE, error |-> FALSE]

(* No file; a run closed with an error, before or after the first case, or *)
(* without one; what a crash left; a bug found on a machine with one       *)
(* worker, or on this one before the report moved to that machine; the     *)
(* former with measurements.                                               *)
Closed(decided, err) ==
    [env |-> Left(2, [e \in Envs |-> decided], err), finished |-> TRUE, error |-> err]
Of(e, cases, workers) == {Key(e, k, workers) : k \in Cases \cap cases}
MCFound ==
    {NoFile, Closed({}, TRUE), Closed({<<x, 1>>}, TRUE), Closed({<<x, 1>>}, FALSE),
     Open(Left(2, [e \in Envs |-> Of(e, IF e = b THEN {x} ELSE {y}, 2)], FALSE))}
    \cup {Open(Left(1, [e \in Envs |-> Of(e, IF e = c THEN {y} ELSE {}, n)], FALSE)) :
              n \in {1, 2}}
    \cup {Open([Left(1, [e \in Envs |-> Of(e, IF e = c THEN {y} ELSE {}, 1)], FALSE)
                    EXCEPT ![c].pinned = y \in Cases])}

(* Nothing to start from, or what a crash left. *)
MCFoundEnds ==
    {NoFile,
     Open(Left(2, [e \in Envs |-> Of(e, IF e = b THEN {x} ELSE {}, 2)], FALSE))}
=============================================================================
