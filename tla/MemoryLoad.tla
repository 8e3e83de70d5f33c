---------------------------- MODULE MemoryLoad -----------------------------
(***************************************************************************)
(* The load of a memory measurement (memory.go): the echo server of        *)
(* startMemoryLoad, the flows that add opens through the tunnel and that   *)
(* confirm checks, and Close.  add and confirm spread the flows over       *)
(* goroutines that take flow numbers from one counter.  runMemory drives   *)
(* them along the curve, and the Close of the benchmark ends the load.     *)
(*                                                                         *)
(* What a tunnel does to an echo (lose it, delay it past its attempt,      *)
(* deliver it twice, corrupt it) is chosen when the packet is written.     *)
(* A stalled TCP stream is a lost echo.                                    *)
(***************************************************************************)
EXTENDS Naturals

CONSTANTS
    ConnectionStep,   \* memoryConnectionStep
    MaxConnections,   \* memoryMaxConnections
    Concurrency,      \* memoryConcurrency
    Attempts,         \* UDP attempts until the deadline of an exchange
    Faults            \* bound: echoes that are not delivered once and in time

ASSUME StepAssumption == ConnectionStep \in Nat \ {0}
ASSUME MaxAssumption == MaxConnections \in Nat
ASSUME ConcurrencyAssumption == Concurrency \in Nat \ {0}
ASSUME AttemptsAssumption == Attempts \in Nat \ {0}
ASSUME FaultsAssumption == Faults \in Nat

None == "none"
Index == 0 .. MaxConnections - 1
Worker == 1 .. Concurrency

VARIABLES
    network,   \* "tcp" or "udp"
    pc,        \* where runMemory, then Close of the benchmark, is
    count,     \* len(l.flows); the loop variable once it is not zero
    flows,     \* indices of l.flows that are not nil
    sequence,  \* [Index -> flow.sequence]
    next,      \* the counter of add or confirm
    worker,    \* where the goroutines of add or confirm are
    index,     \* ... and the flow each of them has
    attempt,   \* ... and the attempts of its exchange so far
    cause,     \* context.Cause(l.ctx); None while it is not canceled
    closing,   \* connectionCtx is canceled
    conns,     \* flows whose connection and its goroutine are open
    backlog,   \* TCP connections that wait for Accept
    served,    \* TCP connections with a goroutine that echoes
    server,    \* the goroutine of the listener
    echoes,    \* [Index -> packets that will arrive]
    faults,    \* auxiliary: number of faults so far
    corrupted, \* auxiliary: a payload was changed on its way
    round,     \* auxiliary: number of the current add or confirm
    answered   \* auxiliary: [Index -> round whose packet was answered last]

load == <<count, flows, sequence, conns>>
pool == <<next, worker, index, attempt>>
serving == <<backlog, served, server>>
aux == <<round, answered>>
net == <<echoes, faults, corrupted>>
vars == <<network, pc, load, pool, cause, closing, serving, net, aux>>

Init ==
    /\ network \in {"tcp", "udp"} /\ pc = "listen" /\ count = 0 /\ flows = {}
    /\ sequence = [i \in Index |-> 0] /\ next = 0
    /\ worker = [w \in Worker |-> "done"] /\ index = [w \in Worker |-> 0]
    /\ attempt = [w \in Worker |-> 0] /\ cause = None /\ closing = FALSE
    /\ conns = {} /\ backlog = {} /\ served = {} /\ server = None
    /\ echoes = [i \in Index |-> {}] /\ faults = 0 /\ corrupted = FALSE
    /\ round = 0 /\ answered = [i \in Index |-> 0]

(* context.CancelCauseFunc: the first cause stays. *)
CanceledBy(c) == IF cause = None THEN c ELSE cause
-----------------------------------------------------------------------------
(* runMemory. *)

(* startMemoryLoad; without a listener there is no load to close. *)
Listen ==
    /\ pc = "listen"
    /\ \/ pc' = "tunnel" /\ server' = "listening"
       \/ pc' = "closed" /\ UNCHANGED server
    /\ UNCHANGED <<network, load, pool, cause, closing, backlog, served, net, aux>>

(* startTunnel; the curve begins with a point without connections. *)
StartTunnel ==
    /\ pc = "tunnel" /\ pc' \in {"settle", "returned"}
    /\ UNCHANGED <<network, load, pool, cause, closing, serving, net, aux>>

(* The goroutines of one add or confirm. *)
Spawn(first, number) ==
    /\ next' = first
    /\ worker' = [w \in Worker |-> IF w <= number THEN "take" ELSE "done"]
    /\ index' = [w \in Worker |-> 0] /\ attempt' = [w \in Worker |-> 0]
    /\ round' = round + 1
    /\ UNCHANGED answered

Add ==
    /\ pc = "grow" /\ pc' = "add"
    /\ count' = count + ConnectionStep
    /\ Spawn(count, ConnectionStep)
    /\ UNCHANGED <<network, flows, sequence, conns, cause, closing, serving, net>>

Confirm(after) ==
    /\ Spawn(0, count) /\ pc' = after
    /\ UNCHANGED <<network, load, cause, closing, serving, net>>

(* workers.Wait and the cause that add and confirm return. *)
Joined == \A w \in Worker : worker[w] = "done"
Added == pc = "add" /\ Joined
Confirmed == pc = "confirm" /\ Joined
Rechecked == pc = "recheck" /\ Joined

Return ==
    /\ \/ (Added \/ Confirmed \/ Rechecked \/ pc = "settle") /\ cause # None
       \/ pc = "observe"
    /\ pc' = "returned"
    /\ UNCHANGED <<network, load, pool, cause, closing, serving, net, aux>>

Proceed ==
    /\ cause = None
    /\ \/ Added /\ Confirm("confirm")
       \/ Confirmed /\ pc' = "settle"
          /\ UNCHANGED <<network, load, pool, cause, closing, serving, net, aux>>

(* The timer fires; when the context is canceled too, select takes either. *)
Settle ==
    /\ pc = "settle" /\ pc' = "observe"
    /\ UNCHANGED <<network, load, pool, cause, closing, serving, net, aux>>

(* The memory is read and saved; what fails here is a Return.  The flows   *)
(* are then checked once more.                                             *)
Observe ==
    /\ pc = "observe" /\ count > 0 /\ Confirm("recheck")

(* The next point of the curve, or its end. *)
Point ==
    /\ Rechecked \/ (pc = "observe" /\ count = 0)
    /\ cause = None
    /\ pc' = IF count + ConnectionStep <= MaxConnections THEN "grow" ELSE "returned"
    /\ UNCHANGED <<network, load, pool, cause, closing, serving, net, aux>>
-----------------------------------------------------------------------------
(* The goroutines of add and confirm. *)

Step(w, at) == worker' = [worker EXCEPT ![w] = at]

ExhaustedLate == next > count
Exhausted == next >= count

Take(w) ==
    /\ worker[w] = "take"
    /\ next' = next + 1
    /\ IF Exhausted \/ cause # None
       THEN Step(w, "done") /\ UNCHANGED index
       ELSE /\ index' = [index EXCEPT ![w] = next]
            /\ Step(w, IF pc = "add" THEN "dial" ELSE "begin")
    /\ UNCHANGED <<network, pc, load, attempt, cause, closing, serving, net, aux>>

(* A dial or an exchange that fails cancels the load. *)
FailsQuietly(w, why) == cause' = cause /\ Step(w, "done")
Fails(w, why) ==
    /\ cause' = CanceledBy(why)
    /\ Step(w, "done")

(* The connection and the goroutine that closes it exist from here on. *)
Dial(w) ==
    LET i == index[w] IN
    /\ worker[w] = "dial"
    /\ Step(w, "begin")
    /\ conns' = conns \cup {i}
    /\ backlog' = IF network = "tcp" THEN backlog \cup {i} ELSE backlog
    /\ UNCHANGED <<network, pc, count, flows, sequence, next, index, attempt,
                   cause, closing, served, server, net, aux>>

DialFails(w) ==
    /\ worker[w] = "dial"
    /\ Fails(w, "dial")
    /\ UNCHANGED <<network, pc, load, next, index, attempt, closing, serving, net, aux>>

SameSequence(s) == 1
NextSequence(s) == s + 1

(* exchange: a sequence number of its own, a deadline, the first attempt. *)
Begin(w) ==
    /\ worker[w] = "begin"
    /\ sequence' = [sequence EXCEPT ![index[w]] = NextSequence(@)]
    /\ attempt' = [attempt EXCEPT ![w] = 0]
    /\ Step(w, "write")
    /\ UNCHANGED <<network, pc, count, flows, conns, next, index, cause, closing,
                   serving, net, aux>>

(* What becomes of the packet and its echo. *)
Packet(w, copy, good) ==
    [sequence |-> sequence[index[w]], round |-> round, good |-> good,
     copy |-> <<attempt[w], copy>>]

Fates(w) ==
    {{Packet(w, 1, TRUE)}} \cup
    (IF faults < Faults
     THEN {{}, {Packet(w, 1, FALSE)}} \cup
          (IF network = "udp" THEN {{Packet(w, 1, TRUE), Packet(w, 2, TRUE)}} ELSE {})
     ELSE {})

Write(w) ==
    LET i == index[w] IN
    /\ worker[w] = "write"
    /\ \E fate \in Fates(w) :
        /\ echoes' = [echoes EXCEPT ![i] = @ \cup fate]
        /\ faults' = IF fate = {Packet(w, 1, TRUE)} THEN faults ELSE faults + 1
        /\ corrupted' = (corrupted \/ \E p \in fate : ~p.good)
    /\ attempt' = [attempt EXCEPT ![w] = @ + 1]
    /\ Step(w, "read")
    /\ UNCHANGED <<network, pc, load, next, index, cause, closing, serving, aux>>

(* A corrupt payload may look like anything but the right answer. *)
Equal(p, w) == p.good /\ p.sequence = sequence[index[w]]
Late(p, w) == p.good => p.sequence < sequence[index[w]]
Wrong(p, w) == ~Equal(p, w) /\ (p.good => ~Late(p, w))

(* A read that gets an echo: the right one, a late one, or another. *)
Read(w) ==
    LET i == index[w] IN
    /\ worker[w] = "read"
    /\ network = "udp" \/ i \in served
    /\ \E p \in echoes[i] :
        /\ echoes' = [echoes EXCEPT ![i] = @ \ {p}]
        /\ \/ /\ Equal(p, w)
              /\ Step(w, IF pc = "add" THEN "store" ELSE "take")
              /\ answered' = [answered EXCEPT ![i] = p.round]
              /\ UNCHANGED cause
           \/ /\ Late(p, w)
              /\ UNCHANGED <<worker, cause, answered>>
           \/ /\ Wrong(p, w)
              /\ Fails(w, "mismatch")
              /\ UNCHANGED answered
    /\ UNCHANGED <<network, pc, load, next, index, attempt, closing, serving,
                   faults, corrupted, round>>

(* The attempt's deadline passes although an echo may be on its way. *)
Retry(w) ==
    /\ worker[w] = "read" /\ network = "udp" /\ attempt[w] < Attempts
    /\ echoes[index[w]] # {} => faults < Faults
    /\ faults' = IF echoes[index[w]] # {} THEN faults + 1 ELSE faults
    /\ Step(w, "write")
    /\ UNCHANGED <<network, pc, load, next, index, attempt, cause, closing,
                   serving, echoes, corrupted, aux>>

(* The deadline of the exchange passes, or the connection breaks. *)
ExchangeFails(w) ==
    /\ worker[w] \in {"write", "read"}
    /\ Fails(w, "broken")
    /\ UNCHANGED <<network, pc, load, next, index, attempt, closing, serving, net, aux>>

Store(w) ==
    /\ worker[w] = "store" /\ Step(w, "take")
    /\ flows' = flows \cup {index[w]}
    /\ UNCHANGED <<network, pc, count, sequence, conns, next, index, attempt, cause,
                   closing, serving, net, aux>>

(* All that a goroutine does by itself: each of its steps ends in time. *)
WorkerStep(w) ==
    Take(w) \/ Dial(w) \/ DialFails(w) \/ Begin(w) \/ Write(w) \/ Read(w)
        \/ Retry(w) \/ ExchangeFails(w) \/ Store(w)
-----------------------------------------------------------------------------
(* The echo server and the goroutines that hold connections. *)

(* The listener breaks, or Close closed it: an error only in the first case. *)
ServerEnds ==
    /\ server = "listening" /\ server' = "ended"
    /\ cause' = CanceledBy("listener")
    /\ backlog' = {}
    /\ UNCHANGED <<network, pc, load, pool, closing, served, net, aux>>

(* Accept, and SetKeepAlive, whose error cancels the load. *)
Accept(i) ==
    /\ server = "listening" /\ i \in backlog
    /\ backlog' = backlog \ {i}
    /\ \/ served' = served \cup {i} /\ UNCHANGED cause
       \/ cause' = CanceledBy("keepalive") /\ UNCHANGED served
    /\ UNCHANGED <<network, pc, load, pool, closing, server, net, aux>>

(* The connection ends at the other side, or is closed by connectionCtx. *)
ServeEnds(i) ==
    /\ i \in served /\ (closing \/ i \notin conns)
    /\ served' = served \ {i}
    /\ UNCHANGED <<network, pc, load, pool, cause, closing, backlog, server, net, aux>>

ReleasedAfterClose == pc = "closed"
Released == closing

(* The goroutine of a client connection waits for connectionCtx. *)
Release(i) ==
    /\ i \in conns /\ Released
    /\ conns' = conns \ {i}
    /\ UNCHANGED <<network, pc, count, flows, sequence, pool, cause, closing,
                   serving, net, aux>>

(* A signal, or the end of the run. *)
Cancel ==
    /\ pc \notin {"listen", "closed"} /\ cause = None /\ cause' = "parent"
    /\ UNCHANGED <<network, pc, load, pool, closing, serving, net, aux>>
-----------------------------------------------------------------------------
(* memoryLoad.Close, called when the tunnels are stopped. *)

CloseCancel ==
    /\ pc = "returned" /\ pc' = "closing" /\ cause' = CanceledBy("closed")
    /\ UNCHANGED <<network, load, pool, closing, serving, net, aux>>

CloseConnections ==
    /\ pc = "closing" /\ pc' = "waiting" /\ closing' = TRUE
    /\ UNCHANGED <<network, load, pool, cause, serving, net, aux>>

(* l.workers.Wait. *)
CloseReturns ==
    /\ pc = "waiting" /\ pc' = "closed"
    /\ conns = {} /\ served = {} /\ server = "ended"
    /\ UNCHANGED <<network, load, pool, cause, closing, serving, net, aux>>

(* The goroutine of runMemory and Close. *)
MainStep ==
    Listen \/ StartTunnel \/ Add \/ Return \/ Proceed \/ Settle \/ Observe
        \/ Point \/ CloseCancel \/ CloseConnections \/ CloseReturns

ServerStep ==
    ServerEnds \/ \E i \in Index : Accept(i) \/ ServeEnds(i) \/ Release(i)

Next ==
    MainStep \/ (\E w \in Worker : WorkerStep(w)) \/ ServerStep \/ Cancel

Spec == Init /\ [][Next]_vars

(* The scheduler lets every goroutine go on; dials, attempts and exchanges *)
(* have deadlines; a canceled connectionCtx closes listener and            *)
(* connections.  That a healthy listener ends is not assumed.              *)
Fairness ==
    /\ WF_vars(MainStep)
    /\ \A w \in Worker : WF_vars(WorkerStep(w))
    /\ WF_vars(closing /\ ServerEnds)
    /\ \A i \in Index : WF_vars(ServeEnds(i)) /\ WF_vars(Release(i))

FairSpec == Spec /\ Fairness
-----------------------------------------------------------------------------
(* Properties. *)

Causes == {None, "dial", "broken", "mismatch", "listener", "keepalive",
           "parent", "closed"}

(* Every variable keeps its type. *)
TypeOK ==
    /\ network \in {"tcp", "udp"}
    /\ pc \in {"listen", "tunnel", "grow", "add", "confirm", "settle", "observe",
              "recheck", "returned", "closing", "waiting", "closed"}
    /\ count \in 0 .. MaxConnections /\ flows \subseteq Index
    /\ sequence \in [Index -> Nat] /\ next \in Nat
    /\ worker \in [Worker -> {"done", "take", "dial", "begin", "write", "read", "store"}]
    /\ index \in [Worker -> Nat]
    /\ attempt \in [Worker -> Nat] /\ cause \in Causes /\ closing \in BOOLEAN
    /\ conns \subseteq Index /\ backlog \subseteq Index /\ served \subseteq Index
    /\ server \in {None, "listening", "ended"}

(* add and confirm stay inside l.flows; and confirm, which dereferences    *)
(* l.flows[index] without looking, meets no nil flow, whatever fails in    *)
(* add and wherever its goroutines stop.                                   *)
AtWork == {w \in Worker : worker[w] \notin {"done", "take"}}

NoNilFlow ==
    \A w \in AtWork :
        index[w] < count /\ (pc \in {"confirm", "recheck"} => index[w] \in flows)

(* When confirm returns without an error every flow has answered a packet  *)
(* that this confirm wrote: an echo left over from an earlier exchange     *)
(* never counts for a flow that is dead by now.                            *)
FreshAnswers ==
    (pc = "settle" \/ Rechecked) /\ cause = None =>
        \A i \in Index : i < count => answered[i] = round

(* Losing, delaying, reordering and duplicating echoes is not mistaken for *)
(* corruption: a mismatch is reported only if a payload was changed.       *)
NoFalseMismatch == cause = "mismatch" => corrupted

(* The sequence number tells a late echo from a fresh and from a corrupt   *)
(* one.                                                                    *)
EchoesToldApart == FreshAnswers /\ NoFalseMismatch

(* The measurement ends and Close returns with every goroutine and         *)
(* connection gone, wherever the load fails or is canceled.                *)
LoadEnds == <>(pc = "closed" /\ conns \cup served = {})
=============================================================================
