-------------------------- MODULE MemoryLoadProofs --------------------------
(***************************************************************************)
(* Proofs about MemoryLoad, for every step, limit and number of            *)
(* connections, goroutines, attempts and faults.                           *)
(*                                                                         *)
(* add and confirm hand out flow numbers from one counter.  The invariant  *)
(* says that a number below the counter is either done or held by exactly  *)
(* one goroutine, unless the load is canceled; and that a packet under way *)
(* is older than its flow's sequence number or belongs to the exchange of  *)
(* this round.                                                             *)
(***************************************************************************)
EXTENDS MemoryLoad, TLAPS

USE StepAssumption, MaxAssumption, ConcurrencyAssumption

Packets == [sequence : Nat, round : Nat, good : BOOLEAN, copy : Nat \X {1, 2}]

MainInv ==
    /\ network \in {"tcp", "udp"}
    /\ pc \in {"listen", "tunnel", "grow", "add", "confirm", "settle", "observe",
              "recheck", "returned", "closing", "waiting", "closed"}
    /\ count \in 0 .. MaxConnections /\ next \in Nat /\ round \in Nat
    /\ cause \in Causes /\ faults \in Nat
    /\ closing \in BOOLEAN /\ corrupted \in BOOLEAN

ServerInv ==
    /\ conns \subseteq Index /\ backlog \subseteq Index /\ served \subseteq Index
    /\ server \in {None, "listening", "ended"}

WorkerInv ==
    /\ worker \in
        [Worker -> {"done", "take", "dial", "begin", "write", "read", "store"}]
    /\ index \in [Worker -> Nat] /\ attempt \in [Worker -> Nat]

StoreInv ==
    /\ flows \subseteq Index /\ sequence \in [Index -> Nat]
    /\ answered \in [Index -> Nat] /\ echoes \in [Index -> SUBSET Packets]

TypeInv == MainInv /\ ServerInv /\ WorkerInv /\ StoreInv

Pooled == {"add", "confirm", "recheck"}

(* The curve grows only while there is room for another step. *)
CountInv ==
    /\ pc \in {"listen", "tunnel"} => count = 0
    /\ pc = "grow" => count + ConnectionStep <= MaxConnections
    /\ pc \in Pooled => count > 0

(* Goroutines hold different numbers below the counter; they stop at the   *)
(* end of the flows or when the load is canceled.                          *)
PoolInv ==
    /\ pc \notin Pooled => Joined
    /\ \A w \in Worker : worker[w] \in {"dial", "store"} => pc = "add"
    /\ \A w \in AtWork : index[w] < count /\ index[w] < next
    /\ \A v, w \in AtWork : index[v] = index[w] => v = w
    /\ pc \in Pooled /\ cause = None /\ worker[1] = "done" => next >= count

(* A flow whose turn has not come, or whose turn is not over. *)
Pending(i) == i >= next \/ \E w \in AtWork : index[w] = i

FlowInv ==
    /\ pc \in {"grow", "confirm", "settle", "observe", "recheck"} =>
            \A i \in Index : i < count => i \in flows
    /\ pc = "add" /\ cause = None =>
            \A i \in Index : i < count => i \in flows \/ Pending(i)

EchoInv ==
    /\ \A i \in Index : \A p \in echoes[i] :
            IF p.good THEN p.sequence <= sequence[i] ELSE corrupted
    /\ \A w \in Worker : worker[w] \in {"write", "read"} =>
            \A p \in echoes[index[w]] :
                p.good /\ p.sequence = sequence[index[w]] => p.round = round
    /\ NoFalseMismatch

AnswerInv ==
    /\ pc \in {"confirm", "recheck"} /\ cause = None =>
            \A i \in Index : i < count => answered[i] = round \/ Pending(i)
    /\ pc = "settle" /\ cause = None =>
            \A i \in Index : i < count => answered[i] = round

IInv == TypeInv /\ CountInv /\ PoolInv /\ FlowInv /\ EchoInv /\ AnswerInv

(* The invariant holds before the first step. *)
LEMMA InitInvariant == Init => IInv
<1> SUFFICES ASSUME Init PROVE IInv
  OBVIOUS
<1> USE DEF Init, None, Index, Worker
<1>1. TypeInv
  <2>1. MainInv
    <3>1. 0 \in 0 .. MaxConnections /\ 0 \in Nat
      OBVIOUS
    <3> QED
      BY <3>1 DEF MainInv, Causes
  <2>2. ServerInv
    BY DEF ServerInv
  <2>3. WorkerInv /\ StoreInv
    BY DEF WorkerInv, StoreInv
  <2> QED
    BY <2>1, <2>2, <2>3 DEF TypeInv
<1>2. CountInv /\ PoolInv
  BY DEF CountInv, PoolInv, Pooled, Joined, AtWork
<1>3. FlowInv /\ AnswerInv
  BY DEF FlowInv, AnswerInv
<1>4. EchoInv
  BY DEF EchoInv, NoFalseMismatch
<1> QED
  BY <1>1, <1>2, <1>3, <1>4 DEF IInv

(* A goroutine at work has a flow. *)
LEMMA AtWorkIndex == IInv => \A w \in AtWork : w \in Worker /\ index[w] \in Index
<1> SUFFICES ASSUME IInv, NEW w \in AtWork PROVE w \in Worker /\ index[w] \in Index
  OBVIOUS
<1>1. w \in Worker /\ index[w] \in Nat
  BY DEF AtWork, IInv, TypeInv, WorkerInv
<1>2. index[w] < count /\ count \in Nat /\ count <= MaxConnections
  BY DEF IInv, PoolInv, TypeInv, MainInv
<1> QED
  BY <1>1, <1>2 DEF Index

(* Packets belong to the exchange and the round that wrote them. *)
LEMMA PacketType ==
    ASSUME IInv, NEW w \in AtWork, NEW c \in {1, 2}, NEW g \in BOOLEAN
    PROVE  LET p == Packet(w, c, g)
           IN  /\ p \in Packets /\ p.sequence = sequence[index[w]]
               /\ p.round = round /\ p.good = g
<1>1. sequence[index[w]] \in Nat /\ round \in Nat /\ attempt[w] \in Nat
  BY AtWorkIndex DEF IInv, TypeInv, StoreInv, MainInv, WorkerInv
<1> QED
  BY <1>1 DEF Packet, Packets

(* Whatever the tunnel does to a packet, what arrives was one. *)
LEMMA FatesType ==
    ASSUME NEW w, NEW fate \in Fates(w), NEW p \in fate
    PROVE  \E c \in {1, 2}, g \in BOOLEAN : p = Packet(w, c, g)
BY DEF Fates

(* A goroutine that takes a number holds it from then on, or stops. *)
LEMMA TakeCases ==
    ASSUME IInv, NEW w \in Worker, Take(w)
    PROVE  /\ w \notin AtWork /\ pc \in Pooled /\ next' = next + 1
           /\ UNCHANGED <<pc, count, flows, cause, answered, round>>
           /\ \A v \in Worker : v # w => worker'[v] = worker[v] /\ index'[v] = index[v]
           /\ \/ /\ AtWork' = AtWork /\ worker'[w] = "done"
                 /\ cause # None \/ next >= count
              \/ /\ AtWork' = AtWork \cup {w} /\ index'[w] = next /\ next < count
                 /\ worker'[w] = IF pc = "add" THEN "dial" ELSE "begin"
<1>1. worker[w] = "take" /\ w \notin AtWork
  BY DEF Take, AtWork
<1>2. pc \in Pooled
  BY <1>1 DEF IInv, PoolInv, Joined
<1>3. /\ worker \in
            [Worker -> {"done", "take", "dial", "begin", "write", "read", "store"}]
      /\ index \in [Worker -> Nat] /\ next \in Nat /\ count \in Nat
  BY DEF IInv, TypeInv, WorkerInv, MainInv
<1>4. CASE Exhausted \/ cause # None
  <2>1. worker' = [worker EXCEPT ![w] = "done"] /\ index' = index
    BY <1>4 DEF Take, Step
  <2>2. AtWork' = AtWork
    BY <1>1, <1>3, <2>1 DEF AtWork
  <2> QED
    BY <1>1, <1>2, <1>3, <1>4, <2>1, <2>2 DEF Take, Exhausted, aux, load
<1>5. CASE ~(Exhausted \/ cause # None)
  <2>1. worker' = [worker EXCEPT ![w] = IF pc = "add" THEN "dial" ELSE "begin"]
        /\ index' = [index EXCEPT ![w] = next]
    BY <1>5 DEF Take, Step
  <2>2. AtWork' = AtWork \cup {w}
    BY <1>1, <1>3, <2>1 DEF AtWork
  <2> QED
    BY <1>1, <1>2, <1>3, <1>5, <2>1, <2>2 DEF Take, Exhausted, aux, load
<1> QED
  BY <1>4, <1>5

(* ... so no flow is passed over. *)
LEMMA TakePending ==
    ASSUME IInv, NEW w \in Worker, Take(w), cause = None,
           NEW i \in Index, i < count, Pending(i)
    PROVE  Pending(i)'
<1>1. next \in Nat /\ count \in Nat /\ i \in Nat
  BY DEF IInv, TypeInv, MainInv, Index
<1>2. CASE i >= next
  <2>1. CASE next >= count
    BY <1>1, <1>2, <2>1
  <2>2. CASE i = next /\ next < count
    BY <1>1, <2>2, TakeCases DEF Pending
  <2>3. CASE i > next
    BY <1>1, <2>3, TakeCases DEF Pending
  <2> QED
    BY <1>1, <1>2, <2>1, <2>2, <2>3
<1>3. CASE \E v \in AtWork : index[v] = i
  <2>1. PICK v \in AtWork : index[v] = i
    BY <1>3
  <2>2. v \in Worker /\ v \in AtWork' /\ index'[v] = i
    BY <2>1, TakeCases, AtWorkIndex
  <2> QED
    BY <2>2 DEF Pending
<1> QED
  BY <1>2, <1>3 DEF Pending

(* A new number is below the counter and held by nobody else. *)
LEMMA TakeKeepsPool ==
    ASSUME IInv, NEW w \in Worker, Take(w)
    PROVE  PoolInv'
<1>0. /\ \A v \in AtWork : v \in Worker /\ index[v] \in Nat
      /\ next \in Nat /\ count \in Nat
  BY AtWorkIndex DEF IInv, TypeInv, MainInv, Index
<1>1. pc' \in Pooled
  BY TakeCases
<1>2. \A v \in Worker : worker'[v] \in {"dial", "store"} => pc' = "add"
  BY TakeCases DEF IInv, PoolInv
<1>3. \A v \in AtWork : index[v] < count /\ index[v] < next
  BY DEF IInv, PoolInv
<1>4. \A u, v \in AtWork : index[u] = index[v] => u = v
  BY DEF IInv, PoolInv
<1>5. \A v \in AtWork' : index'[v] < count' /\ index'[v] < next'
  BY <1>0, <1>3, TakeCases
<1>6. \A u, v \in AtWork' : index'[u] = index'[v] => u = v
  BY <1>0, <1>3, <1>4, TakeCases
<1>7. cause' = None /\ worker'[1] = "done" => next' >= count'
  <2>1. 1 \in Worker
    BY DEF Worker
  <2>2. pc \in Pooled /\ cause = None /\ worker[1] = "done" => next >= count
    BY DEF IInv, PoolInv
  <2> QED
    BY <1>0, <2>1, <2>2, TakeCases
<1> QED
  BY <1>1, <1>2, <1>5, <1>6, <1>7 DEF PoolInv

(* A goroutine that waits for an echo goes on, or stops and cancels. *)
LEMMA ReadCases ==
    ASSUME IInv, NEW w \in Worker, Read(w)
    PROVE  /\ w \in AtWork /\ index[w] \in Index /\ pc \in Pooled
           /\ UNCHANGED <<next, index, pc, count, flows, round, sequence, corrupted>>
           /\ \E p \in echoes[index[w]] :
                /\ echoes' = [echoes EXCEPT ![index[w]] = @ \ {p}]
                /\ \/ /\ Equal(p, w) /\ cause' = cause
                      /\ worker' = [worker EXCEPT ![w] =
                                        IF pc = "add" THEN "store" ELSE "take"]
                      /\ answered' = [answered EXCEPT ![index[w]] = p.round]
                   \/ UNCHANGED <<worker, cause, answered>>
                   \/ /\ Wrong(p, w) /\ cause' = CanceledBy("mismatch")
                      /\ worker' = [worker EXCEPT ![w] = "done"]
                      /\ UNCHANGED answered
<1>1. worker[w] = "read" /\ w \in AtWork
  BY DEF Read, AtWork
<1>2. pc \in Pooled
  BY <1>1 DEF IInv, PoolInv, Joined
<1> QED
  BY <1>1, <1>2, AtWorkIndex DEF Read, Fails, Step, load

(* A goroutine that stops at an error has canceled the load. *)
LEMMA ReadKeepsPool ==
    ASSUME IInv, NEW w \in Worker, Read(w)
    PROVE  PoolInv'
<1>1. PICK at \in {"read", "store", "take", "done"} :
        /\ \A v \in Worker : worker'[v] = IF v = w THEN at ELSE worker[v]
        /\ at = "store" => pc = "add"
        /\ at = "done" => cause' # None
        /\ cause' = None => cause = None
  <2>1. worker \in
        [Worker -> {"done", "take", "dial", "begin", "write", "read", "store"}]
        /\ worker[w] = "read"
    BY DEF IInv, TypeInv, WorkerInv, Read
  <2> QED
    BY <2>1, ReadCases DEF CanceledBy, None
<1>2. AtWork' \subseteq AtWork
  BY <1>1, ReadCases DEF AtWork
<1>3. 1 \in Worker
  BY DEF Worker
<1>4. cause' = None /\ worker'[1] = "done" => next >= count
  BY <1>1, <1>3, ReadCases DEF IInv, PoolInv
<1>5. \A v \in Worker : worker'[v] \in {"dial", "store"} => pc = "add"
  BY <1>1 DEF IInv, PoolInv
<1> QED
  BY <1>2, <1>4, <1>5, ReadCases DEF IInv, PoolInv

(* ... so every flow stays done, waiting or held. *)
LEMMA TakeKeepsFlows ==
    ASSUME IInv, NEW w \in Worker, Take(w)
    PROVE  FlowInv' /\ AnswerInv'
<1>1. /\ pc' = pc /\ pc \in Pooled /\ count' = count /\ flows' = flows
      /\ cause' = cause /\ answered' = answered /\ round' = round
  BY TakeCases
<1>2. ASSUME cause = None, NEW i \in Index, i < count, Pending(i) PROVE Pending(i)'
  BY <1>2, TakePending
<1> QED
  BY <1>1, <1>2 DEF IInv, FlowInv, AnswerInv, Pooled

(* An attempt that begins or is repeated keeps its number. *)
LEMMA AttemptKeepsPool ==
    ASSUME IInv, NEW w \in Worker, Write(w) \/ Retry(w)
    PROVE  PoolInv'
<1>1. /\ worker[w] \in {"read", "write"} /\ worker'[w] \in {"read", "write"}
      /\ \A v \in Worker : v # w => worker'[v] = worker[v]
      /\ UNCHANGED <<pc, count, next, index, cause>>
  <2>1. worker \in
        [Worker -> {"done", "take", "dial", "begin", "write", "read", "store"}]
    BY DEF IInv, TypeInv, WorkerInv
  <2>2. CASE Write(w)
    BY <2>1, <2>2 DEF Write, Step, load
  <2>3. CASE Retry(w)
    BY <2>1, <2>3 DEF Retry, Step, load
  <2> QED
    BY <2>2, <2>3
<1>2. AtWork' = AtWork /\ pc \in Pooled
  BY <1>1 DEF AtWork, IInv, PoolInv, Joined
<1>3. \A v \in Worker : worker'[v] \in {"dial", "store"} => pc = "add"
  BY <1>1 DEF IInv, PoolInv
<1>4. worker'[1] = "done" => worker[1] = "done"
  BY <1>1 DEF Worker
<1> QED
  BY <1>1, <1>2, <1>3, <1>4 DEF IInv, PoolInv

(* The scalars keep their types. *)
LEMMA MainKept == IInv /\ [Next]_vars => MainInv'
<1> SUFFICES ASSUME IInv, [Next]_vars PROVE MainInv'
  OBVIOUS
<1> USE DEF IInv, TypeInv, MainInv, CountInv, Causes, load, pool, serving,
    aux, net, Pooled, None, Index, Worker, Step, CanceledBy
<1>1. CASE Listen BY <1>1 DEF Listen
<1>2. CASE StartTunnel BY <1>2 DEF StartTunnel
<1>3. CASE Add BY <1>3 DEF Add, Spawn
<1>4. CASE Return BY <1>4 DEF Return, Added, Confirmed, Rechecked
<1>5. CASE Proceed BY <1>5 DEF Proceed, Added, Confirmed, Confirm, Spawn
<1>6. CASE Settle BY <1>6 DEF Settle
<1>7. CASE Observe BY <1>7 DEF Observe, Confirm, Spawn
<1>8. CASE Point BY <1>8 DEF Point, Rechecked
<1>9. CASE CloseCancel BY <1>9 DEF CloseCancel
<1>10. CASE CloseConnections BY <1>10 DEF CloseConnections
<1>11. CASE CloseReturns BY <1>11 DEF CloseReturns
<1>12. ASSUME NEW w \in Worker, Take(w) PROVE MainInv'
  BY <1>12 DEF Take, Exhausted
<1>13. ASSUME NEW w \in Worker, Dial(w) PROVE MainInv' BY <1>13 DEF Dial
<1>14. ASSUME NEW w \in Worker, DialFails(w) PROVE MainInv'
  BY <1>14 DEF DialFails, Fails
<1>15. ASSUME NEW w \in Worker, Begin(w) PROVE MainInv'
  BY <1>15 DEF Begin, NextSequence
<1>16. ASSUME NEW w \in Worker, Write(w) PROVE MainInv'
  BY <1>16 DEF Write, Fates, Packet
<1>17. ASSUME NEW w \in Worker, Read(w) PROVE MainInv'
  BY <1>17 DEF Read, Fails, Equal, Late, Wrong
<1>18. ASSUME NEW w \in Worker, Retry(w) PROVE MainInv' BY <1>18 DEF Retry
<1>19. ASSUME NEW w \in Worker, ExchangeFails(w) PROVE MainInv'
  BY <1>19 DEF ExchangeFails, Fails
<1>20. ASSUME NEW w \in Worker, Store(w) PROVE MainInv' BY <1>20 DEF Store
<1>21. CASE ServerEnds BY <1>21 DEF ServerEnds
<1>22. ASSUME NEW i \in Index, Accept(i) PROVE MainInv' BY <1>22 DEF Accept
<1>23. ASSUME NEW i \in Index, ServeEnds(i) PROVE MainInv'
  BY <1>23 DEF ServeEnds
<1>24. ASSUME NEW i \in Index, Release(i) PROVE MainInv'
  BY <1>24 DEF Release, Released
<1>25. CASE Cancel BY <1>25 DEF Cancel
<1>26. CASE UNCHANGED vars BY <1>26 DEF vars
<1> QED
  BY <1>1, <1>2, <1>3, <1>4, <1>5, <1>6, <1>7, <1>8, <1>9, <1>10, <1>11,
      <1>12, <1>13, <1>14, <1>15, <1>16, <1>17, <1>18, <1>19, <1>20, <1>21,
      <1>22, <1>23, <1>24, <1>25, <1>26 DEF Next, MainStep, WorkerStep,
      ServerStep

(* The server and its connections keep their types. *)
LEMMA ServerKept == IInv /\ [Next]_vars => ServerInv'
<1> SUFFICES ASSUME IInv, [Next]_vars PROVE ServerInv'
  OBVIOUS
<1> USE DEF IInv, TypeInv, ServerInv, WorkerInv, PoolInv, MainInv, AtWork,
    load, pool, serving, aux, net, Pooled, None, Index, Worker, Step, CanceledBy
<1>1. CASE Listen BY <1>1 DEF Listen
<1>2. CASE StartTunnel BY <1>2 DEF StartTunnel
<1>3. CASE Add BY <1>3 DEF Add, Spawn
<1>4. CASE Return BY <1>4 DEF Return, Added, Confirmed, Rechecked
<1>5. CASE Proceed BY <1>5 DEF Proceed, Added, Confirmed, Confirm, Spawn
<1>6. CASE Settle BY <1>6 DEF Settle
<1>7. CASE Observe BY <1>7 DEF Observe, Confirm, Spawn
<1>8. CASE Point BY <1>8 DEF Point, Rechecked
<1>9. CASE CloseCancel BY <1>9 DEF CloseCancel
<1>10. CASE CloseConnections BY <1>10 DEF CloseConnections
<1>11. CASE CloseReturns BY <1>11 DEF CloseReturns
<1>12. ASSUME NEW w \in Worker, Take(w) PROVE ServerInv'
  BY <1>12 DEF Take, Exhausted
<1>13. ASSUME NEW w \in Worker, Dial(w) PROVE ServerInv'
  <2>1. index[w] \in Index
    BY <1>13, AtWorkIndex DEF Dial, AtWork
  <2> QED
    BY <1>13, <2>1 DEF Dial
<1>14. ASSUME NEW w \in Worker, DialFails(w) PROVE ServerInv'
  BY <1>14 DEF DialFails, Fails
<1>15. ASSUME NEW w \in Worker, Begin(w) PROVE ServerInv'
  BY <1>15 DEF Begin, NextSequence
<1>16. ASSUME NEW w \in Worker, Write(w) PROVE ServerInv'
  BY <1>16 DEF Write, Fates, Packet
<1>17. ASSUME NEW w \in Worker, Read(w) PROVE ServerInv'
  BY <1>17 DEF Read, Fails, Equal, Late, Wrong
<1>18. ASSUME NEW w \in Worker, Retry(w) PROVE ServerInv' BY <1>18 DEF Retry
<1>19. ASSUME NEW w \in Worker, ExchangeFails(w) PROVE ServerInv'
  BY <1>19 DEF ExchangeFails, Fails
<1>20. ASSUME NEW w \in Worker, Store(w) PROVE ServerInv' BY <1>20 DEF Store
<1>21. CASE ServerEnds BY <1>21 DEF ServerEnds
<1>22. ASSUME NEW i \in Index, Accept(i) PROVE ServerInv' BY <1>22 DEF Accept
<1>23. ASSUME NEW i \in Index, ServeEnds(i) PROVE ServerInv'
  BY <1>23 DEF ServeEnds
<1>24. ASSUME NEW i \in Index, Release(i) PROVE ServerInv'
  BY <1>24 DEF Release, Released
<1>25. CASE Cancel BY <1>25 DEF Cancel
<1>26. CASE UNCHANGED vars BY <1>26 DEF vars
<1> QED
  BY <1>1, <1>2, <1>3, <1>4, <1>5, <1>6, <1>7, <1>8, <1>9, <1>10, <1>11,
      <1>12, <1>13, <1>14, <1>15, <1>16, <1>17, <1>18, <1>19, <1>20, <1>21,
      <1>22, <1>23, <1>24, <1>25, <1>26 DEF Next, MainStep, WorkerStep,
      ServerStep

(* The goroutines keep their types. *)
LEMMA WorkerKept == IInv /\ [Next]_vars => WorkerInv'
<1> SUFFICES ASSUME IInv, [Next]_vars PROVE WorkerInv'
  OBVIOUS
<1> USE DEF IInv, TypeInv, WorkerInv, MainInv, load, pool, serving, aux,
    net, Pooled, None, Index, Worker, Step, CanceledBy
<1>1. CASE Listen BY <1>1 DEF Listen
<1>2. CASE StartTunnel BY <1>2 DEF StartTunnel
<1>3. CASE Add BY <1>3 DEF Add, Spawn
<1>4. CASE Return BY <1>4 DEF Return, Added, Confirmed, Rechecked
<1>5. CASE Proceed
  <2>1. CASE Added /\ Confirm("confirm")
    BY <1>5, <2>1 DEF Added, Confirm, Spawn
  <2>2. CASE /\ Confirmed /\ pc' = "settle"
             /\ UNCHANGED <<network, load, pool, cause, closing, serving, net, aux>>
    BY <1>5, <2>2 DEF Confirmed
  <2> QED
    BY <1>5, <2>1, <2>2 DEF Proceed
<1>6. CASE Settle BY <1>6 DEF Settle
<1>7. CASE Observe BY <1>7 DEF Observe, Confirm, Spawn
<1>8. CASE Point BY <1>8 DEF Point, Rechecked
<1>9. CASE CloseCancel BY <1>9 DEF CloseCancel
<1>10. CASE CloseConnections BY <1>10 DEF CloseConnections
<1>11. CASE CloseReturns BY <1>11 DEF CloseReturns
<1>12. ASSUME NEW w \in Worker, Take(w) PROVE WorkerInv'
  BY <1>12 DEF Take, Exhausted
<1>13. ASSUME NEW w \in Worker, Dial(w) PROVE WorkerInv' BY <1>13 DEF Dial
<1>14. ASSUME NEW w \in Worker, DialFails(w) PROVE WorkerInv'
  BY <1>14 DEF DialFails, Fails
<1>15. ASSUME NEW w \in Worker, Begin(w) PROVE WorkerInv'
  BY <1>15 DEF Begin, NextSequence
<1>16. ASSUME NEW w \in Worker, Write(w) PROVE WorkerInv'
  <2>1. worker' = [worker EXCEPT ![w] = "read"] /\ index' = index
        /\ attempt' = [attempt EXCEPT ![w] = @ + 1]
    BY <1>16 DEF Write
  <2> QED
    BY <2>1
<1>17. ASSUME NEW w \in Worker, Read(w) PROVE WorkerInv'
  BY <1>17 DEF Read, Fails, Equal, Late, Wrong
<1>18. ASSUME NEW w \in Worker, Retry(w) PROVE WorkerInv' BY <1>18 DEF Retry
<1>19. ASSUME NEW w \in Worker, ExchangeFails(w) PROVE WorkerInv'
  BY <1>19 DEF ExchangeFails, Fails
<1>20. ASSUME NEW w \in Worker, Store(w) PROVE WorkerInv' BY <1>20 DEF Store
<1>21. CASE ServerEnds BY <1>21 DEF ServerEnds
<1>22. ASSUME NEW i \in Index, Accept(i) PROVE WorkerInv' BY <1>22 DEF Accept
<1>23. ASSUME NEW i \in Index, ServeEnds(i) PROVE WorkerInv'
  BY <1>23 DEF ServeEnds
<1>24. ASSUME NEW i \in Index, Release(i) PROVE WorkerInv'
  BY <1>24 DEF Release, Released
<1>25. CASE Cancel BY <1>25 DEF Cancel
<1>26. CASE UNCHANGED vars BY <1>26 DEF vars
<1> QED
  BY <1>1, <1>2, <1>3, <1>4, <1>5, <1>6, <1>7, <1>8, <1>9, <1>10, <1>11,
      <1>12, <1>13, <1>14, <1>15, <1>16, <1>17, <1>18, <1>19, <1>20, <1>21,
      <1>22, <1>23, <1>24, <1>25, <1>26 DEF Next, MainStep, WorkerStep,
      ServerStep

(* Flows and packets keep their types. *)
LEMMA StoreKept == IInv /\ [Next]_vars => StoreInv'
<1> SUFFICES ASSUME IInv, [Next]_vars PROVE StoreInv'
  OBVIOUS
<1> USE DEF IInv, TypeInv, StoreInv, WorkerInv, MainInv, PoolInv, AtWork,
    load, pool, serving, aux, net, Pooled, None, Index, Worker, Step, CanceledBy
<1>1. CASE Listen BY <1>1 DEF Listen
<1>2. CASE StartTunnel BY <1>2 DEF StartTunnel
<1>3. CASE Add BY <1>3 DEF Add, Spawn
<1>4. CASE Return BY <1>4 DEF Return, Added, Confirmed, Rechecked
<1>5. CASE Proceed BY <1>5 DEF Proceed, Added, Confirmed, Confirm, Spawn
<1>6. CASE Settle BY <1>6 DEF Settle
<1>7. CASE Observe BY <1>7 DEF Observe, Confirm, Spawn
<1>8. CASE Point BY <1>8 DEF Point, Rechecked
<1>9. CASE CloseCancel BY <1>9 DEF CloseCancel
<1>10. CASE CloseConnections BY <1>10 DEF CloseConnections
<1>11. CASE CloseReturns BY <1>11 DEF CloseReturns
<1>12. ASSUME NEW w \in Worker, Take(w) PROVE StoreInv'
  BY <1>12 DEF Take, Exhausted
<1>13. ASSUME NEW w \in Worker, Dial(w) PROVE StoreInv' BY <1>13 DEF Dial
<1>14. ASSUME NEW w \in Worker, DialFails(w) PROVE StoreInv'
  BY <1>14 DEF DialFails, Fails
<1>15. ASSUME NEW w \in Worker, Begin(w) PROVE StoreInv'
  <2>1. index[w] \in Index
    BY <1>15, AtWorkIndex DEF Begin, AtWork
  <2>2. sequence[index[w]] + 1 \in Nat
    BY <2>1
  <2> QED
    BY <1>15, <2>1, <2>2 DEF Begin, NextSequence
<1>16. ASSUME NEW w \in Worker, Write(w) PROVE StoreInv'
  <2>1. w \in AtWork
    BY <1>16 DEF Write, AtWork
  <2>2. ASSUME NEW fate \in Fates(w), NEW p \in fate PROVE p \in Packets
    <3>1. PICK c \in {1, 2}, g \in BOOLEAN : p = Packet(w, c, g)
      BY FatesType
    <3> QED
      BY <2>1, <3>1, PacketType
  <2>3. PICK fate \in Fates(w) :
            echoes' = [echoes EXCEPT ![index[w]] = @ \cup fate]
    BY <1>16 DEF Write
  <2>4. echoes' \in [Index -> SUBSET Packets]
    BY <2>2, <2>3
  <2> QED
    BY <1>16, <2>4 DEF Write
<1>17. ASSUME NEW w \in Worker, Read(w) PROVE StoreInv'
  <2>1. index[w] \in Index
    BY <1>17, AtWorkIndex DEF Read, AtWork
  <2>2. \A p \in echoes[index[w]] : p \in Packets /\ p.round \in Nat
    BY <2>1 DEF Packets
  <2>3. PICK p \in echoes[index[w]] :
            echoes' = [echoes EXCEPT ![index[w]] = @ \ {p}]
    BY <1>17 DEF Read
  <2>4. echoes[index[w]] \ {p} \in SUBSET Packets
    BY <2>2
  <2>5. echoes' \in [Index -> SUBSET Packets]
    BY <2>1, <2>3, <2>4
  <2>6. answered' \in [Index -> Nat]
    BY <1>17, <2>2 DEF Read
  <2> QED
    BY <1>17, <2>5, <2>6 DEF Read
<1>18. ASSUME NEW w \in Worker, Retry(w) PROVE StoreInv' BY <1>18 DEF Retry
<1>19. ASSUME NEW w \in Worker, ExchangeFails(w) PROVE StoreInv'
  BY <1>19 DEF ExchangeFails, Fails
<1>20. ASSUME NEW w \in Worker, Store(w) PROVE StoreInv'
  <2>1. index[w] \in Index
    BY <1>20, AtWorkIndex DEF Store, AtWork
  <2> QED
    BY <1>20, <2>1 DEF Store
<1>21. CASE ServerEnds BY <1>21 DEF ServerEnds
<1>22. ASSUME NEW i \in Index, Accept(i) PROVE StoreInv' BY <1>22 DEF Accept
<1>23. ASSUME NEW i \in Index, ServeEnds(i) PROVE StoreInv'
  BY <1>23 DEF ServeEnds
<1>24. ASSUME NEW i \in Index, Release(i) PROVE StoreInv'
  BY <1>24 DEF Release, Released
<1>25. CASE Cancel BY <1>25 DEF Cancel
<1>26. CASE UNCHANGED vars BY <1>26 DEF vars
<1> QED
  BY <1>1, <1>2, <1>3, <1>4, <1>5, <1>6, <1>7, <1>8, <1>9, <1>10, <1>11,
      <1>12, <1>13, <1>14, <1>15, <1>16, <1>17, <1>18, <1>19, <1>20, <1>21,
      <1>22, <1>23, <1>24, <1>25, <1>26 DEF Next, MainStep, WorkerStep,
      ServerStep

(* The number of flows never passes the limit. *)
LEMMA CountKept == IInv /\ [Next]_vars => CountInv'
<1> SUFFICES ASSUME IInv, [Next]_vars PROVE CountInv'
  OBVIOUS
<1> USE DEF IInv, TypeInv, MainInv, CountInv, load, pool, serving, aux, net,
    Pooled, None, Index, Worker, Step, CanceledBy
<1>1. CASE Listen BY <1>1 DEF Listen
<1>2. CASE StartTunnel BY <1>2 DEF StartTunnel
<1>3. CASE Add BY <1>3 DEF Add, Spawn
<1>4. CASE Return BY <1>4 DEF Return, Added, Confirmed, Rechecked
<1>5. CASE Proceed BY <1>5 DEF Proceed, Added, Confirmed, Confirm, Spawn
<1>6. CASE Settle BY <1>6 DEF Settle
<1>7. CASE Observe BY <1>7 DEF Observe, Confirm, Spawn
<1>8. CASE Point BY <1>8 DEF Point, Rechecked
<1>9. CASE CloseCancel BY <1>9 DEF CloseCancel
<1>10. CASE CloseConnections BY <1>10 DEF CloseConnections
<1>11. CASE CloseReturns BY <1>11 DEF CloseReturns
<1>12. ASSUME NEW w \in Worker, Take(w) PROVE CountInv'
  BY <1>12 DEF Take, Exhausted
<1>13. ASSUME NEW w \in Worker, Dial(w) PROVE CountInv' BY <1>13 DEF Dial
<1>14. ASSUME NEW w \in Worker, DialFails(w) PROVE CountInv'
  BY <1>14 DEF DialFails, Fails
<1>15. ASSUME NEW w \in Worker, Begin(w) PROVE CountInv'
  BY <1>15 DEF Begin, NextSequence
<1>16. ASSUME NEW w \in Worker, Write(w) PROVE CountInv'
  BY <1>16 DEF Write, Fates, Packet
<1>17. ASSUME NEW w \in Worker, Read(w) PROVE CountInv'
  BY <1>17 DEF Read, Fails, Equal, Late, Wrong
<1>18. ASSUME NEW w \in Worker, Retry(w) PROVE CountInv' BY <1>18 DEF Retry
<1>19. ASSUME NEW w \in Worker, ExchangeFails(w) PROVE CountInv'
  BY <1>19 DEF ExchangeFails, Fails
<1>20. ASSUME NEW w \in Worker, Store(w) PROVE CountInv' BY <1>20 DEF Store
<1>21. CASE ServerEnds BY <1>21 DEF ServerEnds
<1>22. ASSUME NEW i \in Index, Accept(i) PROVE CountInv' BY <1>22 DEF Accept
<1>23. ASSUME NEW i \in Index, ServeEnds(i) PROVE CountInv'
  BY <1>23 DEF ServeEnds
<1>24. ASSUME NEW i \in Index, Release(i) PROVE CountInv'
  BY <1>24 DEF Release, Released
<1>25. CASE Cancel BY <1>25 DEF Cancel
<1>26. CASE UNCHANGED vars BY <1>26 DEF vars
<1> QED
  BY <1>1, <1>2, <1>3, <1>4, <1>5, <1>6, <1>7, <1>8, <1>9, <1>10, <1>11,
      <1>12, <1>13, <1>14, <1>15, <1>16, <1>17, <1>18, <1>19, <1>20, <1>21,
      <1>22, <1>23, <1>24, <1>25, <1>26 DEF Next, MainStep, WorkerStep,
      ServerStep

(* A number is handed out once. *)
LEMMA PoolKept == IInv /\ [Next]_vars => PoolInv'
<1> SUFFICES ASSUME IInv, [Next]_vars PROVE PoolInv'
  OBVIOUS
<1> USE DEF IInv, TypeInv, MainInv, WorkerInv, CountInv, PoolInv, Joined,
    AtWork, load, pool, serving, aux, net, Pooled, None, Index, Worker, Step,
    CanceledBy
<1>1. CASE Listen BY <1>1 DEF Listen
<1>2. CASE StartTunnel BY <1>2 DEF StartTunnel
<1>3. CASE Add BY <1>3 DEF Add, Spawn
<1>4. CASE Return BY <1>4 DEF Return, Added, Confirmed, Rechecked
<1>5. CASE Proceed
  <2>1. CASE Added /\ Confirm("confirm")
    BY <1>5, <2>1 DEF Added, Confirm, Spawn
  <2>2. CASE /\ Confirmed /\ pc' = "settle"
             /\ UNCHANGED <<network, load, pool, cause, closing, serving, net, aux>>
    BY <1>5, <2>2 DEF Confirmed
  <2> QED
    BY <1>5, <2>1, <2>2 DEF Proceed
<1>6. CASE Settle BY <1>6 DEF Settle
<1>7. CASE Observe BY <1>7 DEF Observe, Confirm, Spawn
<1>8. CASE Point BY <1>8 DEF Point, Rechecked
<1>9. CASE CloseCancel BY <1>9 DEF CloseCancel
<1>10. CASE CloseConnections BY <1>10 DEF CloseConnections
<1>11. CASE CloseReturns BY <1>11 DEF CloseReturns
<1>12. ASSUME NEW w \in Worker, Take(w) PROVE PoolInv'
  BY <1>12, TakeKeepsPool
<1>13. ASSUME NEW w \in Worker, Dial(w) PROVE PoolInv' BY <1>13 DEF Dial
<1>14. ASSUME NEW w \in Worker, DialFails(w) PROVE PoolInv'
  BY <1>14 DEF DialFails, Fails
<1>15. ASSUME NEW w \in Worker, Begin(w) PROVE PoolInv'
  BY <1>15 DEF Begin, NextSequence
<1>16. ASSUME NEW w \in Worker, Write(w) PROVE PoolInv'
  BY <1>16, AttemptKeepsPool
<1>17. ASSUME NEW w \in Worker, Read(w) PROVE PoolInv'
  BY <1>17, ReadKeepsPool
<1>18. ASSUME NEW w \in Worker, Retry(w) PROVE PoolInv'
  BY <1>18, AttemptKeepsPool
<1>19. ASSUME NEW w \in Worker, ExchangeFails(w) PROVE PoolInv'
  BY <1>19 DEF ExchangeFails, Fails
<1>20. ASSUME NEW w \in Worker, Store(w) PROVE PoolInv' BY <1>20 DEF Store
<1>21. CASE ServerEnds BY <1>21 DEF ServerEnds
<1>22. ASSUME NEW i \in Index, Accept(i) PROVE PoolInv' BY <1>22 DEF Accept
<1>23. ASSUME NEW i \in Index, ServeEnds(i) PROVE PoolInv'
  BY <1>23 DEF ServeEnds
<1>24. ASSUME NEW i \in Index, Release(i) PROVE PoolInv'
  BY <1>24 DEF Release, Released
<1>25. CASE Cancel BY <1>25 DEF Cancel
<1>26. CASE UNCHANGED vars BY <1>26 DEF vars
<1> QED
  BY <1>1, <1>2, <1>3, <1>4, <1>5, <1>6, <1>7, <1>8, <1>9, <1>10, <1>11,
      <1>12, <1>13, <1>14, <1>15, <1>16, <1>17, <1>18, <1>19, <1>20, <1>21,
      <1>22, <1>23, <1>24, <1>25, <1>26 DEF Next, MainStep, WorkerStep,
      ServerStep

(* A flow of a finished add is stored. *)
LEMMA FlowKept == IInv /\ [Next]_vars => FlowInv'
<1> SUFFICES ASSUME IInv, [Next]_vars PROVE FlowInv'
  OBVIOUS
<1> USE DEF IInv, TypeInv, MainInv, WorkerInv, CountInv, PoolInv, FlowInv,
    Pending, Joined, AtWork, load, pool, serving, aux, net, Pooled, None, Index,
    Worker, Step, CanceledBy
<1>1. CASE Listen BY <1>1 DEF Listen
<1>2. CASE StartTunnel BY <1>2 DEF StartTunnel
<1>3. CASE Add BY <1>3 DEF Add, Spawn
<1>4. CASE Return BY <1>4 DEF Return, Added, Confirmed, Rechecked
<1>5. CASE Proceed
  <2>1. CASE Added /\ Confirm("confirm")
    <3>1. next >= count /\ AtWork = {} /\ pc = "add" /\ cause = None
      BY <1>5, <2>1 DEF Added, Proceed
    <3>2. ASSUME NEW i \in Index, i < count PROVE i \in flows
      <4>1. i \in Nat /\ next \in Nat /\ count \in Nat /\ ~(i >= next)
        BY <3>1, <3>2
      <4>2. i \in flows \/ Pending(i)
        BY <3>1, <3>2
      <4> QED
        BY <3>1, <4>1, <4>2
    <3>3. flows' = flows /\ count' = count /\ pc' = "confirm"
      BY <2>1 DEF Confirm
    <3> QED
      BY <3>2, <3>3
  <2>2. CASE /\ Confirmed /\ pc' = "settle"
             /\ UNCHANGED <<network, load, pool, cause, closing, serving, net, aux>>
    BY <1>5, <2>2 DEF Confirmed
  <2> QED
    BY <1>5, <2>1, <2>2 DEF Proceed
<1>6. CASE Settle BY <1>6 DEF Settle
<1>7. CASE Observe BY <1>7 DEF Observe, Confirm, Spawn
<1>8. CASE Point BY <1>8 DEF Point, Rechecked
<1>9. CASE CloseCancel BY <1>9 DEF CloseCancel
<1>10. CASE CloseConnections BY <1>10 DEF CloseConnections
<1>11. CASE CloseReturns BY <1>11 DEF CloseReturns
<1>12. ASSUME NEW w \in Worker, Take(w) PROVE FlowInv'
  BY <1>12, TakeKeepsFlows
<1>13. ASSUME NEW w \in Worker, Dial(w) PROVE FlowInv' BY <1>13 DEF Dial
<1>14. ASSUME NEW w \in Worker, DialFails(w) PROVE FlowInv'
  BY <1>14 DEF DialFails, Fails
<1>15. ASSUME NEW w \in Worker, Begin(w) PROVE FlowInv'
  BY <1>15 DEF Begin, NextSequence
<1>16. ASSUME NEW w \in Worker, Write(w) PROVE FlowInv'
  BY <1>16 DEF Write, Fates, Packet
<1>17. ASSUME NEW w \in Worker, Read(w) PROVE FlowInv'
  BY <1>17 DEF Read, Fails, Equal, Late, Wrong
<1>18. ASSUME NEW w \in Worker, Retry(w) PROVE FlowInv' BY <1>18 DEF Retry
<1>19. ASSUME NEW w \in Worker, ExchangeFails(w) PROVE FlowInv'
  BY <1>19 DEF ExchangeFails, Fails
<1>20. ASSUME NEW w \in Worker, Store(w) PROVE FlowInv' BY <1>20 DEF Store
<1>21. CASE ServerEnds BY <1>21 DEF ServerEnds
<1>22. ASSUME NEW i \in Index, Accept(i) PROVE FlowInv' BY <1>22 DEF Accept
<1>23. ASSUME NEW i \in Index, ServeEnds(i) PROVE FlowInv'
  BY <1>23 DEF ServeEnds
<1>24. ASSUME NEW i \in Index, Release(i) PROVE FlowInv'
  BY <1>24 DEF Release, Released
<1>25. CASE Cancel BY <1>25 DEF Cancel
<1>26. CASE UNCHANGED vars BY <1>26 DEF vars
<1> QED
  BY <1>1, <1>2, <1>3, <1>4, <1>5, <1>6, <1>7, <1>8, <1>9, <1>10, <1>11,
      <1>12, <1>13, <1>14, <1>15, <1>16, <1>17, <1>18, <1>19, <1>20, <1>21,
      <1>22, <1>23, <1>24, <1>25, <1>26 DEF Next, MainStep, WorkerStep,
      ServerStep

(* Packets are older than the exchange or part of it. *)
LEMMA EchoKept == IInv /\ [Next]_vars => EchoInv'
<1> SUFFICES ASSUME IInv, [Next]_vars PROVE EchoInv'
  OBVIOUS
<1> USE DEF IInv, TypeInv, StoreInv, MainInv, WorkerInv, CountInv, PoolInv,
    EchoInv, AtWork, NoFalseMismatch, Joined, load, pool, serving, aux, net,
    Pooled, None, Index, Worker, Step, CanceledBy
<1>1. CASE Listen BY <1>1 DEF Listen
<1>2. CASE StartTunnel BY <1>2 DEF StartTunnel
<1>3. CASE Add BY <1>3 DEF Add, Spawn
<1>4. CASE Return BY <1>4 DEF Return, Added, Confirmed, Rechecked
<1>5. CASE Proceed BY <1>5 DEF Proceed, Added, Confirmed, Confirm, Spawn
<1>6. CASE Settle BY <1>6 DEF Settle
<1>7. CASE Observe BY <1>7 DEF Observe, Confirm, Spawn
<1>8. CASE Point BY <1>8 DEF Point, Rechecked
<1>9. CASE CloseCancel BY <1>9 DEF CloseCancel
<1>10. CASE CloseConnections BY <1>10 DEF CloseConnections
<1>11. CASE CloseReturns BY <1>11 DEF CloseReturns
<1>12. ASSUME NEW w \in Worker, Take(w) PROVE EchoInv'
  <2>1. \A v \in Worker : worker'[v] \in {"write", "read"} =>
            worker[v] \in {"write", "read"} /\ index'[v] = index[v]
    BY <1>12, TakeCases
  <2>2. UNCHANGED <<echoes, sequence, round, corrupted, cause>>
    BY <1>12 DEF Take
  <2> QED
    BY <2>1, <2>2
<1>13. ASSUME NEW w \in Worker, Dial(w) PROVE EchoInv' BY <1>13 DEF Dial
<1>14. ASSUME NEW w \in Worker, DialFails(w) PROVE EchoInv'
  BY <1>14 DEF DialFails, Fails
<1>15. ASSUME NEW w \in Worker, Begin(w) PROVE EchoInv'
  <2>1. w \in AtWork /\ index[w] \in Index
    BY <1>15, AtWorkIndex DEF Begin
  <2>2. /\ \A i \in Index : sequence'[i] =
                IF i = index[w] THEN sequence[i] + 1 ELSE sequence[i]
        /\ \A v \in Worker : worker'[v] = IF v = w THEN "write" ELSE worker[v]
        /\ UNCHANGED <<index, echoes, round, corrupted, cause>>
    BY <1>15, <2>1 DEF Begin, NextSequence
  <2>3. ASSUME NEW i \in Index, NEW p \in echoes[i]
        PROVE  /\ IF p.good THEN p.sequence <= sequence'[i] ELSE corrupted
               /\ i = index[w] /\ p.good => p.sequence # sequence'[i]
    <3>1. sequence[i] \in Nat /\ (p.good => p.sequence \in Nat /\ p.sequence <= sequence[i])
      BY <2>3 DEF Packets
    <3> QED
      BY <2>2, <2>3, <3>1
  <2>4. ASSUME NEW v \in Worker, worker'[v] \in {"write", "read"},
               NEW p \in echoes[index[v]], p.good, p.sequence = sequence'[index[v]]
        PROVE  p.round = round
    <3>1. v = w \/ (v \in AtWork /\ worker[v] \in {"write", "read"} /\ index[v] # index[w])
      BY <2>1, <2>2, <2>4
    <3>2. index[v] \in Index
      BY <2>1, <3>1, AtWorkIndex
    <3>3. v # w
      BY <2>1, <2>2, <2>3, <2>4, <3>2
    <3>4. sequence'[index[v]] = sequence[index[v]]
      BY <2>2, <3>1, <3>2, <3>3
    <3> QED
      BY <2>4, <3>1, <3>3, <3>4
  <2> QED
    BY <2>2, <2>3, <2>4
<1>16. ASSUME NEW w \in Worker, Write(w) PROVE EchoInv'
  <2>1. w \in AtWork /\ index[w] \in Index
    BY <1>16, AtWorkIndex DEF Write
  <2>2. PICK fate \in Fates(w) :
            /\ echoes' = [echoes EXCEPT ![index[w]] = @ \cup fate]
            /\ corrupted' = (corrupted \/ \E p \in fate : ~p.good)
    BY <1>16 DEF Write
  <2>3. ASSUME NEW p \in fate
        PROVE  /\ p.sequence = sequence[index[w]] /\ p.round = round
               /\ sequence[index[w]] \in Nat
    <3>1. PICK c \in {1, 2}, g \in BOOLEAN : p = Packet(w, c, g)
      BY FatesType
    <3> QED
      BY <2>1, <3>1, PacketType
  <2>4. /\ \A v \in Worker : worker'[v] = IF v = w THEN "read" ELSE worker[v]
        /\ UNCHANGED <<index, sequence, round, cause>> /\ worker[w] = "write"
    BY <1>16 DEF Write
  <2>5. \A i \in Index : \A p \in echoes'[i] :
            p \in echoes[i] \/ (i = index[w] /\ p \in fate)
    BY <2>1, <2>2
  <2>6. ASSUME NEW i \in Index, NEW p \in echoes'[i]
        PROVE  IF p.good THEN p.sequence <= sequence[i] ELSE corrupted'
    <3>1. CASE p \in echoes[i]
      BY <2>2, <3>1
    <3>2. CASE i = index[w] /\ p \in fate
      <4>1. p.sequence <= sequence[i]
        BY <2>3, <3>2
      <4>2. ~p.good => corrupted'
        BY <2>2, <3>2
      <4> QED
        BY <4>1, <4>2
    <3> QED
      BY <2>5, <2>6, <3>1, <3>2
  <2>7. ASSUME NEW v \in Worker, worker'[v] \in {"write", "read"},
               NEW p \in echoes'[index[v]], p.good, p.sequence = sequence[index[v]]
        PROVE  p.round = round
    <3>1. v \in AtWork /\ worker[v] \in {"write", "read"} /\ index[v] \in Index
      BY <2>1, <2>4, <2>7, AtWorkIndex
    <3> QED
      BY <2>3, <2>5, <2>7, <3>1
  <2>8. cause = "mismatch" => corrupted'
    BY <2>2
  <2> QED
    BY <2>4, <2>6, <2>7, <2>8
<1>17. ASSUME NEW w \in Worker, Read(w) PROVE EchoInv'
  <2>1. w \in AtWork /\ index[w] \in Index
    BY <1>17, AtWorkIndex DEF Read
  <2>2. PICK p \in echoes[index[w]] :
            /\ echoes' = [echoes EXCEPT ![index[w]] = @ \ {p}]
            /\ cause' = cause \/ Wrong(p, w)
    BY <1>17 DEF Read, Fails
  <2>3. \A i \in Index : echoes'[i] \subseteq echoes[i]
    BY <2>1, <2>2
  <2>4. /\ \A v \in Worker : worker'[v] \in {"write", "read"} =>
                worker[v] \in {"write", "read"}
        /\ UNCHANGED <<index, sequence, round, corrupted>>
    BY <1>17 DEF Read, Fails
  <2>5. Wrong(p, w) => corrupted
    <3>1. sequence[index[w]] \in Nat /\ p.sequence \in Nat
      BY <2>1 DEF Packets
    <3>2. IF p.good THEN p.sequence <= sequence[index[w]] ELSE corrupted
      BY <2>1
    <3> QED
      BY <3>1, <3>2 DEF Wrong, Equal, Late
  <2>6. cause' = "mismatch" => corrupted
    BY <2>2, <2>5
  <2>7. \A v \in Worker : worker'[v] \in {"write", "read"} => index[v] \in Index
    BY <2>4, AtWorkIndex
  <2> QED
    BY <2>3, <2>4, <2>6, <2>7
<1>18. ASSUME NEW w \in Worker, Retry(w) PROVE EchoInv' BY <1>18 DEF Retry
<1>19. ASSUME NEW w \in Worker, ExchangeFails(w) PROVE EchoInv'
  BY <1>19 DEF ExchangeFails, Fails
<1>20. ASSUME NEW w \in Worker, Store(w) PROVE EchoInv' BY <1>20 DEF Store
<1>21. CASE ServerEnds BY <1>21 DEF ServerEnds
<1>22. ASSUME NEW i \in Index, Accept(i) PROVE EchoInv' BY <1>22 DEF Accept
<1>23. ASSUME NEW i \in Index, ServeEnds(i) PROVE EchoInv'
  BY <1>23 DEF ServeEnds
<1>24. ASSUME NEW i \in Index, Release(i) PROVE EchoInv'
  BY <1>24 DEF Release, Released
<1>25. CASE Cancel BY <1>25 DEF Cancel
<1>26. CASE UNCHANGED vars BY <1>26 DEF vars
<1> QED
  BY <1>1, <1>2, <1>3, <1>4, <1>5, <1>6, <1>7, <1>8, <1>9, <1>10, <1>11,
      <1>12, <1>13, <1>14, <1>15, <1>16, <1>17, <1>18, <1>19, <1>20, <1>21,
      <1>22, <1>23, <1>24, <1>25, <1>26 DEF Next, MainStep, WorkerStep,
      ServerStep

(* A flow of a finished confirm has answered in this round. *)
LEMMA AnswerKept == IInv /\ [Next]_vars => AnswerInv'
<1> SUFFICES ASSUME IInv, [Next]_vars PROVE AnswerInv'
  OBVIOUS
<1> USE DEF IInv, TypeInv, StoreInv, MainInv, WorkerInv, CountInv, PoolInv,
    EchoInv, AnswerInv, Pending, Joined, AtWork, load, pool, serving, aux, net,
    Pooled, None, Index, Worker, Step, CanceledBy
<1>1. CASE Listen BY <1>1 DEF Listen
<1>2. CASE StartTunnel BY <1>2 DEF StartTunnel
<1>3. CASE Add BY <1>3 DEF Add, Spawn
<1>4. CASE Return BY <1>4 DEF Return, Added, Confirmed, Rechecked
<1>5. CASE Proceed
  <2>1. CASE Added /\ Confirm("confirm")
    BY <1>5, <2>1 DEF Added, Confirm, Spawn
  <2>2. CASE /\ Confirmed /\ pc' = "settle"
             /\ UNCHANGED <<network, load, pool, cause, closing, serving, net, aux>>
    BY <1>5, <2>2 DEF Confirmed
  <2> QED
    BY <1>5, <2>1, <2>2 DEF Proceed
<1>6. CASE Settle BY <1>6 DEF Settle
<1>7. CASE Observe BY <1>7 DEF Observe, Confirm, Spawn
<1>8. CASE Point BY <1>8 DEF Point, Rechecked
<1>9. CASE CloseCancel BY <1>9 DEF CloseCancel
<1>10. CASE CloseConnections BY <1>10 DEF CloseConnections
<1>11. CASE CloseReturns BY <1>11 DEF CloseReturns
<1>12. ASSUME NEW w \in Worker, Take(w) PROVE AnswerInv'
  BY <1>12, TakeKeepsFlows
<1>13. ASSUME NEW w \in Worker, Dial(w) PROVE AnswerInv' BY <1>13 DEF Dial
<1>14. ASSUME NEW w \in Worker, DialFails(w) PROVE AnswerInv'
  BY <1>14 DEF DialFails, Fails
<1>15. ASSUME NEW w \in Worker, Begin(w) PROVE AnswerInv'
  BY <1>15 DEF Begin, NextSequence
<1>16. ASSUME NEW w \in Worker, Write(w) PROVE AnswerInv'
  BY <1>16 DEF Write, Fates, Packet
<1>17. ASSUME NEW w \in Worker, Read(w) PROVE AnswerInv'
  <2>1. w \in AtWork /\ index[w] \in Index /\ worker[w] = "read"
    BY <1>17, AtWorkIndex DEF Read
  <2>2. UNCHANGED <<next, index, pc, count, round>> /\ pc \in Pooled
    BY <1>17 DEF Read
  <2>3. cause' = None => cause = None
    BY <1>17 DEF Read, Fails
  <2>4. PICK p \in echoes[index[w]] :
            \/ /\ Equal(p, w)
               /\ worker' =
                    [worker EXCEPT ![w] = IF pc = "add" THEN "store" ELSE "take"]
               /\ answered' = [answered EXCEPT ![index[w]] = p.round]
            \/ UNCHANGED <<worker, answered>>
            \/ cause' # None
    BY <1>17 DEF Read, Fails
  <2>5. CASE /\ Equal(p, w)
             /\ worker' =
                    [worker EXCEPT ![w] = IF pc = "add" THEN "store" ELSE "take"]
             /\ answered' = [answered EXCEPT ![index[w]] = p.round]
    <3>1. p.round = round
      BY <2>1, <2>5 DEF Equal
    <3>2. \A i \in Index : answered'[i] = IF i = index[w] THEN round ELSE answered[i]
      BY <2>1, <2>5, <3>1
    <3>3. \A v \in AtWork : v # w => v \in AtWork'
      BY <2>5
    <3>4. \A i \in Index : Pending(i) => Pending(i)' \/ i = index[w]
      BY <2>2, <3>3
    <3> QED
      BY <2>2, <2>3, <3>2, <3>4
  <2>6. CASE UNCHANGED <<worker, answered>>
    BY <2>2, <2>3, <2>6
  <2>7. CASE cause' # None
    BY <2>7
  <2> QED
    BY <2>4, <2>5, <2>6, <2>7
<1>18. ASSUME NEW w \in Worker, Retry(w) PROVE AnswerInv' BY <1>18 DEF Retry
<1>19. ASSUME NEW w \in Worker, ExchangeFails(w) PROVE AnswerInv'
  BY <1>19 DEF ExchangeFails, Fails
<1>20. ASSUME NEW w \in Worker, Store(w) PROVE AnswerInv' BY <1>20 DEF Store
<1>21. CASE ServerEnds BY <1>21 DEF ServerEnds
<1>22. ASSUME NEW i \in Index, Accept(i) PROVE AnswerInv' BY <1>22 DEF Accept
<1>23. ASSUME NEW i \in Index, ServeEnds(i) PROVE AnswerInv'
  BY <1>23 DEF ServeEnds
<1>24. ASSUME NEW i \in Index, Release(i) PROVE AnswerInv'
  BY <1>24 DEF Release, Released
<1>25. CASE Cancel BY <1>25 DEF Cancel
<1>26. CASE UNCHANGED vars BY <1>26 DEF vars
<1> QED
  BY <1>1, <1>2, <1>3, <1>4, <1>5, <1>6, <1>7, <1>8, <1>9, <1>10, <1>11,
      <1>12, <1>13, <1>14, <1>15, <1>16, <1>17, <1>18, <1>19, <1>20, <1>21,
      <1>22, <1>23, <1>24, <1>25, <1>26 DEF Next, MainStep, WorkerStep,
      ServerStep

(* The invariant is inductive, and so it always holds. *)
LEMMA Invariance == Spec => []IInv
<1>1. IInv /\ [Next]_vars => IInv'
  BY MainKept, ServerKept, WorkerKept, StoreKept, CountKept, PoolKept,
     FlowKept, EchoKept, AnswerKept
  DEF IInv, TypeInv
<1> QED
  BY <1>1, InitInvariant, PTL DEF Spec
-----------------------------------------------------------------------------
(* Every variable has its type. *)
THEOREM TypeCorrect == Spec => []TypeOK
<1>1. IInv => TypeOK
  BY DEF IInv, TypeInv, MainInv, ServerInv, WorkerInv, StoreInv, TypeOK
<1> QED
  BY <1>1, Invariance, PTL

(* confirm never dereferences a flow that add did not store, however many  *)
(* goroutines there are and wherever they stopped.                         *)
THEOREM NoFlowIsNil == Spec => []NoNilFlow
<1>1. IInv => NoNilFlow
  <2> SUFFICES ASSUME IInv, NEW w \in AtWork
               PROVE  /\ index[w] < count
                      /\ pc \in {"confirm", "recheck"} => index[w] \in flows
    BY DEF NoNilFlow
  <2>1. index[w] \in Index /\ index[w] < count
    BY AtWorkIndex DEF IInv, PoolInv
  <2> QED
    BY <2>1 DEF IInv, FlowInv
<1> QED
  BY <1>1, Invariance, PTL

(* What confirm accepts was answered in this confirm, and only a changed   *)
(* payload is reported as one, whatever is lost, late or duplicated.       *)
THEOREM EchoesAreToldApart == Spec => []EchoesToldApart
<1>1. IInv => FreshAnswers
  <2> SUFFICES ASSUME IInv, pc = "settle" \/ Rechecked, cause = None,
                      NEW i \in Index, i < count
               PROVE  answered[i] = round
    BY DEF FreshAnswers
  <2>1. CASE pc = "settle"
    BY <2>1 DEF IInv, AnswerInv
  <2>2. CASE Rechecked
    <3>1. 1 \in Worker /\ worker[1] = "done" /\ AtWork = {}
      BY <2>2 DEF Rechecked, Joined, Worker, AtWork
    <3>2. next >= count
      BY <2>2, <3>1 DEF IInv, PoolInv, Pooled, Rechecked
    <3>3. ~Pending(i)
      BY <3>1, <3>2 DEF Pending, IInv, TypeInv, MainInv, WorkerInv, Index
    <3> QED
      BY <2>2, <3>3 DEF IInv, AnswerInv, Rechecked
  <2> QED
    BY <2>1, <2>2
<1>2. IInv => NoFalseMismatch
  BY DEF IInv, EchoInv
<1> QED
  BY <1>1, <1>2, Invariance, PTL DEF EchoesToldApart
=============================================================================
