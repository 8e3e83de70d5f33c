----------------------------- MODULE Benchmark -----------------------------
(***************************************************************************)
(* One benchmark case on its host (benchmark.go, iperf.go, memory.go): the *)
(* processes, sockets, directory, interface and route it acquires step by  *)
(* step, and Close, which gives them back after the step that failed.      *)
(*                                                                         *)
(* Every step may fail, for a reason of its own or because the context was *)
(* canceled; processes may exit at any moment, and the interface lives as  *)
(* long as the host keeps it.  How one child is stopped is Process, what   *)
(* becomes of the result is Matrix (PossibleEnd).                          *)
(***************************************************************************)
EXTENDS Integers, FiniteSets

CONSTANTS
    Kinds,        \* kinds of cases: among "tcp", "udp", "memory"
    Tunnels,      \* the tunnel processes (b.options.queues of them for hev)
    MemoryPoints  \* points of a complete memory curve

ASSUME BenchmarkAssumption ==
    /\ Kinds \subseteq {"tcp", "udp", "memory"}
    /\ Tunnels # {} /\ Tunnels \cap {"relay", "server1", "server2", "client"} = {}
    /\ MemoryPoints \in Nat \ {0}

VARIABLES
    pc,
    options,    \* the kind of the case, and whether it needs a relay
    round,      \* throughput: 1 for the warm-up, 2 for the measurement
    tunnels, relay, server,         \* the fields of benchmark, as sets of
                                    \* processes; nil is {}
    routeIndex, directory, memoryLoad,  \* ... is set
    recordErr, cleanupErr,
    closeErr,   \* the variable err of Close, as "not nil"
    err,        \* returnErr as the set of its causes; nil is {}
    points,     \* measurements stored in the result
    running,    \* the host: processes,
    iface, route, files,  \* the TUN interface, the test route, the directory,
    ports,      \* sockets of the worker that occupy a port,
    load        \* the goroutines and sockets of the memory load

fields == <<tunnels, relay, server, routeIndex, directory, memoryLoad>>
errors == <<recordErr, cleanupErr, closeErr>>
network == <<iface, route>>
vars == <<pc, options, round, fields, errors, err, points, running, network,
          files, ports, load>>

Memory == options.kind = "memory"
Networks == IF options.kind = "udp" THEN {"tcp", "udp"} ELSE {"tcp"}
Full == IF Memory THEN MemoryPoints ELSE 1
Server(i) == IF i = 1 THEN "server1" ELSE "server2"
Probe == 3      \* the third port, after those of the two rounds
Causes == {"other", "panic", "udp-payload", "udp-no-payload"}

(* Mutant: the server of iperf3 is taken to be over. *)
TunnelsAndRelay == tunnels \cup relay

(* What Close stops: the fields that hold a process. *)
Children == tunnels \cup relay \cup server

Init ==
    /\ pc = "network" /\ options \in [kind : Kinds, relay : BOOLEAN] /\ round = 1
    /\ tunnels = {} /\ relay = {} /\ server = {}
    /\ routeIndex = FALSE /\ directory = FALSE /\ memoryLoad = FALSE
    /\ recordErr = FALSE /\ cleanupErr = FALSE /\ closeErr = FALSE
    /\ err = {} /\ points = 0
    /\ running = {} /\ iface = FALSE /\ route = FALSE /\ files = FALSE
    /\ ports = {} /\ load = FALSE

Go(from, to) == pc = from /\ pc' = to

(* The deferred functions of startTunnel and runThroughput close every     *)
(* socket that is still open, then the one of run takes over.              *)
Return(causes) == pc' = "check" /\ err' = causes /\ ports' = {}
-----------------------------------------------------------------------------
(* Up to the tunnel.                                                       *)

PrepareNetwork ==
    /\ Go("network", "mkdir") /\ ~route
    /\ UNCHANGED <<options, round, fields, errors, err, points, running,
                   network, files, ports, load>>

MakeDirectory ==
    /\ Go("mkdir", IF Memory THEN "load" ELSE "reserve")
    /\ directory' = TRUE /\ files' = TRUE
    /\ UNCHANGED <<options, round, tunnels, relay, server, routeIndex,
                   memoryLoad, errors, err, points, running, network, ports,
                   load>>

StartLoad ==
    /\ Go("load", IF options.relay THEN "relay" ELSE "subject")
    /\ memoryLoad' = TRUE /\ load' = TRUE
    /\ UNCHANGED <<options, round, tunnels, relay, server, routeIndex,
                   directory, errors, err, points, running, network, files,
                   ports>>

ReservePorts ==
    /\ Go("reserve", "release") /\ ports' = Networks \X {1, 2}
    /\ UNCHANGED <<options, round, fields, errors, err, points, running,
                   network, files, load>>

ReleasePort ==
    /\ Go("release", "server") /\ ports' = ports \ {<<"tcp", round>>}
    /\ UNCHANGED <<options, round, fields, errors, err, points, running,
                   network, files, load>>

(* startIperfServer overwrites the field before it looks at the error. *)
StartServer ==
    /\ Go("server", "listening")
    /\ server' = {Server(round)} /\ running' = running \cup server'
    /\ UNCHANGED <<options, round, tunnels, relay, routeIndex, directory,
                   memoryLoad, errors, err, points, network, files, ports,
                   load>>

StartServerFails ==
    /\ pc = "server" /\ server' = {} /\ Return({"other"})
    /\ UNCHANGED <<options, round, tunnels, relay, routeIndex, directory,
                   memoryLoad, errors, points, running, network, files, load>>

ServerListens ==
    /\ Go("listening", IF round = 1 THEN "listen" ELSE "releaseUDP")
    /\ UNCHANGED <<options, round, fields, errors, err, points, running,
                   network, files, ports, load>>

ListenForProbe ==
    /\ Go("listen", IF options.relay THEN "relay" ELSE "subject")
    /\ ports' = ports \cup (Networks \X {Probe})
    /\ UNCHANGED <<options, round, fields, errors, err, points, running,
                   network, files, load>>

StartRelay ==
    /\ Go("relay", "relayWait")
    /\ relay' = {"relay"} /\ running' = running \cup {"relay"}
    /\ UNCHANGED <<options, round, tunnels, server, routeIndex, directory,
                   memoryLoad, errors, err, points, network, files, ports,
                   load>>

RelayAccepts ==
    /\ Go("relayWait", "subject")
    /\ UNCHANGED <<options, round, fields, errors, err, points, running,
                   network, files, ports, load>>

StartTunnel(t) ==
    /\ pc = "subject" /\ t \in Tunnels \ tunnels
    /\ tunnels' = tunnels \cup {t} /\ running' = running \cup {t}
    /\ pc' = IF tunnels' = Tunnels THEN "interface" ELSE "subject"
    /\ UNCHANGED <<options, round, relay, server, routeIndex, directory,
                   memoryLoad, errors, err, points, network, files, ports,
                   load>>

InterfaceReady ==
    /\ Go("interface", "route") /\ iface
    /\ UNCHANGED <<options, round, fields, errors, err, points, running,
                   network, files, ports, load>>

AddRoute ==
    /\ Go("route", IF Memory THEN "point" ELSE "probe")
    /\ iface /\ route' = TRUE /\ routeIndex' = TRUE
    /\ UNCHANGED <<options, round, tunnels, relay, server, directory,
                   memoryLoad, errors, err, points, running, iface, files,
                   ports, load>>

(* The command may have been cut off after it had its effect. *)
AddRouteFails ==
    /\ pc = "route" /\ route' \in {FALSE, iface} /\ Return({"other"})
    /\ UNCHANGED <<options, round, fields, errors, points, running, iface,
                   files, load>>

(* startTunnel has verified the tunnel and returns. *)
ProbeAnswers ==
    /\ Go("probe", "releaseUDP") /\ ports' = ports \ (Networks \X {Probe})
    /\ UNCHANGED <<options, round, fields, errors, err, points, running,
                   network, files, load>>

PayloadChanged ==
    /\ pc = "probe" /\ options.kind = "udp" /\ Return({"udp-payload"})
    /\ UNCHANGED <<options, round, fields, errors, points, running, network,
                   files, load>>
-----------------------------------------------------------------------------
(* The measurement.                                                        *)

(* Mutant: the first socket is closed twice. *)
FirstPort(i) == <<"udp", 1>>

PacketPort(i) == <<"udp", i>>

ReleasePacketPort ==
    /\ Go("releaseUDP", "client") /\ ports' = ports \ {PacketPort(round)}
    /\ UNCHANGED <<options, round, fields, errors, err, points, running,
                   network, files, load>>

StartClient ==
    /\ Go("client", "clientWait") /\ running' = running \cup {"client"}
    /\ UNCHANGED <<options, round, fields, errors, err, points, network,
                   files, ports, load>>

ClientSucceeds ==
    /\ Go("clientWait", "serverWait") /\ "client" \notin running
    /\ UNCHANGED <<options, round, fields, errors, err, points, running,
                   network, files, ports, load>>

(* Mutant: the result of the client is enough. *)
ServerIgnored == TRUE

ServerOver == server \cap running = {}

ServerEnds ==
    /\ Go("serverWait", IF round = 1 THEN "release" ELSE "sample")
    /\ ServerOver /\ round' = 2
    /\ UNCHANGED <<options, fields, errors, err, points, running, network,
                   files, ports, load>>

NoPayload ==
    /\ pc = "sample" /\ options.kind = "udp" /\ Return({"udp-no-payload"})
    /\ UNCHANGED <<options, round, fields, errors, points, running, network,
                   files, load>>

(* A measurement is stored and saved; a failed save ends the benchmark. *)
Store ==
    /\ points' = points + 1
    /\ \/ UNCHANGED recordErr /\ err' = {}
       \/ recordErr' = TRUE /\ err' = {"other"}
    /\ UNCHANGED <<options, round, fields, cleanupErr, closeErr, running,
                   network, files, load>>

StoreSample == pc = "sample" /\ pc' = "check" /\ ports' = {} /\ Store

StorePoint ==
    /\ pc = "point" /\ Store /\ UNCHANGED ports
    /\ pc' = IF recordErr' THEN "check" ELSE "confirm"

(* Mutant: the loop runs once too often. *)
MoreOrEqual == points <= Full

MorePoints == points < Full

Confirm ==
    /\ Go("confirm", IF MorePoints THEN "point" ELSE "check")
    /\ UNCHANGED <<options, round, fields, errors, err, points, running,
                   network, files, ports, load>>

Steps == {"network", "mkdir", "load", "reserve", "release", "listening",
          "listen", "relay", "relayWait", "subject", "interface", "probe",
          "releaseUDP", "client", "clientWait", "serverWait", "sample",
          "point", "confirm"}

(* Any other failure.  runIperfClient returns only after its client; a     *)
(* process that has panicked may have caused the failure.                  *)
Fail ==
    /\ pc \in Steps /\ (pc = "clientWait" => "client" \notin running)
    /\ \/ Return({"other"})
       \/ Children # {} /\ Return({"panic"})
    /\ UNCHANGED <<options, round, fields, errors, points, running, network,
                   files, load>>
-----------------------------------------------------------------------------
(* The deferred function of run, and Close.                                *)

CheckChildren ==
    /\ Go("check", "stop")
    /\ \E found \in SUBSET {"panic", "other"} :
        /\ "panic" \in found => tunnels \cup relay # {}
        /\ "other" \in found => ~(tunnels \cup relay \subseteq running)
        /\ err' = err \cup found
    /\ UNCHANGED <<options, round, fields, errors, points, running, network,
                   files, ports, load>>

(* stop returns when a child has exited, with an error if it had to be     *)
(* forced; then the load is closed.                                        *)
StopChildren ==
    /\ Go("stop", IF routeIndex THEN "inspect" ELSE "wait")
    /\ running' = running \ Children
    /\ closeErr' \in (IF Children = {} THEN {FALSE} ELSE BOOLEAN)
    /\ load' = (load /\ ~memoryLoad) /\ memoryLoad' = FALSE
    /\ UNCHANGED <<options, round, tunnels, relay, server, routeIndex,
                   directory, recordErr, cleanupErr, err, points, network,
                   files, ports>>

RouteDone(failed) ==
    /\ pc' = "wait" /\ routeIndex' = FALSE /\ closeErr' = (closeErr \/ failed)
    /\ UNCHANGED <<options, round, tunnels, relay, server, directory,
                   memoryLoad, recordErr, cleanupErr, err, points, running,
                   iface, files, ports, load>>

InspectFails == pc = "inspect" /\ RouteDone(TRUE) /\ UNCHANGED route

RouteGone == pc = "inspect" /\ ~iface /\ RouteDone(FALSE) /\ UNCHANGED route

InterfaceFound ==
    /\ Go("inspect", "delete") /\ iface
    /\ UNCHANGED <<options, round, fields, errors, err, points, running,
                   network, files, ports, load>>

DeleteRoute ==
    /\ pc = "delete" /\ iface /\ route' = FALSE /\ RouteDone(FALSE)

DeleteFails ==
    /\ Go("delete", "again")
    /\ UNCHANGED <<options, round, fields, errors, err, points, running,
                   network, files, ports, load>>

(* An interface that has gone in the meantime took its route along; the    *)
(* second look may fail as well.                                           *)
LookAgain ==
    /\ pc = "again" /\ UNCHANGED route
    /\ RouteDone(TRUE) \/ (~iface /\ RouteDone(FALSE))

(* Mutant: only a route that is still recorded is worth waiting. *)
RouteRecorded == routeIndex

HadTunnel == tunnels # {}

(* Mutant: no limit. *)
Patient == FALSE

TimeLimit == TRUE

WaitForInterface ==
    /\ Go("wait", "remove")
    /\ \/ ~HadTunnel /\ UNCHANGED closeErr
       \/ HadTunnel /\ ~iface /\ UNCHANGED closeErr
       \/ HadTunnel /\ TimeLimit /\ closeErr' = TRUE
    /\ UNCHANGED <<options, round, fields, recordErr, cleanupErr, err, points,
                   running, network, files, ports, load>>

(* Mutant: the error of Close is only logged. *)
WithoutCleanup(dirty) == err

WithCleanup(dirty) == IF dirty THEN err \cup {"other"} ELSE err

(* The directory is removed; the output of all children is searched.       *)
RemoveDirectory ==
    /\ Go("remove", "returned")
    /\ \E failed \in (IF directory THEN BOOLEAN ELSE {FALSE}) :
        /\ files' = (files /\ (failed \/ ~directory))
        /\ closeErr' = (closeErr \/ failed)
    /\ directory' = FALSE /\ cleanupErr' = closeErr'
    /\ \E panic \in (IF Children = {} THEN {{}} ELSE {{}, {"panic"}}) :
        err' = WithCleanup(closeErr') \cup panic
    /\ tunnels' = {} /\ relay' = {} /\ server' = {}
    /\ UNCHANGED <<options, round, routeIndex, memoryLoad, recordErr, points,
                   running, network, ports, load>>
-----------------------------------------------------------------------------
(* The host.                                                               *)

Exit(p) ==
    /\ running' = running \ {p}
    /\ UNCHANGED <<pc, options, round, fields, errors, err, points, network,
                   files, ports, load>>

InterfaceAppears ==
    /\ ~iface /\ Tunnels \cap running # {} /\ iface' = TRUE
    /\ UNCHANGED <<pc, options, round, fields, errors, err, points, running,
                   route, files, ports, load>>

(* Its routes go with it. *)
InterfaceVanishes ==
    /\ iface /\ iface' = FALSE /\ route' = FALSE
    /\ UNCHANGED <<pc, options, round, fields, errors, err, points, running,
                   files, ports, load>>

HostNext ==
    \/ \E p \in running : Exit(p)
    \/ InterfaceAppears \/ InterfaceVanishes

StartNext ==
    \/ PrepareNetwork \/ MakeDirectory \/ StartLoad \/ ReservePorts
    \/ ReleasePort \/ StartServer \/ StartServerFails \/ ServerListens
    \/ ListenForProbe \/ StartRelay \/ RelayAccepts
    \/ \E t \in Tunnels : StartTunnel(t)
    \/ InterfaceReady \/ AddRoute \/ AddRouteFails \/ ProbeAnswers
    \/ PayloadChanged

MeasureNext ==
    \/ ReleasePacketPort \/ StartClient \/ ClientSucceeds \/ ServerEnds
    \/ NoPayload \/ StoreSample \/ StorePoint \/ Confirm \/ Fail

CloseNext ==
    \/ CheckChildren \/ StopChildren \/ InspectFails \/ RouteGone
    \/ InterfaceFound \/ DeleteRoute \/ DeleteFails \/ LookAgain
    \/ WaitForInterface \/ RemoveDirectory

RunNext == StartNext \/ MeasureNext \/ CloseNext

Over == pc = "returned" /\ UNCHANGED vars

Next == RunNext \/ HostNext \/ Over

Spec == Init /\ [][Next]_vars

(* The goroutine runs, and a client ends: its context has a deadline.      *)
FairSpec ==
    /\ Spec /\ WF_vars(RunNext)
    /\ WF_vars(pc = "clientWait" /\ "client" \in running /\ Exit("client"))
-----------------------------------------------------------------------------
Places == Steps \cup {"server", "route", "check", "stop", "inspect", "delete",
                      "again", "wait", "remove", "returned"}

(* Every variable has its type; a result never has too many measurements.  *)
TypeOK ==
    /\ pc \in Places /\ options \in [kind : Kinds, relay : BOOLEAN]
    /\ round \in {1, 2} /\ points \in 0 .. Full /\ err \subseteq Causes
    /\ tunnels \subseteq Tunnels /\ relay \subseteq {"relay"}
    /\ server \in {{}, {"server1"}, {"server2"}}
    /\ running \subseteq Tunnels \cup {"relay", "server1", "server2", "client"}
    /\ ports \subseteq {"tcp", "udp"} \X {1, 2, Probe}
    /\ {routeIndex, directory, memoryLoad, recordErr, cleanupErr, closeErr,
        iface, route, files, load} \subseteq BOOLEAN

(* No process is ever forgotten: whatever runs is in a field that Close    *)
(* looks at, or is the client the benchmark is waiting for.  The field of  *)
(* the server is used twice (iperf.go:62, 184, 203).                       *)
NobodyForgotten ==
    running \subseteq
        Children \cup (IF pc = "clientWait" THEN {"client"} ELSE {})

(* After run has returned, with or without errors, nothing of it runs or   *)
(* listens any more, and the load is closed.                               *)
NothingRuns == pc = "returned" => running = {} /\ ports = {} /\ ~load

(* If the interface, the route or the directory is left behind, cleanupErr *)
(* says so, and the matrix starts no other case (worker.go:388).           *)
CleanOrReported ==
    pc = "returned" /\ ~cleanupErr => ~iface /\ ~route /\ ~files

(* While a client runs nothing else of this benchmark is on its port, and  *)
(* the measurement has no listener and no server of the warm-up beside it. *)
MeasuresAlone ==
    pc = "clientWait" =>
        /\ ports \cap {<<n, i>> : n \in {"tcp", "udp"}, i \in {round, Probe}} = {}
        /\ round = 2 => ports = {} /\ "server1" \notin running

(* What run promises to the matrix (PossibleEnd of Matrix): nil only with  *)
(* every measurement saved and everything cleaned up; a missing payload is *)
(* reported before a sample is stored.                                     *)
EndPossible ==
    pc = "returned" =>
        /\ err = {} => points = Full /\ ~cleanupErr /\ ~recordErr
        /\ "udp-no-payload" \in err => options.kind = "udp" /\ points = 0

(* Whatever fails and whatever the host does, run returns. *)
Returns == <>(pc = "returned")
=============================================================================
