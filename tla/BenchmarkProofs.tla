-------------------------- MODULE BenchmarkProofs ---------------------------
(***************************************************************************)
(* Proofs about Benchmark, for every set of kinds and tunnel processes and *)
(* every length of the memory curve.                                       *)
(*                                                                         *)
(* The properties look at the end of run; the invariant says what each     *)
(* step may rely on before: which fields are set, which ports are still    *)
(* held, and that an interface has a tunnel, a route an interface.         *)
(***************************************************************************)
EXTENDS Benchmark, TLAPS

USE BenchmarkAssumption

(* Places by what they say about the case. *)
MemoryOnly == {"load", "point", "confirm"}
TrafficOnly == {"reserve", "release", "server", "listening", "listen", "probe",
                "releaseUDP", "client", "clientWait", "serverWait", "sample"}
FirstRound == {"network", "mkdir", "reserve", "listen", "relay", "relayWait",
               "subject", "interface", "route", "probe"} \cup MemoryOnly
Stopped == {"inspect", "delete", "again", "wait", "remove", "returned"}
Closing == {"check", "stop"} \cup Stopped
Measuring == {"client", "clientWait", "serverWait", "sample"}

BooleanInv ==
    /\ routeIndex \in BOOLEAN /\ directory \in BOOLEAN /\ memoryLoad \in BOOLEAN
    /\ recordErr \in BOOLEAN /\ cleanupErr \in BOOLEAN /\ closeErr \in BOOLEAN
    /\ iface \in BOOLEAN /\ route \in BOOLEAN /\ files \in BOOLEAN
    /\ load \in BOOLEAN

DataInv ==
    /\ pc \in Places /\ options \in [kind : Kinds, relay : BOOLEAN]
    /\ round \in {1, 2} /\ points \in 0 .. Full /\ err \subseteq Causes
    /\ tunnels \subseteq Tunnels /\ relay \subseteq {"relay"}
    /\ server \in {{}, {"server1"}, {"server2"}}
    /\ running \subseteq Tunnels \cup {"relay", "server1", "server2", "client"}

PlaceInv ==
    /\ pc \in MemoryOnly => Memory
    /\ pc \in TrafficOnly => ~Memory
    /\ pc \in FirstRound => round = 1
    /\ Memory => round = 1
    /\ pc = "sample" => round = 2

(* Whoever runs is in a field; the field of the server is free before it   *)
(* is used again, and everything is over once the children are stopped.    *)
ProcessInv ==
    /\ NobodyForgotten
    /\ pc \in {"network", "mkdir", "load", "reserve"} => server = {}
    /\ pc \in {"release", "server"} => server \cap running = {}
    /\ round = 2 /\ pc \in {"listening", "releaseUDP", "client", "clientWait"}
            => server = {"server2"}
    /\ pc \in Stopped => running = {}
    /\ load = memoryLoad
    /\ pc \in Stopped => ~load

(* The sockets that keep the ports of the measurements. *)
PortInv ==
    /\ ports \subseteq Networks \X {1, 2, Probe}
    /\ Memory \/ pc \in Closing \cup {"network", "mkdir", "reserve"}
            => ports = {}
    /\ round = 2 => ports \subseteq {"tcp", "udp"} \X {2}
    /\ pc \notin {"reserve", "release"} => <<"tcp", round>> \notin ports
    /\ pc \in Measuring => <<"udp", round>> \notin ports
    /\ pc \in Measuring \cup {"release", "server", "listening", "releaseUDP"}
            => ports \cap (Networks \X {Probe}) = {}

(* What is left on the host is known to a field, or to closeErr. *)
HostInv ==
    /\ route => iface
    /\ iface /\ pc # "returned" => tunnels # {}
    /\ files /\ pc # "returned" => directory
    /\ pc = "remove" /\ ~closeErr => ~iface
    /\ CleanOrReported

(* No measurement is both missing and unreported. *)
ErrorInv ==
    /\ pc \notin Closing => err = {} /\ ~recordErr /\ ~closeErr
    /\ pc \notin Closing \cup {"point", "confirm"} => points = 0
    /\ pc = "point" => points < Full
    /\ pc \in Closing /\ err = {} => points = Full /\ ~recordErr
    /\ "udp-no-payload" \in err => options.kind = "udp" /\ points = 0
    /\ pc = "returned" /\ err = {} => ~cleanupErr

IInv ==
    BooleanInv /\ DataInv /\ PlaceInv /\ ProcessInv /\ PortInv /\ HostInv
        /\ ErrorInv

(* A complete result has at least one measurement. *)
LEMMA FullType == Full \in Nat \ {0}
BY DEF Full

(* The type invariant of Benchmark lists the Boolean variables as a set. *)
LEMMA InvariantTypes == IInv => TypeOK
<1> SUFFICES ASSUME IInv PROVE TypeOK
  OBVIOUS
<1>1. ports \subseteq {"tcp", "udp"} \X {1, 2, Probe}
  BY DEF IInv, PortInv, Networks
<1>2. {routeIndex, directory, memoryLoad, recordErr, cleanupErr, closeErr,
       iface, route, files, load} \subseteq BOOLEAN
  BY DEF IInv, BooleanInv
<1> QED
  BY <1>1, <1>2 DEF IInv, DataInv, TypeOK

(* The invariant holds before the first step. *)
LEMMA InitInvariant == Init => IInv
<1> SUFFICES ASSUME Init PROVE IInv
  OBVIOUS
<1>1. Full \in Nat \ {0}
  BY FullType
<1>2. BooleanInv /\ DataInv
  <2>1. pc \in Places
    BY DEF Init, Places, Steps
  <2>2. points \in 0 .. Full
    BY <1>1 DEF Init
  <2> QED
    BY <2>1, <2>2 DEF Init, DataInv, BooleanInv
<1>3. PlaceInv /\ ProcessInv
  BY DEF Init, PlaceInv, ProcessInv, NobodyForgotten, MemoryOnly,
         TrafficOnly, FirstRound, Stopped
<1>4. PortInv /\ HostInv
  BY DEF Init, PortInv, HostInv, Closing, Stopped, Measuring, CleanOrReported
<1>5. ErrorInv
  BY <1>1 DEF Init, ErrorInv, Closing, Stopped
<1> QED
  BY <1>2, <1>3, <1>4, <1>5 DEF IInv

(* The options of a case never change, and neither does what they imply. *)
LEMMA OptionsKept == Next => options' = options /\ Memory' = Memory /\ Full' = Full
<1>1. Next => options' = options
  BY DEF Next, RunNext, StartNext, MeasureNext, CloseNext, HostNext, Over,
      vars, Store, RouteDone, AddRoute, AddRouteFails, CheckChildren,
      ClientSucceeds, Confirm, DeleteFails, DeleteRoute, Exit, Fail,
      InspectFails, InterfaceAppears, InterfaceFound, InterfaceReady,
      InterfaceVanishes, ListenForProbe, LookAgain, MakeDirectory, NoPayload,
      PayloadChanged, PrepareNetwork, ProbeAnswers, RelayAccepts,
      ReleasePacketPort, ReleasePort, RemoveDirectory, ReservePorts, RouteGone,
      ServerEnds, ServerListens, StartClient, StartLoad, StartRelay,
      StartServer, StartServerFails, StartTunnel, StopChildren, StorePoint,
      StoreSample, WaitForInterface
<1>2. ASSUME options' = options PROVE Memory' = Memory
  BY <1>2 DEF Memory
<1>3. ASSUME Memory' = Memory PROVE Full' = Full
  BY <1>3 DEF Full
<1> QED
  BY <1>1, <1>2, <1>3

(* Booleans stay Booleans. *)
LEMMA BooleanKept == IInv /\ Next => BooleanInv'
<1> SUFFICES ASSUME IInv, Next PROVE BooleanInv'
  OBVIOUS
<1> USE DEF IInv, BooleanInv, Steps, Go, fields, errors, network
<1>1. CASE PrepareNetwork BY <1>1 DEF PrepareNetwork
<1>2. CASE MakeDirectory BY <1>2 DEF MakeDirectory
<1>3. CASE StartLoad BY <1>3 DEF StartLoad
<1>4. CASE ReservePorts BY <1>4 DEF ReservePorts
<1>5. CASE ReleasePort BY <1>5 DEF ReleasePort
<1>6. CASE StartServer BY <1>6 DEF StartServer
<1>7. CASE StartServerFails BY <1>7 DEF StartServerFails, Return
<1>8. CASE ServerListens BY <1>8 DEF ServerListens
<1>9. CASE ListenForProbe BY <1>9 DEF ListenForProbe
<1>10. CASE StartRelay BY <1>10 DEF StartRelay
<1>11. CASE RelayAccepts BY <1>11 DEF RelayAccepts
<1>12. ASSUME NEW t \in Tunnels, StartTunnel(t) PROVE BooleanInv'
  BY <1>12 DEF StartTunnel
<1>13. CASE InterfaceReady BY <1>13 DEF InterfaceReady
<1>14. CASE AddRoute BY <1>14 DEF AddRoute
<1>15. CASE AddRouteFails BY <1>15 DEF AddRouteFails, Return
<1>16. CASE ProbeAnswers BY <1>16 DEF ProbeAnswers
<1>17. CASE PayloadChanged BY <1>17 DEF PayloadChanged, Return
<1>18. CASE ReleasePacketPort BY <1>18 DEF ReleasePacketPort
<1>19. CASE StartClient BY <1>19 DEF StartClient
<1>20. CASE ClientSucceeds BY <1>20 DEF ClientSucceeds
<1>21. CASE ServerEnds BY <1>21 DEF ServerEnds, ServerOver
<1>22. CASE NoPayload BY <1>22 DEF NoPayload, Return
<1>23. CASE StoreSample BY <1>23 DEF StoreSample, Store
<1>24. CASE StorePoint BY <1>24 DEF StorePoint, Store
<1>25. CASE Confirm BY <1>25 DEF Confirm
<1>26. CASE Fail BY <1>26 DEF Fail, Return
<1>27. CASE CheckChildren BY <1>27 DEF CheckChildren
<1>28. CASE StopChildren BY <1>28 DEF StopChildren
<1>29. CASE InspectFails BY <1>29 DEF InspectFails, RouteDone
<1>30. CASE RouteGone BY <1>30 DEF RouteGone, RouteDone
<1>31. CASE InterfaceFound BY <1>31 DEF InterfaceFound
<1>32. CASE DeleteRoute BY <1>32 DEF DeleteRoute, RouteDone
<1>33. CASE DeleteFails BY <1>33 DEF DeleteFails
<1>34. CASE LookAgain BY <1>34 DEF LookAgain, RouteDone
<1>35. CASE WaitForInterface
  BY <1>35 DEF WaitForInterface, HadTunnel, TimeLimit
<1>36. CASE RemoveDirectory BY <1>36 DEF RemoveDirectory, WithCleanup
<1>37. ASSUME NEW p \in running, Exit(p) PROVE BooleanInv' BY <1>37 DEF Exit
<1>38. CASE InterfaceAppears BY <1>38 DEF InterfaceAppears
<1>39. CASE InterfaceVanishes BY <1>39 DEF InterfaceVanishes
<1>40. CASE Over BY <1>40 DEF Over, vars
<1> QED
  BY <1>1, <1>2, <1>3, <1>4, <1>5, <1>6, <1>7, <1>8, <1>9, <1>10, <1>11,
      <1>12, <1>13, <1>14, <1>15, <1>16, <1>17, <1>18, <1>19, <1>20, <1>21,
      <1>22, <1>23, <1>24, <1>25, <1>26, <1>27, <1>28, <1>29, <1>30, <1>31,
      <1>32, <1>33, <1>34, <1>35, <1>36, <1>37, <1>38, <1>39, <1>40 DEF Next,
      RunNext, StartNext, MeasureNext, CloseNext, HostNext

(* Every other variable keeps its type; a curve never gets too many        *)
(* points.                                                                 *)
LEMMA DataKept == IInv /\ Next => DataInv'
<1> SUFFICES ASSUME IInv, Next PROVE DataInv'
  OBVIOUS
<1>0. Full' = Full /\ Full \in Nat \ {0}
  BY OptionsKept, FullType
<1> USE <1>0 DEF IInv, DataInv, Places, Steps, Server, Causes, Go, fields,
    errors, network, MemoryOnly, TrafficOnly, FirstRound, Stopped, Closing,
    Measuring, Memory
<1>1. CASE PrepareNetwork BY <1>1 DEF PrepareNetwork
<1>2. CASE MakeDirectory BY <1>2 DEF MakeDirectory
<1>3. CASE StartLoad BY <1>3 DEF StartLoad
<1>4. CASE ReservePorts BY <1>4 DEF ReservePorts
<1>5. CASE ReleasePort BY <1>5 DEF ReleasePort
<1>6. CASE StartServer BY <1>6 DEF StartServer
<1>7. CASE StartServerFails BY <1>7 DEF StartServerFails, Return
<1>8. CASE ServerListens BY <1>8 DEF ServerListens
<1>9. CASE ListenForProbe BY <1>9 DEF ListenForProbe
<1>10. CASE StartRelay BY <1>10 DEF StartRelay
<1>11. CASE RelayAccepts BY <1>11 DEF RelayAccepts
<1>12. ASSUME NEW t \in Tunnels, StartTunnel(t) PROVE DataInv'
  BY <1>12 DEF StartTunnel
<1>13. CASE InterfaceReady BY <1>13 DEF InterfaceReady
<1>14. CASE AddRoute BY <1>14 DEF AddRoute
<1>15. CASE AddRouteFails BY <1>15 DEF AddRouteFails, Return
<1>16. CASE ProbeAnswers BY <1>16 DEF ProbeAnswers
<1>17. CASE PayloadChanged BY <1>17 DEF PayloadChanged, Return
<1>18. CASE ReleasePacketPort BY <1>18 DEF ReleasePacketPort
<1>19. CASE StartClient BY <1>19 DEF StartClient
<1>20. CASE ClientSucceeds BY <1>20 DEF ClientSucceeds
<1>21. CASE ServerEnds BY <1>21 DEF ServerEnds, ServerOver
<1>22. CASE NoPayload BY <1>22 DEF NoPayload, Return
<1>23. CASE StoreSample
  <2>1. points = 0 /\ points' = points + 1
    BY <1>23 DEF StoreSample, Store, ErrorInv, Closing, Stopped
  <2>2. points' \in 0 .. Full'
    BY <1>0, <2>1
  <2> QED
    BY <1>23, <2>2 DEF StoreSample, Store
<1>24. CASE StorePoint
  <2>1. points < Full /\ points' = points + 1
    BY <1>24 DEF StorePoint, Store, ErrorInv
  <2>2. points' \in 0 .. Full'
    BY <1>0, <2>1
  <2> QED
    BY <1>24, <2>2 DEF StorePoint, Store
<1>25. CASE Confirm BY <1>25 DEF Confirm
<1>26. CASE Fail BY <1>26 DEF Fail, Return
<1>27. CASE CheckChildren BY <1>27 DEF CheckChildren
<1>28. CASE StopChildren BY <1>28 DEF StopChildren
<1>29. CASE InspectFails BY <1>29 DEF InspectFails, RouteDone
<1>30. CASE RouteGone BY <1>30 DEF RouteGone, RouteDone
<1>31. CASE InterfaceFound BY <1>31 DEF InterfaceFound
<1>32. CASE DeleteRoute BY <1>32 DEF DeleteRoute, RouteDone
<1>33. CASE DeleteFails BY <1>33 DEF DeleteFails
<1>34. CASE LookAgain BY <1>34 DEF LookAgain, RouteDone
<1>35. CASE WaitForInterface
  BY <1>35 DEF WaitForInterface, HadTunnel, TimeLimit
<1>36. CASE RemoveDirectory BY <1>36 DEF RemoveDirectory, WithCleanup
<1>37. ASSUME NEW p \in running, Exit(p) PROVE DataInv' BY <1>37 DEF Exit
<1>38. CASE InterfaceAppears BY <1>38 DEF InterfaceAppears
<1>39. CASE InterfaceVanishes BY <1>39 DEF InterfaceVanishes
<1>40. CASE Over BY <1>40 DEF Over, vars
<1> QED
  BY <1>1, <1>2, <1>3, <1>4, <1>5, <1>6, <1>7, <1>8, <1>9, <1>10, <1>11,
      <1>12, <1>13, <1>14, <1>15, <1>16, <1>17, <1>18, <1>19, <1>20, <1>21,
      <1>22, <1>23, <1>24, <1>25, <1>26, <1>27, <1>28, <1>29, <1>30, <1>31,
      <1>32, <1>33, <1>34, <1>35, <1>36, <1>37, <1>38, <1>39, <1>40 DEF Next,
      RunNext, StartNext, MeasureNext, CloseNext, HostNext

(* A place is only reached by the kind of case and in the round it is      *)
(* for.                                                                    *)
LEMMA PlaceKept == IInv /\ Next => PlaceInv'
<1> SUFFICES ASSUME IInv, Next PROVE PlaceInv'
  OBVIOUS
<1> USE DEF IInv, PlaceInv, Steps, Go, fields, errors, network,
    MemoryOnly, TrafficOnly, FirstRound, Stopped, Closing, Measuring, Memory
<1>1. CASE StartNext
  BY <1>1 DEF StartNext, PrepareNetwork, MakeDirectory, StartLoad,
      ReservePorts, ReleasePort, StartServer, StartServerFails, Return,
      ServerListens, ListenForProbe, StartRelay, RelayAccepts, StartTunnel,
      InterfaceReady, AddRoute, AddRouteFails, ProbeAnswers, PayloadChanged
<1>2. CASE MeasureNext
  BY <1>2 DEF MeasureNext, ReleasePacketPort, StartClient, ClientSucceeds,
      ServerEnds, ServerOver, NoPayload, Return, StoreSample, Store, StorePoint,
      Confirm, Fail
<1>3. CASE CloseNext
  BY <1>3 DEF CloseNext, CheckChildren, StopChildren, InspectFails,
      RouteDone, RouteGone, InterfaceFound, DeleteRoute, DeleteFails, LookAgain,
      WaitForInterface, HadTunnel, TimeLimit, RemoveDirectory, WithCleanup
<1>4. CASE HostNext
  BY <1>4 DEF HostNext, Exit, InterfaceAppears, InterfaceVanishes
<1>5. CASE Over BY <1>5 DEF Over, vars
<1> QED
  BY <1>1, <1>2, <1>3, <1>4, <1>5 DEF Next, RunNext

(* No step loses a process: the field of the server is overwritten only    *)
(* when its server is over.                                                *)
LEMMA ProcessKept == IInv /\ Next => ProcessInv'
<1> SUFFICES ASSUME IInv, Next PROVE ProcessInv'
  OBVIOUS
<1> USE DEF IInv, DataInv, PlaceInv, ProcessInv, NobodyForgotten,
    Children, Server, Steps, Go, fields, errors, network, MemoryOnly,
    TrafficOnly, FirstRound, Stopped, Closing, Measuring, Memory
<1>1. CASE PrepareNetwork BY <1>1 DEF PrepareNetwork
<1>2. CASE MakeDirectory BY <1>2 DEF MakeDirectory
<1>3. CASE StartLoad BY <1>3 DEF StartLoad
<1>4. CASE ReservePorts BY <1>4 DEF ReservePorts
<1>5. CASE ReleasePort BY <1>5 DEF ReleasePort
<1>6. CASE StartServer BY <1>6 DEF StartServer
<1>7. CASE StartServerFails BY <1>7 DEF StartServerFails, Return
<1>8. CASE ServerListens BY <1>8 DEF ServerListens
<1>9. CASE ListenForProbe BY <1>9 DEF ListenForProbe
<1>10. CASE StartRelay BY <1>10 DEF StartRelay
<1>11. CASE RelayAccepts BY <1>11 DEF RelayAccepts
<1>12. ASSUME NEW t \in Tunnels, StartTunnel(t) PROVE ProcessInv'
  BY <1>12 DEF StartTunnel
<1>13. CASE InterfaceReady BY <1>13 DEF InterfaceReady
<1>14. CASE AddRoute BY <1>14 DEF AddRoute
<1>15. CASE AddRouteFails BY <1>15 DEF AddRouteFails, Return
<1>16. CASE ProbeAnswers BY <1>16 DEF ProbeAnswers
<1>17. CASE PayloadChanged BY <1>17 DEF PayloadChanged, Return
<1>18. CASE ReleasePacketPort BY <1>18 DEF ReleasePacketPort
<1>19. CASE StartClient BY <1>19 DEF StartClient
<1>20. CASE ClientSucceeds BY <1>20 DEF ClientSucceeds
<1>21. CASE ServerEnds BY <1>21 DEF ServerEnds, ServerOver
<1>22. CASE NoPayload BY <1>22 DEF NoPayload, Return
<1>23. CASE StoreSample BY <1>23 DEF StoreSample, Store
<1>24. CASE StorePoint BY <1>24 DEF StorePoint, Store
<1>25. CASE Confirm BY <1>25 DEF Confirm
<1>26. CASE Fail BY <1>26 DEF Fail, Return
<1>27. CASE CheckChildren BY <1>27 DEF CheckChildren
<1>28. CASE StopChildren BY <1>28 DEF StopChildren
<1>29. CASE InspectFails BY <1>29 DEF InspectFails, RouteDone
<1>30. CASE RouteGone BY <1>30 DEF RouteGone, RouteDone
<1>31. CASE InterfaceFound BY <1>31 DEF InterfaceFound
<1>32. CASE DeleteRoute BY <1>32 DEF DeleteRoute, RouteDone
<1>33. CASE DeleteFails BY <1>33 DEF DeleteFails
<1>34. CASE LookAgain BY <1>34 DEF LookAgain, RouteDone
<1>35. CASE WaitForInterface
  BY <1>35 DEF WaitForInterface, HadTunnel, TimeLimit
<1>36. CASE RemoveDirectory BY <1>36 DEF RemoveDirectory, WithCleanup
<1>37. ASSUME NEW p \in running, Exit(p) PROVE ProcessInv' BY <1>37 DEF Exit
<1>38. CASE InterfaceAppears BY <1>38 DEF InterfaceAppears
<1>39. CASE InterfaceVanishes BY <1>39 DEF InterfaceVanishes
<1>40. CASE Over BY <1>40 DEF Over, vars
<1> QED
  BY <1>1, <1>2, <1>3, <1>4, <1>5, <1>6, <1>7, <1>8, <1>9, <1>10, <1>11,
      <1>12, <1>13, <1>14, <1>15, <1>16, <1>17, <1>18, <1>19, <1>20, <1>21,
      <1>22, <1>23, <1>24, <1>25, <1>26, <1>27, <1>28, <1>29, <1>30, <1>31,
      <1>32, <1>33, <1>34, <1>35, <1>36, <1>37, <1>38, <1>39, <1>40 DEF Next,
      RunNext, StartNext, MeasureNext, CloseNext, HostNext

(* A port is released before the server or the client that needs it        *)
(* starts.                                                                 *)
LEMMA PortKept == IInv /\ Next => PortInv'
<1> SUFFICES ASSUME IInv, Next PROVE PortInv'
  OBVIOUS
<1> USE DEF IInv, PlaceInv, PortInv, Networks, Probe, PacketPort, Steps,
    Go, fields, errors, network, MemoryOnly, TrafficOnly, FirstRound, Stopped,
    Closing, Measuring, Memory
<1>1. CASE PrepareNetwork BY <1>1 DEF PrepareNetwork
<1>2. CASE MakeDirectory BY <1>2 DEF MakeDirectory
<1>3. CASE StartLoad BY <1>3 DEF StartLoad
<1>4. CASE ReservePorts BY <1>4 DEF ReservePorts
<1>5. CASE ReleasePort BY <1>5 DEF ReleasePort
<1>6. CASE StartServer BY <1>6 DEF StartServer
<1>7. CASE StartServerFails BY <1>7 DEF StartServerFails, Return
<1>8. CASE ServerListens BY <1>8 DEF ServerListens
<1>9. CASE ListenForProbe BY <1>9 DEF ListenForProbe
<1>10. CASE StartRelay BY <1>10 DEF StartRelay
<1>11. CASE RelayAccepts BY <1>11 DEF RelayAccepts
<1>12. ASSUME NEW t \in Tunnels, StartTunnel(t) PROVE PortInv'
  BY <1>12 DEF StartTunnel
<1>13. CASE InterfaceReady BY <1>13 DEF InterfaceReady
<1>14. CASE AddRoute BY <1>14 DEF AddRoute
<1>15. CASE AddRouteFails BY <1>15 DEF AddRouteFails, Return
<1>16. CASE ProbeAnswers BY <1>16 DEF ProbeAnswers
<1>17. CASE PayloadChanged BY <1>17 DEF PayloadChanged, Return
<1>18. CASE ReleasePacketPort BY <1>18 DEF ReleasePacketPort
<1>19. CASE StartClient BY <1>19 DEF StartClient
<1>20. CASE ClientSucceeds BY <1>20 DEF ClientSucceeds
<1>21. CASE ServerEnds
  <2>1. round' = 2 /\ ports' = ports /\ options' = options /\ pc = "serverWait"
        /\ pc' \in {"release", "sample"}
    BY <1>21 DEF ServerEnds
  <2>2. round \in {1, 2}
    BY DEF DataInv
  <2>3. ports \subseteq {"tcp", "udp"} \X {2} /\ <<"tcp", round>> \notin ports
    BY <2>1, <2>2
  <2>4. pc' = "sample" => ports = {}
    <3>1. pc' = "sample" => round = 2
      BY <1>21, <2>2 DEF ServerEnds
    <3>2. <<"udp", round>> \notin ports
      BY <2>1
    <3> QED
      BY <2>3, <3>1, <3>2
  <2> QED
    BY <2>1, <2>3, <2>4
<1>22. CASE NoPayload BY <1>22 DEF NoPayload, Return
<1>23. CASE StoreSample BY <1>23 DEF StoreSample, Store
<1>24. CASE StorePoint BY <1>24 DEF StorePoint, Store
<1>25. CASE Confirm BY <1>25 DEF Confirm
<1>26. CASE Fail BY <1>26 DEF Fail, Return
<1>27. CASE CheckChildren BY <1>27 DEF CheckChildren
<1>28. CASE StopChildren BY <1>28 DEF StopChildren
<1>29. CASE InspectFails BY <1>29 DEF InspectFails, RouteDone
<1>30. CASE RouteGone BY <1>30 DEF RouteGone, RouteDone
<1>31. CASE InterfaceFound BY <1>31 DEF InterfaceFound
<1>32. CASE DeleteRoute BY <1>32 DEF DeleteRoute, RouteDone
<1>33. CASE DeleteFails BY <1>33 DEF DeleteFails
<1>34. CASE LookAgain BY <1>34 DEF LookAgain, RouteDone
<1>35. CASE WaitForInterface
  BY <1>35 DEF WaitForInterface, HadTunnel, TimeLimit
<1>36. CASE RemoveDirectory BY <1>36 DEF RemoveDirectory, WithCleanup
<1>37. ASSUME NEW p \in running, Exit(p) PROVE PortInv' BY <1>37 DEF Exit
<1>38. CASE InterfaceAppears BY <1>38 DEF InterfaceAppears
<1>39. CASE InterfaceVanishes BY <1>39 DEF InterfaceVanishes
<1>40. CASE Over BY <1>40 DEF Over, vars
<1> QED
  BY <1>1, <1>2, <1>3, <1>4, <1>5, <1>6, <1>7, <1>8, <1>9, <1>10, <1>11,
      <1>12, <1>13, <1>14, <1>15, <1>16, <1>17, <1>18, <1>19, <1>20, <1>21,
      <1>22, <1>23, <1>24, <1>25, <1>26, <1>27, <1>28, <1>29, <1>30, <1>31,
      <1>32, <1>33, <1>34, <1>35, <1>36, <1>37, <1>38, <1>39, <1>40 DEF Next,
      RunNext, StartNext, MeasureNext, CloseNext, HostNext

(* What the host keeps is in a field; WaitForInterface and                 *)
(* RemoveDirectory report what stays.                                      *)
LEMMA HostKept == IInv /\ Next => HostInv'
<1> SUFFICES ASSUME IInv, Next PROVE HostInv'
  OBVIOUS
<1> USE DEF IInv, DataInv, BooleanInv, ProcessInv, NobodyForgotten,
    HostInv, Children, CleanOrReported, Steps, Go, fields, errors, network,
    MemoryOnly, TrafficOnly, FirstRound, Stopped, Closing, Measuring, Memory
<1>1. CASE PrepareNetwork BY <1>1 DEF PrepareNetwork
<1>2. CASE MakeDirectory BY <1>2 DEF MakeDirectory
<1>3. CASE StartLoad BY <1>3 DEF StartLoad
<1>4. CASE ReservePorts BY <1>4 DEF ReservePorts
<1>5. CASE ReleasePort BY <1>5 DEF ReleasePort
<1>6. CASE StartServer BY <1>6 DEF StartServer
<1>7. CASE StartServerFails BY <1>7 DEF StartServerFails, Return
<1>8. CASE ServerListens BY <1>8 DEF ServerListens
<1>9. CASE ListenForProbe BY <1>9 DEF ListenForProbe
<1>10. CASE StartRelay BY <1>10 DEF StartRelay
<1>11. CASE RelayAccepts BY <1>11 DEF RelayAccepts
<1>12. ASSUME NEW t \in Tunnels, StartTunnel(t) PROVE HostInv'
  BY <1>12 DEF StartTunnel
<1>13. CASE InterfaceReady BY <1>13 DEF InterfaceReady
<1>14. CASE AddRoute BY <1>14 DEF AddRoute
<1>15. CASE AddRouteFails
  <2>1. route' => iface
    BY <1>15 DEF AddRouteFails
  <2> QED
    BY <1>15, <2>1 DEF AddRouteFails, Return
<1>16. CASE ProbeAnswers BY <1>16 DEF ProbeAnswers
<1>17. CASE PayloadChanged BY <1>17 DEF PayloadChanged, Return
<1>18. CASE ReleasePacketPort BY <1>18 DEF ReleasePacketPort
<1>19. CASE StartClient BY <1>19 DEF StartClient
<1>20. CASE ClientSucceeds BY <1>20 DEF ClientSucceeds
<1>21. CASE ServerEnds BY <1>21 DEF ServerEnds, ServerOver
<1>22. CASE NoPayload BY <1>22 DEF NoPayload, Return
<1>23. CASE StoreSample BY <1>23 DEF StoreSample, Store
<1>24. CASE StorePoint BY <1>24 DEF StorePoint, Store
<1>25. CASE Confirm BY <1>25 DEF Confirm
<1>26. CASE Fail BY <1>26 DEF Fail, Return
<1>27. CASE CheckChildren BY <1>27 DEF CheckChildren
<1>28. CASE StopChildren BY <1>28 DEF StopChildren
<1>29. CASE InspectFails BY <1>29 DEF InspectFails, RouteDone
<1>30. CASE RouteGone BY <1>30 DEF RouteGone, RouteDone
<1>31. CASE InterfaceFound BY <1>31 DEF InterfaceFound
<1>32. CASE DeleteRoute BY <1>32 DEF DeleteRoute, RouteDone
<1>33. CASE DeleteFails BY <1>33 DEF DeleteFails
<1>34. CASE LookAgain BY <1>34 DEF LookAgain, RouteDone
<1>35. CASE WaitForInterface
  BY <1>35 DEF WaitForInterface, HadTunnel, TimeLimit
<1>36. CASE RemoveDirectory BY <1>36 DEF RemoveDirectory, WithCleanup
<1>37. ASSUME NEW p \in running, Exit(p) PROVE HostInv' BY <1>37 DEF Exit
<1>38. CASE InterfaceAppears BY <1>38 DEF InterfaceAppears
<1>39. CASE InterfaceVanishes BY <1>39 DEF InterfaceVanishes
<1>40. CASE Over BY <1>40 DEF Over, vars
<1> QED
  BY <1>1, <1>2, <1>3, <1>4, <1>5, <1>6, <1>7, <1>8, <1>9, <1>10, <1>11,
      <1>12, <1>13, <1>14, <1>15, <1>16, <1>17, <1>18, <1>19, <1>20, <1>21,
      <1>22, <1>23, <1>24, <1>25, <1>26, <1>27, <1>28, <1>29, <1>30, <1>31,
      <1>32, <1>33, <1>34, <1>35, <1>36, <1>37, <1>38, <1>39, <1>40 DEF Next,
      RunNext, StartNext, MeasureNext, CloseNext, HostNext

(* run returns nil only after every measurement. *)
LEMMA ErrorKept == IInv /\ Next => ErrorInv'
<1> SUFFICES ASSUME IInv, Next PROVE ErrorInv'
  OBVIOUS
<1>0. Full' = Full /\ Full \in Nat \ {0}
  BY OptionsKept, FullType
<1> USE <1>0 DEF IInv, DataInv, PlaceInv, ErrorInv, MorePoints, Steps,
    WithCleanup, Go, fields, errors, network, MemoryOnly, TrafficOnly,
    FirstRound, Stopped, Closing, Measuring, Memory
<1>1. CASE PrepareNetwork BY <1>1 DEF PrepareNetwork
<1>2. CASE MakeDirectory BY <1>2 DEF MakeDirectory
<1>3. CASE StartLoad BY <1>3 DEF StartLoad
<1>4. CASE ReservePorts BY <1>4 DEF ReservePorts
<1>5. CASE ReleasePort BY <1>5 DEF ReleasePort
<1>6. CASE StartServer BY <1>6 DEF StartServer
<1>7. CASE StartServerFails BY <1>7 DEF StartServerFails, Return
<1>8. CASE ServerListens BY <1>8 DEF ServerListens
<1>9. CASE ListenForProbe BY <1>9 DEF ListenForProbe
<1>10. CASE StartRelay BY <1>10 DEF StartRelay
<1>11. CASE RelayAccepts BY <1>11 DEF RelayAccepts
<1>12. ASSUME NEW t \in Tunnels, StartTunnel(t) PROVE ErrorInv'
  BY <1>12 DEF StartTunnel
<1>13. CASE InterfaceReady BY <1>13 DEF InterfaceReady
<1>14. CASE AddRoute BY <1>14 DEF AddRoute
<1>15. CASE AddRouteFails BY <1>15 DEF AddRouteFails, Return
<1>16. CASE ProbeAnswers BY <1>16 DEF ProbeAnswers
<1>17. CASE PayloadChanged BY <1>17 DEF PayloadChanged, Return
<1>18. CASE ReleasePacketPort BY <1>18 DEF ReleasePacketPort
<1>19. CASE StartClient BY <1>19 DEF StartClient
<1>20. CASE ClientSucceeds BY <1>20 DEF ClientSucceeds
<1>21. CASE ServerEnds BY <1>21 DEF ServerEnds, ServerOver
<1>22. CASE NoPayload BY <1>22 DEF NoPayload, Return
<1>23. CASE StoreSample
  <2>1. Full = 1 /\ points = 0 /\ err = {}
    BY <1>23 DEF StoreSample, Full
  <2> QED
    BY <1>23, <2>1 DEF StoreSample, Store
<1>24. CASE StorePoint BY <1>24 DEF StorePoint, Store
<1>25. CASE Confirm BY <1>25 DEF Confirm
<1>26. CASE Fail BY <1>26 DEF Fail, Return
<1>27. CASE CheckChildren BY <1>27 DEF CheckChildren
<1>28. CASE StopChildren BY <1>28 DEF StopChildren
<1>29. CASE InspectFails BY <1>29 DEF InspectFails, RouteDone
<1>30. CASE RouteGone BY <1>30 DEF RouteGone, RouteDone
<1>31. CASE InterfaceFound BY <1>31 DEF InterfaceFound
<1>32. CASE DeleteRoute BY <1>32 DEF DeleteRoute, RouteDone
<1>33. CASE DeleteFails BY <1>33 DEF DeleteFails
<1>34. CASE LookAgain BY <1>34 DEF LookAgain, RouteDone
<1>35. CASE WaitForInterface
  BY <1>35 DEF WaitForInterface, HadTunnel, TimeLimit
<1>36. CASE RemoveDirectory BY <1>36 DEF RemoveDirectory, WithCleanup
<1>37. ASSUME NEW p \in running, Exit(p) PROVE ErrorInv' BY <1>37 DEF Exit
<1>38. CASE InterfaceAppears BY <1>38 DEF InterfaceAppears
<1>39. CASE InterfaceVanishes BY <1>39 DEF InterfaceVanishes
<1>40. CASE Over BY <1>40 DEF Over, vars
<1> QED
  BY <1>1, <1>2, <1>3, <1>4, <1>5, <1>6, <1>7, <1>8, <1>9, <1>10, <1>11,
      <1>12, <1>13, <1>14, <1>15, <1>16, <1>17, <1>18, <1>19, <1>20, <1>21,
      <1>22, <1>23, <1>24, <1>25, <1>26, <1>27, <1>28, <1>29, <1>30, <1>31,
      <1>32, <1>33, <1>34, <1>35, <1>36, <1>37, <1>38, <1>39, <1>40 DEF Next,
      RunNext, StartNext, MeasureNext, CloseNext, HostNext

(* The invariant is inductive. *)
LEMMA Inductive == IInv /\ [Next]_vars => IInv'
<1>1. IInv /\ Next => IInv'
  BY BooleanKept, DataKept, PlaceKept, ProcessKept, PortKept, HostKept,
     ErrorKept DEF IInv
<1>2. IInv /\ UNCHANGED vars => IInv'
  BY DEF vars, fields, errors, network, IInv, BooleanInv, DataInv, PlaceInv,
         ProcessInv, PortInv, HostInv, ErrorInv, NobodyForgotten,
         CleanOrReported, Children, Memory, Networks, Full
<1> QED
  BY <1>1, <1>2

(* ... and therefore always holds. *)
LEMMA Invariance == Spec => []IInv
BY InitInvariant, Inductive, PTL DEF Spec
-----------------------------------------------------------------------------
(* Every variable has its type and no result gets too many measurements.   *)
THEOREM TypeCorrect == Spec => []TypeOK
BY Invariance, InvariantTypes, PTL

(* No process that a benchmark started is ever forgotten, although the     *)
(* field of the server is used for two servers.                            *)
THEOREM NobodyIsForgotten == Spec => []NobodyForgotten
<1>1. IInv => NobodyForgotten
  BY DEF IInv, ProcessInv
<1> QED
  BY <1>1, Invariance, PTL

(* When run has returned nothing of it runs, listens or echoes, whichever  *)
(* step failed.                                                            *)
THEOREM NothingIsLeftRunning == Spec => []NothingRuns
<1>1. IInv => NothingRuns
  BY DEF IInv, ProcessInv, PortInv, NothingRuns, Closing, Stopped
<1> QED
  BY <1>1, Invariance, PTL

(* An interface, a route or a directory that stays behind is reported, so  *)
(* that the matrix does not go on.                                         *)
THEOREM LeftoversAreReported == Spec => []CleanOrReported
<1>1. IInv => CleanOrReported
  BY DEF IInv, HostInv
<1> QED
  BY <1>1, Invariance, PTL

(* A client measures alone: its port is free, and in the second round no   *)
(* socket and no server of the first is left.                              *)
THEOREM MeasurementsAreAlone == Spec => []MeasuresAlone
<1>1. IInv => MeasuresAlone
  <2> SUFFICES ASSUME IInv, pc = "clientWait"
               PROVE  /\ ports \cap {<<n, i>> : n \in {"tcp", "udp"}, i \in {round, Probe}}
                            = {}
                      /\ round = 2 => ports = {} /\ "server1" \notin running
    BY DEF MeasuresAlone
  <2>1. <<"tcp", round>> \notin ports /\ <<"udp", round>> \notin ports
    BY DEF IInv, PortInv, Measuring
  <2>2. ports \cap (Networks \X {Probe}) = {} /\ ports \subseteq Networks \X {1, 2, Probe}
    BY DEF IInv, PortInv, Measuring
  <2>3. ports \cap {<<n, i>> : n \in {"tcp", "udp"}, i \in {round, Probe}} = {}
    BY <2>1, <2>2
  <2>4. ASSUME round = 2 PROVE ports = {} /\ "server1" \notin running
    <3>1. ports \subseteq {"tcp", "udp"} \X {2}
      BY <2>4 DEF IInv, PortInv
    <3>2. server = {"server2"} /\ running \subseteq Children \cup {"client"}
      BY <2>4 DEF IInv, ProcessInv, NobodyForgotten
    <3>3. "server1" \notin tunnels \cup relay
      BY DEF IInv, DataInv
    <3> QED
      BY <2>1, <2>4, <3>1, <3>2, <3>3 DEF Children
  <2> QED
    BY <2>3, <2>4
<1> QED
  BY <1>1, Invariance, PTL

(* The matrix may rely on what run returns: nil means measured, saved and  *)
(* cleaned up, and a missing payload was reported before any sample.       *)
THEOREM EndsArePossible == Spec => []EndPossible
<1>1. IInv => EndPossible
  BY DEF IInv, ErrorInv, EndPossible, Closing, Stopped
<1> QED
  BY <1>1, Invariance, PTL
=============================================================================
