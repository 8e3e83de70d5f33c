---------------------------- MODULE MCArtifacts ----------------------------
(* A Linux environment and a Windows one on ARM.  hev-socks5-tunnel runs at *)
(* its latest, its second or an unknown release and needs a library on     *)
(* Windows; sing-box comes from a package.  First releases are for Linux    *)
(* only, the second iperf3 also for the target Windows on ARM emulates.     *)
EXTENDS Artifacts

CONSTANTS hev, box, iperf3, linux, win, win64, near, far

MCAssets == [s \in {hev, box, iperf3} |->
    <<{linux}, IF s = iperf3 THEN {linux, win64} ELSE {linux, win}>>]
MCTargetOf == [e \in {near, far} |-> IF e = near THEN linux ELSE win]
MCOrder == <<near, far>>
Case(memory, i) == [memory |-> memory, implementation |-> i]
MCJobs == [e \in {near, far} |->
    IF e = near THEN <<Case(FALSE, "hev"), Case(TRUE, "box")>>
    ELSE <<Case(FALSE, "hev"), Case(TRUE, "hev")>>]
MCSoftwareBy == [i \in {"hev", "box"} |-> IF i = "hev" THEN hev ELSE box]
MCWishes == {[i \in {"hev", "box"} |-> IF i = "hev" THEN v ELSE 0] : v \in {0, 2, 3}}
MCHelped == {<<hev, win>>}
MCEmulated == [t \in {win} |-> win64]
=============================================================================
