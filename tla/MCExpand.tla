------------------------------ MODULE MCExpand ------------------------------
(* Matrices with every combination of some axes, up to two includes and one *)
(* exclude, in both types.  An MTU of 1000 is too small for IPv6, and 16 is *)
(* a rate in bytes that does not fit a word of 7 bits.                      *)
EXTENDS Expand

Rate(n, bytes) == [number |-> n, bytes |-> bytes]

MCAxes == {
    [implementation |-> {"a", "b"}, mtu |-> {1500, 9000}],
    [implementation |-> {"a", "b"}, stack |-> {<<"a", "x">>, <<"a", "y">>}],
    [implementation |-> {"a", "b"}, stack |-> {<<"b", "y">>}, mtu |-> {1500}],
    [implementation |-> {"b"}, network |-> {"udp"}, parallel |-> {1, 2}, mtu |-> {1500}],
    [implementation |-> {"a"}, bitrate |-> {Rate(15, TRUE), Rate(15, FALSE)}, mtu |-> {1500}],
    [stack |-> {<<"a", "x">>, <<"b", "y">>}, mtu |-> {1500}, ip |-> {4}],
    <<>>}

All == <<>>
Included(values, filtered, filter) ==
    [values |-> values, filtered |-> filtered, filter |-> filter]

MCIncluded == {
    Included([mtu |-> {1500, 9000}], FALSE, All),
    Included([mtu |-> {1400}], TRUE, [implementation |-> {"b", "c"}]),
    Included([implementation |-> {"b"}, mtu |-> {1400}], TRUE, [parallel |-> {2}]),
    Included([implementation |-> {"b"}, parallel |-> {2}], FALSE, All),
    Included([implementation |-> {"c"}, mtu |-> {1500}], FALSE, All),
    Included([stack |-> {<<"b", "y">>}], FALSE, All),
    Included([bitrate |-> {Rate(1, TRUE), Rate(16, TRUE)}], FALSE, All),
    Included([bitrate |-> {Rate(1, TRUE)}], TRUE, [bitrate |-> {Rate(15, FALSE), Rate(8, FALSE)}]),
    Included([mtu |-> {1000}, ip |-> {4}], TRUE, [implementation |-> {"a"}]),
    Included([stack |-> {<<"a", "x">>}], TRUE, All),
    Included([environment |-> {"near"}, direction |-> {"upload"}], FALSE, All)}

MCExcluded == {<<>>, <<[implementation |-> "a", mtu |-> 1500]>>,
               <<[stack |-> <<"a", "x">>]>>, <<[stack |-> <<"a", "go">>]>>, <<[bitrate |-> Rate(15, TRUE)]>>}

MCMatrices ==
    [type : {"throughput", "memory"}, axes : MCAxes, exclude : MCExcluded,
     include : UNION {[1 .. n -> MCIncluded] : n \in 0 .. 2}]
MCImplementations == [name \in {"a", "b", "c"} |->
    [software |-> IF name = "a" THEN "sing-box" ELSE IF name = "b" THEN "go-tun2socks" ELSE "v2ray",
     stack |-> IF name = "b" THEN "none" ELSE "go"]]
MCEnvironments == [name \in {"near"} |-> [os |-> "linux", arch |-> "386"]]
=============================================================================
