------------------------------- MODULE Expand -------------------------------
(***************************************************************************)
(* The cases of a matrix (configuration.go: matrixConfiguration.expand and *)
(* readConfiguration, with the conditions of caseConfiguration.validate).  *)
(*                                                                         *)
(* An entry maps the keys it has to values: what the code looks up and     *)
(* does not find is a key outside the domain.  Entries form a set: their   *)
(* order is only the order of the measurements, and Uniq removes           *)
(* duplicates at the end.  The matrices of a configuration do not touch    *)
(* each other, so this follows one.                                        *)
(***************************************************************************)
EXTENDS Integers, Sequences

CONSTANTS
    Matrices,         \* the matrices to expand
    Implementations,  \* [name -> [software, stack]], as configured
    Environments,     \* [name -> [os, arch]]
    MaxWord           \* the largest unsigned integer, 2^64 - 1 in the program

(* What is no axis or not a value of its axis is refused before; a rate    *)
(* has been read into a word.                                              *)
Axes == {"environment", "implementation", "stack", "ip", "network",
         "direction", "mtu", "parallel", "bitrate"}
Values(axes, key) == IF key \in DOMAIN axes THEN axes[key] ELSE {}
WellFormed(axes) ==
    /\ DOMAIN axes \subseteq Axes
    /\ \A v \in Values(axes, "bitrate") : v.number \in 0 .. MaxWord /\ v.bytes \in BOOLEAN
Listed(values) == [k \in DOMAIN values |-> {values[k]}]

ASSUME ExpandAssumption ==
    /\ MaxWord \in Nat \ {0}
    /\ \A m \in Matrices :
        /\ m.type \in {"throughput", "memory"}
        /\ WellFormed(m.axes) /\ Len(m.include) \in Nat /\ Len(m.exclude) \in Nat
        /\ \A i \in 1 .. Len(m.include) :
               WellFormed(m.include[i].values) /\ WellFormed(m.include[i].filter)
        /\ \A i \in 1 .. Len(m.exclude) : WellFormed(Listed(m.exclude[i]))

VARIABLES stage, matrix, original, expanded, next, cases, supported
vars == <<stage, matrix, original, expanded, next, cases, supported>>

Init ==
    /\ matrix \in Matrices /\ stage = "axes" /\ next = 1
    /\ original = {} /\ expanded = {} /\ cases = {} /\ supported = {}
-----------------------------------------------------------------------------
(* normalizeMatrixValue: a bitrate in bytes per second becomes bits.  The  *)
(* other values are checked and stay what they are; a selector of a stack  *)
(* is a pair of an implementation and a stack.                             *)
Written(key, value) == IF key = "bitrate" THEN value.number ELSE value
InBytes(key, value) == key = "bitrate" /\ value.bytes
TooFast(value) == value.number > MaxWord \div 8

Normal(key, value) ==
    IF InBytes(key, value) THEN (Written(key, value) * 8) % (MaxWord + 1)
    ELSE Written(key, value)

NormalAxes(axes) == [k \in DOMAIN axes |-> {Normal(k, v) : v \in axes[k]}]

(* maps.Copy into a clone. *)
Copied(overrides, entry) ==
    [k \in DOMAIN overrides \cup DOMAIN entry |->
        IF k \in DOMAIN overrides THEN overrides[k] ELSE entry[k]]

(* Every combination of values of the keys, one of each; a choice names    *)
(* its key, so that no values of different keys are compared.              *)
Combinations(axes) ==
    LET choices == UNION {{k} \X axes[k] : k \in DOMAIN axes}
        own == {f \in [DOMAIN axes -> choices] : \A k \in DOMAIN axes : f[k][1] = k} IN
    {[k \in DOMAIN axes |-> f[k][2]] : f \in own}

Without(axes, key) == [k \in DOMAIN axes \ {key} |-> axes[k]]

(* A stack selector belongs to the implementation it names.                *)
StackFits(entry) ==
    {"implementation", "stack"} \subseteq DOMAIN entry =>
        entry.stack[1] = entry.implementation

Fails == stage' = "error" /\ UNCHANGED <<matrix, original, expanded, next, cases, supported>>

RefusedKeys ==
    matrix.type = "memory" /\ \E key \in {"direction", "parallel", "bitrate"} :
        \/ key \in DOMAIN matrix.axes
        \/ \E i \in 1 .. Len(matrix.include) :
               key \in DOMAIN matrix.include[i].values \cup DOMAIN matrix.include[i].filter
        \/ \E i \in 1 .. Len(matrix.exclude) : key \in DOMAIN matrix.exclude[i]

Rates ==
    (UNION {Values(axes, "bitrate") : axes \in {matrix.axes} \cup
        UNION {{matrix.include[i].values, matrix.include[i].filter} : i \in 1 .. Len(matrix.include)}})
    \cup {matrix.exclude[i].bitrate : i \in
        {j \in 1 .. Len(matrix.exclude) : "bitrate" \in DOMAIN matrix.exclude[j]}}
RefusedRates == \E rate \in Rates : rate.bytes /\ TooFast(rate)

(* The product of the axes; without any there is nothing yet.              *)
ExpandAxes ==
    /\ stage = "axes"
    /\ IF RefusedKeys \/ RefusedRates THEN Fails
       ELSE /\ stage' = "stack"
            /\ original' = IF DOMAIN matrix.axes = {} THEN {}
                           ELSE Combinations(Without(NormalAxes(matrix.axes), "stack"))
            /\ UNCHANGED <<matrix, expanded, next, cases, supported>>

(* Every entry gets the stacks of its implementation, or none.             *)
ExpandStacks ==
    /\ stage = "stack" /\ stage' = "exclude"
    /\ LET with(e) == {Copied([stack |-> s], e) : s \in Values(matrix.axes, "stack")}
           fitting(e) == {f \in with(e) : StackFits(f)} IN
       original' = UNION {IF fitting(e) = {} THEN {e} ELSE fitting(e) : e \in original}
    /\ UNCHANGED <<matrix, expanded, next, cases, supported>>

Excluded(entry, excluded) ==
    \A k \in DOMAIN excluded : k \in DOMAIN entry /\ entry[k] = Normal(k, excluded[k])

Exclude ==
    /\ stage = "exclude" /\ stage' = "mtu"
    /\ original' = {e \in original : \A i \in 1 .. Len(matrix.exclude) :
                                        ~Excluded(e, matrix.exclude[i])}
    /\ UNCHANGED <<matrix, expanded, next, cases, supported>>

Matches(entry, included) ==
    included.filtered => \A k \in DOMAIN included.filter :
        k \in DOMAIN entry /\ entry[k] \in NormalAxes(included.filter)[k]

(* An entry without an MTU takes those of the includes that give nothing   *)
(* else.                                                                   *)
Completions(entry) ==
    {Copied([mtu |-> v], entry) : v \in UNION {matrix.include[i].values.mtu : i \in
        {j \in 1 .. Len(matrix.include) : DOMAIN matrix.include[j].values = {"mtu"}
                                          /\ Matches(entry, matrix.include[j])}}}

CompleteMTU ==
    /\ stage = "mtu" /\ stage' = "include"
    /\ original' = UNION {IF "mtu" \in DOMAIN e \/ Completions(e) = {} THEN {e}
                          ELSE Completions(e) : e \in original}
    /\ expanded' = original' /\ UNCHANGED <<matrix, next, cases, supported>>

(* Mutant: an include does not see what others made. *)
OriginalOnly(included) == original

(* One include: its values replace those of the entries it matches.  With  *)
(* a filter these are all so far, without one only those of the axes; and  *)
(* what replaces nothing is then an entry of its own.                      *)
Sources(included) == IF included.filtered THEN expanded ELSE original

Replaced(sources, included, overrides) ==
    {c \in {Copied(overrides, e) : e \in {s \in sources : Matches(s, included)}} : StackFits(c)}

Include ==
    /\ stage = "include" /\ next <= Len(matrix.include) /\ next' = next + 1
    /\ LET included == matrix.include[next]
           added(o) == LET replaced == Replaced(Sources(included), included, o) IN
               IF replaced = {} /\ ~included.filtered THEN {o} ELSE replaced IN
       expanded' = expanded \cup UNION {added(o) : o \in Combinations(NormalAxes(included.values))}
    /\ UNCHANGED <<stage, matrix, original, cases, supported>>

Defaults ==
    [k \in {"ip", "network"} \cup (IF matrix.type = "memory" THEN {} ELSE {"direction"}) |->
        IF k = "ip" THEN {4, 6} ELSE IF k = "network" THEN {"tcp", "udp"}
        ELSE {"upload", "download"}]

Completed(entry) ==
    {Copied(f, entry) :
        f \in Combinations([k \in DOMAIN Defaults \ DOMAIN entry |-> Defaults[k]])}

ApplyDefaults ==
    /\ stage = "include" /\ next > Len(matrix.include)
    /\ IF expanded = {} THEN Fails
       ELSE /\ stage' = "read" /\ expanded' = UNION {Completed(e) : e \in expanded}
            /\ UNCHANGED <<matrix, original, next, cases, supported>>
-----------------------------------------------------------------------------
(* readConfiguration: an entry becomes a case, or an error of all.         *)
Environment(entry) ==
    IF "environment" \in DOMAIN entry THEN entry.environment
    ELSE CHOOSE e \in DOMAIN Environments : TRUE

Readable(entry) ==
    /\ {"implementation", "mtu"} \subseteq DOMAIN entry /\ StackFits(entry)
    /\ entry.implementation \in DOMAIN Implementations
    /\ \/ "environment" \in DOMAIN entry /\ entry.environment \in DOMAIN Environments
       \/ "environment" \notin DOMAIN entry
          /\ \E only \in DOMAIN Environments : DOMAIN Environments = {only}

Case(entry) ==
    [type |-> matrix.type, environment |-> Environment(entry),
     implementation |-> entry.implementation, mtu |-> entry.mtu,
     stack |-> IF "stack" \in DOMAIN entry THEN entry.stack[2]
               ELSE Implementations[entry.implementation].stack,
     ip |-> entry.ip, network |-> entry.network,
     direction |-> IF "direction" \in DOMAIN entry THEN entry.direction ELSE "",
     parallel |-> IF "parallel" \in DOMAIN entry THEN entry.parallel ELSE 1,
     bitrate |-> IF "bitrate" \in DOMAIN entry THEN entry.bitrate ELSE 0]

(* caseConfiguration.validate *)
Valid(c) ==
    /\ c.ip \in {4, 6} /\ c.network \in {"tcp", "udp"}
    /\ c.type = "throughput" => c.direction \in {"upload", "download"}
    /\ c.parallel \in 1 .. 128
    /\ (IF c.ip = 6 THEN 1280 ELSE 576) <= c.mtu /\ c.mtu <= 65535

ReadCases ==
    /\ stage = "read"
    /\ IF \E e \in expanded : ~Readable(e) \/ ~Valid(Case(e)) THEN Fails
       ELSE /\ stage' = "skip" /\ cases' = {Case(e) : e \in expanded}
            /\ UNCHANGED <<matrix, original, expanded, next, supported>>

(* What is known not to work is skipped.                                   *)
Skipped(c) ==
    LET software == Implementations[c.implementation].software
        target == Environments[c.environment] IN
    \/ software = "go-tun2socks" /\ (target.os = "windows" \/ c.mtu > 1500)
    \/ software = "v2ray" /\ (target.os # "linux" \/ target.arch \notin {"amd64", "arm64"})
    \/ c.type = "throughput" /\ target.os = "windows" /\ c.network = "udp" /\ c.parallel > 1

Select ==
    /\ stage = "skip" /\ stage' = "done"
    /\ supported' = {c \in cases : ~Skipped(c)}
    /\ UNCHANGED <<matrix, original, expanded, next, cases>>

Next ==
    \/ ExpandAxes \/ ExpandStacks \/ Exclude \/ CompleteMTU \/ Include
    \/ ApplyDefaults \/ ReadCases \/ Select

Spec == Init /\ [][Next]_vars
-----------------------------------------------------------------------------
(* What a matrix says, from one entry to its case.                         *)

(* The values as written, without the width of a word. *)
Exact(key, value) ==
    IF InBytes(key, value) THEN Written(key, value) * 8 ELSE Written(key, value)
Meant(axes) == [k \in DOMAIN axes |-> {Exact(k, v) : v \in axes[k]}]

(* What the axes stand for: with a stack if one fits, or else without; and *)
(* what of it is not excluded.                                             *)
Wanted ==
    IF DOMAIN matrix.axes = {} THEN {}
    ELSE {e \in Combinations(Meant(matrix.axes)) : StackFits(e)} \cup
         {e \in Combinations(Meant(Without(matrix.axes, "stack"))) :
             \A s \in Values(matrix.axes, "stack") : ~StackFits(Copied([stack |-> s], e))}
Kept == {e \in Wanted : \A i \in 1 .. Len(matrix.exclude) :
    LET excluded == matrix.exclude[i] IN
    \E k \in DOMAIN excluded : k \in DOMAIN e => e[k] # Exact(k, excluded[k])}

(* An include that sets only the MTU completes what has none.              *)
Selects(included, entry) ==
    included.filtered => \A k \in DOMAIN included.filter :
        k \in DOMAIN entry /\ entry[k] \in Meant(included.filter)[k]
MTUs(entry) ==
    {v \in UNION {Values(matrix.include[i].values, "mtu") : i \in 1 .. Len(matrix.include)} :
        \E i \in 1 .. Len(matrix.include) : LET included == matrix.include[i] IN
            /\ DOMAIN included.values = {"mtu"} /\ v \in included.values.mtu
            /\ Selects(included, entry)}
Start ==
    {e \in Kept : "mtu" \in DOMAIN e \/ MTUs(e) = {}} \cup
    UNION {{Copied([mtu |-> v], e) : v \in MTUs(e)} :
               e \in {w \in Kept : "mtu" \notin DOMAIN w}}

(* The includes that an entry has come through are a path: the values each *)
(* of them has given.  The last that sets a key decides its value.         *)
Setting(path, key) == {i \in DOMAIN path : key \in DOMAIN path[i]}
Made(base, path) ==
    [k \in DOMAIN base \cup UNION {DOMAIN path[i] : i \in DOMAIN path} |->
        LET setting == Setting(path, k) IN
        IF setting = {} THEN base[k]
        ELSE path[CHOOSE i \in setting : \A j \in setting : j <= i][k]]
Before(path, i) == [j \in {s \in DOMAIN path : s < i} |-> path[j]]

(* A path starts from an entry of the axes, at 0, or from an include that  *)
(* fits none of those.                                                     *)
Choices(i) == Combinations(Meant(matrix.include[i].values))
Alone(i, o) == ~matrix.include[i].filtered /\ \A e \in Start : ~StackFits(Copied(o, e))
Origins(n) ==
    ({0} \X Start) \cup UNION {{i} \X {o \in Choices(i) : Alone(i, o)} : i \in 1 .. n}

(* Every include on it selects what the earlier ones made.  One without a  *)
(* filter only sees entries of the axes.                                   *)
Follows(origin, path) ==
    \A i \in DOMAIN path :
        LET included == matrix.include[i]
            source == Made(origin[2], Before(path, i)) IN
        /\ i > origin[1] /\ path[i] \in Choices(i)
        /\ Selects(included, source) /\ StackFits(Copied(path[i], source))
        /\ ~included.filtered => origin[1] = 0 /\ \A j \in DOMAIN path : j >= i
Paths(n) == UNION {[S -> UNION {Choices(i) : i \in S}] : S \in SUBSET (1 .. n)}
Due(n) ==
    UNION {{Made(origin[2], path) : path \in {p \in Paths(n) : Follows(origin, p)}} :
               origin \in Origins(n)}

(* The keys that nobody has set have all their values.                     *)
Usual ==
    [k \in {"ip", "network"} \cup {key \in {"direction"} : matrix.type = "throughput"} |->
        CASE k = "ip" -> {4, 6} [] k = "network" -> {"tcp", "udp"}
          [] k = "direction" -> {"upload", "download"}]
Stated == UNION {{Copied(e, u) : u \in Combinations(Usual)} : e \in Due(Len(matrix.include))}

(* A case has the values of its entry, and fixed ones for all other keys.  *)
Says(entry, c) ==
    \A k \in DOMAIN entry :
        IF k = "stack" THEN c.implementation = entry.stack[1] /\ c.stack = entry.stack[2]
        ELSE c[k] = entry[k]
Means(entry, c) ==
    /\ {"implementation", "mtu"} \subseteq DOMAIN entry /\ Says(entry, c)
    /\ c.type = matrix.type
    /\ "environment" \notin DOMAIN entry => DOMAIN Environments = {c.environment}
    /\ "stack" \notin DOMAIN entry => c.stack = Implementations[c.implementation].stack
    /\ "direction" \notin DOMAIN entry => c.direction = ""
    /\ "parallel" \notin DOMAIN entry => c.parallel = 1
    /\ "bitrate" \notin DOMAIN entry => c.bitrate = 0

(* No case gets lost: everything the matrix says is given to the           *)
(* controller, or is known not to work.                                    *)
NothingLost ==
    \A e \in Stated : \E c \in cases : Means(e, c) /\ (c \in supported \/ Skipped(c))

(* Nothing is made up: every case the controller gets has all its values   *)
(* from one thing the matrix says, and is not known not to work.           *)
NothingMadeUp ==
    \A c \in supported : ~Skipped(c) /\ \E e \in Stated : Means(e, c)

(* A matrix is refused only for something that it says, or if it says      *)
(* nothing.                                                                *)
Refused ==
    \/ RefusedKeys \/ RefusedRates \/ Stated = {}
    \/ \E e \in Stated : ~Readable(e) \/ ~Valid(Case(e))

(* The cases that readConfiguration returns are what the matrix says: the  *)
(* product of the axes with the stacks that fit, without what is excluded, *)
(* each changed by every chain of includes that select it in turn, and     *)
(* includes of their own where they fit nothing (configuration.go 486).    *)
AsWritten ==
    /\ stage = "done" => NothingLost /\ NothingMadeUp
    /\ stage = "error" => Refused
=============================================================================
