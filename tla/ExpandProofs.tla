---------------------------- MODULE ExpandProofs ----------------------------
(***************************************************************************)
(* AsWritten for any matrices, implementations, environments and width of  *)
(* a word.                                                                 *)
(*                                                                         *)
(* Every stage has made exactly what the matrix says up to there: the      *)
(* product with its stacks, what is kept of it, what the chains of the     *)
(* includes so far have made of that, and what it is with the defaults.    *)
(* The step that needs an argument is an include: a chain that ends in it  *)
(* is one that ends before it, with the values of this include on top.     *)
(***************************************************************************)
EXTENDS Expand, WellFoundedInduction, TLAPS

(* No rate is too large for a word.                                        *)
Accurate(axes) == \A v \in Values(axes, "bitrate") : ~(v.bytes /\ TooFast(v))
AllAccurate ==
    /\ Accurate(matrix.axes)
    /\ \A i \in 1 .. Len(matrix.include) :
           Accurate(matrix.include[i].values) /\ Accurate(matrix.include[i].filter)
    /\ \A i \in 1 .. Len(matrix.exclude) : Accurate(Listed(matrix.exclude[i]))

Base ==
    IF DOMAIN matrix.axes = {} THEN {}
    ELSE Combinations(Without(NormalAxes(matrix.axes), "stack"))

IInv ==
    /\ matrix \in Matrices /\ next \in 1 .. Len(matrix.include) + 1
    /\ stage \notin {"axes", "error"} => AllAccurate
    /\ stage \in {"axes", "stack", "exclude", "mtu"} => next = 1
    /\ stage = "stack" => original = Base
    /\ stage = "exclude" => original = Wanted
    /\ stage = "mtu" => original = Kept
    /\ stage = "include" => original = Start /\ expanded = Due(next - 1)
    /\ stage = "read" => expanded = Stated
    /\ stage \in {"skip", "done"} =>
           (\A e \in Stated : Readable(e)) /\ cases = {Case(e) : e \in Stated}
    /\ stage = "done" => supported = {c \in cases : ~Skipped(c)}
    /\ stage = "error" => Refused

(* An entry is a function of some of the axes.                             *)
IsEntry(e) == e = [k \in DOMAIN e |-> e[k]] /\ DOMAIN e \subseteq Axes
-----------------------------------------------------------------------------
(* Entries and their combinations.                                         *)

LEMMA CopiedIs ==
    ASSUME NEW o, NEW e
    PROVE  /\ DOMAIN Copied(o, e) = DOMAIN o \cup DOMAIN e
           /\ \A k \in DOMAIN o : Copied(o, e)[k] = o[k]
           /\ \A k \in DOMAIN e \ DOMAIN o : Copied(o, e)[k] = e[k]
           /\ IsEntry(o) /\ IsEntry(e) => IsEntry(Copied(o, e))
BY DEF Copied, IsEntry

LEMMA CombinationsAre ==
    ASSUME NEW axes, NEW e
    PROVE  e \in Combinations(axes) <=>
               /\ e = [k \in DOMAIN axes |-> e[k]]
               /\ \A k \in DOMAIN axes : e[k] \in axes[k]
<1> DEFINE choices == UNION {{k} \X axes[k] : k \in DOMAIN axes}
           own == {f \in [DOMAIN axes -> choices] : \A k \in DOMAIN axes : f[k][1] = k}
<1>1. ASSUME e \in Combinations(axes)
      PROVE  /\ e = [k \in DOMAIN axes |-> e[k]]
             /\ \A k \in DOMAIN axes : e[k] \in axes[k]
  <2>1. PICK f \in own : e = [k \in DOMAIN axes |-> f[k][2]]  BY <1>1 DEF Combinations
  <2>2. ASSUME NEW k \in DOMAIN axes PROVE f[k][2] \in axes[k]
    <3>1. f[k] \in choices /\ f[k][1] = k  BY <2>1
    <3>2. PICK l \in DOMAIN axes : f[k] \in {l} \X axes[l]  BY <3>1
    <3>3. f[k][1] = l /\ f[k][2] \in axes[l]  BY <3>2
    <3> QED  BY <3>1, <3>3
  <2> QED  BY <2>1, <2>2
<1>2. ASSUME e = [k \in DOMAIN axes |-> e[k]], \A k \in DOMAIN axes : e[k] \in axes[k]
      PROVE  e \in Combinations(axes)
  <2> DEFINE f == [k \in DOMAIN axes |-> <<k, e[k]>>]
  <2>1. \A k \in DOMAIN axes : <<k, e[k]>> \in choices  BY <1>2
  <2>2. f \in own  BY <2>1
  <2>3. e = [k \in DOMAIN axes |-> f[k][2]]  BY <1>2
  <2> HIDE DEF f
  <2> QED  BY <2>2, <2>3 DEF Combinations
<1> QED  BY <1>1, <1>2

-----------------------------------------------------------------------------
(* In a word that is wide enough, a rate is what was meant.                *)

LEMMA Fitting ==
    ASSUME NEW n \in Nat, ~(n > MaxWord \div 8) PROVE (n * 8) % (MaxWord + 1) = n * 8
<1>1. MaxWord \in Nat  BY ExpandAssumption
<1>2. n * 8 <= MaxWord  BY <1>1
<1> QED  BY <1>1, <1>2

LEMMA NormalIsExact ==
    ASSUME NEW axes, WellFormed(axes), Accurate(axes)
    PROVE  /\ \A k \in DOMAIN axes : \A v \in axes[k] : Normal(k, v) = Exact(k, v)
           /\ NormalAxes(axes) = Meant(axes)
<1>1. ASSUME NEW k \in DOMAIN axes, NEW v \in axes[k] PROVE Normal(k, v) = Exact(k, v)
  <2>1. CASE InBytes(k, v)
    <3>1. k = "bitrate" /\ v.bytes /\ v \in Values(axes, "bitrate")
        BY <2>1 DEF InBytes, Values
    <3>2. v.number \in Nat /\ ~(v.number > MaxWord \div 8)
        BY <3>1, ExpandAssumption DEF WellFormed, Accurate, TooFast
    <3> QED  BY <2>1, <3>1, <3>2, Fitting DEF Normal, Exact, Written
  <2>2. CASE ~InBytes(k, v)  BY <2>2 DEF Normal, Exact
  <2> QED  BY <2>1, <2>2
<1>2. \A k \in DOMAIN axes : {Normal(k, v) : v \in axes[k]} = {Exact(k, v) : v \in axes[k]}
    BY <1>1
<1> QED  BY <1>1, <1>2 DEF NormalAxes, Meant

LEMMA RatesAccurate ==
    ASSUME matrix \in Matrices, ~RefusedRates PROVE AllAccurate
<1>1. \A v \in Rates : ~(v.bytes /\ TooFast(v))  BY DEF RefusedRates
<1>2. Accurate(matrix.axes)  BY <1>1 DEF Accurate, Rates
<1>3. ASSUME NEW i \in 1 .. Len(matrix.include),
             NEW axes \in {matrix.include[i].values, matrix.include[i].filter}
      PROVE  Accurate(axes)
    BY <1>1 DEF Accurate, Rates
<1>4. ASSUME NEW i \in 1 .. Len(matrix.exclude) PROVE Accurate(Listed(matrix.exclude[i]))
  <2> DEFINE x == matrix.exclude[i]
  <2> SUFFICES ASSUME NEW v \in Values(Listed(x), "bitrate") PROVE v \in Rates
      BY <1>1 DEF Accurate
  <2>1. "bitrate" \in DOMAIN x /\ v = x.bitrate  BY DEF Values, Listed
  <2>2. i \in {j \in 1 .. Len(matrix.exclude) : "bitrate" \in DOMAIN matrix.exclude[j]}
      BY <2>1
  <2>3. v \in {matrix.exclude[n].bitrate : n \in
                   {j \in 1 .. Len(matrix.exclude) : "bitrate" \in DOMAIN matrix.exclude[j]}}
      BY <2>1, <2>2
  <2> QED  BY <2>3 DEF Rates
<1> QED  BY <1>2, <1>3, <1>4 DEF AllAccurate
-----------------------------------------------------------------------------
(* The axes.                                                               *)

LEMMA BaseIs ==
    ASSUME matrix \in Matrices, AllAccurate, DOMAIN matrix.axes # {}
    PROVE  Base = Combinations(Meant(Without(matrix.axes, "stack")))
<1> DEFINE axes == matrix.axes
<1>1. NormalAxes(axes) = Meant(axes)
    BY NormalIsExact, ExpandAssumption DEF AllAccurate
<1>2. Without(Meant(axes), "stack") = Meant(Without(axes, "stack"))
    BY DEF Without, Meant
<1> QED  BY <1>1, <1>2 DEF Base

(* With a stack more an entry of the base is one of all the axes.          *)
LEMMA WithStack ==
    ASSUME matrix \in Matrices, AllAccurate, "stack" \in DOMAIN matrix.axes
    PROVE  /\ \A e \in Base : \A s \in Values(matrix.axes, "stack") :
                  Copied([stack |-> s], e) \in Combinations(Meant(matrix.axes))
           /\ \A x \in Combinations(Meant(matrix.axes)) :
                  \E e \in Base, s \in Values(matrix.axes, "stack") :
                      x = Copied([stack |-> s], e)
<1> DEFINE axes == matrix.axes
           K == DOMAIN axes \ {"stack"}
<1>1. Base = Combinations(Meant(Without(axes, "stack")))  BY BaseIs
<1>2. /\ DOMAIN Meant(Without(axes, "stack")) = K /\ DOMAIN Meant(axes) = DOMAIN axes
      /\ \A k \in K : Meant(Without(axes, "stack"))[k] = Meant(axes)[k]
      /\ Meant(axes)["stack"] = Values(axes, "stack")
    BY DEF Meant, Without, Values, Exact, InBytes, Written
<1>3. ASSUME NEW e \in Base, NEW s \in Values(axes, "stack")
      PROVE  Copied([stack |-> s], e) \in Combinations(Meant(axes))
  <2> DEFINE o == [stack |-> s]
             x == Copied(o, e)
  <2>1. e = [k \in K |-> e[k]] /\ \A k \in K : e[k] \in Meant(axes)[k]
      BY <1>1, <1>2, CombinationsAre
  <2>2. DOMAIN e = K /\ DOMAIN o = {"stack"} /\ o["stack"] = s  BY <2>1
  <2> HIDE DEF o
  <2>3. DOMAIN x = DOMAIN axes /\ x["stack"] = s /\ \A k \in K : x[k] = e[k]
      BY <2>2 DEF Copied
  <2>4. x = [k \in DOMAIN axes |-> x[k]]  BY <2>2 DEF Copied
  <2>5. \A k \in DOMAIN axes : x[k] \in Meant(axes)[k]  BY <1>2, <2>1, <2>3
  <2> HIDE DEF x
  <2>6. x \in Combinations(Meant(axes))  BY <1>2, <2>4, <2>5, CombinationsAre
  <2> QED  BY <2>6 DEF x, o
<1>4. ASSUME NEW x \in Combinations(Meant(axes))
      PROVE  \E e \in Base, s \in Values(axes, "stack") : x = Copied([stack |-> s], e)
  <2> DEFINE e == [k \in K |-> x[k]]
             t == Copied([stack |-> x["stack"]], e)
  <2>1. x = [k \in DOMAIN axes |-> x[k]] /\ \A k \in DOMAIN axes : x[k] \in Meant(axes)[k]
      BY <1>2, CombinationsAre
  <2>2. x["stack"] \in Values(axes, "stack")  BY <1>2, <2>1
  <2>3. e \in Base
    <3>1. e = [k \in K |-> e[k]] /\ \A k \in K : e[k] \in Meant(axes)[k]  BY <2>1
    <3> HIDE DEF e
    <3> QED  BY <1>1, <1>2, <3>1, CombinationsAre
  <2>4. x = t
    <3>1. t = [k \in DOMAIN axes |-> t[k]] /\ \A k \in DOMAIN axes : t[k] = x[k]
        BY DEF Copied
    <3> HIDE DEF t
    <3> QED  BY <2>1, <3>1
  <2> QED  BY <2>2, <2>3, <2>4
<1> QED  BY <1>3, <1>4

LEMMA StacksWanted ==
    ASSUME IInv, ExpandStacks PROVE original' = Wanted
<1> DEFINE axes == matrix.axes
           with(e) == {Copied([stack |-> s], e) : s \in Values(axes, "stack")}
           fitting(e) == {f \in with(e) : StackFits(f)}
<1>1. /\ matrix \in Matrices /\ AllAccurate
      /\ original' = UNION {IF fitting(e) = {} THEN {e} ELSE fitting(e) : e \in Base}
    BY DEF ExpandStacks, IInv
<1>2. CASE DOMAIN axes = {}  BY <1>1, <1>2 DEF Base, Wanted
<1>3. CASE DOMAIN axes # {}
  <2>1. Base = Combinations(Meant(Without(axes, "stack")))  BY <1>1, <1>3, BaseIs
  <2>2. Wanted = {e \in Combinations(Meant(axes)) : StackFits(e)} \cup
                 {e \in Base : \A s \in Values(axes, "stack") : ~StackFits(Copied([stack |-> s], e))}
      BY <1>3, <2>1 DEF Wanted
  <2>3. \A e : fitting(e) = {} <=>
                   \A s \in Values(axes, "stack") : ~StackFits(Copied([stack |-> s], e))
      OBVIOUS
  <2>4. CASE "stack" \in DOMAIN axes
    <3>1. ASSUME NEW x \in original' PROVE x \in Wanted
      <4>1. PICK e \in Base : x \in IF fitting(e) = {} THEN {e} ELSE fitting(e)  BY <1>1, <3>1
      <4>2. CASE fitting(e) = {}  BY <2>2, <2>3, <4>1, <4>2
      <4>3. CASE fitting(e) # {}
        <5>1. PICK s \in Values(axes, "stack") : x = Copied([stack |-> s], e)  BY <4>1, <4>3
        <5>2. StackFits(x)  BY <4>1, <4>3
        <5>3. x \in Combinations(Meant(axes))  BY <1>1, <2>4, <5>1, WithStack
        <5> QED  BY <2>2, <5>2, <5>3
      <4> QED  BY <4>2, <4>3
    <3>2. ASSUME NEW x \in Wanted PROVE x \in original'
      <4>1. CASE x \in Combinations(Meant(axes)) /\ StackFits(x)
        <5>1. PICK e \in Base : \E s \in Values(axes, "stack") : x = Copied([stack |-> s], e)
            BY <1>1, <2>4, <4>1, WithStack
        <5>2. x \in fitting(e)  BY <4>1, <5>1
        <5> QED  BY <1>1, <5>2
      <4>2. CASE x \in Base /\ fitting(x) = {}  BY <1>1, <4>2
      <4> QED  BY <2>2, <2>3, <4>1, <4>2
    <3> QED  BY <3>1, <3>2
  <2>5. CASE "stack" \notin DOMAIN axes
    <3>1. Values(axes, "stack") = {} /\ \A e : fitting(e) = {}  BY <2>5 DEF Values
    <3>2. Meant(Without(axes, "stack")) = Meant(axes)  BY <2>5 DEF Meant, Without
    <3>3. original' = Base  BY <1>1, <3>1
    <3> QED  BY <2>1, <2>2, <3>1, <3>2, <3>3
  <2> QED  BY <2>4, <2>5
<1> QED  BY <1>2, <1>3

LEMMA ExcludeKept ==
    ASSUME IInv, Exclude PROVE original' = Kept
<1>1. /\ matrix \in Matrices /\ AllAccurate
      /\ original' = {e \in Wanted : \A i \in 1 .. Len(matrix.exclude) :
                                         ~Excluded(e, matrix.exclude[i])}
    BY DEF Exclude, IInv
<1>2. ASSUME NEW i \in 1 .. Len(matrix.exclude), NEW k \in DOMAIN matrix.exclude[i]
      PROVE  Normal(k, matrix.exclude[i][k]) = Exact(k, matrix.exclude[i][k])
  <2> DEFINE x == matrix.exclude[i]
  <2>1. WellFormed(Listed(x)) /\ Accurate(Listed(x))
      BY <1>1, ExpandAssumption DEF AllAccurate
  <2>2. k \in DOMAIN Listed(x) /\ x[k] \in Listed(x)[k]  BY DEF Listed
  <2> QED  BY <2>1, <2>2, NormalIsExact
<1>3. \A e : \A i \in 1 .. Len(matrix.exclude) :
          ~Excluded(e, matrix.exclude[i]) <=>
              \E k \in DOMAIN matrix.exclude[i] :
                  k \in DOMAIN e => e[k] # Exact(k, matrix.exclude[i][k])
    BY <1>2 DEF Excluded
<1> QED  BY <1>1, <1>3 DEF Kept

(* What is combined are entries.                                           *)
LEMMA CombinationsEntries ==
    ASSUME NEW axes, DOMAIN axes \subseteq Axes
    PROVE  \A e \in Combinations(axes) : IsEntry(e) /\ DOMAIN e = DOMAIN axes
<1> SUFFICES ASSUME NEW e \in Combinations(axes)
             PROVE  IsEntry(e) /\ DOMAIN e = DOMAIN axes
    OBVIOUS
<1>1. e = [k \in DOMAIN axes |-> e[k]]  BY CombinationsAre
<1>2. DOMAIN e = DOMAIN axes  BY <1>1
<1> QED  BY <1>1, <1>2 DEF IsEntry

LEMMA KeptEntries ==
    ASSUME matrix \in Matrices PROVE \A e \in Kept : IsEntry(e)
<1> DEFINE axes == matrix.axes
<1>1. DOMAIN axes \subseteq Axes  BY ExpandAssumption DEF WellFormed
<1>2. /\ DOMAIN Meant(axes) \subseteq Axes
      /\ DOMAIN Meant(Without(axes, "stack")) \subseteq Axes
    BY <1>1 DEF Meant, Without
<1> QED  BY <1>2, CombinationsEntries DEF Kept, Wanted

LEMMA StartEntries ==
    ASSUME matrix \in Matrices PROVE \A e \in Start : IsEntry(e)
<1> SUFFICES ASSUME NEW e \in Start PROVE IsEntry(e)  OBVIOUS
<1>1. CASE e \in Kept  BY <1>1, KeptEntries
<1>2. CASE e \notin Kept
  <2>1. PICK w \in Kept : e \in {Copied([mtu |-> v], w) : v \in MTUs(w)}  BY <1>2 DEF Start
  <2>2. \A v : IsEntry([mtu |-> v])  BY DEF IsEntry, Axes
  <2>3. PICK v \in MTUs(w) : e = Copied([mtu |-> v], w)  BY <2>1
  <2>4. IsEntry(w) /\ IsEntry([mtu |-> v])  BY <2>2, KeptEntries
  <2> QED  BY <2>3, <2>4, CopiedIs
<1> QED  BY <1>1, <1>2

LEMMA ChoicesEntries ==
    ASSUME matrix \in Matrices, NEW i \in 1 .. Len(matrix.include)
    PROVE  \A o \in Choices(i) : IsEntry(o)
<1>1. DOMAIN Meant(matrix.include[i].values) \subseteq Axes
    BY ExpandAssumption DEF WellFormed, Meant
<1> QED  BY <1>1, CombinationsEntries DEF Choices
-----------------------------------------------------------------------------
(* What an include selects, and the MTUs.                                  *)

LEMMA MatchesSelects ==
    ASSUME matrix \in Matrices, AllAccurate, NEW i \in 1 .. Len(matrix.include)
    PROVE  /\ \A e : Matches(e, matrix.include[i]) <=> Selects(matrix.include[i], e)
           /\ Combinations(NormalAxes(matrix.include[i].values)) = Choices(i)
<1>1. /\ NormalAxes(matrix.include[i].filter) = Meant(matrix.include[i].filter)
      /\ NormalAxes(matrix.include[i].values) = Meant(matrix.include[i].values)
    BY NormalIsExact, ExpandAssumption DEF AllAccurate
<1> QED  BY <1>1 DEF Matches, Selects, Choices

LEMMA CompleteStart ==
    ASSUME IInv, CompleteMTU PROVE original' = Start
<1> DEFINE includes == 1 .. Len(matrix.include)
           inc(i) == matrix.include[i]
<1>1. /\ matrix \in Matrices /\ AllAccurate
      /\ original' = UNION {IF "mtu" \in DOMAIN e \/ Completions(e) = {} THEN {e}
                            ELSE Completions(e) : e \in Kept}
    BY DEF CompleteMTU, IInv
<1>2. ASSUME NEW e PROVE Completions(e) = {Copied([mtu |-> v], e) : v \in MTUs(e)}
  <2> DEFINE ones == {j \in includes : DOMAIN inc(j).values = {"mtu"} /\ Matches(e, inc(j))}
  <2>1. UNION {inc(i).values.mtu : i \in ones} = MTUs(e)
    <3>1. ASSUME NEW v PROVE v \in MTUs(e) <=> \E i \in ones : v \in inc(i).values.mtu
      <4>1. \A i \in includes : DOMAIN inc(i).values = {"mtu"} =>
                Values(inc(i).values, "mtu") = inc(i).values.mtu
          BY DEF Values
      <4>2. \A i \in includes : Matches(e, inc(i)) <=> Selects(inc(i), e)
          BY <1>1, MatchesSelects
      <4> QED  BY <4>1, <4>2 DEF MTUs
    <3> QED  BY <3>1
  <2> QED  BY <2>1 DEF Completions
<1>3. \A e : Completions(e) = {} <=> MTUs(e) = {}  BY <1>2
<1>4. ASSUME NEW x \in original' PROVE x \in Start
  <2>1. PICK e \in Kept : x \in IF "mtu" \in DOMAIN e \/ Completions(e) = {} THEN {e}
                                ELSE Completions(e)
      BY <1>1, <1>4
  <2> QED  BY <1>2, <1>3, <2>1 DEF Start
<1>5. ASSUME NEW x \in Start PROVE x \in original'
  <2>1. CASE x \in Kept /\ ("mtu" \in DOMAIN x \/ MTUs(x) = {})  BY <1>1, <1>3, <2>1
  <2>2. CASE \E e \in Kept : /\ "mtu" \notin DOMAIN e
                            /\ x \in {Copied([mtu |-> v], e) : v \in MTUs(e)}
    <3>1. PICK e \in Kept : /\ "mtu" \notin DOMAIN e
                            /\ x \in {Copied([mtu |-> v], e) : v \in MTUs(e)}
        BY <2>2
    <3>2. x \in Completions(e) /\ Completions(e) # {}  BY <1>2, <3>1
    <3> QED  BY <1>1, <3>1, <3>2
  <2> QED  BY <1>5, <2>1, <2>2 DEF Start
<1> QED  BY <1>4, <1>5
-----------------------------------------------------------------------------
(* Chains of includes.                                                     *)

LEMMA Latest ==
    ASSUME NEW n \in Nat, NEW S, S \subseteq 1 .. n, S # {}
    PROVE  \E i \in S : \A j \in S : j <= i
<1> DEFINE R == OpToRel(<, Nat)
           T == {n - s : s \in S}
<1>1. T \subseteq Nat /\ T # {}
  <2>1. \A s \in S : n - s \in Nat  OBVIOUS
  <2> QED  BY <2>1
<1>2. PICK x \in T : \A y \in T : ~(<<y, x>> \in R)
  <2>1. IsWellFoundedOn(R, Nat)  BY NatLessThanWellFounded
  <2> HIDE DEF R, T
  <2> QED  BY <1>1, <2>1, WFMin
<1>3. PICK i \in S : x = n - i  BY <1>2
<1>4. ASSUME NEW j \in S PROVE j <= i
  <2>1. n - j \in T /\ n - j \in Nat /\ x \in Nat  BY <1>1
  <2>2. ~(n - j < x)  BY <1>2, <2>1 DEF OpToRel
  <2> QED  BY <1>3, <2>1, <2>2
<1> QED  BY <1>4

(* Nothing has changed what has come through no include.                   *)
LEMMA MadeEmpty ==
    ASSUME NEW e, IsEntry(e), NEW path, DOMAIN path = {} PROVE Made(e, path) = e
<1>1. Made(e, path) = [k \in DOMAIN e |-> e[k]]  BY DEF Made, Setting
<1> QED  BY <1>1 DEF IsEntry

LEMMA BeforeIs ==
    ASSUME NEW path, NEW i
    PROVE  /\ DOMAIN Before(path, i) = {s \in DOMAIN path : s < i}
           /\ \A j \in DOMAIN Before(path, i) : Before(path, i)[j] = path[j]
BY DEF Before

(* The last include on a path puts its values on top.                      *)
LEMMA MadeLast ==
    ASSUME NEW base, NEW n \in Nat \ {0}, NEW path,
           DOMAIN path \subseteq 1 .. n, n \in DOMAIN path
    PROVE  Made(base, path) = Copied(path[n], Made(base, Before(path, n)))
<1> DEFINE q == Before(path, n)
           x == Made(base, path)
           y == Made(base, q)
           z == Copied(path[n], y)
<1>1. /\ DOMAIN q = DOMAIN path \ {n} /\ \A j \in DOMAIN q : q[j] = path[j]
      /\ DOMAIN q \subseteq 1 .. n
  <2>1. \A s \in DOMAIN path : s < n <=> s # n  OBVIOUS
  <2> HIDE DEF q
  <2>2. /\ DOMAIN q = {s \in DOMAIN path : s < n}
        /\ \A j \in DOMAIN q : q[j] = path[j]
      BY BeforeIs DEF q
  <2> QED  BY <2>1, <2>2
<1> HIDE DEF q
<1>2. /\ DOMAIN x = DOMAIN base \cup UNION {DOMAIN path[i] : i \in DOMAIN path}
      /\ DOMAIN y = DOMAIN base \cup UNION {DOMAIN q[i] : i \in DOMAIN q}
      /\ DOMAIN z = DOMAIN path[n] \cup DOMAIN y
      /\ x = [k \in DOMAIN x |-> x[k]] /\ z = [k \in DOMAIN z |-> z[k]]
    BY DEF Made, Copied
<1>3. DOMAIN x = DOMAIN z
  <2>1. UNION {DOMAIN path[i] : i \in DOMAIN path} =
            DOMAIN path[n] \cup UNION {DOMAIN q[i] : i \in DOMAIN q}
      BY <1>1
  <2> QED  BY <1>2, <2>1
<1>4. ASSUME NEW k \in DOMAIN x PROVE x[k] = z[k]
  <2>1. CASE k \in DOMAIN path[n]
    <3>1. n \in Setting(path, k) /\ \A j \in Setting(path, k) : j <= n /\ j \in Nat
        BY <2>1 DEF Setting
    <3>2. n = CHOOSE i \in Setting(path, k) : \A j \in Setting(path, k) : j <= i
      <4>1. \A i \in Setting(path, k) : (\A j \in Setting(path, k) : j <= i) => i = n
          BY <3>1
      <4>2. \A j \in Setting(path, k) : j <= n  BY <3>1
      <4> QED  BY <3>1, <4>1, <4>2, Zenon
    <3>3. x[k] = path[n][k]  BY <3>1, <3>2 DEF Made
    <3> QED  BY <2>1, <3>3 DEF Copied
  <2>2. CASE k \notin DOMAIN path[n]
    <3>1. k \in DOMAIN y /\ z[k] = y[k]  BY <1>2, <1>3, <2>2 DEF Copied
    <3>2. Setting(path, k) = Setting(q, k)  BY <1>1, <2>2 DEF Setting
    <3>3. CASE Setting(q, k) = {}  BY <3>1, <3>2, <3>3 DEF Made
    <3>4. CASE Setting(q, k) # {}
      <4> DEFINE i == CHOOSE j \in Setting(q, k) : \A l \in Setting(q, k) : l <= j
      <4>1. Setting(q, k) \subseteq 1 .. n /\ Setting(q, k) \subseteq DOMAIN q
          BY <1>1 DEF Setting
      <4>2. i \in Setting(q, k)  BY <3>4, <4>1, Latest
      <4>3. q[i] = path[i]  BY <1>1, <4>1, <4>2
      <4>4. x[k] = path[i][k]  BY <3>2, <3>4 DEF Made
      <4>5. y[k] = q[i][k]  BY <3>1, <3>4 DEF Made
      <4> QED  BY <3>1, <4>3, <4>4, <4>5
    <3> QED  BY <3>3, <3>4
  <2> QED  BY <2>1, <2>2
<1> HIDE DEF x, z
<1>5. x = z  BY <1>2, <1>3, <1>4
<1> QED  BY <1>5 DEF x, z, y, q

LEMMA PathsAre ==
    ASSUME NEW n \in Nat, NEW path
    PROVE  /\ path \in Paths(n) =>
                  DOMAIN path \subseteq 1 .. n /\ path = [i \in DOMAIN path |-> path[i]]
           /\ /\ DOMAIN path \subseteq 1 .. n /\ path = [i \in DOMAIN path |-> path[i]]
              /\ \A i \in DOMAIN path : path[i] \in Choices(i)
              => path \in Paths(n)
<1> DEFINE all(S) == UNION {Choices(i) : i \in S}
<1>1. ASSUME path \in Paths(n)
      PROVE  DOMAIN path \subseteq 1 .. n /\ path = [i \in DOMAIN path |-> path[i]]
  <2>1. PICK S \in SUBSET (1 .. n) : path \in [S -> all(S)]  BY <1>1 DEF Paths
  <2> HIDE DEF all
  <2> QED  BY <2>1
<1>2. ASSUME DOMAIN path \subseteq 1 .. n, path = [i \in DOMAIN path |-> path[i]],
             \A i \in DOMAIN path : path[i] \in Choices(i)
      PROVE  path \in Paths(n)
  <2>1. \A i \in DOMAIN path : path[i] \in all(DOMAIN path)  BY <1>2
  <2>2. path \in [DOMAIN path -> all(DOMAIN path)]
    <3> HIDE DEF all
    <3> QED  BY <1>2, <2>1
  <2>3. DOMAIN path \in SUBSET (1 .. n)  BY <1>2
  <2> QED  BY <2>2, <2>3 DEF Paths
<1> QED  BY <1>1, <1>2

LEMMA OriginsAre ==
    ASSUME NEW n \in Nat, NEW origin
    PROVE  origin \in Origins(n) <=>
               \/ \E e \in Start : origin = <<0, e>>
               \/ \E i \in 1 .. n : \E o \in Choices(i) : Alone(i, o) /\ origin = <<i, o>>
<1> DEFINE from(i) == {i} \X {o \in Choices(i) : Alone(i, o)}
<1>1. origin \in {0} \X Start <=> \E e \in Start : origin = <<0, e>>
    OBVIOUS
<1>2. \A i : origin \in from(i) <=> \E o \in Choices(i) : Alone(i, o) /\ origin = <<i, o>>
    OBVIOUS
<1>3. origin \in Origins(n) <=> origin \in {0} \X Start \/ \E i \in 1 .. n : origin \in from(i)
    BY DEF Origins
<1> HIDE DEF from
<1> QED  BY <1>1, <1>2, <1>3

LEMMA DueIs ==
    ASSUME NEW n \in Nat, NEW x
    PROVE  x \in Due(n) <=> \E origin \in Origins(n), path \in Paths(n) :
               Follows(origin, path) /\ x = Made(origin[2], path)
BY DEF Due

LEMMA OriginEntries ==
    ASSUME matrix \in Matrices, NEW n \in 0 .. Len(matrix.include), NEW origin \in Origins(n)
    PROVE  /\ IsEntry(origin[2]) /\ origin[1] \in 0 .. n
           /\ origin[1] = 0 => origin[2] \in Start
<1>1. n \in Nat /\ Len(matrix.include) \in Nat  BY ExpandAssumption
<1>2. \/ \E e \in Start : origin = <<0, e>>
      \/ \E i \in 1 .. n : \E o \in Choices(i) : Alone(i, o) /\ origin = <<i, o>>
    BY <1>1, OriginsAre
<1>3. CASE \E e \in Start : origin = <<0, e>>  BY <1>1, <1>3, StartEntries
<1>4. CASE \E i \in 1 .. n : \E o \in Choices(i) : Alone(i, o) /\ origin = <<i, o>>
  <2>0. PICK i \in 1 .. n : \E o \in Choices(i) : origin = <<i, o>>  BY <1>4
  <2>1. PICK o \in Choices(i) : origin = <<i, o>>  BY <2>0
  <2>2. i \in 1 .. Len(matrix.include)  BY <1>1
  <2>3. IsEntry(o)  BY <2>1, <2>2, ChoicesEntries
  <2> QED  BY <1>1, <2>1, <2>3
<1> QED  BY <1>2, <1>3, <1>4

(* Before any include there are the entries of the axes.                   *)
LEMMA DueStart ==
    ASSUME matrix \in Matrices PROVE Due(0) = Start
<1>0. 0 \in 0 .. Len(matrix.include) /\ 0 \in Nat /\ 1 .. 0 = {}  BY ExpandAssumption
<1>1. ASSUME NEW x \in Due(0) PROVE x \in Start
  <2>1. PICK origin \in Origins(0), path \in Paths(0) : x = Made(origin[2], path)
      BY <1>0, <1>1, DueIs
  <2>2. DOMAIN path = {}  BY <1>0, <2>1, PathsAre
  <2>3. IsEntry(origin[2]) /\ origin[2] \in Start
    <3>1. IsEntry(origin[2]) /\ origin[1] \in 0 .. 0
          /\ (origin[1] = 0 => origin[2] \in Start)
        BY <1>0, <2>1, OriginEntries
    <3> QED  BY <3>1
  <2> QED  BY <2>1, <2>2, <2>3, MadeEmpty
<1>2. ASSUME NEW x \in Start PROVE x \in Due(0)
  <2> DEFINE path == [i \in {} |-> x]
  <2>1. DOMAIN path = {} /\ path = [i \in DOMAIN path |-> path[i]]  OBVIOUS
  <2> HIDE DEF path
  <2>2. path \in Paths(0)  BY <1>0, <2>1, PathsAre
  <2>3. <<0, x>> \in Origins(0)  BY <1>0, <1>2, OriginsAre
  <2>4. Made(x, path) = x  BY <1>2, <2>1, StartEntries, MadeEmpty
  <2>5. Follows(<<0, x>>, path)  BY <2>1 DEF Follows
  <2> QED  BY <1>0, <2>2, <2>3, <2>4, <2>5, DueIs
<1> QED  BY <1>1, <1>2

(* What a path has before one of its includes follows as well.             *)
LEMMA FollowsBefore ==
    ASSUME matrix \in Matrices, NEW n \in 1 .. Len(matrix.include),
           NEW origin, NEW path \in Paths(n), Follows(origin, path), n \in DOMAIN path
    PROVE  /\ Before(path, n) \in Paths(n - 1) /\ Follows(origin, Before(path, n))
<1> DEFINE q == Before(path, n)
<1>1. n \in Nat /\ n - 1 \in Nat /\ Len(matrix.include) \in Nat  BY ExpandAssumption
<1>2. /\ DOMAIN path \subseteq 1 .. n
      /\ DOMAIN q = {s \in DOMAIN path : s < n} /\ q = [j \in DOMAIN q |-> q[j]]
      /\ \A j \in DOMAIN q : q[j] = path[j]
    BY <1>1, PathsAre DEF Before
<1>3. DOMAIN q \subseteq 1 .. n - 1  BY <1>1, <1>2
<1>4. ASSUME NEW i \in DOMAIN q PROVE Before(q, i) = Before(path, i)
  <2>1. {s \in DOMAIN q : s < i} = {s \in DOMAIN path : s < i}  BY <1>1, <1>2
  <2> HIDE DEF q
  <2>2. \A j \in {s \in DOMAIN q : s < i} : q[j] = path[j]  BY <1>2
  <2> QED  BY <2>1, <2>2 DEF Before
<1> HIDE DEF q
<1>5. \A i \in DOMAIN q : q[i] \in Choices(i)  BY <1>2 DEF Follows
<1>6. q \in Paths(n - 1)  BY <1>1, <1>2, <1>3, <1>5, PathsAre
<1>7. Follows(origin, q)
  <2> SUFFICES ASSUME NEW i \in DOMAIN q
               PROVE  LET included == matrix.include[i]
                          source == Made(origin[2], Before(q, i)) IN
                      /\ i > origin[1] /\ q[i] \in Choices(i)
                      /\ Selects(included, source) /\ StackFits(Copied(q[i], source))
                      /\ ~included.filtered => origin[1] = 0 /\ \A j \in DOMAIN q : j >= i
      BY DEF Follows
  <2>1. i \in DOMAIN path /\ q[i] = path[i] /\ Before(q, i) = Before(path, i)
        /\ \A j \in DOMAIN q : j \in DOMAIN path
      BY <1>2, <1>4
  <2> QED  BY <2>1 DEF Follows
<1> QED  BY <1>6, <1>7 DEF q

(* A path goes on with an include that selects what it has made.           *)
LEMMA FollowsMore ==
    ASSUME matrix \in Matrices, NEW n \in 1 .. Len(matrix.include),
           NEW origin \in Origins(n - 1), NEW q \in Paths(n - 1), Follows(origin, q),
           NEW o \in Choices(n), NEW source, source = Made(origin[2], q),
           Selects(matrix.include[n], source), StackFits(Copied(o, source)),
           ~matrix.include[n].filtered => origin[1] = 0 /\ DOMAIN q = {}
    PROVE  Copied(o, source) \in Due(n)
<1> DEFINE path == [i \in DOMAIN q \cup {n} |-> IF i = n THEN o ELSE q[i]]
<1>1. n \in Nat \ {0} /\ n - 1 \in Nat /\ Len(matrix.include) \in Nat
      /\ n - 1 \in 0 .. Len(matrix.include)
    BY ExpandAssumption
<1>2. DOMAIN q \subseteq 1 .. n - 1 /\ q = [i \in DOMAIN q |-> q[i]]  BY <1>1, PathsAre
<1>3. /\ DOMAIN path = DOMAIN q \cup {n} /\ path[n] = o
      /\ path = [i \in DOMAIN path |-> path[i]]
      /\ \A i \in DOMAIN q : path[i] = q[i] /\ i < n /\ i \in Nat
    BY <1>1, <1>2
<1> HIDE DEF path
<1>4. ASSUME NEW i \in DOMAIN q PROVE Before(path, i) = Before(q, i)
  <2>1. {s \in DOMAIN path : s < i} = {s \in DOMAIN q : s < i}  BY <1>1, <1>3
  <2>2. \A j \in {s \in DOMAIN q : s < i} : q[j] = path[j]  BY <1>3
  <2> QED  BY <2>1, <2>2 DEF Before
<1>5. Before(path, n) = q
  <2>1. {s \in DOMAIN path : s < n} = DOMAIN q
    <3>1. ~(n < n) /\ \A i \in DOMAIN q : i < n  BY <1>1, <1>3
    <3>2. DOMAIN path = DOMAIN q \cup {n}  BY <1>3
    <3> QED  BY <3>1, <3>2, Zenon
  <2>2. Before(path, n) = [j \in DOMAIN q |-> path[j]]  BY <2>1 DEF Before
  <2>3. [j \in DOMAIN q |-> path[j]] = [j \in DOMAIN q |-> q[j]]  BY <1>3
  <2> QED  BY <1>2, <2>2, <2>3
<1>6. DOMAIN path \subseteq 1 .. n /\ n \in DOMAIN path  BY <1>1, <1>2, <1>3
<1>7. \A i \in DOMAIN path : path[i] \in Choices(i)  BY <1>3 DEF Follows
<1>8. path \in Paths(n)  BY <1>1, <1>3, <1>6, <1>7, PathsAre
<1>9. origin[1] \in 0 .. n - 1  BY <1>1, OriginEntries
<1>10. Follows(origin, path)
  <2> SUFFICES ASSUME NEW i \in DOMAIN path
               PROVE  LET included == matrix.include[i]
                          from == Made(origin[2], Before(path, i)) IN
                      /\ i > origin[1] /\ path[i] \in Choices(i)
                      /\ Selects(included, from) /\ StackFits(Copied(path[i], from))
                      /\ ~included.filtered => origin[1] = 0 /\ \A j \in DOMAIN path : j >= i
      BY DEF Follows
  <2>1. CASE i = n
    <3>1. n > origin[1]  BY <1>1, <1>9
    <3>2. ~matrix.include[n].filtered => origin[1] = 0 /\ \A j \in DOMAIN path : j >= n
        BY <1>1, <1>3
    <3> QED  BY <1>3, <1>5, <1>7, <2>1, <3>1, <3>2
  <2>2. CASE i \in DOMAIN q
    <3>1. path[i] = q[i] /\ Before(path, i) = Before(q, i) /\ i < n /\ i \in Nat
        BY <1>3, <1>4, <2>2
    <3>2. /\ i > origin[1] /\ q[i] \in Choices(i)
          /\ Selects(matrix.include[i], Made(origin[2], Before(q, i)))
          /\ StackFits(Copied(q[i], Made(origin[2], Before(q, i))))
          /\ ~matrix.include[i].filtered => origin[1] = 0 /\ \A j \in DOMAIN q : j >= i
        BY <2>2 DEF Follows
    <3>3. (\A j \in DOMAIN q : j >= i) => \A j \in DOMAIN path : j >= i
        BY <1>1, <1>3, <3>1
    <3> QED  BY <3>1, <3>2, <3>3
  <2> QED  BY <1>3, <2>1, <2>2
<1>11. origin \in Origins(n)
  <2>1. \A i \in 1 .. n - 1 : i \in 1 .. n  BY <1>1
  <2> QED  BY <1>1, <2>1, OriginsAre
<1>12. Made(origin[2], path) = Copied(o, source)  BY <1>1, <1>3, <1>5, <1>6, MadeLast
<1> QED  BY <1>1, <1>8, <1>10, <1>11, <1>12, DueIs

(* The entries that one choice of an include adds.                         *)
Sees(i) == IF matrix.include[i].filtered THEN Due(i - 1) ELSE Start
Replaces(i, o) ==
    {c \in {Copied(o, e) : e \in {s \in Sees(i) : Selects(matrix.include[i], s)}} : StackFits(c)}
Adds(i, o) ==
    IF Replaces(i, o) = {} /\ ~matrix.include[i].filtered THEN {o} ELSE Replaces(i, o)

LEMMA ReplacesNone ==
    ASSUME NEW i, NEW o
    PROVE  Replaces(i, o) = {} /\ ~matrix.include[i].filtered <=> Alone(i, o)
BY DEF Replaces, Sees, Alone, Selects

LEMMA DueAdds ==
    ASSUME matrix \in Matrices, NEW n \in 1 .. Len(matrix.include), NEW x \in Due(n)
    PROVE  x \in Due(n - 1) \/ \E o \in Choices(n) : x \in Adds(n, o)
<1>1. n \in Nat \ {0} /\ n - 1 \in Nat /\ n \in 0 .. Len(matrix.include)  BY ExpandAssumption
<1>2. PICK origin \in Origins(n), path \in Paths(n) :
          Follows(origin, path) /\ x = Made(origin[2], path)
    BY <1>1, DueIs
<1>3. /\ DOMAIN path \subseteq 1 .. n /\ path = [i \in DOMAIN path |-> path[i]]
      /\ IsEntry(origin[2]) /\ origin[1] \in 0 .. n
      /\ origin[1] = 0 => origin[2] \in Start
    BY <1>1, <1>2, PathsAre, OriginEntries
<1>4. ASSUME origin[1] # n PROVE origin \in Origins(n - 1)
  <2>1. \A i \in 1 .. n : i # n => i \in 1 .. n - 1  BY <1>1
  <2> QED  BY <1>1, <1>2, <1>4, <2>1, OriginsAre
<1>5. CASE n \in DOMAIN path
  <2> DEFINE q == Before(path, n)
             source == Made(origin[2], q)
             o == path[n]
  <2>1. q \in Paths(n - 1) /\ Follows(origin, q)  BY <1>2, <1>5, FollowsBefore
  <2>2. /\ n > origin[1] /\ o \in Choices(n)
        /\ Selects(matrix.include[n], source) /\ StackFits(Copied(o, source))
        /\ ~matrix.include[n].filtered => origin[1] = 0 /\ \A j \in DOMAIN path : j >= n
      BY <1>2, <1>5 DEF Follows
  <2>3. origin \in Origins(n - 1)  BY <1>1, <1>3, <1>4, <2>2
  <2>4. x = Copied(o, source)  BY <1>1, <1>2, <1>3, <1>5, MadeLast
  <2>5. source \in Sees(n)
    <3>1. CASE matrix.include[n].filtered
        BY <1>1, <2>1, <2>3, <3>1, DueIs DEF Sees
    <3>2. CASE ~matrix.include[n].filtered
      <4>1. DOMAIN q = {}
        <5>1. \A j \in DOMAIN path : ~(j < n)  BY <1>1, <1>3, <2>2, <3>2
        <5> QED  BY <5>1, BeforeIs
      <4>2. source = origin[2]  BY <1>3, <4>1, MadeEmpty
      <4> QED  BY <1>3, <2>2, <3>2, <4>2 DEF Sees
    <3> QED  BY <3>1, <3>2
  <2> HIDE DEF source, o
  <2>6. x \in Replaces(n, o)  BY <2>2, <2>4, <2>5 DEF Replaces
  <2> QED  BY <2>2, <2>6 DEF Adds
<1>6. CASE n \notin DOMAIN path /\ origin[1] = n
  <2>1. PICK o \in Choices(n) : Alone(n, o) /\ origin = <<n, o>>
    <3>1. \/ \E e \in Start : origin = <<0, e>>
          \/ \E i \in 1 .. n : \E o \in Choices(i) : Alone(i, o) /\ origin = <<i, o>>
        BY <1>1, <1>2, OriginsAre
    <3>2. ~\E e \in Start : origin = <<0, e>>  BY <1>1, <1>6
    <3>3. PICK i \in 1 .. n : \E o \in Choices(i) : Alone(i, o) /\ origin = <<i, o>>
        BY <3>1, <3>2
    <3>4. i = n  BY <1>6, <3>3
    <3> QED  BY <3>3, <3>4
  <2>2. DOMAIN path = {}
    <3>1. \A i \in DOMAIN path : i > n  BY <1>2, <1>6 DEF Follows
    <3>2. \A i \in 1 .. n : ~(i > n)  BY <1>1
    <3>3. DOMAIN path \subseteq 1 .. n  BY <1>3
    <3> QED  BY <3>1, <3>2, <3>3, Zenon
  <2>3. x = o  BY <1>2, <1>3, <2>1, <2>2, MadeEmpty
  <2> QED  BY <2>1, <2>3, ReplacesNone DEF Adds
<1>7. CASE n \notin DOMAIN path /\ origin[1] # n
  <2>1. DOMAIN path \subseteq 1 .. n - 1
    <3>1. \A i \in 1 .. n : i # n => i \in 1 .. n - 1  BY <1>1
    <3> QED  BY <1>3, <1>7, <3>1
  <2>2. \A i \in DOMAIN path : path[i] \in Choices(i)  BY <1>2 DEF Follows
  <2>3. path \in Paths(n - 1)  BY <1>1, <1>3, <2>1, <2>2, PathsAre
  <2> QED  BY <1>1, <1>2, <1>4, <1>7, <2>3, DueIs
<1> QED  BY <1>5, <1>6, <1>7

LEMMA AddsDue ==
    ASSUME matrix \in Matrices, NEW n \in 1 .. Len(matrix.include),
           NEW o \in Choices(n), NEW x \in Adds(n, o)
    PROVE  x \in Due(n)
<1>1. /\ n \in Nat \ {0} /\ n - 1 \in Nat /\ n - 1 \in 0 .. Len(matrix.include)
      /\ Len(matrix.include) \in Nat
    BY ExpandAssumption
<1> DEFINE empty == [i \in {} |-> x]
<1>2. DOMAIN empty = {} /\ empty = [i \in DOMAIN empty |-> empty[i]]  OBVIOUS
<1> HIDE DEF empty
<1>3. empty \in Paths(n) /\ empty \in Paths(n - 1) /\ \A origin : Follows(origin, empty)
  <2>1. \A origin : Follows(origin, empty)  BY <1>2 DEF Follows
  <2> QED  BY <1>1, <1>2, <2>1, PathsAre
<1>4. CASE Alone(n, o)
  <2>1. x = o /\ IsEntry(o)  BY <1>4, ReplacesNone, ChoicesEntries DEF Adds
  <2>2. Made(o, empty) = o  BY <1>2, <2>1, MadeEmpty
  <2>3. <<n, o>> \in Origins(n)
    <3>1. n \in 1 .. n  BY <1>1
    <3> QED  BY <1>1, <1>4, <3>1, OriginsAre
  <2> QED  BY <1>1, <1>3, <2>1, <2>2, <2>3, DueIs
<1>5. CASE ~Alone(n, o)
  <2>1. x \in Replaces(n, o)  BY <1>5, ReplacesNone DEF Adds
  <2>2. PICK source \in Sees(n) :
            Selects(matrix.include[n], source) /\ x = Copied(o, source) /\ StackFits(x)
      BY <2>1 DEF Replaces
  <2>3. CASE matrix.include[n].filtered
    <3>1. source \in Due(n - 1)  BY <2>2, <2>3 DEF Sees
    <3>2. PICK origin \in Origins(n - 1), q \in Paths(n - 1) :
              Follows(origin, q) /\ source = Made(origin[2], q)
        BY <1>1, <3>1, DueIs
    <3> QED  BY <2>2, <2>3, <3>2, FollowsMore
  <2>4. CASE ~matrix.include[n].filtered
    <3>1. source \in Start  BY <2>2, <2>4 DEF Sees
    <3>2. <<0, source>> \in Origins(n - 1)  BY <1>1, <3>1, OriginsAre
    <3>3. Made(source, empty) = source  BY <1>2, <3>1, StartEntries, MadeEmpty
    <3> DEFINE origin == <<0, source>>
    <3>4. origin[1] = 0 /\ origin[2] = source /\ origin \in Origins(n - 1)  BY <3>2
    <3> HIDE DEF origin
    <3> QED  BY <1>2, <1>3, <2>2, <3>3, <3>4, FollowsMore
  <2> QED  BY <2>3, <2>4
<1> QED  BY <1>4, <1>5

LEMMA DueNext ==
    ASSUME matrix \in Matrices, NEW n \in 1 .. Len(matrix.include)
    PROVE  Due(n) = Due(n - 1) \cup UNION {Adds(n, o) : o \in Choices(n)}
<1>1. n \in Nat /\ n - 1 \in Nat /\ \A i \in 1 .. n - 1 : i \in 1 .. n  BY ExpandAssumption
<1>2. ASSUME NEW x \in Due(n - 1) PROVE x \in Due(n)
  <2>1. PICK origin \in Origins(n - 1), path \in Paths(n - 1) :
            Follows(origin, path) /\ x = Made(origin[2], path)
      BY <1>1, DueIs
  <2>2. origin \in Origins(n)  BY <1>1, OriginsAre
  <2>3. \A i \in DOMAIN path : path[i] \in Choices(i)  BY <2>1 DEF Follows
  <2>4. path \in Paths(n)  BY <1>1, <2>3, PathsAre
  <2> QED  BY <1>1, <2>1, <2>2, <2>4, DueIs
<1> QED  BY <1>2, DueAdds, AddsDue
-----------------------------------------------------------------------------
(* The defaults and the cases.                                             *)

LEMMA UsualIs ==
    ASSUME matrix \in Matrices
    PROVE  /\ Usual = Defaults /\ {"ip", "network"} \subseteq DOMAIN Usual
           /\ DOMAIN Usual \subseteq Axes
           /\ \A k \in DOMAIN Usual : \E v : v \in Usual[k]
<1>1. matrix.type \in {"throughput", "memory"}  BY ExpandAssumption
<1>2. DOMAIN Usual = DOMAIN Defaults
      /\ DOMAIN Usual = {"ip", "network"} \cup {k \in {"direction"} : matrix.type = "throughput"}
    BY <1>1 DEF Usual, Defaults
<1>3. \A k \in DOMAIN Usual : Usual[k] = Defaults[k]
    BY <1>1, <1>2 DEF Usual, Defaults
<1>4. Usual = Defaults  BY <1>2, <1>3 DEF Usual, Defaults
<1>5. \A k \in DOMAIN Usual :
          4 \in Usual[k] \/ "tcp" \in Usual[k] \/ "upload" \in Usual[k]
    BY <1>2 DEF Usual
<1> QED  BY <1>2, <1>4, <1>5 DEF Axes

(* What the code adds to an entry are the defaults under its own values.   *)
LEMMA CompletedIs ==
    ASSUME matrix \in Matrices, NEW e
    PROVE  Completed(e) = {Copied(e, u) : u \in Combinations(Usual)}
<1> DEFINE K == DOMAIN Usual \ DOMAIN e
           open == [k \in K |-> Usual[k]]
<1>1. Completed(e) = {Copied(f, e) : f \in Combinations(open)}  BY UsualIs DEF Completed
<1>2. DOMAIN open = K /\ \A k \in K : open[k] = Usual[k]  OBVIOUS
<1> HIDE DEF open
<1>3. ASSUME NEW f \in Combinations(open)
      PROVE  \E u \in Combinations(Usual) : Copied(f, e) = Copied(e, u)
  <2> DEFINE u == [k \in DOMAIN Usual |-> IF k \in K THEN f[k] ELSE CHOOSE v : v \in Usual[k]]
  <2>1. f = [k \in K |-> f[k]] /\ \A k \in K : f[k] \in Usual[k]  BY <1>2, CombinationsAre
  <2>2. u = [k \in DOMAIN Usual |-> u[k]] /\ \A k \in DOMAIN Usual : u[k] \in Usual[k]
      BY <2>1, UsualIs
  <2>3. DOMAIN u = DOMAIN Usual /\ \A k \in K : u[k] = f[k]  OBVIOUS
  <2> HIDE DEF u
  <2>4. u \in Combinations(Usual)  BY <2>2, CombinationsAre
  <2>5. DOMAIN f = K  BY <2>1
  <2>6. Copied(f, e) = Copied(e, u)  BY <2>3, <2>5 DEF Copied
  <2> QED  BY <2>4, <2>6
<1>4. ASSUME NEW u \in Combinations(Usual)
      PROVE  \E f \in Combinations(open) : Copied(f, e) = Copied(e, u)
  <2> DEFINE f == [k \in K |-> u[k]]
  <2>1. u = [k \in DOMAIN Usual |-> u[k]] /\ \A k \in DOMAIN Usual : u[k] \in Usual[k]
      BY CombinationsAre
  <2>2. f = [k \in K |-> f[k]] /\ \A k \in K : f[k] \in open[k] /\ f[k] = u[k]
      BY <1>2, <2>1
  <2>3. DOMAIN f = K  OBVIOUS
  <2> HIDE DEF f
  <2>4. f \in Combinations(open)  BY <1>2, <2>2, CombinationsAre
  <2>5. DOMAIN u = DOMAIN Usual  BY <2>1
  <2>6. Copied(f, e) = Copied(e, u)  BY <2>2, <2>3, <2>5 DEF Copied
  <2> QED  BY <2>4, <2>6
<1> QED  BY <1>1, <1>3, <1>4

LEMMA StatedIs ==
    ASSUME matrix \in Matrices
    PROVE  UNION {Completed(e) : e \in Due(Len(matrix.include))} = Stated
BY CompletedIs DEF Stated

LEMMA UsualNotEmpty ==
    ASSUME matrix \in Matrices PROVE Combinations(Usual) # {}
<1> DEFINE u == [k \in DOMAIN Usual |-> CHOOSE v : v \in Usual[k]]
<1>1. u = [k \in DOMAIN Usual |-> u[k]] /\ \A k \in DOMAIN Usual : u[k] \in Usual[k]
    BY UsualIs
<1> HIDE DEF u
<1> QED  BY <1>1, CombinationsAre

LEMMA DueEntries ==
    ASSUME matrix \in Matrices, NEW n \in 0 .. Len(matrix.include)
    PROVE  \A x \in Due(n) : IsEntry(x)
<1>1. n \in Nat /\ Len(matrix.include) \in Nat  BY ExpandAssumption
<1> SUFFICES ASSUME NEW x \in Due(n) PROVE IsEntry(x)  OBVIOUS
<1>2. PICK origin \in Origins(n), path \in Paths(n) :
          Follows(origin, path) /\ x = Made(origin[2], path)
    BY <1>1, DueIs
<1>3. IsEntry(origin[2])  BY OriginEntries
<1>4. \A i \in DOMAIN path : DOMAIN path[i] \subseteq Axes
  <2>1. DOMAIN path \subseteq 1 .. n  BY <1>1, PathsAre
  <2>2. \A i \in 1 .. n : i \in 1 .. Len(matrix.include)  BY <1>1
  <2>3. \A i \in DOMAIN path : path[i] \in Choices(i)  BY <1>2 DEF Follows
  <2> QED  BY <2>1, <2>2, <2>3, ChoicesEntries DEF IsEntry
<1>5. x = [k \in DOMAIN x |-> x[k]]
      /\ DOMAIN x = DOMAIN origin[2] \cup UNION {DOMAIN path[i] : i \in DOMAIN path}
    BY <1>2 DEF Made
<1> QED  BY <1>3, <1>4, <1>5 DEF IsEntry

LEMMA StatedEntries ==
    ASSUME matrix \in Matrices
    PROVE  \A e \in Stated : DOMAIN e \subseteq Axes /\ {"ip", "network"} \subseteq DOMAIN e
<1> SUFFICES ASSUME NEW e \in Stated
             PROVE  DOMAIN e \subseteq Axes /\ {"ip", "network"} \subseteq DOMAIN e
    OBVIOUS
<1>1. PICK d \in Due(Len(matrix.include)) : \E u \in Combinations(Usual) : e = Copied(d, u)
    BY DEF Stated
<1>2. PICK u \in Combinations(Usual) : e = Copied(d, u)  BY <1>1
<1>3. Len(matrix.include) \in 0 .. Len(matrix.include)  BY ExpandAssumption
<1>4. DOMAIN d \subseteq Axes  BY <1>3, DueEntries DEF IsEntry
<1>5. DOMAIN u = DOMAIN Usual
  <2>1. u = [k \in DOMAIN Usual |-> u[k]]  BY CombinationsAre
  <2> QED  BY <2>1
<1>6. DOMAIN e = DOMAIN d \cup DOMAIN u  BY <1>2, CopiedIs
<1> QED  BY <1>4, <1>5, <1>6, UsualIs

(* A case means what the entry said that became it.                        *)
LEMMA CaseMeans ==
    ASSUME matrix \in Matrices, NEW e \in Stated, Readable(e) PROVE Means(e, Case(e))
<1> DEFINE c == Case(e)
<1>1. DOMAIN e \subseteq Axes /\ {"ip", "network"} \subseteq DOMAIN e  BY StatedEntries
<1>2. /\ {"implementation", "mtu"} \subseteq DOMAIN e
      /\ "stack" \in DOMAIN e => e.stack[1] = e.implementation
    BY DEF Readable, StackFits
<1>3. Says(e, c)
  <2> SUFFICES ASSUME NEW k \in DOMAIN e
               PROVE  IF k = "stack" THEN c.implementation = e.stack[1] /\ c.stack = e.stack[2]
                      ELSE c[k] = e[k]
      BY DEF Says
  <2>1. CASE k = "stack"  BY <1>2, <2>1 DEF Case
  <2>2. CASE k # "stack"
    <3>1. /\ "environment" \in DOMAIN e => c.environment = e.environment
          /\ c.implementation = e.implementation /\ c.mtu = e.mtu
          /\ c.ip = e.ip /\ c.network = e.network
        BY DEF Case, Environment
    <3>2. /\ "direction" \in DOMAIN e => c.direction = e.direction
          /\ "parallel" \in DOMAIN e => c.parallel = e.parallel
          /\ "bitrate" \in DOMAIN e => c.bitrate = e.bitrate
        BY DEF Case
    <3>3. k \in {"environment", "implementation", "ip", "network", "direction", "mtu",
                 "parallel", "bitrate"}
        BY <1>1, <2>2 DEF Axes
    <3> HIDE DEF c
    <3> QED  BY <2>2, <3>1, <3>2, <3>3
  <2> QED  BY <2>1, <2>2
<1>4. "environment" \notin DOMAIN e => DOMAIN Environments = {c.environment}
  <2> SUFFICES ASSUME "environment" \notin DOMAIN e PROVE DOMAIN Environments = {c.environment}
      OBVIOUS
  <2>1. PICK only : DOMAIN Environments = {only}  BY DEF Readable
  <2>2. c.environment = CHOOSE x \in DOMAIN Environments : TRUE  BY DEF Case, Environment
  <2> HIDE DEF c
  <2> QED  BY <2>1, <2>2
<1>5. /\ c.type = matrix.type
      /\ "stack" \notin DOMAIN e => c.stack = Implementations[c.implementation].stack
      /\ "direction" \notin DOMAIN e => c.direction = ""
      /\ "parallel" \notin DOMAIN e => c.parallel = 1
      /\ "bitrate" \notin DOMAIN e => c.bitrate = 0
    BY DEF Case
<1> HIDE DEF c
<1>6. Means(e, c)  BY <1>2, <1>3, <1>4, <1>5 DEF Means
<1> QED  BY <1>6 DEF c
-----------------------------------------------------------------------------
(* The steps.                                                              *)

(* What a matrix says depends on the matrix alone.                         *)
LEMMA SameMatrix ==
    ASSUME matrix' = matrix
    PROVE  /\ Base' = Base /\ Wanted' = Wanted /\ Kept' = Kept /\ Start' = Start
           /\ \A n : Due(n)' = Due(n)
           /\ Stated' = Stated /\ \A e : Case(e)' = Case(e)
           /\ AllAccurate' <=> AllAccurate
           /\ Refused' <=> Refused
<1>1. Base' = Base /\ Wanted' = Wanted  BY DEF Base, Wanted
<1>2. Kept' = Kept  BY <1>1 DEF Kept
<1>3. \A e : MTUs(e)' = MTUs(e)  BY DEF MTUs
<1>4. Start' = Start  BY <1>2, <1>3 DEF Start
<1>5. \A i : Choices(i)' = Choices(i)  BY DEF Choices
<1>6. \A i, o : Alone(i, o)' <=> Alone(i, o)  BY <1>4 DEF Alone
<1>7. \A n : Origins(n)' = Origins(n)  BY <1>4, <1>5, <1>6 DEF Origins
<1>8. \A n : Paths(n)' = Paths(n)  BY <1>5 DEF Paths
<1>9. \A origin, path : Follows(origin, path)' <=> Follows(origin, path)  BY <1>5 DEF Follows
<1>10. \A n : Due(n)' = Due(n)  BY <1>7, <1>8, <1>9 DEF Due
<1>11. Usual' = Usual  BY DEF Usual
<1>12. Stated' = Stated
  <2> PICK m : m = Len(matrix.include)  OBVIOUS
  <2>1. Stated = UNION {{Copied(e, u) : u \in Combinations(Usual)} : e \in Due(m)}  BY DEF Stated
  <2>2. Stated' = UNION {{Copied(e, u) : u \in Combinations(Usual')} : e \in Due(m)'}
      BY DEF Stated
  <2> QED  BY <1>10, <1>11, <2>1, <2>2
<1>13. \A e : Case(e)' = Case(e)  BY DEF Case
<1>14. AllAccurate' <=> AllAccurate  BY DEF AllAccurate
<1>15. (RefusedKeys' <=> RefusedKeys) /\ (RefusedRates' <=> RefusedRates)
    BY DEF RefusedKeys, RefusedRates, Rates
<1>16. Refused' <=> Refused  BY <1>12, <1>13, <1>15 DEF Refused
<1> QED  BY <1>1, <1>2, <1>4, <1>10, <1>12, <1>13, <1>14, <1>16

LEMMA IncludeDue ==
    ASSUME IInv, Include PROVE expanded' = Due(next)
<1> DEFINE included == matrix.include[next]
           added(o) == LET replaced == Replaced(Sources(included), included, o) IN
               IF replaced = {} /\ ~included.filtered THEN {o} ELSE replaced
<1>1. /\ matrix \in Matrices /\ AllAccurate /\ next \in 1 .. Len(matrix.include)
      /\ original = Start /\ expanded = Due(next - 1)
      /\ expanded' = expanded \cup
             UNION {added(o) : o \in Combinations(NormalAxes(included.values))}
  <2>1. Len(matrix.include) \in Nat  BY ExpandAssumption DEF IInv
  <2> QED  BY <2>1 DEF Include, IInv
<1>2. PICK n \in 1 .. Len(matrix.include) : n = next  BY <1>1
<1>3. \A e : Matches(e, included) <=> Selects(included, e)  BY <1>1, MatchesSelects
<1>4. Combinations(NormalAxes(included.values)) = Choices(n)  BY <1>1, <1>2, MatchesSelects
<1>5. Sources(included) = Sees(n)  BY <1>1, <1>2 DEF Sources, Sees
<1>6. \A o : Replaced(Sources(included), included, o) = Replaces(n, o)
    BY <1>2, <1>3, <1>5 DEF Replaced, Replaces
<1>7. \A o : added(o) = Adds(n, o)  BY <1>2, <1>6 DEF Adds
<1> HIDE DEF added
<1>8. expanded' = Due(n - 1) \cup UNION {Adds(n, o) : o \in Choices(n)}
    BY <1>1, <1>2, <1>4, <1>7
<1> QED  BY <1>1, <1>2, <1>8, DueNext

LEMMA InitInv ==
    ASSUME Init PROVE IInv
<1>1. Len(matrix.include) \in Nat  BY ExpandAssumption DEF Init
<1> QED  BY <1>1 DEF Init, IInv

LEMMA NextInv ==
    ASSUME IInv, [Next]_vars PROVE IInv'
<1>0. /\ matrix' = matrix /\ matrix \in Matrices
      /\ Len(matrix.include) \in Nat /\ next \in 1 .. Len(matrix.include) + 1
  <2>1. matrix' = matrix
      BY DEF Next, vars, ExpandAxes, ExpandStacks, Exclude, CompleteMTU, Include,
             ApplyDefaults, ReadCases, Select, Fails
  <2> QED  BY <2>1, ExpandAssumption DEF IInv
<1>1. /\ Base' = Base /\ Wanted' = Wanted /\ Kept' = Kept /\ Start' = Start
      /\ \A n : Due(n)' = Due(n)
      /\ Stated' = Stated /\ \A e : Case(e)' = Case(e)
      /\ AllAccurate' <=> AllAccurate
      /\ Refused' <=> Refused
    BY <1>0, SameMatrix
<1>2. Fails /\ Refused => IInv'  BY <1>0, <1>1 DEF Fails, IInv
<1>3. CASE ExpandAxes
  <2>1. CASE RefusedKeys \/ RefusedRates  BY <1>2, <1>3, <2>1 DEF ExpandAxes, Refused
  <2>2. CASE ~(RefusedKeys \/ RefusedRates)
    <3>1. AllAccurate'  BY <1>0, <1>1, <2>2, RatesAccurate
    <3>2. stage' = "stack" /\ next' = next /\ original' = Base'
        BY <1>1, <1>3, <2>2 DEF ExpandAxes, Base
    <3>3. next = 1  BY <1>3 DEF ExpandAxes, IInv
    <3> QED  BY <1>0, <3>1, <3>2, <3>3 DEF IInv
  <2> QED  BY <2>1, <2>2
<1>4. CASE ExpandStacks
  <2>1. original' = Wanted'  BY <1>1, <1>4, StacksWanted
  <2> QED  BY <1>0, <1>1, <1>4, <2>1 DEF ExpandStacks, IInv
<1>5. CASE Exclude
  <2>1. original' = Kept'  BY <1>1, <1>5, ExcludeKept
  <2> QED  BY <1>0, <1>1, <1>5, <2>1 DEF Exclude, IInv
<1>6. CASE CompleteMTU
  <2>1. original' = Start'  BY <1>1, <1>6, CompleteStart
  <2>2. next' = 1 /\ stage' = "include" /\ AllAccurate /\ expanded' = original'
      BY <1>6 DEF CompleteMTU, IInv
  <2>3. expanded' = Due(0)  BY <1>0, <1>1, <2>1, <2>2, DueStart
  <2> PICK m : m = 0  OBVIOUS
  <2>4. (expanded = Due(next - 1))'
    <3>1. next' - 1 = m  BY <2>2
    <3>2. expanded' = Due(m)  BY <2>3
    <3> QED  BY <1>1, <3>1, <3>2
  <2> QED  BY <1>0, <1>1, <2>1, <2>2, <2>4 DEF IInv
<1>7. CASE Include
  <2> PICK n : n = next  OBVIOUS
  <2>1. expanded' = Due(n)  BY <1>7, IncludeDue
  <2>2. /\ n \in Nat /\ n <= Len(matrix.include) /\ next' = n + 1 /\ next' - 1 = n
        /\ stage' = "include" /\ AllAccurate /\ original' = Start
      BY <1>0, <1>7 DEF Include, IInv
  <2>3. (expanded = Due(next - 1))'  BY <1>1, <2>1, <2>2
  <2>4. (next \in 1 .. Len(matrix.include) + 1)'  BY <1>0, <2>2
  <2> QED  BY <1>0, <1>1, <2>2, <2>3, <2>4 DEF IInv
<1>8. CASE ApplyDefaults
  <2>1. /\ expanded = Due(Len(matrix.include)) /\ AllAccurate
    <3>1. next = Len(matrix.include) + 1 /\ next - 1 = Len(matrix.include)
        BY <1>0, <1>8 DEF ApplyDefaults
    <3> QED  BY <1>8, <3>1 DEF ApplyDefaults, IInv
  <2>2. CASE expanded = {}
    <3>1. Stated = {}  BY <2>1, <2>2 DEF Stated
    <3> QED  BY <1>2, <1>8, <2>2, <3>1 DEF ApplyDefaults, Refused
  <2>3. CASE expanded # {}
    <3>1. expanded' = Stated  BY <1>0, <1>8, <2>1, <2>3, StatedIs DEF ApplyDefaults
    <3>2. stage' = "read" /\ next' = next  BY <1>8, <2>3 DEF ApplyDefaults
    <3> QED  BY <1>0, <1>1, <2>1, <3>1, <3>2 DEF IInv
  <2> QED  BY <2>2, <2>3
<1>9. CASE ReadCases
  <2>1. expanded = Stated /\ AllAccurate  BY <1>9 DEF ReadCases, IInv
  <2>2. CASE \E e \in expanded : ~Readable(e) \/ ~Valid(Case(e))
      BY <1>2, <1>9, <2>1, <2>2 DEF ReadCases, Refused
  <2>3. CASE ~\E e \in expanded : ~Readable(e) \/ ~Valid(Case(e))
    <3>1. stage' = "skip" /\ next' = next /\ cases' = {Case(e) : e \in Stated}
        BY <1>9, <2>1, <2>3 DEF ReadCases
    <3>2. \A e \in Stated : Readable(e)  BY <2>1, <2>3
    <3>3. cases' = {Case(e)' : e \in Stated'}  BY <1>1, <3>1
    <3> QED  BY <1>0, <1>1, <2>1, <3>1, <3>2, <3>3 DEF IInv
  <2> QED  BY <2>2, <2>3
<1>10. CASE Select
  <2>1. stage = "skip" /\ stage' = "done" /\ next' = next /\ cases' = cases
        /\ supported' = {c \in cases : ~Skipped(c)}
      BY <1>10 DEF Select
  <2>2. (\A e \in Stated : Readable(e)) /\ cases = {Case(e) : e \in Stated} /\ AllAccurate
      BY <2>1 DEF IInv
  <2>3. cases' = {Case(e)' : e \in Stated'}  BY <1>1, <2>1, <2>2
  <2> QED  BY <1>0, <1>1, <2>1, <2>2, <2>3 DEF IInv
<1>11. CASE UNCHANGED vars
  <2>1. /\ stage' = stage /\ next' = next /\ original' = original /\ expanded' = expanded
        /\ cases' = cases /\ supported' = supported
      BY <1>11 DEF vars
  <2> PICK m : m = next - 1  OBVIOUS
  <2>2. (expanded = Due(next - 1))' <=> (expanded = Due(next - 1))  BY <1>1, <2>1
  <2>3. (cases = {Case(e) : e \in Stated})' <=> (cases = {Case(e) : e \in Stated})
      BY <1>1, <2>1
  <2> QED  BY <1>0, <1>1, <2>1, <2>2, <2>3 DEF IInv
<1> QED
    BY <1>3, <1>4, <1>5, <1>6, <1>7, <1>8, <1>9, <1>10, <1>11 DEF Next

(* Every stage has made what the matrix says up to there. *)
THEOREM Invariant == Spec => []IInv
<1>1. Init => IInv  BY InitInv
<1>2. IInv /\ [Next]_vars => IInv'  BY NextInv
<1> QED  BY <1>1, <1>2, PTL DEF Spec

(* The cases that readConfiguration returns are what the matrix says,      *)
(* whatever the matrix: every kept combination of the axes and all that    *)
(* any chain of its includes makes of it becomes a case with exactly those *)
(* values, is known not to work, or the matrix is refused for something in *)
(* it; and there is no other case.                                         *)
THEOREM CasesAsWritten == Spec => []AsWritten
<1>1. IInv => AsWritten
  <2> SUFFICES ASSUME IInv PROVE AsWritten  OBVIOUS
  <2>1. stage = "error" => Refused  BY DEF IInv
  <2>2. ASSUME stage = "done" PROVE NothingLost /\ NothingMadeUp
    <3>1. /\ matrix \in Matrices /\ \A e \in Stated : Readable(e)
          /\ cases = {Case(e) : e \in Stated}
          /\ supported = {c \in cases : ~Skipped(c)}
        BY <2>2 DEF IInv
    <3>2. \A e \in Stated : Means(e, Case(e)) /\ Case(e) \in cases  BY <3>1, CaseMeans
    <3>3. NothingLost  BY <3>1, <3>2 DEF NothingLost
    <3>4. NothingMadeUp  BY <3>1, <3>2 DEF NothingMadeUp
    <3> QED  BY <3>3, <3>4
  <2> QED  BY <2>1, <2>2 DEF AsWritten
<1> QED  BY <1>1, Invariant, PTL
=============================================================================
