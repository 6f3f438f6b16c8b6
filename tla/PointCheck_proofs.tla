--------------------------- MODULE PointCheck_proofs ---------------------------
(***************************************************************************)
(* What the answers of a point check are worth, for any objects, tuples,   *)
(* caveats and depth limit: data cycles and chains of any length included. *)
(***************************************************************************)
EXTENDS PointCheck, FiniteSetTheorems, WellFoundedInduction, TLAPS

-----------------------------------------------------------------------------
(* Induction: a set of numbers has a least one.                            *)

LEMMA LeastNumber ==
    ASSUME NEW T \in SUBSET Nat, T # {}
    PROVE \E m \in T : \A k \in T : m <= k
<1> DEFINE R == {p \in Nat \X Nat : p[1] < p[2]}
<1>1. R = OpToRel(<, Nat) BY DEF OpToRel
<1>2. IsWellFoundedOn(R, Nat) BY <1>1, NatLessThanWellFounded
<1>3. PICK m \in T : \A k \in T : ~(<<k, m>> \in R) BY <1>2, WFMin
<1>4. \A k \in T : k < m => <<k, m>> \in R OBVIOUS
<1>5. \A k \in T : ~(k < m) BY <1>3, <1>4
<1> QED BY <1>5

\* A set of numbers that has the first one and with each the next has them all.
LEMMA AllNumbers ==
    ASSUME NEW n \in Nat, NEW T, 1 \in T,
           \A m \in 1..n : m > 1 /\ m - 1 \in T => m \in T
    PROVE 1..n \subseteq T
<1> SUFFICES ASSUME ~(1..n \subseteq T) PROVE FALSE OBVIOUS
<1> DEFINE Left == {m \in 1..n : m \notin T}
<1>0. Left \in SUBSET Nat /\ Left # {} OBVIOUS
<1>1. PICK m \in Left : \A k \in Left : m <= k BY <1>0, LeastNumber
<1>2. m > 1 BY <1>1
<1>3. m - 1 \in T BY <1>1, <1>2
<1> QED BY <1>1, <1>2, <1>3

-----------------------------------------------------------------------------
(* The closure of a recursive relation.                                    *)

LevelsOf(edges, base, level, n) ==
    level = [m \in 1..n |-> IF m = 1 THEN Above(edges, base)
                            ELSE level[m - 1] \cup Above(edges, level[m - 1])]

LEMMA LevelsByStep ==
    ASSUME NEW edges, NEW base, NEW level, NEW n \in Nat, LevelsOf(edges, base, level, n)
    PROVE /\ \A m \in 1..n : m = 1 => level[m] = Above(edges, base)
          /\ \A m \in 1..n : m # 1 => level[m] = level[m - 1] \cup Above(edges, level[m - 1])
<1> DEFINE step(g, m) == IF m = 1 THEN Above(edges, base) ELSE g[m - 1] \cup Above(edges, g[m - 1])
<1>1. level = [m \in 1..n |-> step(level, m)] BY DEF LevelsOf
<1> HIDE DEF step
<1>2. \A m \in 1..n : level[m] = step(level, m) BY <1>1
<1> QED BY <1>2 DEF step

LEMMA LevelsExist ==
    ASSUME NEW edges, NEW base, NEW n \in Nat, n > 0
    PROVE \E level : LevelsOf(edges, base, level, n)
<1> DEFINE step(g, m) == IF m = 1 THEN Above(edges, base) ELSE g[m - 1] \cup Above(edges, g[m - 1])
           T == {m \in Nat : \E level : LevelsOf(edges, base, level, m)}
<1>1. 1 \in T
  <2>1. LevelsOf(edges, base, [m \in 1..1 |-> Above(edges, base)], 1) BY DEF LevelsOf
  <2> QED BY <2>1
<1>2. ASSUME NEW m \in 1..n, m > 1, m - 1 \in T PROVE m \in T
  <2>1. PICK g : LevelsOf(edges, base, g, m - 1) BY <1>2
  <2> DEFINE h == [k \in 1..m |-> step(g, k)]
  <2>2. \A k \in 1..(m - 1) : h[k] = g[k]
    <3>1. m - 1 \in Nat BY <1>2
    <3>2. /\ \A k \in 1..(m - 1) : k = 1 => g[k] = Above(edges, base)
          /\ \A k \in 1..(m - 1) : k # 1 => g[k] = g[k - 1] \cup Above(edges, g[k - 1])
      BY <2>1, <3>1, LevelsByStep
    <3>5. \A k \in 1..(m - 1) : g[k] = step(g, k) BY <3>2
    <3> HIDE DEF step
    <3>3. \A k \in 1..m : h[k] = step(g, k) OBVIOUS
    <3>4. \A k \in 1..(m - 1) : k \in 1..m BY <1>2
    <3> QED BY <3>3, <3>4, <3>5
  <2>3. \A k \in 1..m : k # 1 => k - 1 \in 1..(m - 1) BY <1>2
  <2>4. \A k \in 1..m : step(g, k) = step(h, k)
    <3> HIDE DEF h
    <3> QED BY <2>2, <2>3
  <2>5. h = [k \in 1..m |-> step(h, k)] 
    <3> HIDE DEF step
    <3> QED BY <2>4
  <2> HIDE DEF h
  <2>6. LevelsOf(edges, base, h, m) BY <2>5 DEF LevelsOf
  <2> QED BY <2>6, <1>2
<1> HIDE DEF T
<1>3. 1..n \subseteq T BY <1>1, <1>2, AllNumbers
<1>4. n \in T BY <1>3
<1> QED BY <1>4 DEF T

LEMMA ClosureHasLevels ==
    ASSUME NEW edges, NEW base
    PROVE \E level : LevelsOf(edges, base, level, DepthLimit) /\ Closure(edges, base) = level[DepthLimit]
<1> DEFINE level[n \in 1..DepthLimit] == IF n = 1 THEN Above(edges, base)
                                      ELSE level[n - 1] \cup Above(edges, level[n - 1])
<1>0. DepthLimit \in Nat /\ DepthLimit > 0 BY BoundsAssumption
<1>1. \E g : LevelsOf(edges, base, g, DepthLimit) BY <1>0, LevelsExist
<1>2. \E g : g = [n \in 1..DepthLimit |-> IF n = 1 THEN Above(edges, base)
                                      ELSE g[n - 1] \cup Above(edges, g[n - 1])]
  BY <1>1 DEF LevelsOf
<1>3. level = [n \in 1..DepthLimit |-> IF n = 1 THEN Above(edges, base)
                                      ELSE level[n - 1] \cup Above(edges, level[n - 1])]
  BY <1>2
<1>4. Closure(edges, base) = level[DepthLimit] BY DEF Closure
<1> HIDE DEF level
<1> QED BY <1>3, <1>4 DEF LevelsOf

\* It is in every set that has what is one edge above the base, and what is one
\* edge above itself.
LEMMA ClosureIsLeast ==
    ASSUME NEW edges, NEW base, NEW X, Above(edges, base) \subseteq X, Above(edges, X) \subseteq X
    PROVE Closure(edges, base) \subseteq X
<1>0. DepthLimit \in Nat /\ 1 \in 1..DepthLimit BY BoundsAssumption
<1>1. PICK level : LevelsOf(edges, base, level, DepthLimit)
                   /\ Closure(edges, base) = level[DepthLimit]
  BY ClosureHasLevels
<1>2. /\ \A m \in 1..DepthLimit : m = 1 => level[m] = Above(edges, base)
      /\ \A m \in 1..DepthLimit : m # 1 => level[m] = level[m - 1] \cup Above(edges, level[m - 1])
  BY <1>0, <1>1, LevelsByStep
<1> DEFINE T == {m \in 1..DepthLimit : level[m] \subseteq X}
<1>4. 1 \in T BY <1>0, <1>2
<1>5. ASSUME NEW m \in 1..DepthLimit, m > 1, m - 1 \in T PROVE m \in T
  <2>1. level[m] = level[m - 1] \cup Above(edges, level[m - 1]) BY <1>2, <1>5
  <2>2. Above(edges, level[m - 1]) \subseteq Above(edges, X) BY <1>5 DEF Above
  <2> QED BY <1>5, <2>1, <2>2
<1> HIDE DEF T
<1>6. 1..DepthLimit \subseteq T BY <1>0, <1>4, <1>5, AllNumbers
<1>7. DepthLimit \in T BY <1>0, <1>6
<1> QED BY <1>1, <1>7 DEF T

\* Every level, and so the closure, has what is one edge above the base.
LEMMA LevelsHaveFirst ==
    ASSUME NEW edges, NEW base, NEW level, LevelsOf(edges, base, level, DepthLimit)
    PROVE \A m \in 1..DepthLimit : Above(edges, base) \subseteq level[m]
<1>0. DepthLimit \in Nat /\ 1 \in 1..DepthLimit BY BoundsAssumption
<1>2. /\ \A m \in 1..DepthLimit : m = 1 => level[m] = Above(edges, base)
      /\ \A m \in 1..DepthLimit : m # 1 => level[m] = level[m - 1] \cup Above(edges, level[m - 1])
  BY <1>0, LevelsByStep
<1> DEFINE T == {m \in 1..DepthLimit : Above(edges, base) \subseteq level[m]}
<1>4. 1 \in T BY <1>0, <1>2
<1>5. ASSUME NEW m \in 1..DepthLimit, m > 1, m - 1 \in T PROVE m \in T
  <2>1. level[m] = level[m - 1] \cup Above(edges, level[m - 1]) BY <1>2, <1>5
  <2> QED BY <1>5, <2>1
<1> HIDE DEF T
<1>6. 1..DepthLimit \subseteq T BY <1>0, <1>4, <1>5, AllNumbers
<1> QED BY <1>6 DEF T

LEMMA ClosureHasFirst ==
    ASSUME NEW edges, NEW base
    PROVE Above(edges, base) \subseteq Closure(edges, base) /\ Closure(edges, base) \subseteq Objects
<1>1. PICK level : LevelsOf(edges, base, level, DepthLimit)
                   /\ Closure(edges, base) = level[DepthLimit]
  BY ClosureHasLevels
<1>2. DepthLimit \in 1..DepthLimit BY BoundsAssumption
<1>3. Closure(edges, base) \subseteq Objects BY ClosureIsLeast DEF Above
<1> QED BY <1>1, <1>2, <1>3, LevelsHaveFirst

-----------------------------------------------------------------------------
(* The closure and what can be reached.                                    *)

Closed(edges, c) == \A e \in edges : e[1] \in c => e[2] \in c

LEMMA AncestorsAreClosed ==
    ASSUME NEW edges \in SUBSET (Objects \X Objects), NEW o \in Objects
    PROVE /\ Ancestors(edges, {o}) \subseteq Objects /\ o \in Ancestors(edges, {o})
          /\ Closed(edges, Ancestors(edges, {o}))
          /\ \A c \in SUBSET Objects : o \in c /\ Closed(edges, c) => Ancestors(edges, {o}) \subseteq c
BY DEF Ancestors, Closed

\* What the closure has reaches the base, and so in a larger graph.
LEMMA ClosureReaches ==
    ASSUME NEW edges \in SUBSET (Objects \X Objects), NEW base \in SUBSET Objects,
           NEW larger \in SUBSET (Objects \X Objects), edges \subseteq larger,
           NEW o \in Objects, o \in base \cup Closure(edges, base)
    PROVE Ancestors(larger, {o}) \cap base # {}
<1> DEFINE X == {x \in Objects : \A c \in SUBSET Objects :
                    x \in c /\ Closed(larger, c) => c \cap base # {}}
<1>1. Above(edges, base) \subseteq X /\ Above(edges, X) \subseteq X
  <2>1. ASSUME NEW x \in Objects, NEW y \in base \cup X, <<x, y>> \in edges,
               NEW c \in SUBSET Objects, x \in c, Closed(larger, c)
        PROVE c \cap base # {}
    <3>1. y \in c BY <2>1 DEF Closed
    <3> QED BY <2>1, <3>1
  <2> QED BY <2>1 DEF Above
<1>2. o \in base \/ o \in X BY <1>1, ClosureIsLeast
<1> QED BY <1>2, AncestorsAreClosed

\* Where one more hop reaches nothing new, what is in neither the base nor the
\* closure reaches no base, by whatever chain, and so in a smaller graph.
LEMMA ConvergedClosureIsWhole ==
    ASSUME NEW edges \in SUBSET (Objects \X Objects), NEW base \in SUBSET Objects,
           ~NotConverged(edges, Closure(edges, base), base),
           NEW smaller, smaller \subseteq edges,
           NEW o \in Objects, o \notin base \cup Closure(edges, base)
    PROVE Ancestors(smaller, {o}) \cap base = {}
<1> DEFINE c == Objects \ (base \cup Closure(edges, base))
<1>1. Closed(smaller, c)
  <2>1. ASSUME NEW e \in smaller, e[1] \in c, e[2] \notin c PROVE FALSE
    <3>1. e \in edges /\ e = <<e[1], e[2]>> /\ e[2] \in Objects OBVIOUS
    <3>2. e[2] \in base => e[1] \in Above(edges, base) BY <2>1, <3>1 DEF Above
    <3>3. e[2] \in base => e[1] \in Closure(edges, base) BY <3>2, ClosureHasFirst
    <3>4. e[2] \in Closure(edges, base) => e[1] \in base \cup Closure(edges, base)
      BY <3>1 DEF NotConverged
    <3> QED BY <2>1, <3>1, <3>3, <3>4
  <2>2. \A e \in smaller : e[2] \in Objects OBVIOUS
  <2> QED BY <2>1 DEF Closed
<1>2. /\ smaller \in SUBSET (Objects \X Objects)
      /\ c \in SUBSET Objects /\ o \in c /\ c \cap base = {}
  OBVIOUS
<1> HIDE DEF c
<1>3. Ancestors(smaller, {o}) \subseteq c BY <1>1, <1>2, AncestorsAreClosed
<1> QED BY <1>2, <1>3

-----------------------------------------------------------------------------
(* The bounds of a permission and its value.                               *)

Names == {"inherited", "barred"}
Checks == [object : Askable, action : {"read", "open"}]
Verdicts == [true : SUBSET Keys, false : SUBSET Keys, unknown : SUBSET Keys]

LEMMA BoundsAreTyped ==
    ASSUME NEW f \in Facts, NEW bound, NEW v, NEW name
    PROVE /\ Edges(f, bound, v) \in SUBSET (Objects \X Objects)
          /\ Base(f, name, bound, v) \in SUBSET Objects
BY DEF Edges, Base

\* A bound of fewer admitted instances is inside one of more.
LEMMA BoundsAreOrdered ==
    ASSUME NEW f \in Facts, NEW name \in Names, NEW b1, NEW b2, NEW v1, NEW v2,
           \A k \in Caveats : Admitted(b1, v1, k) => Admitted(b2, v2, k)
    PROVE /\ Edges(f, b1, v1) \subseteq Edges(f, b2, v2)
          /\ Base(f, name, b1, v1) \subseteq Base(f, name, b2, v2)
          /\ \A o \in Objects : Base(f, name, b1, v1) \cap {o} # {} => o \in Base(f, name, b2, v2)
<1>1. Edges(f, b1, v1) \subseteq Edges(f, b2, v2) BY DEF Edges
<1>2. Base(f, name, b1, v1) \subseteq Base(f, name, b2, v2) BY DEF Base
<1> QED BY <1>1, <1>2

\* Of the arms at the object only that of its content type is compiled, which is
\* the one that can hold.
LEMMA PointIsInBase ==
    ASSUME NEW f \in Facts, NEW name \in Names, NEW bound, NEW v, NEW o \in Objects, NEW type,
           f.links[o] = type
    PROVE BaseAtPoint(f, name, bound, v, o, type) <=> o \in Base(f, name, bound, v)
BY DEF BaseAtPoint, Base, Names, LinkOf

Given(yes, no) == [true |-> yes, false |-> no, unknown |-> {}]

\* What a side of the schema's meaning is made of.
LEMMA SidesByReach ==
    ASSUME NEW f \in Facts, NEW q \in Checks, NEW name \in Names, NEW yes, NEW no
    PROVE /\ Side(f, q, name, yes, no) \in {"yes", "unknown", "no"}
          /\ q.action = "read" =>
               /\ Side(f, q, name, yes, no) = "yes" <=>
                    Ancestors(Edges(f, "lower", Given(yes, no)), {q.object})
                      \cap Base(f, name, "lower", Given(yes, no)) # {}
               /\ Side(f, q, name, yes, no) = "no" <=>
                    /\ Ancestors(Edges(f, "lower", Given(yes, no)), {q.object})
                         \cap Base(f, name, "lower", Given(yes, no)) = {}
                    /\ Ancestors(Edges(f, "upper", Given(yes, no)), {q.object})
                         \cap Base(f, name, "upper", Given(yes, no)) = {}
          /\ q.action = "open" =>
               /\ Side(f, q, name, yes, no) = "yes" <=>
                    q.object \in Base(f, name, "lower", Given(yes, no))
               /\ Side(f, q, name, yes, no) = "no" <=>
                    /\ q.object \notin Base(f, name, "lower", Given(yes, no))
                    /\ q.object \notin Base(f, name, "upper", Given(yes, no))
BY DEF Side, Given, Checks

\* A lower bound holds only where the schema says so, whatever else turns out true.
LEMMA LowerIsSound ==
    ASSUME NEW f \in Facts, NEW q \in Checks, NEW name \in Names, NEW v, NEW yes, NEW no,
           v.true \subseteq yes, NEW cut,
           Member(f, q.action, name, "lower", v, q.object, f.links[q.object], cut)
    PROVE Side(f, q, name, yes, no) = "yes"
<1> DEFINE o == q.object
           edges == Edges(f, "lower", v)
           base == Base(f, name, "lower", v)
           larger == Edges(f, "lower", Given(yes, no))
           more == Base(f, name, "lower", Given(yes, no))
<1>1. o \in Objects /\ q.action \in {"read", "open"} BY TuplesAssumption DEF Checks
<1>2. edges \subseteq larger /\ base \subseteq more
  <2>1. \A k \in Caveats : Admitted("lower", v, k) => Admitted("lower", Given(yes, no), k)
    BY DEF Admitted, Given
  <2> QED BY <2>1, BoundsAreOrdered
<1>3. o \in base \/ (q.action = "read" /\ o \in Closure(edges, base))
  BY <1>1, PointIsInBase DEF Member, Reached
<1>4. CASE q.action = "read"
  <2>1. Ancestors(larger, {o}) \cap base # {}
    BY <1>1, <1>2, <1>3, BoundsAreTyped, ClosureReaches
  <2> QED BY <1>2, <1>4, <2>1, SidesByReach
<1>5. CASE q.action = "open" BY <1>2, <1>3, <1>5, SidesByReach
<1> QED BY <1>1, <1>4, <1>5

\* Where an upper bound fails the schema says no, whatever else turns out false.
LEMMA UpperIsComplete ==
    ASSUME NEW f \in Facts, NEW q \in Checks, NEW name \in Names, NEW v \in Verdicts, NEW yes, NEW no,
           v.false \subseteq no, yes \cap no = {},
           ~Member(f, q.action, name, "upper", v, q.object, f.links[q.object], TRUE)
    PROVE Side(f, q, name, yes, no) = "no"
<1> DEFINE o == q.object
           edges == Edges(f, "upper", v)
           base == Base(f, name, "upper", v)
           fewer(bound) == Edges(f, bound, Given(yes, no))
           less(bound) == Base(f, name, bound, Given(yes, no))
<1>1. o \in Objects /\ q.action \in {"read", "open"} BY TuplesAssumption DEF Checks
<1>2. ASSUME NEW bound \in {"lower", "upper"}
      PROVE fewer(bound) \subseteq edges /\ less(bound) \subseteq base
  <2>1. Plain \notin v.false BY TuplesAssumption DEF Verdicts
  <2>2. \A k \in Caveats : Admitted(bound, Given(yes, no), k) => Admitted("upper", v, k)
    BY <2>1 DEF Admitted, Given
  <2> QED BY <2>2, BoundsAreOrdered
<1>3. o \notin base
  BY <1>1, PointIsInBase DEF Member
<1>4. CASE q.action = "read"
  <2>1. o \notin Closure(edges, base) /\ ~NotConverged(edges, Closure(edges, base), base)
    BY <1>4 DEF Member, Reached
  <2>2. ASSUME NEW bound \in {"lower", "upper"}
        PROVE Ancestors(fewer(bound), {o}) \cap less(bound) = {}
    BY <1>1, <1>2, <1>3, <2>1, BoundsAreTyped, ConvergedClosureIsWhole
  <2> QED BY <1>4, <2>2, SidesByReach
<1>5. CASE q.action = "open" BY <1>2, <1>3, <1>5, SidesByReach
<1> QED BY <1>1, <1>4, <1>5

LEMMA DecidedApart ==
    /\ Decided("true") \subseteq Keys /\ Decided("false") \subseteq Keys
    /\ Decided("unknown") \subseteq Keys
    /\ Decided("true") \cap Decided("false") = {}
    /\ Decided("true") \cap Decided("unknown") = {}
    /\ Decided("false") \cap Decided("unknown") = {}
BY DEF Decided

\* The two statements of a check, on the value of the permission.
LEMMA BoundsDecide ==
    ASSUME NEW f \in Facts, NEW q \in Checks, NEW v \in Verdicts,
           v.true \subseteq Decided("true"), v.false \subseteq Decided("false")
    PROVE /\ Holds(f, q, "lower", v, f.links[q.object], TRUE) => Value(f, q) = "yes"
          /\ ~Holds(f, q, "upper", v, f.links[q.object], TRUE) => Value(f, q) = "no"
<1> DEFINE type == f.links[q.object]
           side(name) == Side(f, q, name, Decided("true"), Decided("false"))
           member(name, bound) == Member(f, q.action, name, bound, v, q.object, type, TRUE)
<1>1. ASSUME NEW name \in Names, member(name, "lower") PROVE side(name) = "yes"
  BY <1>1, LowerIsSound
<1>2. ASSUME NEW name \in Names, ~member(name, "upper") PROVE side(name) = "no"
  BY <1>2, DecidedApart, UpperIsComplete
<1>3. "inherited" \in Names /\ "barred" \in Names BY DEF Names
<1>4. Value(f, q) = TriMinus(side("inherited"), side("barred")) BY DEF Value, ValueGiven
<1>5. /\ Holds(f, q, "lower", v, type, TRUE) <=> member("inherited", "lower") /\ ~member("barred", "upper")
      /\ Holds(f, q, "upper", v, type, TRUE) <=> member("inherited", "upper") /\ ~member("barred", "lower")
  BY DEF Holds, Opposite
<1> HIDE DEF side, member
<1> QED BY <1>1, <1>2, <1>3, <1>4, <1>5 DEF TriMinus

-----------------------------------------------------------------------------
(* What a check that answers HAS rests on.                                 *)

\* The verdicts a check has are the request's, and only the lower bound allows.
JustInv ==
    /\ facts \in Facts
    /\ pc # "idle" => asked \in Checks
    /\ verdicts \in Verdicts
    /\ verdicts.true \subseteq Decided("true") /\ verdicts.false \subseteq Decided("false")
    /\ pc # "answered" => answer.result # "has"
    /\ HasIsJustified

LEMMA ChangedFacts ==
    ASSUME facts \in Facts, NEW f, Change(f)
    PROVE f \in Facts
<1>1. /\ facts.viewers \subseteq Viewers /\ facts.bans \subseteq Bans
      /\ facts.parents \subseteq Parents /\ facts.links \in [Objects -> Types]
  BY DEF Facts
<1>2. CASE \E x \in Viewers : f = [facts EXCEPT !.viewers = Toggle(@, x)]
  <2>1. PICK x \in Viewers : f = [facts EXCEPT !.viewers = Toggle(@, x)] BY <1>2
  <2>2. Toggle(facts.viewers, x) \subseteq Viewers BY <1>1 DEF Toggle
  <2> QED BY <2>1, <2>2 DEF Facts
<1>3. CASE \E x \in Bans : f = [facts EXCEPT !.bans = Toggle(@, x)]
  <2>1. PICK x \in Bans : f = [facts EXCEPT !.bans = Toggle(@, x)] BY <1>3
  <2>2. Toggle(facts.bans, x) \subseteq Bans BY <1>1 DEF Toggle
  <2> QED BY <2>1, <2>2 DEF Facts
<1>4. CASE \E x \in Parents : f = [facts EXCEPT !.parents = Toggle(@, x)]
  <2>1. PICK x \in Parents : f = [facts EXCEPT !.parents = Toggle(@, x)] BY <1>4
  <2>2. Toggle(facts.parents, x) \subseteq Parents BY <1>1 DEF Toggle
  <2> QED BY <2>1, <2>2 DEF Facts
<1>5. CASE \E o \in Linkable, t \in Types : t # facts.links[o] /\ f = [facts EXCEPT !.links[o] = t]
  <2>1. PICK o \in Linkable, t \in Types : f = [facts EXCEPT !.links[o] = t] BY <1>5
  <2>2. [facts.links EXCEPT ![o] = t] \in [Objects -> Types] BY <1>1
  <2> QED BY <2>1, <2>2 DEF Facts
<1> QED BY <1>2, <1>3, <1>4, <1>5 DEF Change

LEMMA PreparedIsDecided ==
    ASSUME NEW f, NEW action
    PROVE /\ Prepared(f, action) \in Verdicts
          /\ Prepared(f, action).true \subseteq Decided("true")
          /\ Prepared(f, action).false \subseteq Decided("false")
<1> DEFINE keys == {t[2] : t \in f.viewers \cup f.bans}
                     \cup (IF action = "read" THEN {t[3] : t \in f.parents} ELSE {})
<1>1. Prepared(f, action) = [true |-> keys \cap Decided("true"), false |-> keys \cap Decided("false"),
                             unknown |-> keys \cap Decided("unknown")]
  BY DEF Prepared
<1> HIDE DEF keys
<1> QED BY <1>1, DecidedApart DEF Verdicts

LEMMA NoVerdictsAreDecided ==
    NoVerdicts \in Verdicts /\ NoVerdicts.true = {} /\ NoVerdicts.false = {}
BY DEF NoVerdicts, Verdicts

LEMMA JustInit == Init => JustInv
<1> SUFFICES ASSUME Init PROVE JustInv OBVIOUS
<1>1. answer.result = "none" BY DEF Init, Answer
<1> QED BY <1>1, NoVerdictsAreDecided DEF Init, JustInv, HasIsJustified

\* The answer of the lower bound is the value at that moment.
LEMMA LowerIsJustified ==
    ASSUME JustInv, Lower
    PROVE JustInv'
<1>1. asked \in Checks /\ verdicts \in Verdicts BY DEF JustInv, Lower
<1>2. answer.result # "has" BY DEF JustInv, Lower
<1>3. CASE Probe("lower")
  <2>1. /\ revision = policy /\ facts.links[asked.object] = types
        /\ Holds(facts, asked, "lower", verdicts, types, TRUE)
    BY <1>3 DEF Probe
  <2>2. Value(facts, asked) = "yes" BY <1>1, <2>1, BoundsDecide DEF JustInv
  <2>3. truth' = "yes" BY <2>1, <2>2 DEF Lower
  <2>4. pc' = "answered" BY <1>3 DEF Lower
  <2> QED BY <2>3, <2>4 DEF JustInv, HasIsJustified, Lower, database
<1>4. CASE ~Probe("lower")
  <2>1. answer'.result # "has" BY <1>2, <1>4 DEF Lower, Answer
  <2> QED BY <2>1, <1>1 DEF JustInv, HasIsJustified, Lower, database
<1> QED BY <1>3, <1>4

\* The other statements never allow.
LEMMA OthersDoNotAllow ==
    ASSUME JustInv, Upper \/ ReadRightSide
    PROVE JustInv'
<1>1. answer.result # "has" BY DEF JustInv, Upper, ReadRightSide
<1>2. answer'.result # "has"
  <2>1. CASE Upper BY <1>1, <2>1 DEF Upper, Answer
  <2>2. CASE ReadRightSide
    <3>1. \A left, right : Residual(left, right).result # "has" BY DEF Residual, Answer
    <3> QED BY <2>2, <3>1 DEF ReadRightSide
  <2> QED BY <2>1, <2>2
<1> QED BY <1>2 DEF JustInv, HasIsJustified, Upper, ReadRightSide, database

LEMMA JustStep == JustInv /\ [Next]_vars => JustInv'
<1> SUFFICES ASSUME JustInv, [Next]_vars PROVE JustInv' OBVIOUS
<1>1. CASE \E o \in Askable, a \in {"read", "open"} : Ask(o, a)
  <2>1. PICK o \in Askable, a \in {"read", "open"} : Ask(o, a) BY <1>1
  <2>2. asked' \in Checks BY <2>1 DEF Ask, Checks
  <2> QED BY <2>1, <2>2 DEF Ask, JustInv, HasIsJustified, database
<1>2. CASE ReadTypes BY <1>2 DEF ReadTypes, JustInv, HasIsJustified, database
<1>3. CASE PrepareVerdicts
  BY <1>3, PreparedIsDecided DEF PrepareVerdicts, JustInv, HasIsJustified, database
<1>4. CASE Lower BY <1>4, LowerIsJustified
<1>5. CASE Upper \/ ReadRightSide BY <1>5, OthersDoNotAllow
<1>6. CASE Depth BY <1>6 DEF Depth, JustInv, HasIsJustified, database
<1>7. CASE ReadLeftSide BY <1>7 DEF ReadLeftSide, JustInv, HasIsJustified, database
<1>8. CASE Return
  <2>1. answer'.result # "has" BY <1>8 DEF Return, Answer
  <2> QED BY <1>8, <2>1, NoVerdictsAreDecided DEF Return, JustInv, HasIsJustified, database
<1>9. CASE Write
  <2>1. facts' \in Facts BY <1>9, ChangedFacts DEF Write, JustInv
  <2> QED BY <1>9, <2>1 DEF Write, JustInv, HasIsJustified, local
<1>10. CASE UNCHANGED vars BY <1>10 DEF vars, JustInv, HasIsJustified
<1> QED BY <1>1, <1>2, <1>3, <1>4, <1>5, <1>6, <1>7, <1>8, <1>9, <1>10 DEF Next

\* Nothing that is written between the statements of a check makes it allow what
\* the schema does not, on the data and under the policy of the moment its lower
\* bound ran (compile/read.py:_point_result).
THEOREM OnlyJustifiedAnswersAllow == Spec => []HasIsJustified
<1>1. JustInv => HasIsJustified BY DEF JustInv
<1> QED BY JustInit, JustStep, <1>1, PTL DEF Spec

-----------------------------------------------------------------------------
(* The paths of the residual pass.                                         *)

LEMMA SeenGrows ==
    ASSUME NEW seen \in SUBSET Objects, NEW o \in Objects
    PROVE /\ Cardinality(seen) \in Nat /\ Cardinality(seen) <= Cardinality(Objects)
          /\ Cardinality(Objects) \in Nat
          /\ seen \cup {o} \in SUBSET Objects
          /\ o \notin seen => Cardinality(seen \cup {o}) = Cardinality(seen) + 1
<1>1. IsFiniteSet(Objects) BY TuplesAssumption
<1>2. IsFiniteSet(seen) /\ Cardinality(seen) <= Cardinality(Objects) BY <1>1, FS_Subset
<1> QED BY <1>1, <1>2, FS_CardinalityType, FS_AddElement

\* Of some sets of objects, one is in no larger one.
LEMMA DeepestSeen ==
    ASSUME NEW bad \in SUBSET (SUBSET Objects), bad # {}
    PROVE \E seen \in bad : \A o \in Objects : o \notin seen => seen \cup {o} \notin bad
<1> DEFINE left(seen) == Cardinality(Objects) - Cardinality(seen)
           T == {left(seen) : seen \in bad}
<1>0. PICK o0 : o0 \in Objects BY TuplesAssumption
<1>1. ASSUME NEW seen \in bad PROVE left(seen) \in Nat
  <2>1. /\ Cardinality(seen) \in Nat /\ Cardinality(Objects) \in Nat
        /\ Cardinality(seen) <= Cardinality(Objects)
    BY <1>0, SeenGrows
  <2> QED BY <2>1
<1>2. T \in SUBSET Nat /\ T # {} BY <1>1
<1>3. PICK m \in T : \A k \in T : m <= k BY <1>2, LeastNumber
<1>4. PICK seen \in bad : m = left(seen) BY <1>3
<1>5. ASSUME NEW o \in Objects, o \notin seen, seen \cup {o} \in bad PROVE FALSE
  <2>1. left(seen \cup {o}) \in T BY <1>5
  <2>2. left(seen) <= left(seen \cup {o}) BY <1>3, <1>4, <2>1
  <2>3. Cardinality(seen \cup {o}) = Cardinality(seen) + 1 /\ Cardinality(seen) \in Nat
        /\ Cardinality(Objects) \in Nat
    BY <1>5, SeenGrows
  <2> QED BY <2>2, <2>3
<1> QED BY <1>5

\* The paths from an object, given those of the branches that have seen it too.
PathStep(f, name, paths, seen, o) ==
    IF Cardinality(seen) > DepthLimit \/ o \in seen THEN {{Cut}}
    ELSE OwnPaths(f, name, o) \cup LongerPaths(f, o, paths[seen \cup {o}])

StepOf(f, name, paths, seen) == [o \in Objects |-> PathStep(f, name, paths, seen, o)]

\* A step needs only the branches one object deeper.
LEMMA StepsAreLocal ==
    ASSUME NEW f, NEW name, NEW g, NEW h, NEW seen \in SUBSET Objects,
           \A o \in Objects : o \notin seen /\ Cardinality(seen) <= DepthLimit
                => g[seen \cup {o}] = h[seen \cup {o}]
    PROVE StepOf(f, name, g, seen) = StepOf(f, name, h, seen)
<1>1. ASSUME NEW o \in Objects PROVE PathStep(f, name, g, seen, o) = PathStep(f, name, h, seen, o)
  <2>1. CASE Cardinality(seen) > DepthLimit \/ o \in seen BY <2>1 DEF PathStep
  <2>2. CASE ~(Cardinality(seen) > DepthLimit \/ o \in seen)
    <3>0. Cardinality(seen) \in Nat /\ DepthLimit \in Nat BY SeenGrows, BoundsAssumption
    <3>1. Cardinality(seen) <= DepthLimit BY <2>2, <3>0
    <3>2. g[seen \cup {o}] = h[seen \cup {o}] BY <2>2, <3>1
    <3> QED BY <3>2 DEF PathStep
  <2> QED BY <2>1, <2>2
<1> QED BY <1>1 DEF StepOf

LEMMA PathsExist ==
    ASSUME NEW f, NEW name
    PROVE \E paths : paths = [seen \in SUBSET Objects |-> StepOf(f, name, paths, seen)]
<1> DEFINE longer(m, seen) == Cardinality(seen) + m > DepthLimit + 1
           fits(g, m) == /\ g = [seen \in SUBSET Objects |-> g[seen]]
                         /\ \A seen \in SUBSET Objects : longer(m, seen) => g[seen] = StepOf(f, name, g, seen)
           T == {m \in Nat : \E g : fits(g, m)}
<1>0. \A seen \in SUBSET Objects : Cardinality(seen) \in Nat BY SeenGrows, TuplesAssumption
<1>1. 1 \in T
  <2> DEFINE g == [seen \in SUBSET Objects |-> [o \in Objects |-> {{Cut}}]]
  <2>1. ASSUME NEW seen \in SUBSET Objects, longer(1, seen) PROVE g[seen] = StepOf(f, name, g, seen)
    <3>1. Cardinality(seen) > DepthLimit BY <1>0, <2>1, BoundsAssumption
    <3>2. \A o \in Objects : PathStep(f, name, g, seen, o) = {{Cut}} BY <3>1 DEF PathStep
    <3> QED BY <3>2 DEF StepOf
  <2>2. g = [seen \in SUBSET Objects |-> g[seen]] OBVIOUS
  <2> HIDE DEF g
  <2>3. fits(g, 1) BY <2>1, <2>2
  <2> QED BY <2>3
<1>2. ASSUME NEW m \in 1..(DepthLimit + 2), m > 1, m - 1 \in T PROVE m \in T
  <2>1. PICK g : fits(g, m - 1) BY <1>2
  <2> DEFINE h == [seen \in SUBSET Objects |-> StepOf(f, name, g, seen)]
  <2>2. \A seen \in SUBSET Objects : h[seen] = StepOf(f, name, g, seen) OBVIOUS
  <2>3. h = [seen \in SUBSET Objects |-> h[seen]] OBVIOUS
  <2> HIDE DEF h
  <2>4. \A seen \in SUBSET Objects : longer(m - 1, seen) => g[seen] = h[seen] BY <2>1, <2>2
  <2>5. ASSUME NEW seen \in SUBSET Objects, longer(m, seen) PROVE h[seen] = StepOf(f, name, h, seen)
    <3>1. ASSUME NEW o \in Objects, o \notin seen PROVE g[seen \cup {o}] = h[seen \cup {o}]
      <4>1. seen \cup {o} \in SUBSET Objects /\ Cardinality(seen \cup {o}) = Cardinality(seen) + 1
        BY <3>1, SeenGrows
      <4>2. longer(m - 1, seen \cup {o}) BY <1>0, <1>2, <2>5, <4>1, BoundsAssumption
      <4> QED BY <2>4, <4>1, <4>2
    <3> QED BY <2>2, <3>1, StepsAreLocal
  <2>6. fits(h, m) BY <2>3, <2>5
  <2>7. m \in Nat BY <1>2
  <2> HIDE DEF fits
  <2> QED BY <2>6, <2>7
<1>3. DepthLimit + 2 \in Nat /\ DepthLimit + 2 \in 1..(DepthLimit + 2) BY BoundsAssumption
<1> HIDE DEF T
<1>4. DepthLimit + 2 \in T BY <1>1, <1>2, <1>3, AllNumbers
<1>5. PICK g : fits(g, DepthLimit + 2) BY <1>4 DEF T
<1>6. \A seen \in SUBSET Objects : g[seen] = StepOf(f, name, g, seen)
  <2>1. \A seen \in SUBSET Objects : longer(DepthLimit + 2, seen) BY <1>0, BoundsAssumption
  <2> QED BY <1>5, <2>1
<1>7. [seen \in SUBSET Objects |-> g[seen]] = [seen \in SUBSET Objects |-> StepOf(f, name, g, seen)]
  BY <1>6
<1> QED BY <1>5, <1>7

PathsFit(f, name, paths) ==
    \A seen \in SUBSET Objects, o \in Objects :
        paths[seen][o] = PathStep(f, name, paths, seen, o)

LEMMA PathsByStep ==
    ASSUME NEW f, NEW name, NEW object
    PROVE \E paths : PathsFit(f, name, paths) /\ Paths(f, "read", name, object) = paths[{}][object]
<1> DEFINE paths[seen \in SUBSET Objects] ==
               [o \in Objects |->
                   IF Cardinality(seen) > DepthLimit \/ o \in seen THEN {{Cut}}
                   ELSE OwnPaths(f, name, o) \cup LongerPaths(f, o, paths[seen \cup {o}])]
<1>1. \E g : g = [seen \in SUBSET Objects |->
               [o \in Objects |->
                   IF Cardinality(seen) > DepthLimit \/ o \in seen THEN {{Cut}}
                   ELSE OwnPaths(f, name, o) \cup LongerPaths(f, o, g[seen \cup {o}])]]
  <2>1. PICK g : g = [seen \in SUBSET Objects |-> StepOf(f, name, g, seen)] BY PathsExist
  <2>2. g = [seen \in SUBSET Objects |->
               [o \in Objects |->
                   IF Cardinality(seen) > DepthLimit \/ o \in seen THEN {{Cut}}
                   ELSE OwnPaths(f, name, o) \cup LongerPaths(f, o, g[seen \cup {o}])]]
    BY <2>1 DEF StepOf, PathStep
  <2> QED BY <2>2
<1>2. paths = [seen \in SUBSET Objects |->
               [o \in Objects |->
                   IF Cardinality(seen) > DepthLimit \/ o \in seen THEN {{Cut}}
                   ELSE OwnPaths(f, name, o) \cup LongerPaths(f, o, paths[seen \cup {o}])]]
  BY <1>1
<1>3. Paths(f, "read", name, object) = paths[{}][object] BY DEF Paths
<1> HIDE DEF paths
<1>4. paths = [seen \in SUBSET Objects |-> StepOf(f, name, paths, seen)]
  BY <1>2 DEF StepOf, PathStep
<1>5. \A seen \in SUBSET Objects : paths[seen] = StepOf(f, name, paths, seen) BY <1>4
<1>6. PathsFit(f, name, paths) BY <1>5 DEF StepOf, PathsFit
<1> QED BY <1>3, <1>6

LEMMA LongerPathsAre ==
    ASSUME NEW f, NEW o, NEW further, NEW p \in LongerPaths(f, o, further)
    PROVE \E t \in f.parents : t[1] = o /\ \E c \in Conditions(t[3]) : \E r \in further[t[2]] : p = c \cup r
BY DEF LongerPaths

-----------------------------------------------------------------------------
(* What paths are made of.                                                 *)

LEMMA ConditionsAreUndecided ==
    ASSUME NEW k \in Caveats, NEW c \in Conditions(k)
    PROVE c \in SUBSET Decided("unknown") /\ IsFiniteSet(c) /\ c \subseteq {k} /\ Cut \notin c
<1>1. CASE k = Plain
  <2>1. c = {} BY <1>1 DEF Conditions
  <2> QED BY <2>1, FS_EmptySet
<1>2. CASE k # Plain
  <2>1. k \in Keys /\ Verdict[k] \in {"true", "false", "unknown"}
    BY <1>2, TuplesAssumption DEF Caveats
  <2>2. Verdict[k] # "false" BY <1>2 DEF Conditions
  <2>3. CASE Verdict[k] = "true"
    <3>1. c = {} BY <1>2, <2>3 DEF Conditions
    <3> QED BY <3>1, FS_EmptySet
  <2>4. CASE Verdict[k] = "unknown"
    <3>1. c = {k} BY <1>2, <2>4 DEF Conditions
    <3>2. IsFiniteSet({k}) BY FS_Singleton
    <3>3. k \in Decided("unknown") /\ Cut # k BY <2>1, <2>4, CutAssumption DEF Decided, Caveats
    <3> QED BY <3>1, <3>2, <3>3
  <2> QED BY <2>1, <2>2, <2>3, <2>4
<1> QED BY <1>1, <1>2

\* The tuples of a side, with what they name.
LEMMA TuplesAreTyped ==
    ASSUME NEW f \in Facts, NEW name \in Names
    PROVE /\ \A t \in Tuples(f, name) : t[1] \in Objects /\ t[2] \in Caveats /\ t = <<t[1], t[2]>>
          /\ \A t \in f.parents : t[1] \in Objects /\ t[2] \in Objects /\ t[3] \in Caveats
                                  /\ t = <<t[1], t[2], t[3]>>
<1>1. f.viewers \subseteq Viewers /\ f.bans \subseteq Bans /\ f.parents \subseteq Parents BY DEF Facts
<1>2. Tuples(f, name) \subseteq Objects \X Caveats BY <1>1, TuplesAssumption DEF Tuples
<1>3. f.parents \subseteq Objects \X Objects \X Caveats BY <1>1, TuplesAssumption
<1> QED BY <1>2, <1>3

PathSet == {p \in SUBSET (Decided("unknown") \cup {Cut}) : IsFiniteSet(p)}

LEMMA OwnPathsAreTyped ==
    ASSUME NEW f \in Facts, NEW name \in Names, NEW o, NEW p \in OwnPaths(f, name, o)
    PROVE p \in PathSet /\ Cut \notin p
<1>1. CASE p = {} BY <1>1, FS_EmptySet DEF PathSet
<1>2. CASE \E t \in Tuples(f, name) : p \in Conditions(t[2])
  BY <1>2, TuplesAreTyped, ConditionsAreUndecided DEF PathSet
<1> QED BY <1>1, <1>2 DEF OwnPaths

LEMMA PathsAreTyped ==
    ASSUME NEW f \in Facts, NEW action \in {"read", "open"}, NEW name \in Names,
           NEW object \in Objects
    PROVE /\ Paths(f, action, name, object) \subseteq PathSet
          /\ action = "open" => \A p \in Paths(f, action, name, object) : Cut \notin p
<1>1. CASE action = "open" BY <1>1, OwnPathsAreTyped DEF Paths
<1>2. CASE action = "read"
  <2>1. PICK paths : PathsFit(f, name, paths) /\ Paths(f, "read", name, object) = paths[{}][object]
    BY PathsByStep
  <2> DEFINE bad == {seen \in SUBSET Objects : \E o \in Objects : ~(paths[seen][o] \subseteq PathSet)}
  <2>2. bad = {}
    <3> SUFFICES ASSUME bad # {} PROVE FALSE OBVIOUS
    <3>1. PICK seen \in bad : \A o \in Objects : o \notin seen => seen \cup {o} \notin bad
      BY DeepestSeen
    <3>0. PICK o \in Objects : ~(paths[seen][o] \subseteq PathSet) BY <3>1
    <3>2. PICK p \in paths[seen][o] : p \notin PathSet BY <3>0
    <3>3. p \in PathStep(f, name, paths, seen, o) BY <2>1, <3>2 DEF PathsFit
    <3>4. {Cut} \in PathSet BY FS_Singleton DEF PathSet
    <3>5. o \notin seen /\ p \in LongerPaths(f, o, paths[seen \cup {o}])
      BY <3>2, <3>3, <3>4, OwnPathsAreTyped DEF PathStep
    <3>6. PICK t \in f.parents : \E c \in Conditions(t[3]) : \E r \in paths[seen \cup {o}][t[2]] : p = c \cup r
      BY <3>5, LongerPathsAre
    <3>11. PICK c \in Conditions(t[3]) : \E r \in paths[seen \cup {o}][t[2]] : p = c \cup r BY <3>6
    <3>12. PICK r \in paths[seen \cup {o}][t[2]] : p = c \cup r BY <3>11
    <3>7. t[2] \in Objects /\ t[3] \in Caveats BY TuplesAreTyped
    <3>8. r \in PathSet BY <3>1, <3>5, <3>12, <3>7
    <3>9. c \in SUBSET Decided("unknown") /\ IsFiniteSet(c) BY <3>11, <3>7, ConditionsAreUndecided
    <3>10. IsFiniteSet(c \cup r) BY <3>8, <3>9, FS_Union DEF PathSet
    <3> QED BY <3>2, <3>12, <3>8, <3>9, <3>10 DEF PathSet
  <2>3. {} \in SUBSET Objects OBVIOUS
  <2> QED BY <1>2, <2>1, <2>2, <2>3
<1> QED BY <1>1, <1>2

\* Every path has a minimal one inside it, whose atoms are relevant.
LEMMA MinimalPath ==
    ASSUME NEW paths \in SUBSET PathSet, NEW p \in paths
    PROVE \E q \in paths : q \subseteq p /\ q \subseteq Relevant(paths)
<1> DEFINE inside == {q \in paths : q \subseteq p}
           T == {Cardinality(q) : q \in inside}
<1>1. \A q \in inside : IsFiniteSet(q) /\ Cardinality(q) \in Nat BY FS_CardinalityType DEF PathSet
<1>2. T \in SUBSET Nat /\ T # {} BY <1>1
<1>3. PICK m \in T : \A k \in T : m <= k BY <1>2, LeastNumber
<1>4. PICK q \in inside : m = Cardinality(q) BY <1>3
<1>5. ASSUME NEW r \in paths, r # q, r \subseteq q PROVE FALSE
  <2>1. r \in inside BY <1>5
  <2>2. m <= Cardinality(r) BY <1>3, <2>1
  <2>3. Cardinality(r) <= Cardinality(q) /\ (Cardinality(q) = Cardinality(r) => q = r)
    BY <1>1, <1>5, FS_Subset
  <2> QED BY <1>1, <1>4, <1>5, <2>1, <2>2, <2>3
<1> QED BY <1>4, <1>5 DEF Relevant

-----------------------------------------------------------------------------
(* Paths and chains.                                                       *)

\* More is known: what the verdicts decide, and the outcome of some others.
Resolves(yes, no) ==
    /\ Decided("true") \subseteq yes /\ Decided("false") \subseteq no
    /\ yes \subseteq Keys /\ no \subseteq Keys /\ yes \cap no = {}

LEMMA ConditionsWeigh ==
    ASSUME NEW yes, NEW no, Resolves(yes, no), NEW bound \in {"lower", "upper"}, NEW k \in Caveats
    PROVE /\ \A c \in Conditions(k) : (\A j \in c : Admitted(bound, Given(yes, no), j))
                                         => Admitted(bound, Given(yes, no), k)
          /\ Admitted(bound, Given(yes, no), k)
                => \E c \in Conditions(k) : \A j \in c : Admitted(bound, Given(yes, no), j)
<1> DEFINE v == Given(yes, no)
<1>0. Plain \notin no /\ v.true = yes /\ v.false = no BY TuplesAssumption DEF Resolves, Given
<1>1. CASE k = Plain
  <2>1. Admitted(bound, v, k) BY <1>0, <1>1 DEF Admitted
  <2>2. Conditions(k) = {{}} BY <1>1 DEF Conditions
  <2> QED BY <2>1, <2>2
<1>2. CASE k # Plain
  <2>1. k \in Keys /\ Verdict[k] \in {"true", "false", "unknown"}
    BY <1>2, TuplesAssumption DEF Caveats
  <2>2. CASE Verdict[k] = "true"
    <3>1. k \in yes /\ k \notin no BY <2>1, <2>2 DEF Resolves, Decided
    <3>2. Admitted(bound, v, k) BY <1>0, <3>1 DEF Admitted
    <3>3. Conditions(k) = {{}} BY <1>2, <2>2 DEF Conditions
    <3> QED BY <3>2, <3>3
  <2>3. CASE Verdict[k] = "false"
    <3>1. k \in no /\ k \notin yes BY <2>1, <2>3 DEF Resolves, Decided
    <3>2. ~Admitted(bound, v, k) BY <1>0, <1>2, <3>1 DEF Admitted
    <3>3. Conditions(k) = {} BY <1>2, <2>3 DEF Conditions
    <3> QED BY <3>2, <3>3
  <2>4. CASE Verdict[k] = "unknown"
    <3>1. Conditions(k) = {{k}} BY <1>2, <2>4 DEF Conditions
    <3> QED BY <3>1
  <2> QED BY <2>1, <2>2, <2>3, <2>4
<1> QED BY <1>1, <1>2

\* An object from which the base is reached is in it, or one edge leads on.
ReachLeadsOn(edges, base) ==
    \A x \in Objects \ base : Ancestors(edges, {x}) \cap base # {} =>
        \E y \in Objects : <<x, y>> \in edges /\ Ancestors(edges, {y}) \cap base # {}

LEMMA ReachGoesOn ==
    ASSUME NEW edges \in SUBSET (Objects \X Objects), NEW base \in SUBSET Objects
    PROVE ReachLeadsOn(edges, base)
<1> SUFFICES ASSUME NEW x \in Objects, Ancestors(edges, {x}) \cap base # {}, x \notin base,
                    \A y \in Objects : <<x, y>> \in edges => Ancestors(edges, {y}) \cap base = {}
             PROVE FALSE
  BY DEF ReachLeadsOn
<1> DEFINE far == {z \in Objects : Ancestors(edges, {z}) \cap base = {}}
           c == far \cup {x}
<1>1. ASSUME NEW e \in edges, e[1] \in c PROVE e[2] \in far
  <2>1. e[1] \in Objects /\ e[2] \in Objects /\ e = <<e[1], e[2]>> OBVIOUS
  <2>2. CASE e[1] = x BY <2>1, <2>2
  <2>3. CASE e[1] \in far
    <3>1. e[2] \in Ancestors(edges, {e[1]}) BY <2>1, AncestorsAreClosed DEF Closed
    <3>2. Ancestors(edges, {e[2]}) \subseteq Ancestors(edges, {e[1]})
      <4> DEFINE a == Ancestors(edges, {e[1]})
      <4>1. a \in SUBSET Objects /\ Closed(edges, a) BY <2>1, AncestorsAreClosed
      <4> HIDE DEF a
      <4>2. \A z \in Objects, d \in SUBSET Objects :
                z \in d /\ Closed(edges, d) => Ancestors(edges, {z}) \subseteq d
        BY AncestorsAreClosed
      <4>3. e[2] \in a BY <3>1 DEF a
      <4>4. Ancestors(edges, {e[2]}) \subseteq a BY <2>1, <4>1, <4>2, <4>3
      <4> QED BY <4>4 DEF a
    <3> QED BY <2>1, <2>3, <3>2
  <2> QED BY <1>1, <2>2, <2>3
<1>2. Closed(edges, c) BY <1>1 DEF Closed
<1>3. far \cap base = {} BY AncestorsAreClosed
<1>4. c \in SUBSET Objects /\ x \in c OBVIOUS
<1> HIDE DEF c
<1>5. Ancestors(edges, {x}) \subseteq c BY <1>2, <1>4, AncestorsAreClosed
<1> QED BY <1>3, <1>5 DEF c

LEMMA LongerPathIn ==
    ASSUME NEW f, NEW further, NEW t \in f.parents, NEW c \in Conditions(t[3]), NEW r \in further[t[2]]
    PROVE c \cup r \in LongerPaths(f, t[1], further)
BY DEF LongerPaths

LEMMA OwnPathOfBase ==
    ASSUME NEW f \in Facts, NEW name \in Names, NEW bound \in {"lower", "upper"},
           NEW yes, NEW no, Resolves(yes, no), NEW o \in Base(f, name, bound, Given(yes, no))
    PROVE \E p \in OwnPaths(f, name, o) : \A k \in p : Admitted(bound, Given(yes, no), k)
<1>1. CASE f.links[o] = LinkOf(name)
  <2>1. {} \in OwnPaths(f, name, o) BY <1>1 DEF OwnPaths
  <2> QED BY <2>1
<1>2. CASE \E k \in Caveats : <<o, k>> \in Tuples(f, name) /\ Admitted(bound, Given(yes, no), k)
  <2>1. PICK k \in Caveats : <<o, k>> \in Tuples(f, name) /\ Admitted(bound, Given(yes, no), k)
    BY <1>2
  <2>2. PICK c \in Conditions(k) : \A j \in c : Admitted(bound, Given(yes, no), j)
    BY <2>1, ConditionsWeigh
  <2>3. c \in OwnPaths(f, name, o) BY <2>1, <2>2 DEF OwnPaths
  <2> QED BY <2>2, <2>3
<1> QED BY <1>1, <1>2 DEF Base

LEMMA ConditionsOfEdge ==
    ASSUME NEW f \in Facts, NEW bound \in {"lower", "upper"}, NEW yes, NEW no, Resolves(yes, no),
           NEW o, NEW y, <<o, y>> \in Edges(f, bound, Given(yes, no))
    PROVE \E t \in f.parents : /\ t[1] = o /\ t[2] = y
             /\ \E c \in Conditions(t[3]) : \A j \in c : Admitted(bound, Given(yes, no), j)
<1>1. PICK k \in Caveats : <<o, y, k>> \in f.parents /\ Admitted(bound, Given(yes, no), k)
  BY DEF Edges
<1>2. \E c \in Conditions(k) : \A j \in c : Admitted(bound, Given(yes, no), j)
  BY <1>1, ConditionsWeigh
<1> QED BY <1>1, <1>2

\* Where the base is reached, some path says so, but for where it was cut.
LEMMA ReachedHasPath ==
    ASSUME NEW f \in Facts, NEW name \in Names, NEW object \in Objects,
           NEW bound \in {"lower", "upper"}, NEW yes, NEW no, Resolves(yes, no),
           Ancestors(Edges(f, bound, Given(yes, no)), {object})
             \cap Base(f, name, bound, Given(yes, no)) # {}
    PROVE \E p \in Paths(f, "read", name, object) :
             \A k \in p : k = Cut \/ Admitted(bound, Given(yes, no), k)
<1> DEFINE v == Given(yes, no)
           edges == Edges(f, bound, v)
           base == Base(f, name, bound, v)
           reaches(o) == Ancestors(edges, {o}) \cap base # {}
           good(p) == \A k \in p : k = Cut \/ Admitted(bound, v, k)
<1>1. PICK paths : PathsFit(f, name, paths) /\ Paths(f, "read", name, object) = paths[{}][object]
  BY PathsByStep
<1>2. edges \in SUBSET (Objects \X Objects) /\ base \in SUBSET Objects BY BoundsAreTyped
<1>3. \A o \in Objects : o \in base => \E p \in OwnPaths(f, name, o) : good(p)
  BY OwnPathOfBase
<1>4. \A o \in Objects, y \in Objects : <<o, y>> \in edges =>
         \E t \in f.parents : t[1] = o /\ t[2] = y /\ \E c \in Conditions(t[3]) : good(c)
  BY ConditionsOfEdge
<1> DEFINE bad == {seen \in SUBSET Objects :
                     \E o \in Objects : reaches(o) /\ ~ \E p \in paths[seen][o] : good(p)}
<1>5. good({Cut}) OBVIOUS
<1>6. \A c, r : good(c) /\ good(r) => good(c \cup r) OBVIOUS
<1> HIDE DEF edges, base
<1>7. ASSUME NEW o \in Objects, reaches(o), o \notin base
      PROVE \E y \in Objects : <<o, y>> \in edges /\ reaches(y)
  <2>1. Ancestors(edges, {o}) \cap base # {} BY <1>7
  <2> HIDE DEF good, reaches
  <2>2. ReachLeadsOn(edges, base) BY <1>2, ReachGoesOn
  <2>3. \E y \in Objects : <<o, y>> \in edges /\ Ancestors(edges, {y}) \cap base # {}
    BY <1>7, <2>1, <2>2 DEF ReachLeadsOn
  <2> QED BY <2>3 DEF reaches
<1> HIDE DEF reaches, good
<1>8. bad = {}
  <2> SUFFICES ASSUME bad # {} PROVE FALSE OBVIOUS
  <2>1. PICK seen \in bad : \A o \in Objects : o \notin seen => seen \cup {o} \notin bad
    BY DeepestSeen
  <2>2. PICK o \in Objects : reaches(o) /\ ~ \E p \in paths[seen][o] : good(p) BY <2>1
  <2>3. paths[seen][o] = PathStep(f, name, paths, seen, o) BY <1>1 DEF PathsFit
  <2>4. ~(Cardinality(seen) > DepthLimit \/ o \in seen)
    <3> SUFFICES ASSUME Cardinality(seen) > DepthLimit \/ o \in seen PROVE FALSE OBVIOUS
    <3>1. {Cut} \in paths[seen][o] BY <2>3 DEF PathStep
    <3> QED BY <1>5, <2>2, <3>1
  <2>5. paths[seen][o] = OwnPaths(f, name, o) \cup LongerPaths(f, o, paths[seen \cup {o}])
    BY <2>3, <2>4 DEF PathStep
  <2>6. o \notin base BY <1>3, <2>2, <2>5
  <2>7. PICK y \in Objects : <<o, y>> \in edges /\ reaches(y) BY <1>7, <2>2, <2>6
  <2>8. PICK t \in f.parents : t[1] = o /\ t[2] = y /\ \E c \in Conditions(t[3]) : good(c)
    BY <1>4, <2>7
  <2>9. PICK c \in Conditions(t[3]) : good(c) BY <2>8
  <2>10. seen \cup {o} \in SUBSET Objects /\ seen \cup {o} \notin bad BY <2>1, <2>4
  <2>11. PICK r \in paths[seen \cup {o}][y] : good(r) BY <2>7, <2>10
  <2>12. c \cup r \in LongerPaths(f, o, paths[seen \cup {o}]) BY <2>8, <2>9, <2>11, LongerPathIn
  <2>13. good(c \cup r) BY <1>6, <2>9, <2>11
  <2> QED BY <2>2, <2>5, <2>12, <2>13
<1>9. {} \in SUBSET Objects /\ {} \notin bad BY <1>8
<1>10. reaches(object) BY DEF reaches, edges, base
<1>11. \E p \in paths[{}][object] : good(p) BY <1>9, <1>10
<1> QED BY <1>1, <1>11 DEF good

LEMMA OwnPathToBase ==
    ASSUME NEW f \in Facts, NEW name \in Names, NEW bound \in {"lower", "upper"},
           NEW yes, NEW no, Resolves(yes, no), NEW o \in Objects,
           NEW p \in OwnPaths(f, name, o), \A k \in p : Admitted(bound, Given(yes, no), k)
    PROVE o \in Base(f, name, bound, Given(yes, no))
<1>1. CASE f.links[o] = LinkOf(name) BY <1>1 DEF Base
<1>2. CASE f.links[o] # LinkOf(name)
  <2>1. PICK t \in Tuples(f, name) : t[1] = o /\ p \in Conditions(t[2]) BY <1>2 DEF OwnPaths
  <2>2. t = <<t[1], t[2]>> /\ t[2] \in Caveats BY TuplesAreTyped
  <2>3. Admitted(bound, Given(yes, no), t[2]) BY <2>1, <2>2, ConditionsWeigh
  <2> QED BY <2>1, <2>2, <2>3 DEF Base
<1> QED BY <1>1, <1>2

\* A path that is not cut and whose atoms hold is a chain the closure covers: it
\* is as long as the bound allows.
LEMMA PathIsInClosure ==
    ASSUME NEW f \in Facts, NEW name \in Names, NEW object \in Objects,
           NEW bound \in {"lower", "upper"}, NEW yes, NEW no, Resolves(yes, no),
           NEW p0 \in Paths(f, "read", name, object), Cut \notin p0,
           \A k \in p0 : Admitted(bound, Given(yes, no), k)
    PROVE LET edges == Edges(f, bound, Given(yes, no))
              base == Base(f, name, bound, Given(yes, no))
          IN object \in base \cup Closure(edges, base)
<1> DEFINE v == Given(yes, no)
           edges == Edges(f, bound, v)
           base == Base(f, name, bound, v)
           good(p) == Cut \notin p /\ \A k \in p : Admitted(bound, v, k)
<1>1. PICK paths : PathsFit(f, name, paths) /\ Paths(f, "read", name, object) = paths[{}][object]
  BY PathsByStep
<1>2. PICK level : LevelsOf(edges, base, level, DepthLimit)
                   /\ Closure(edges, base) = level[DepthLimit]
  BY ClosureHasLevels
<1>3. /\ \A m \in 1..DepthLimit : m # 1 => level[m] = level[m - 1] \cup Above(edges, level[m - 1])
      /\ \A m \in 1..DepthLimit : Above(edges, base) \subseteq level[m]
  BY <1>2, LevelsByStep, LevelsHaveFirst, BoundsAssumption
<1> DEFINE within(n) == base \cup (IF n = 0 THEN {} ELSE level[n])
           rest(seen) == DepthLimit - Cardinality(seen)
           bad == {seen \in SUBSET Objects : \E o \in Objects :
                      /\ \E p \in paths[seen][o] : good(p)
                      /\ ~(Cardinality(seen) <= DepthLimit /\ o \in within(rest(seen)))}
<1>4. ASSUME NEW n \in 1..DepthLimit, NEW x \in Objects, NEW y \in Objects,
             <<x, y>> \in edges, y \in within(n - 1)
      PROVE x \in within(n)
  <2>1. x \in level[n]
    <3>1. CASE y \in base
      <4>1. x \in Above(edges, base) BY <1>4, <3>1 DEF Above
      <4> QED BY <1>3, <4>1
    <3>2. CASE y \notin base
      <4>1. n # 1 /\ y \in level[n - 1] BY <1>4, <3>2
      <4>2. x \in Above(edges, level[n - 1]) BY <1>4, <4>1 DEF Above
      <4> QED BY <1>3, <4>1, <4>2
    <3> QED BY <3>1, <3>2
  <2> QED BY <2>1
<1>5. ~good({Cut}) OBVIOUS
<1>6. \A o \in Objects : \A p \in OwnPaths(f, name, o) : good(p) => o \in base
  BY OwnPathToBase
<1>7. ASSUME NEW t \in f.parents, NEW c \in Conditions(t[3]), NEW r, good(c \cup r)
      PROVE good(r) /\ <<t[1], t[2]>> \in edges /\ t[1] \in Objects /\ t[2] \in Objects
  <2>1. t[1] \in Objects /\ t[2] \in Objects /\ t[3] \in Caveats /\ t = <<t[1], t[2], t[3]>>
    BY TuplesAreTyped
  <2>2. Admitted(bound, v, t[3]) BY <1>7, <2>1, ConditionsWeigh
  <2>3. <<t[1], t[2]>> \in edges BY <2>1, <2>2 DEF Edges
  <2> QED BY <1>7, <2>1, <2>3
<1>8. good(p0) OBVIOUS
<1> HIDE DEF edges, base, good, within
<1>9. bad = {}
  <2> SUFFICES ASSUME bad # {} PROVE FALSE OBVIOUS
  <2>1. PICK seen \in bad : \A o \in Objects : o \notin seen => seen \cup {o} \notin bad
    BY DeepestSeen
  <2>2. PICK o \in Objects :
            /\ \E p \in paths[seen][o] : good(p)
            /\ ~(Cardinality(seen) <= DepthLimit /\ o \in within(rest(seen)))
    BY <2>1
  <2>3. PICK p \in paths[seen][o] : good(p) BY <2>2
  <2>4. paths[seen][o] = PathStep(f, name, paths, seen, o) BY <1>1 DEF PathsFit
  <2>5. ~(Cardinality(seen) > DepthLimit \/ o \in seen)
    BY <1>5, <2>3, <2>4 DEF PathStep
  <2>6. /\ Cardinality(seen) \in Nat /\ seen \cup {o} \in SUBSET Objects
        /\ Cardinality(seen \cup {o}) = Cardinality(seen) + 1
        /\ Cardinality(seen) <= DepthLimit /\ DepthLimit \in Nat
    <3>1. /\ Cardinality(seen) \in Nat /\ seen \cup {o} \in SUBSET Objects
          /\ Cardinality(seen \cup {o}) = Cardinality(seen) + 1
      BY <2>5, SeenGrows
    <3> QED BY <2>5, <3>1, BoundsAssumption
  <2>7. o \notin base BY <2>2, <2>6 DEF within
  <2>8. p \in LongerPaths(f, o, paths[seen \cup {o}])
    BY <1>6, <2>3, <2>4, <2>5, <2>7 DEF PathStep
  <2>9. PICK t \in f.parents : /\ t[1] = o
            /\ \E c \in Conditions(t[3]) : \E r \in paths[seen \cup {o}][t[2]] : p = c \cup r
    BY <2>8, LongerPathsAre
  <2>10. PICK c \in Conditions(t[3]) : \E r \in paths[seen \cup {o}][t[2]] : p = c \cup r BY <2>9
  <2>11. PICK r \in paths[seen \cup {o}][t[2]] : p = c \cup r BY <2>10
  <2>12. good(r) /\ <<o, t[2]>> \in edges /\ t[2] \in Objects BY <1>7, <2>3, <2>9, <2>11
  <2>13. seen \cup {o} \notin bad BY <2>1, <2>5
  <2>14. Cardinality(seen \cup {o}) <= DepthLimit /\ t[2] \in within(rest(seen \cup {o}))
    BY <2>6, <2>11, <2>12, <2>13
  <2>15. rest(seen) \in 1..DepthLimit /\ rest(seen \cup {o}) = rest(seen) - 1 BY <2>6, <2>14
  <2> HIDE DEF rest
  <2>16. o \in within(rest(seen)) BY <1>4, <2>12, <2>14, <2>15
  <2> QED BY <2>2, <2>6, <2>16
<1>10. {} \in SUBSET Objects /\ {} \notin bad BY <1>9
<1>11. object \in within(rest({})) BY <1>1, <1>8, <1>10
<1>12. rest({}) = DepthLimit /\ DepthLimit # 0
  <2>1. Cardinality({}) = 0 BY FS_EmptySet
  <2> QED BY <2>1, BoundsAssumption
<1> QED BY <1>2, <1>11, <1>12 DEF within, edges, base

-----------------------------------------------------------------------------
(* What a side of the permission is, by its paths.                         *)

Holding(f, q, name, bound, yes, no) ==
    IF q.action = "read"
      THEN Ancestors(Edges(f, bound, Given(yes, no)), {q.object})
             \cap Base(f, name, bound, Given(yes, no)) # {}
      ELSE q.object \in Base(f, name, bound, Given(yes, no))

LEMMA SidesByHolding ==
    ASSUME NEW f \in Facts, NEW q \in Checks, NEW name \in Names, NEW yes, NEW no, Resolves(yes, no)
    PROVE /\ Side(f, q, name, yes, no) \in {"yes", "unknown", "no"}
          /\ Side(f, q, name, yes, no) = "yes" <=> Holding(f, q, name, "lower", yes, no)
          /\ Side(f, q, name, yes, no) = "no" <=> ~Holding(f, q, name, "upper", yes, no)
<1> DEFINE v == Given(yes, no)
           o == q.object
           lower == Edges(f, "lower", v)
           upper == Edges(f, "upper", v)
           baseL == Base(f, name, "lower", v)
           baseU == Base(f, name, "upper", v)
<1>1. lower \subseteq upper /\ baseL \subseteq baseU
  <2>1. \A k \in Caveats : Admitted("lower", v, k) => Admitted("upper", v, k)
    BY TuplesAssumption DEF Admitted, Given, Resolves
  <2> QED BY <2>1, BoundsAreOrdered
<1>2. upper \in SUBSET (Objects \X Objects) /\ lower \in SUBSET (Objects \X Objects)
  BY BoundsAreTyped
<1>3. o \in Objects /\ q.action \in {"read", "open"} BY TuplesAssumption DEF Checks
<1>4. Ancestors(lower, {o}) \subseteq Ancestors(upper, {o})
  <2> DEFINE a == Ancestors(upper, {o})
  <2>1. a \in SUBSET Objects /\ o \in a /\ Closed(upper, a) BY <1>2, <1>3, AncestorsAreClosed
  <2> HIDE DEF a
  <2>2. Closed(lower, a) BY <1>1, <2>1 DEF Closed
  <2> HIDE DEF lower, upper, o
  <2>3. \A c \in SUBSET Objects : o \in c /\ Closed(lower, c) => Ancestors(lower, {o}) \subseteq c
    BY <1>2, <1>3, AncestorsAreClosed
  <2>4. Ancestors(lower, {o}) \subseteq a BY <2>1, <2>2, <2>3
  <2> QED BY <2>4 DEF a
<1>5. CASE q.action = "read" BY <1>1, <1>4, <1>5, SidesByReach DEF Holding
<1>6. CASE q.action = "open" BY <1>1, <1>6, SidesByReach DEF Holding
<1> QED BY <1>3, <1>5, <1>6

LEMMA PathHolds ==
    ASSUME NEW f \in Facts, NEW q \in Checks, NEW name \in Names, NEW bound \in {"lower", "upper"},
           NEW yes, NEW no, Resolves(yes, no),
           NEW p \in Paths(f, q.action, name, q.object), Cut \notin p,
           \A k \in p : Admitted(bound, Given(yes, no), k)
    PROVE Holding(f, q, name, bound, yes, no)
<1>1. q.object \in Objects /\ q.action \in {"read", "open"} BY TuplesAssumption DEF Checks
<1>2. CASE q.action = "read"
  <2> DEFINE edges == Edges(f, bound, Given(yes, no))
             base == Base(f, name, bound, Given(yes, no))
  <2>1. q.object \in base \cup Closure(edges, base) BY <1>1, <1>2, PathIsInClosure
  <2>2. edges \in SUBSET (Objects \X Objects) /\ base \in SUBSET Objects BY BoundsAreTyped
  <2>3. Ancestors(edges, {q.object}) \cap base # {} BY <1>1, <2>1, <2>2, ClosureReaches
  <2> QED BY <1>2, <2>3 DEF Holding
<1>3. CASE q.action = "open"
  <2>1. p \in OwnPaths(f, name, q.object) BY <1>3 DEF Paths
  <2> QED BY <1>1, <1>3, <2>1, OwnPathToBase DEF Holding
<1> QED BY <1>1, <1>2, <1>3

LEMMA HoldingHasPath ==
    ASSUME NEW f \in Facts, NEW q \in Checks, NEW name \in Names, NEW bound \in {"lower", "upper"},
           NEW yes, NEW no, Resolves(yes, no), Holding(f, q, name, bound, yes, no)
    PROVE \E p \in Paths(f, q.action, name, q.object) :
             \A k \in p : k = Cut \/ Admitted(bound, Given(yes, no), k)
<1>1. q.object \in Objects /\ q.action \in {"read", "open"} BY TuplesAssumption DEF Checks
<1>2. CASE q.action = "read" BY <1>1, <1>2, ReachedHasPath DEF Holding
<1>3. CASE q.action = "open"
  <2>1. q.object \in Base(f, name, bound, Given(yes, no)) BY <1>3 DEF Holding
  <2>2. \E p \in OwnPaths(f, name, q.object) : \A k \in p : Admitted(bound, Given(yes, no), k)
    BY <2>1, OwnPathOfBase
  <2> QED BY <1>3, <2>2 DEF Paths
<1> QED BY <1>1, <1>2, <1>3

\* The verdicts prepared from the tuples in reach are as good as those of all
\* instances.
LEMMA PreparedIsExact ==
    ASSUME NEW f \in Facts, NEW action, NEW name \in Names, NEW bound \in {"lower", "upper"}
    PROVE LET v == Prepared(f, action)
              w == Given(Decided("true"), Decided("false"))
          IN /\ Base(f, name, bound, v) = Base(f, name, bound, w)
             /\ action = "read" => Edges(f, bound, v) = Edges(f, bound, w)
<1> DEFINE v == Prepared(f, action)
           w == Given(Decided("true"), Decided("false"))
           keys == {t[2] : t \in f.viewers \cup f.bans}
                     \cup (IF action = "read" THEN {t[3] : t \in f.parents} ELSE {})
<1>1. v.true = keys \cap Decided("true") /\ v.false = keys \cap Decided("false") BY DEF Prepared
<1>2. w.true = Decided("true") /\ w.false = Decided("false") BY DEF Given
<1>3. \A t \in Tuples(f, name) : t[2] \in keys BY DEF Tuples
<1>4. action = "read" => \A t \in f.parents : t[3] \in keys OBVIOUS
<1> HIDE DEF v, w, keys
<1>5. \A k \in keys : Admitted(bound, v, k) <=> Admitted(bound, w, k)
  BY <1>1, <1>2 DEF Admitted
<1>6. \A o, k : <<o, k>> \in Tuples(f, name) => (Admitted(bound, v, k) <=> Admitted(bound, w, k))
  BY <1>3, <1>5
<1>7. Base(f, name, bound, v) = Base(f, name, bound, w) BY <1>6 DEF Base
<1>8. ASSUME action = "read" PROVE Edges(f, bound, v) = Edges(f, bound, w)
  <2>1. \A o, y, k : <<o, y, k>> \in f.parents => (Admitted(bound, v, k) <=> Admitted(bound, w, k))
    BY <1>4, <1>5, <1>8
  <2> QED BY <2>1 DEF Edges
<1> QED BY <1>7, <1>8 DEF v, w

\* What is known is one resolution, and any outcome of undecided instances one more.
LEMMA Resolutions ==
    /\ Resolves(Decided("true"), Decided("false"))
    /\ \A missing \in SUBSET Decided("unknown") : \A yes \in SUBSET missing :
          Resolves(Decided("true") \cup yes, Decided("false") \cup (missing \ yes))
BY DecidedApart DEF Resolves

LEMMA AtomsAreKeys ==
    ASSUME NEW k \in Decided("unknown") PROVE k # Plain /\ k # Cut /\ k \in Keys
BY TuplesAssumption, CutAssumption DEF Decided, Caveats

\* A side that is settled is what the schema says, and so at the bound that
\* proves it.
LEMMA SettledSides ==
    ASSUME NEW f \in Facts, NEW q \in Checks, NEW name \in Names, NEW cut
    PROVE LET paths == Paths(f, q.action, name, q.object)
              side == Side(f, q, name, Decided("true"), Decided("false"))
              member(bound, c) == Member(f, q.action, name, bound, Prepared(f, q.action),
                                         q.object, f.links[q.object], c)
          IN /\ Settled(paths) = "yes" => side = "yes" /\ member("lower", cut)
             /\ Settled(paths) = "no" => side = "no" /\ ~member("upper", FALSE)
<1> DEFINE paths == Paths(f, q.action, name, q.object)
           yes == Decided("true")
           no == Decided("false")
           w == Given(yes, no)
           v == Prepared(f, q.action)
           member(bound, c) == Member(f, q.action, name, bound, v, q.object, f.links[q.object], c)
<1>1. q.object \in Objects /\ q.action \in {"read", "open"} BY TuplesAssumption DEF Checks
<1>2. Resolves(yes, no) BY Resolutions
<1>3. \A bound \in {"lower", "upper"} :
         /\ Base(f, name, bound, v) = Base(f, name, bound, w)
         /\ q.action = "read" => Edges(f, bound, v) = Edges(f, bound, w)
  BY PreparedIsExact
<1>4. \A bound \in {"lower", "upper"} :
         BaseAtPoint(f, name, bound, v, q.object, f.links[q.object]) <=> q.object \in Base(f, name, bound, w)
  BY <1>1, <1>3, PointIsInBase
<1>5. ASSUME {} \in paths PROVE Side(f, q, name, yes, no) = "yes" /\ member("lower", cut)
  <2>1. Holding(f, q, name, "lower", yes, no) BY <1>2, <1>5, PathHolds
  <2>2. CASE q.action = "open"
    <3>1. q.object \in Base(f, name, "lower", w) BY <2>1, <2>2 DEF Holding
    <3> QED BY <1>2, <1>4, <2>1, <3>1, SidesByHolding DEF Member
  <2>3. CASE q.action = "read"
    <3>1. q.object \in Base(f, name, "lower", w)
                        \cup Closure(Edges(f, "lower", w), Base(f, name, "lower", w))
      BY <1>1, <1>2, <1>5, <2>3, PathIsInClosure
    <3>2. member("lower", cut) BY <1>3, <1>4, <2>3, <3>1 DEF Member, Reached
    <3> QED BY <1>2, <2>1, <3>2, SidesByHolding
  <2> QED BY <1>1, <2>2, <2>3
<1>6. ASSUME paths = {} PROVE Side(f, q, name, yes, no) = "no" /\ ~member("upper", FALSE)
  <2>1. ~Holding(f, q, name, "upper", yes, no) BY <1>2, <1>6, HoldingHasPath
  <2>2. CASE q.action = "open"
    <3>1. q.object \notin Base(f, name, "upper", w) BY <2>1, <2>2 DEF Holding
    <3> QED BY <1>2, <1>4, <2>1, <2>2, <3>1, SidesByHolding DEF Member
  <2>3. CASE q.action = "read"
    <3> DEFINE edges == Edges(f, "upper", w)
               base == Base(f, name, "upper", w)
    <3>1. edges \in SUBSET (Objects \X Objects) /\ base \in SUBSET Objects BY BoundsAreTyped
    <3>2. Ancestors(edges, {q.object}) \cap base = {} BY <2>1, <2>3 DEF Holding
    <3>3. q.object \notin base \cup Closure(edges, base) BY <1>1, <3>1, <3>2, ClosureReaches
    <3>4. ~member("upper", FALSE) BY <1>3, <1>4, <2>3, <3>3 DEF Member, Reached
    <3> QED BY <1>2, <2>1, <3>4, SidesByHolding
  <2> QED BY <1>1, <2>2, <2>3
<1> QED BY <1>5, <1>6 DEF Settled

\* A side that is not settled has an atom that matters; if no cut does, it is
\* undecided, and the outcome of its atoms decides it.
LEMMA OpenSides ==
    ASSUME NEW f \in Facts, NEW q \in Checks, NEW name \in Names
    PROVE LET paths == Paths(f, q.action, name, q.object)
          IN /\ Settled(paths) = "unknown" => Relevant(paths) # {}
             /\ Settled(paths) = "unknown" /\ Cut \notin Relevant(paths)
                  => Side(f, q, name, Decided("true"), Decided("false")) = "unknown"
             /\ \A missing \in SUBSET Decided("unknown") : \A yes \in SUBSET missing :
                  Relevant(paths) \subseteq missing
                  => Side(f, q, name, Decided("true") \cup yes, Decided("false") \cup (missing \ yes))
                       # "unknown"
<1> DEFINE paths == Paths(f, q.action, name, q.object)
<1>1. q.object \in Objects /\ q.action \in {"read", "open"} BY TuplesAssumption DEF Checks
<1>2. paths \in SUBSET PathSet BY <1>1, PathsAreTyped
<1>3. \A p \in paths : \E r \in paths : r \subseteq p /\ r \subseteq Relevant(paths)
  BY <1>2, MinimalPath
<1>4. ASSUME Settled(paths) = "unknown" PROVE paths # {} /\ {} \notin paths
  BY <1>4 DEF Settled
<1> HIDE DEF paths
<1>5. Settled(paths) = "unknown" => Relevant(paths) # {}
  <2> SUFFICES ASSUME Settled(paths) = "unknown" PROVE Relevant(paths) # {} OBVIOUS
  <2>1. PICK p : p \in paths BY <1>4
  <2>2. PICK r \in paths : r \subseteq Relevant(paths) BY <1>3, <2>1
  <2> QED BY <1>4, <2>2
<1>6. ASSUME Settled(paths) = "unknown", Cut \notin Relevant(paths)
      PROVE Side(f, q, name, Decided("true"), Decided("false")) = "unknown"
  <2> DEFINE yes == Decided("true")
             no == Decided("false")
  <2>1. Resolves(yes, no) BY Resolutions
  <2>2. PICK p : p \in paths BY <1>4, <1>6
  <2>3. PICK r \in paths : r \subseteq Relevant(paths) BY <1>3, <2>2
  <2>4. Cut \notin r /\ r \subseteq Decided("unknown") BY <1>2, <1>6, <2>3 DEF PathSet
  <2>5. \A k \in r : Admitted("upper", Given(yes, no), k)
    BY <2>4, DecidedApart DEF Admitted, Given
  <2>6. Holding(f, q, name, "upper", yes, no) BY <2>1, <2>3, <2>4, <2>5, PathHolds DEF paths
  <2>7. ~Holding(f, q, name, "lower", yes, no)
    <3> SUFFICES ASSUME Holding(f, q, name, "lower", yes, no) PROVE FALSE OBVIOUS
    <3>1. PICK s \in paths : \A k \in s : k = Cut \/ Admitted("lower", Given(yes, no), k)
      BY <2>1, HoldingHasPath DEF paths
    <3>2. \A k \in Decided("unknown") : ~Admitted("lower", Given(yes, no), k)
      BY AtomsAreKeys, DecidedApart DEF Admitted, Given
    <3>3. s \subseteq {Cut} BY <1>2, <3>1, <3>2 DEF PathSet
    <3>4. PICK u \in paths : u \subseteq s /\ u \subseteq Relevant(paths) BY <1>3
    <3>5. u = {} BY <1>6, <3>3, <3>4
    <3> QED BY <1>4, <1>6, <3>5
  <2> QED BY <2>1, <2>6, <2>7, SidesByHolding
<1>7. ASSUME NEW missing \in SUBSET Decided("unknown"), NEW yes \in SUBSET missing,
             Relevant(paths) \subseteq missing
      PROVE Side(f, q, name, Decided("true") \cup yes, Decided("false") \cup (missing \ yes)) # "unknown"
  <2> DEFINE y == Decided("true") \cup yes
             n == Decided("false") \cup (missing \ yes)
  <2>1. Resolves(y, n) BY Resolutions
  <2>2. Holding(f, q, name, "upper", y, n) => Holding(f, q, name, "lower", y, n)
    <3> SUFFICES ASSUME Holding(f, q, name, "upper", y, n) PROVE Holding(f, q, name, "lower", y, n)
      OBVIOUS
    <3>1. PICK s \in paths : \A k \in s : k = Cut \/ Admitted("upper", Given(y, n), k)
      BY <2>1, HoldingHasPath DEF paths
    <3>2. PICK r \in paths : r \subseteq s /\ r \subseteq Relevant(paths) BY <1>3
    <3>3. r \subseteq missing /\ Cut \notin r BY <1>7, <3>2, AtomsAreKeys
    <3>4. r \subseteq yes BY <3>1, <3>2, <3>3 DEF Admitted, Given
    <3>5. \A k \in r : Admitted("lower", Given(y, n), k) BY <3>4 DEF Admitted, Given
    <3> QED BY <2>1, <3>2, <3>3, <3>5, PathHolds DEF paths
  <2>3. /\ Side(f, q, name, y, n) = "yes" <=> Holding(f, q, name, "lower", y, n)
        /\ Side(f, q, name, y, n) = "no" <=> ~Holding(f, q, name, "upper", y, n)
        /\ Side(f, q, name, y, n) \in {"yes", "unknown", "no"}
    BY <2>1, SidesByHolding
  <2> QED BY <2>2, <2>3
<1> QED BY <1>5, <1>6, <1>7 DEF paths

LEMMA ResolvedSide ==
    ASSUME NEW f \in Facts, NEW q \in Checks, NEW name \in Names,
           NEW missing \in SUBSET Decided("unknown"), NEW yes \in SUBSET missing,
           Relevant(Paths(f, q.action, name, q.object)) \subseteq missing
    PROVE Side(f, q, name, Decided("true") \cup yes, Decided("false") \cup (missing \ yes)) # "unknown"
<1>1. \A m \in SUBSET Decided("unknown") : \A y \in SUBSET m :
         Relevant(Paths(f, q.action, name, q.object)) \subseteq m
         => Side(f, q, name, Decided("true") \cup y, Decided("false") \cup (m \ y)) # "unknown"
  BY OpenSides
<1> QED BY <1>1

-----------------------------------------------------------------------------
(* What the residual pass answers.                                         *)

LEMMA RelevantAreTyped ==
    ASSUME NEW paths \in SUBSET PathSet
    PROVE Relevant(paths) \subseteq Decided("unknown") \cup {Cut}
BY DEF Relevant, PathSet

LEMMA ResidualIsTyped ==
    ASSUME NEW left \in SUBSET PathSet, NEW right \in SUBSET PathSet
    PROVE /\ Residual(left, right) \in Answers
          /\ Residual(left, right).missing \subseteq Decided("unknown")
<1>1. OpenAtoms(left, right) \subseteq Decided("unknown") \cup {Cut}
  BY RelevantAreTyped DEF OpenAtoms, RelevantTo
<1>2. CASE Residual(left, right) = Answer("depth") BY <1>2 DEF Answer, Answers
<1>3. CASE Residual(left, right) = Answer("no") BY <1>3 DEF Answer, Answers
<1>4. CASE /\ Cut \notin OpenAtoms(left, right)
           /\ Residual(left, right) = [result |-> "conditional", missing |-> OpenAtoms(left, right)]
  <2>1. OpenAtoms(left, right) \subseteq Decided("unknown") BY <1>1, <1>4
  <2>2. OpenAtoms(left, right) \subseteq Keys BY <2>1, DecidedApart
  <2> QED BY <1>4, <2>1, <2>2 DEF Answers
<1> QED BY <1>2, <1>3, <1>4 DEF Residual

LEMMA ResidualIsRight ==
    ASSUME NEW f \in Facts, NEW q \in Checks,
           ~Holds(f, q, "lower", Prepared(f, q.action), f.links[q.object], TRUE),
           q.action = "read" =>
               (deep <=> DepthUnknown(f, q, Prepared(f, q.action), f.links[q.object]))
    PROVE LET left == Paths(f, q.action, "inherited", q.object)
              right == Paths(f, q.action, "barred", q.object)
              result == Residual(left, right)
          IN /\ result.result = "no" => Value(f, q) = "no"
             /\ result.result = "conditional" =>
                  /\ Value(f, q) = "unknown"
                  /\ \A yes \in SUBSET result.missing :
                       ValueGiven(f, q, Decided("true") \cup yes,
                                  Decided("false") \cup (result.missing \ yes)) # "unknown"
             /\ result.result = "depth" => deep \/ Cut \in OpenAtoms(left, right)
<1> DEFINE left == Paths(f, q.action, "inherited", q.object)
           right == Paths(f, q.action, "barred", q.object)
           result == Residual(left, right)
           open == OpenAtoms(left, right)
           type == f.links[q.object]
           v == Prepared(f, q.action)
           side(name) == Side(f, q, name, Decided("true"), Decided("false"))
           member(name, bound, cut) == Member(f, q.action, name, bound, v, q.object, type, cut)
<1>1. q.object \in Objects /\ q.action \in {"read", "open"} BY TuplesAssumption DEF Checks
<1>2. "inherited" \in Names /\ "barred" \in Names BY DEF Names
<1>3. left \in SUBSET PathSet /\ right \in SUBSET PathSet BY <1>1, <1>2, PathsAreTyped
<1>4. /\ Settled(left) \in {"yes", "no", "unknown"} /\ Settled(right) \in {"yes", "no", "unknown"}
  BY DEF Settled
<1>5. /\ Settled(left) = "yes" => side("inherited") = "yes" /\ member("inherited", "lower", FALSE)
                                  /\ member("inherited", "lower", TRUE)
      /\ Settled(left) = "no" => side("inherited") = "no"
      /\ Settled(right) = "yes" => side("barred") = "yes"
      /\ Settled(right) = "no" => side("barred") = "no" /\ ~member("barred", "upper", FALSE)
  BY <1>2, SettledSides
<1>6. /\ Settled(left) = "unknown" => Relevant(left) # {}
      /\ Settled(right) = "unknown" => Relevant(right) # {}
      /\ Settled(left) = "unknown" /\ Cut \notin Relevant(left) => side("inherited") = "unknown"
      /\ Settled(right) = "unknown" /\ Cut \notin Relevant(right) => side("barred") = "unknown"
  BY <1>2, OpenSides
<1>7. Value(f, q) = TriMinus(side("inherited"), side("barred")) BY DEF Value, ValueGiven
<1>8. \A cut \in BOOLEAN : Holds(f, q, "lower", v, type, cut)
         <=> member("inherited", "lower", cut) /\ ~member("barred", "upper", cut)
  BY DEF Holds, Opposite
<1>9. q.action = "open" => (member("barred", "upper", TRUE) <=> member("barred", "upper", FALSE))
  BY DEF Member
<1>10. ASSUME result.result = "no" PROVE Value(f, q) = "no"
  <2>1. ~deep /\ open = {} BY <1>10 DEF Residual, Answer
  <2>2. TriMinus(Settled(left), Settled(right)) # "unknown"
    <3> SUFFICES ASSUME TriMinus(Settled(left), Settled(right)) = "unknown" PROVE FALSE OBVIOUS
    <3>1. open = Relevant(left) \cup Relevant(right) BY DEF OpenAtoms, RelevantTo
    <3>2. Settled(left) = "unknown" \/ Settled(right) = "unknown" BY <1>4 DEF TriMinus
    <3> QED BY <1>6, <2>1, <3>1, <3>2
  <2>3. ~(Settled(left) = "yes" /\ Settled(right) = "no")
    <3> SUFFICES ASSUME Settled(left) = "yes", Settled(right) = "no" PROVE FALSE OBVIOUS
    <3>1. Holds(f, q, "lower", v, type, FALSE) BY <1>5, <1>8
    <3>2. CASE q.action = "read" BY <2>1, <3>1, <3>2 DEF DepthUnknown
    <3>3. CASE q.action = "open" BY <1>5, <1>8, <1>9, <3>3
    <3> QED BY <1>1, <3>2, <3>3
  <2>4. Settled(left) = "no" \/ Settled(right) = "yes" BY <1>4, <2>2, <2>3 DEF TriMinus
  <2> QED BY <1>5, <1>7, <2>4 DEF TriMinus
<1>11. ASSUME result.result = "conditional"
       PROVE /\ Value(f, q) = "unknown"
             /\ \A yes \in SUBSET result.missing :
                  ValueGiven(f, q, Decided("true") \cup yes,
                             Decided("false") \cup (result.missing \ yes)) # "unknown"
  <2>1. Cut \notin open /\ open # {} /\ result.missing = open BY <1>11 DEF Residual, Answer
  <2>2. /\ TriMinus(Settled(left), Settled(right)) = "unknown"
        /\ open = Relevant(left) \cup Relevant(right)
    BY <2>1 DEF OpenAtoms, RelevantTo
  <2>3. Cut \notin Relevant(left) /\ Cut \notin Relevant(right) BY <2>1, <2>2
  <2>4. side("inherited") = Settled(left) /\ side("barred") = Settled(right)
    BY <1>4, <1>5, <1>6, <2>3
  <2>5. open \in SUBSET Decided("unknown") BY <1>3, <2>1, <2>2, RelevantAreTyped
  <2>6. ASSUME NEW yes \in SUBSET open
        PROVE ValueGiven(f, q, Decided("true") \cup yes, Decided("false") \cup (open \ yes)) # "unknown"
    <3> DEFINE given(name) == Side(f, q, name, Decided("true") \cup yes, Decided("false") \cup (open \ yes))
    <3>1. Relevant(left) \subseteq open /\ Relevant(right) \subseteq open BY <2>2
    <3>2. given("inherited") # "unknown" BY <1>2, <2>5, <3>1, ResolvedSide
    <3>3. given("barred") # "unknown" BY <1>2, <2>5, <3>1, ResolvedSide
    <3>4. given("inherited") \in {"yes", "unknown", "no"} /\ given("barred") \in {"yes", "unknown", "no"}
      BY DEF Side
    <3>5. ValueGiven(f, q, Decided("true") \cup yes, Decided("false") \cup (open \ yes))
            = TriMinus(given("inherited"), given("barred"))
      BY DEF ValueGiven
    <3> HIDE DEF given
    <3> QED BY <3>2, <3>3, <3>4, <3>5 DEF TriMinus
  <2>7. Value(f, q) = "unknown" BY <1>7, <2>2, <2>4
  <2> QED BY <2>1, <2>6, <2>7
<1>12. ASSUME result.result = "depth" PROVE deep \/ Cut \in open BY <1>12 DEF Residual, Answer
<1> QED BY <1>10, <1>11, <1>12

-----------------------------------------------------------------------------
(* Chains longer than the bound.                                           *)

Leading(s) == {t[1] : t \in {t \in facts.parents : t[2] \in s}}

ChainStep(g, i) == IF i = 0 THEN Objects ELSE Leading(g[i - 1])

LEMMA ChainLevelsExist ==
    ASSUME NEW n \in Nat, n > 0
    PROVE \E g : g = [i \in 0..n |-> ChainStep(g, i)]
<1> DEFINE T == {m \in Nat : \E g : g = [i \in 0..m |-> ChainStep(g, i)]}
<1>1. 1 \in T
  <2> DEFINE g == [i \in 0..1 |-> IF i = 0 THEN Objects ELSE Leading(Objects)]
  <2>1. \A i \in 0..1 : g[i] = IF i = 0 THEN Objects ELSE Leading(Objects) OBVIOUS
  <2>2. g = [i \in 0..1 |-> g[i]] OBVIOUS
  <2> HIDE DEF g
  <2>3. \A i \in 0..1 : g[i] = ChainStep(g, i) BY <2>1 DEF ChainStep
  <2>4. g = [i \in 0..1 |-> ChainStep(g, i)] BY <2>2, <2>3
  <2> QED BY <2>4
<1>2. ASSUME NEW m \in 1..n, m > 1, m - 1 \in T PROVE m \in T
  <2>1. PICK g : g = [i \in 0..(m - 1) |-> ChainStep(g, i)] BY <1>2
  <2> DEFINE h == [i \in 0..m |-> ChainStep(g, i)]
  <2>2. \A i \in 0..m : h[i] = ChainStep(g, i) OBVIOUS
  <2>3. \A i \in 0..(m - 1) : g[i] = ChainStep(g, i) BY <2>1
  <2>4. h = [i \in 0..m |-> h[i]] OBVIOUS
  <2> HIDE DEF h
  <2>5. \A i \in 0..(m - 1) : h[i] = g[i] BY <1>2, <2>2, <2>3
  <2>6. ASSUME NEW i \in 0..m PROVE ChainStep(g, i) = ChainStep(h, i)
    <3>1. CASE i = 0 BY <3>1 DEF ChainStep
    <3>2. CASE i # 0
      <4>1. i - 1 \in 0..(m - 1) BY <1>2, <3>2
      <4>2. h[i - 1] = g[i - 1] BY <2>5, <4>1
      <4> QED BY <3>2, <4>2 DEF ChainStep
    <3> QED BY <3>1, <3>2
  <2>7. h = [i \in 0..m |-> ChainStep(h, i)] BY <2>2, <2>4, <2>6
  <2>8. m \in Nat BY <1>2
  <2> QED BY <2>7, <2>8
<1> HIDE DEF T
<1>3. n \in 1..n OBVIOUS
<1>4. n \in T BY <1>1, <1>2, <1>3, AllNumbers
<1> QED BY <1>4 DEF T

Chains(g) ==
    /\ g[0] = Objects
    /\ \A i \in 1..(DepthLimit + 1) : g[i] = Leading(g[i - 1])

LEMMA ChainsByStep == \E g : Chains(g) /\ ChainOf(DepthLimit + 1) = g[DepthLimit + 1]
<1> DEFINE N == DepthLimit + 1
           from[i \in 0..N] == IF i = 0 THEN Objects
                               ELSE {t[1] : t \in {t \in facts.parents : t[2] \in from[i - 1]}}
<1>0. N \in Nat /\ N > 0 BY BoundsAssumption
<1>1. \E g : g = [i \in 0..N |-> IF i = 0 THEN Objects
                               ELSE {t[1] : t \in {t \in facts.parents : t[2] \in g[i - 1]}}]
  <2> HIDE DEF N
  <2>1. PICK g : g = [i \in 0..N |-> ChainStep(g, i)] BY <1>0, ChainLevelsExist
  <2>2. g = [i \in 0..N |-> IF i = 0 THEN Objects
                            ELSE {t[1] : t \in {t \in facts.parents : t[2] \in g[i - 1]}}]
    BY <2>1 DEF ChainStep, Leading
  <2> QED BY <2>2
<1>2. from = [i \in 0..N |-> IF i = 0 THEN Objects
                             ELSE {t[1] : t \in {t \in facts.parents : t[2] \in from[i - 1]}}]
  BY <1>1
<1>3. ChainOf(N) = from[N] BY DEF ChainOf
<1> HIDE DEF from
<1>4. from = [i \in 0..N |-> ChainStep(from, i)] BY <1>2 DEF ChainStep, Leading
<1>5. \A i \in 0..N : from[i] = ChainStep(from, i) BY <1>4
<1>6. Chains(from) BY <1>0, <1>5 DEF ChainStep, Chains
<1> QED BY <1>3, <1>6

\* A closure that has not converged has a chain longer than the bound: what its
\* last level adds is that many edges away.
LEMMA UnconvergedIsLong ==
    ASSUME facts \in Facts, NEW bound, NEW v, NEW name,
           NotConverged(Edges(facts, bound, v),
                        Closure(Edges(facts, bound, v), Base(facts, name, bound, v)),
                        Base(facts, name, bound, v))
    PROVE ChainOf(DepthLimit + 1) # {}
<1> DEFINE edges == Edges(facts, bound, v)
           base == Base(facts, name, bound, v)
<1>1. PICK level : LevelsOf(edges, base, level, DepthLimit)
                   /\ Closure(edges, base) = level[DepthLimit]
  BY ClosureHasLevels
<1>0. DepthLimit \in Nat /\ 1 \in 1..DepthLimit /\ DepthLimit \in 1..DepthLimit BY BoundsAssumption
<1>2. /\ \A m \in 1..DepthLimit : m = 1 => level[m] = Above(edges, base)
      /\ \A m \in 1..DepthLimit : m # 1 => level[m] = level[m - 1] \cup Above(edges, level[m - 1])
  BY <1>0, <1>1, LevelsByStep
<1>3. PICK g : Chains(g) /\ ChainOf(DepthLimit + 1) = g[DepthLimit + 1] BY ChainsByStep
<1>4. ASSUME NEW e \in edges, NEW s, e[2] \in s PROVE e[1] \in Leading(s)
  <2>1. PICK k \in Caveats : <<e[1], e[2], k>> \in facts.parents BY DEF Edges
  <2> QED BY <1>4, <2>1 DEF Leading
<1>5. \A e \in edges : e[1] \in Objects /\ e[2] \in Objects BY DEF Edges
<1>6. PICK e \in edges : /\ e[2] \in Closure(edges, base)
                         /\ e[1] \notin Closure(edges, base) /\ e[1] \notin base
  BY DEF NotConverged
<1> HIDE DEF edges, base
<1>7. \A s, x : x \in Above(edges, s) => x \in Objects /\ \E y \in s : <<x, y>> \in edges
  BY DEF Above
<1> DEFINE before(m) == IF m = 1 THEN {} ELSE level[m - 1]
           T == {m \in 1..DepthLimit : level[m] \ before(m) \subseteq g[m]}
<1>8. 1 \in T
  <2>1. ASSUME NEW x \in Above(edges, base) PROVE x \in g[1]
    <3>1. PICK y \in base : <<x, y>> \in edges BY <1>7
    <3>2. y \in g[0] BY <1>3, <1>5, <3>1 DEF Chains
    <3>3. x \in Leading(g[0]) BY <1>4, <3>1, <3>2
    <3>4. 1 \in 1..(DepthLimit + 1) BY <1>0
    <3> QED BY <1>3, <3>3, <3>4 DEF Chains
  <2> QED BY <1>0, <1>2, <2>1
<1>9. ASSUME NEW m \in 1..DepthLimit, m > 1, m - 1 \in T PROVE m \in T
  <2>1. level[m] = level[m - 1] \cup Above(edges, level[m - 1]) BY <1>2, <1>9
  <2>2. ASSUME NEW x \in level[m], x \notin level[m - 1] PROVE x \in g[m]
    <3>1. PICK y \in level[m - 1] : <<x, y>> \in edges BY <1>7, <2>1, <2>2
    <3>2. y \notin before(m - 1)
      <4> SUFFICES ASSUME y \in before(m - 1) PROVE FALSE OBVIOUS
      <4>1. m - 1 # 1 /\ m - 1 \in 1..DepthLimit /\ y \in level[m - 1 - 1] BY <1>9
      <4>2. level[m - 1] = level[m - 1 - 1] \cup Above(edges, level[m - 1 - 1]) BY <1>2, <4>1
      <4>3. x \in Above(edges, level[m - 1 - 1]) BY <1>5, <3>1, <4>1 DEF Above
      <4> QED BY <2>2, <4>2, <4>3
    <3>3. y \in g[m - 1] BY <1>9, <3>1, <3>2
    <3>4. x \in Leading(g[m - 1]) BY <1>4, <3>1, <3>3
    <3>5. m \in 1..(DepthLimit + 1) BY <1>0, <1>9
    <3> QED BY <1>3, <3>4, <3>5 DEF Chains
  <2> QED BY <1>9, <2>2
<1> HIDE DEF T
<1>10. DepthLimit \in T BY <1>0, <1>8, <1>9, AllNumbers
<1>11. e[2] \notin before(DepthLimit)
  <2> SUFFICES ASSUME e[2] \in before(DepthLimit) PROVE FALSE OBVIOUS
  <2>1. DepthLimit # 1 /\ e[2] \in level[DepthLimit - 1] OBVIOUS
  <2>2. level[DepthLimit] = level[DepthLimit - 1] \cup Above(edges, level[DepthLimit - 1])
    BY <1>0, <1>2, <2>1
  <2>3. e = <<e[1], e[2]>> BY DEF edges, Edges
  <2>4. e[1] \in Above(edges, level[DepthLimit - 1]) BY <1>5, <2>1, <2>3 DEF Above
  <2> QED BY <1>1, <1>6, <2>2, <2>4
<1>12. e[2] \in g[DepthLimit] BY <1>1, <1>6, <1>10, <1>11 DEF T
<1>13. e[1] \in Leading(g[DepthLimit]) BY <1>4, <1>12
<1>14. PICK n : n = DepthLimit + 1 OBVIOUS
<1>15. n \in 1..(DepthLimit + 1) /\ n - 1 = DepthLimit BY <1>0, <1>14
<1>17. g[n] = Leading(g[n - 1]) BY <1>3, <1>15 DEF Chains
<1>16. g[DepthLimit + 1] = Leading(g[DepthLimit]) BY <1>14, <1>15, <1>17
<1> QED BY <1>3, <1>13, <1>16

\* A set of objects each of which leads on to one of them has chains of any length.
LEMMA CyclesAreLong ==
    ASSUME NEW g, Chains(g), NEW seen \in SUBSET Objects,
           \A x \in seen : x \in Leading(seen)
    PROVE \A i \in 0..(DepthLimit + 1) : seen \subseteq g[i]
<1> DEFINE T == {i \in 1..(DepthLimit + 1) : seen \subseteq g[i]}
<1>0. DepthLimit \in Nat BY BoundsAssumption
<1>1. \A s : seen \subseteq s => seen \subseteq Leading(s) BY DEF Leading
<1>2. 1 \in T
  <2>1. 1 \in 1..(DepthLimit + 1) BY <1>0
  <2>2. g[1] = Leading(g[1 - 1]) BY <2>1 DEF Chains
  <2>3. seen \subseteq g[1 - 1] BY DEF Chains
  <2> QED BY <1>1, <2>1, <2>2, <2>3
<1>3. ASSUME NEW m \in 1..(DepthLimit + 1), m > 1, m - 1 \in T PROVE m \in T
  <2>1. g[m] = Leading(g[m - 1]) BY DEF Chains
  <2> QED BY <1>1, <1>3, <2>1
<1> HIDE DEF T
<1>4. DepthLimit + 1 \in Nat BY <1>0
<1>5. 1..(DepthLimit + 1) \subseteq T BY <1>2, <1>3, <1>4, AllNumbers
<1>6. \A i \in 0..(DepthLimit + 1) : i = 0 \/ i \in 1..(DepthLimit + 1) BY <1>0
<1>7. seen \subseteq g[0] BY DEF Chains
<1> QED BY <1>5, <1>6, <1>7 DEF T

\* The objects a branch has seen lead on to it one by one.
Trail(g, seen, o) ==
    /\ Cardinality(seen) <= DepthLimit + 1
    /\ \A x \in seen : x \in Leading(seen \cup {o})
    /\ \A i \in 0..(DepthLimit + 1) : i + Cardinality(seen) <= DepthLimit + 1 /\ o \in g[i]
           => g[i + Cardinality(seen)] # {}

LEMMA TrailsGoOn ==
    ASSUME NEW g, Chains(g), NEW seen \in SUBSET Objects, NEW o \in Objects, Trail(g, seen, o),
           o \notin seen, Cardinality(seen) <= DepthLimit,
           NEW t \in facts.parents, t[1] = o
    PROVE Trail(g, seen \cup {o}, t[2])
<1>1. /\ Cardinality(seen) \in Nat /\ DepthLimit \in Nat
      /\ Cardinality(seen \cup {o}) = Cardinality(seen) + 1
  BY SeenGrows, BoundsAssumption
<1>2. ASSUME NEW x \in seen \cup {o} PROVE x \in Leading((seen \cup {o}) \cup {t[2]})
  <2>1. CASE x = o BY <2>1 DEF Leading
  <2>2. CASE x \in seen
    <3>1. x \in Leading(seen \cup {o}) BY <2>2 DEF Trail
    <3> QED BY <3>1 DEF Leading
  <2> QED BY <1>2, <2>1, <2>2
<1>3. ASSUME NEW i \in 0..(DepthLimit + 1), i + (Cardinality(seen) + 1) <= DepthLimit + 1, t[2] \in g[i]
      PROVE g[i + (Cardinality(seen) + 1)] # {}
  <2>1. i + 1 \in 1..(DepthLimit + 1) /\ i + 1 - 1 = i BY <1>1, <1>3
  <2>2. g[i + 1] = Leading(g[i + 1 - 1]) BY <2>1 DEF Chains
  <2>3. o \in g[i + 1] BY <1>3, <2>1, <2>2 DEF Leading
  <2>4. i + 1 \in 0..(DepthLimit + 1) /\ (i + 1) + Cardinality(seen) <= DepthLimit + 1
    BY <1>1, <1>3
  <2>5. g[(i + 1) + Cardinality(seen)] # {} BY <2>3, <2>4 DEF Trail
  <2>6. (i + 1) + Cardinality(seen) = i + (Cardinality(seen) + 1) BY <1>1, <1>3
  <2> QED BY <2>5, <2>6
<1> DEFINE more == seen \cup {o}
<1>4. Cardinality(more) <= DepthLimit + 1 BY <1>1
<1>5. \A i \in 0..(DepthLimit + 1) : i + Cardinality(more) <= DepthLimit + 1 /\ t[2] \in g[i]
          => g[i + Cardinality(more)] # {}
  BY <1>1, <1>3
<1> HIDE DEF more
<1>6. \A x \in more : x \in Leading(more \cup {t[2]}) BY <1>2 DEF more
<1>7. Trail(g, more, t[2]) BY <1>4, <1>5, <1>6 DEF Trail
<1> QED BY <1>7 DEF more

\* A branch that is cut has come back to an object, or has gone further than the
\* bound.
LEMMA CutIsLong ==
    ASSUME facts \in Facts, NEW f \in Facts, f.parents = facts.parents, NEW name \in Names,
           NEW object \in Objects, NEW p0 \in Paths(f, "read", name, object), Cut \in p0
    PROVE ChainOf(DepthLimit + 1) # {}
<1>1. PICK paths : PathsFit(f, name, paths) /\ Paths(f, "read", name, object) = paths[{}][object]
  BY PathsByStep
<1>2. PICK g : Chains(g) /\ ChainOf(DepthLimit + 1) = g[DepthLimit + 1] BY ChainsByStep
<1>0. DepthLimit \in Nat BY BoundsAssumption
<1> SUFFICES ASSUME g[DepthLimit + 1] = {} PROVE FALSE BY <1>2
<1> DEFINE bad == {seen \in SUBSET Objects : \E o \in Objects :
                      Trail(g, seen, o) /\ \E p \in paths[seen][o] : Cut \in p}
<1>3. bad = {}
  <2> SUFFICES ASSUME bad # {} PROVE FALSE OBVIOUS
  <2>1. PICK seen \in bad : \A o \in Objects : o \notin seen => seen \cup {o} \notin bad
    BY DeepestSeen
  <2>2. PICK o \in Objects : Trail(g, seen, o) /\ \E p \in paths[seen][o] : Cut \in p BY <2>1
  <2>3. PICK p \in paths[seen][o] : Cut \in p BY <2>2
  <2>4. paths[seen][o] = PathStep(f, name, paths, seen, o) BY <1>1 DEF PathsFit
  <2>5. Cardinality(seen) \in Nat BY SeenGrows
  <2>6. Cardinality(seen) <= DepthLimit
    <3> SUFFICES ASSUME ~(Cardinality(seen) <= DepthLimit) PROVE FALSE OBVIOUS
    <3>1. 0 + Cardinality(seen) = DepthLimit + 1 BY <1>0, <2>2, <2>5 DEF Trail
    <3>2. o \in g[0] /\ 0 \in 0..(DepthLimit + 1) BY <1>0, <1>2 DEF Chains
    <3>3. g[0 + Cardinality(seen)] # {} BY <1>0, <2>2, <3>1, <3>2 DEF Trail
    <3> QED BY <3>1, <3>3
  <2>7. o \notin seen
    <3> SUFFICES ASSUME o \in seen PROVE FALSE OBVIOUS
    <3>1. seen \cup {o} = seen OBVIOUS
    <3>2. \A x \in seen : x \in Leading(seen) BY <2>2, <3>1 DEF Trail
    <3>3. DepthLimit + 1 \in 0..(DepthLimit + 1) BY <1>0
    <3>4. seen \subseteq g[DepthLimit + 1] BY <1>2, <3>2, <3>3, CyclesAreLong
    <3> QED BY <3>4
  <2>8. p \in LongerPaths(f, o, paths[seen \cup {o}])
    <3>1. ~(Cardinality(seen) > DepthLimit) BY <1>0, <2>5, <2>6
    <3> QED BY <2>3, <2>4, <2>7, <3>1, OwnPathsAreTyped DEF PathStep
  <2>9. PICK t \in f.parents : /\ t[1] = o
            /\ \E c \in Conditions(t[3]) : \E r \in paths[seen \cup {o}][t[2]] : p = c \cup r
    BY <2>8, LongerPathsAre
  <2>10. PICK c \in Conditions(t[3]) : \E r \in paths[seen \cup {o}][t[2]] : p = c \cup r BY <2>9
  <2>11. PICK r \in paths[seen \cup {o}][t[2]] : p = c \cup r BY <2>10
  <2>12. t[2] \in Objects /\ t[3] \in Caveats BY TuplesAreTyped
  <2>13. Cut \in r BY <2>3, <2>10, <2>11, <2>12, ConditionsAreUndecided
  <2>14. Trail(g, seen \cup {o}, t[2]) BY <1>2, <2>2, <2>6, <2>7, <2>9, TrailsGoOn
  <2>15. seen \cup {o} \in SUBSET Objects /\ seen \cup {o} \notin bad BY <2>1, <2>7
  <2> QED BY <2>11, <2>12, <2>13, <2>14, <2>15
<1>4. {} \in SUBSET Objects /\ {} \notin bad BY <1>3
<1>5. Trail(g, {}, object)
  <2>1. Cardinality({}) = 0 BY FS_EmptySet
  <2>2. \A i \in 0..(DepthLimit + 1) : i + 0 = i OBVIOUS
  <2> QED BY <1>0, <2>1, <2>2 DEF Trail
<1> QED BY <1>1, <1>4, <1>5

-----------------------------------------------------------------------------
(* The types.                                                              *)

LEMMA EmptyTypes ==
    /\ NoRows \in [viewers : SUBSET Viewers, parents : SUBSET Parents, links : [Objects -> Types]]
    /\ NoCheck \in Checks /\ Answer("none") \in Answers
<1>1. [o \in Objects |-> "other"] \in [Objects -> Types] BY DEF Types
<1>4. PICK o : o \in Askable BY TuplesAssumption
<1>5. [object |-> o, action |-> "read"] \in Checks BY <1>4 DEF Checks
<1>2. \E q : q \in Checks BY <1>5
<1>3. NoCheck \in Checks BY <1>2 DEF NoCheck, Checks
<1> QED BY <1>1, <1>3 DEF NoRows, Answer, Answers

LEMMA RowsAreFacts ==
    ASSUME TypeOK
    PROVE /\ [facts EXCEPT !.viewers = rows.viewers, !.parents = rows.parents, !.links = rows.links] \in Facts
          /\ [facts EXCEPT !.parents = rows.parents] \in Facts
BY DEF TypeOK, Facts

\* What a process that checks nothing holds.
Idle ==
    /\ pc = "idle" /\ policy = 0 /\ types = "other" /\ verdicts = NoVerdicts /\ asked = NoCheck
    /\ deep = FALSE /\ rows = NoRows /\ answer = Answer("none")
    /\ truth = "unknown" /\ writes = 0

LEMMA IdleIsTyped == Idle /\ facts \in Facts /\ revision \in 0..1 => TypeOK
<1> SUFFICES ASSUME Idle, facts \in Facts, revision \in 0..1 PROVE TypeOK OBVIOUS
<1>6. pc \in Phases /\ types \in Types BY DEF Idle, Phases, Types
<1>7. policy \in 0..1 BY DEF Idle
<1>8. deep \in BOOLEAN BY DEF Idle
<1>2. verdicts \in [true : SUBSET Keys, false : SUBSET Keys, unknown : SUBSET Keys]
  BY NoVerdictsAreDecided DEF Idle, Verdicts
<1>3. asked \in [object : Askable, action : {"read", "open"}] BY EmptyTypes DEF Idle, Checks
<1>4. /\ rows \in [viewers : SUBSET Viewers, parents : SUBSET Parents, links : [Objects -> Types]]
      /\ answer \in Answers
  BY EmptyTypes DEF Idle
<1>5. truth \in {"yes", "no", "unknown"} /\ writes \in 0..MaxWrites BY BoundsAssumption DEF Idle
<1> QED BY <1>2, <1>3, <1>4, <1>5, <1>6, <1>7, <1>8 DEF TypeOK

LEMMA TypesInit == Init => TypeOK
<1> SUFFICES ASSUME Init PROVE TypeOK OBVIOUS
<1>1. Idle BY DEF Init, Idle
<1>2. facts \in Facts /\ revision \in 0..1 BY DEF Init
<1> QED BY <1>1, <1>2, IdleIsTyped

LEMMA AnswersTyped ==
    ASSUME TypeOK, ReadRightSide
    PROVE answer' \in Answers
<1> DEFINE left == [facts EXCEPT !.viewers = rows.viewers, !.parents = rows.parents, !.links = rows.links]
           right == [facts EXCEPT !.parents = rows.parents]
<1>1. left \in Facts /\ right \in Facts BY RowsAreFacts
<1>2. asked.object \in Objects /\ asked.action \in {"read", "open"}
  BY TuplesAssumption DEF TypeOK
<1>3. answer' = Residual(Paths(left, asked.action, "inherited", asked.object),
                         Paths(right, asked.action, "barred", asked.object))
  BY DEF ReadRightSide
<1> HIDE DEF left, right
<1>4. Paths(left, asked.action, "inherited", asked.object) \in SUBSET PathSet
  BY <1>1, <1>2, PathsAreTyped DEF Names
<1>5. Paths(right, asked.action, "barred", asked.object) \in SUBSET PathSet
  BY <1>1, <1>2, PathsAreTyped DEF Names
<1> QED BY <1>3, <1>4, <1>5, ResidualIsTyped

LEMMA TypesStep == TypeOK /\ [Next]_vars => TypeOK'
<1> SUFFICES ASSUME TypeOK, [Next]_vars PROVE TypeOK' OBVIOUS
<1>0. \A r \in {"none", "has", "no", "conditional", "depth"} : Answer(r) \in Answers
  BY DEF Answer, Answers
<1>1. CASE \E o \in Askable, a \in {"read", "open"} : Ask(o, a)
  <2>1. PICK o \in Askable, a \in {"read", "open"} : Ask(o, a) BY <1>1
  <2> QED BY <2>1 DEF Ask, TypeOK, Phases, database
<1>2. CASE ReadTypes
  <2>1. facts.links[asked.object] \in Types BY TuplesAssumption DEF TypeOK, Facts
  <2> QED BY <1>2, <2>1 DEF ReadTypes, TypeOK, Phases, database
<1>3. CASE PrepareVerdicts
  BY <1>3, PreparedIsDecided DEF PrepareVerdicts, TypeOK, Phases, database, Verdicts
<1>4. CASE Lower
  <2>1. Value(facts, asked) \in {"yes", "no", "unknown"} BY DEF Value, ValueGiven, TriMinus
  <2>2. truth' \in {"yes", "no", "unknown"} BY <1>4, <2>1 DEF Lower
  <2>3. answer' \in Answers /\ pc' \in Phases BY <1>0, <1>4 DEF Lower, TypeOK, Phases
  <2> QED BY <1>4, <2>2, <2>3 DEF Lower, TypeOK, database
<1>5. CASE Upper
  <2>1. answer' \in Answers /\ pc' \in Phases BY <1>0, <1>5 DEF Upper, TypeOK, Phases
  <2> QED BY <1>5, <2>1 DEF Upper, TypeOK, database
<1>6. CASE Depth
  <2>1. deep' \in BOOLEAN BY <1>6 DEF Depth, Probe
  <2> QED BY <1>6, <2>1 DEF Depth, TypeOK, Phases, database
<1>7. CASE ReadLeftSide
  <2>1. rows' \in [viewers : SUBSET Viewers, parents : SUBSET Parents, links : [Objects -> Types]]
    BY <1>7 DEF ReadLeftSide, TypeOK, Facts
  <2> QED BY <1>7, <2>1 DEF ReadLeftSide, TypeOK, Phases, database
<1>8. CASE ReadRightSide
  <2>1. answer' \in Answers BY <1>8, AnswersTyped
  <2> QED BY <1>8, <2>1 DEF ReadRightSide, TypeOK, Phases, database
<1>9. CASE Return
  <2>1. Idle' /\ facts' = facts /\ revision' = revision BY <1>9 DEF Return, Idle, database
  <2>2. facts' \in Facts /\ revision' \in 0..1 BY <2>1 DEF TypeOK
  <2>3. (Idle /\ facts \in Facts /\ revision \in 0..1 => TypeOK)' BY IdleIsTyped, PTL
  <2> QED BY <2>1, <2>2, <2>3
<1>10. CASE Write
  <2>1. facts' \in Facts BY <1>10, ChangedFacts DEF Write, TypeOK
  <2>2. revision' \in 0..1 BY <1>10 DEF Write, TypeOK
  <2>3. writes' \in 0..MaxWrites BY <1>10, BoundsAssumption DEF Write, TypeOK
  <2> QED BY <1>10, <2>1, <2>2, <2>3 DEF Write, TypeOK, local
<1>11. CASE UNCHANGED vars BY <1>11 DEF vars, TypeOK
<1> QED BY <1>1, <1>2, <1>3, <1>4, <1>5, <1>6, <1>7, <1>8, <1>9, <1>10, <1>11 DEF Next

\* The state of a check keeps its types; what an answer names as missing are
\* caveat instances, never a cut recursion (compile/evaluate.py:residual).
THEOREM TypeCorrectness == Spec => []TypeOK
BY TypesInit, TypesStep, PTL DEF Spec

-----------------------------------------------------------------------------
(* A check during which nothing is written.                                *)

LowerHeld == Holds(facts, asked, "lower", verdicts, types, TRUE)
UpperHeld == Holds(facts, asked, "upper", verdicts, types, TRUE)

\* What its statements have seen is the data, and it goes on for what they said.
CalmReads ==
    /\ policy = revision
    /\ pc # "types" => types = facts.links[asked.object]
    /\ pc \notin {"types", "verdicts"} => verdicts = Prepared(facts, asked.action)
    /\ pc \in {"upper", "depth", "residual", "bans"} => ~LowerHeld
    /\ pc \in {"depth", "residual", "bans"} => UpperHeld
    /\ pc \notin {"residual", "bans", "answered"} => ~deep
    /\ pc = "depth" => asked.action = "read"
    /\ pc \in {"residual", "bans"} =>
         (deep <=> asked.action = "read" /\ DepthUnknown(facts, asked, verdicts, types))
    /\ pc = "bans" =>
         rows = [viewers |-> facts.viewers, parents |-> facts.parents, links |-> facts.links]

CalmAnswer ==
    /\ answer.result = "no" => Value(facts, asked) = "no"
    /\ answer.result = "conditional" =>
         /\ Value(facts, asked) = "unknown"
         /\ \A yes \in SUBSET answer.missing :
              ValueGiven(facts, asked, Decided("true") \cup yes,
                         Decided("false") \cup (answer.missing \ yes)) # "unknown"
    /\ answer.result = "depth" => ChainOf(DepthLimit + 1) # {}

CalmInv ==
    writes = 0 =>
        /\ pc # "idle" /\ pc # "answered" => CalmReads
        /\ pc = "idle" => ~deep
        /\ pc = "answered" => CalmAnswer

LEMMA SameChains ==
    ASSUME UNCHANGED facts
    PROVE ChainOf(DepthLimit + 1)' = ChainOf(DepthLimit + 1)
BY DEF ChainOf

\* A cut recursion leaves a bound open only where its closure has not converged.
LEMMA DeepIsLong ==
    ASSUME facts \in Facts, ~LowerHeld, UpperHeld, DepthUnknown(facts, asked, verdicts, types)
    PROVE ChainOf(DepthLimit + 1) # {}
<1> DEFINE member(name, bound, cut) ==
               Member(facts, asked.action, name, bound, verdicts, asked.object, types, cut)
<1>1. \A cut \in BOOLEAN :
         /\ Holds(facts, asked, "lower", verdicts, types, cut)
              <=> member("inherited", "lower", cut) /\ ~member("barred", "upper", cut)
         /\ Holds(facts, asked, "upper", verdicts, types, cut)
              <=> member("inherited", "upper", cut) /\ ~member("barred", "lower", cut)
  BY DEF Holds, Opposite
<1>2. \A name \in Names : member(name, "lower", TRUE) <=> member(name, "lower", FALSE)
  BY DEF Member, Reached
<1>3. \E name \in Names : member(name, "upper", TRUE) /\ ~member(name, "upper", FALSE)
  <2> HIDE DEF member
  <2> QED BY <1>1, <1>2 DEF LowerHeld, UpperHeld, DepthUnknown, Names
<1>4. PICK name \in Names : member(name, "upper", TRUE) /\ ~member(name, "upper", FALSE) BY <1>3
<1>5. NotConverged(Edges(facts, "upper", verdicts),
                   Closure(Edges(facts, "upper", verdicts), Base(facts, name, "upper", verdicts)),
                   Base(facts, name, "upper", verdicts))
  BY <1>4 DEF Member, Reached
<1> QED BY <1>5, UnconvergedIsLong

\* Without a caveat or a recursion in reach the bounds are the same.
LEMMA NothingUndecided ==
    ASSUME NEW f \in Facts, NEW q \in Checks, q.action = "open",
           Prepared(f, "open") = NoVerdicts,
           ~Holds(f, q, "lower", NoVerdicts, f.links[q.object], TRUE)
    PROVE Value(f, q) = "no"
<1> DEFINE type == f.links[q.object]
           side(name) == Side(f, q, name, Decided("true"), Decided("false"))
           base(name, bound) == Base(f, name, bound, NoVerdicts)
           w == Given(Decided("true"), Decided("false"))
<1>1. q.object \in Objects /\ q.action \in {"read", "open"} BY TuplesAssumption DEF Checks
<1>2. "inherited" \in Names /\ "barred" \in Names BY DEF Names
<1>3. ASSUME NEW name \in Names, NEW t \in Tuples(f, name) PROVE t[2] = Plain
  <2> DEFINE keys == {u[2] : u \in f.viewers \cup f.bans}
  <2>1. Prepared(f, "open") = [true |-> keys \cap Decided("true"), false |-> keys \cap Decided("false"),
                               unknown |-> keys \cap Decided("unknown")]
    BY DEF Prepared
  <2>2. t[2] \in keys BY DEF Tuples
  <2> HIDE DEF keys
  <2>3. /\ keys \cap Decided("true") = {} /\ keys \cap Decided("false") = {}
        /\ keys \cap Decided("unknown") = {}
    BY <2>1 DEF NoVerdicts
  <2>4. t[2] \in Caveats BY TuplesAreTyped
  <2>5. \A k \in Keys : k \in Decided("true") \/ k \in Decided("false") \/ k \in Decided("unknown")
    BY TuplesAssumption DEF Decided
  <2> QED BY <2>2, <2>3, <2>4, <2>5 DEF Caveats
<1>4. ASSUME NEW name \in Names, NEW bound \in {"lower", "upper"}
      PROVE /\ base(name, bound) = base(name, "lower")
            /\ Base(f, name, bound, w) = base(name, bound)
  <2>1. Admitted("lower", NoVerdicts, Plain) /\ Admitted("upper", NoVerdicts, Plain)
    BY DEF Admitted, NoVerdicts
  <2>2. \A o \in Objects, k \in Caveats : <<o, k>> \in Tuples(f, name) => k = Plain
    BY <1>3
  <2>3. base(name, bound) = base(name, "lower") BY <2>1, <2>2 DEF Base
  <2>4. Base(f, name, bound, w) = base(name, bound) BY PreparedIsExact
  <2> QED BY <2>3, <2>4
<1>5. ASSUME NEW name \in Names
      PROVE /\ side(name) = "yes" <=> q.object \in base(name, "lower")
            /\ side(name) = "no" <=> q.object \notin base(name, "lower")
  <2>1. /\ Base(f, name, "lower", w) = base(name, "lower")
        /\ Base(f, name, "upper", w) = base(name, "lower")
    BY <1>4
  <2> QED BY <2>1, SidesByReach
<1>6. \A name \in Names, bound \in {"lower", "upper"} :
         Member(f, "open", name, bound, NoVerdicts, q.object, type, TRUE) <=> q.object \in base(name, "lower")
  BY <1>1, <1>4, PointIsInBase DEF Member
<1>7. ~(q.object \in base("inherited", "lower") /\ ~(q.object \in base("barred", "lower")))
  BY <1>2, <1>6 DEF Holds, Opposite
<1>8. side("inherited") = "no" \/ side("barred") = "yes" BY <1>2, <1>5, <1>7
<1>9. Value(f, q) = TriMinus(side("inherited"), side("barred")) BY DEF Value, ValueGiven
<1> QED BY <1>8, <1>9 DEF TriMinus

LEMMA CalmVerdicts ==
    ASSUME TypeOK, CalmReads, pc \notin {"types", "verdicts"}
    PROVE /\ facts \in Facts /\ asked \in Checks /\ verdicts \in Verdicts
          /\ verdicts = Prepared(facts, asked.action) /\ types = facts.links[asked.object]
          /\ verdicts.true \subseteq Decided("true") /\ verdicts.false \subseteq Decided("false")
          /\ revision = policy
<1>1. verdicts = Prepared(facts, asked.action) /\ types = facts.links[asked.object]
      /\ revision = policy
  BY DEF CalmReads
<1>2. facts \in Facts /\ asked \in Checks BY DEF TypeOK, Checks
<1> QED BY <1>1, <1>2, PreparedIsDecided

LEMMA CalmLower ==
    ASSUME TypeOK, CalmInv, Lower
    PROVE CalmInv'
<1> SUFFICES ASSUME writes' = 0 PROVE CalmInv' BY DEF CalmInv
<1>0. writes = 0 /\ facts' = facts /\ asked' = asked /\ revision' = revision /\ pc = "lower"
      /\ policy' = policy /\ types' = types /\ verdicts' = verdicts /\ deep' = deep /\ rows' = rows
  BY DEF Lower, database
<1>1. CalmReads BY <1>0 DEF CalmInv
<1>2. /\ facts \in Facts /\ asked \in Checks
      /\ verdicts = Prepared(facts, asked.action) /\ types = facts.links[asked.object]
      /\ revision = policy
  BY <1>0, <1>1, CalmVerdicts
<1>3. Probe("lower") <=> LowerHeld BY <1>2 DEF Probe, LowerHeld
<1>4. CASE Probe("lower")
  <2>1. pc' = "answered" /\ answer'.result = "has" BY <1>4 DEF Lower, Answer
  <2> QED BY <2>1 DEF CalmInv, CalmAnswer
<1>5. CASE ~Probe("lower") /\ (asked.action = "read" \/ verdicts # NoVerdicts)
  <2>1. pc' = "upper" BY <1>5 DEF Lower
  <2>2. ~LowerHeld' BY <1>0, <1>3, <1>5 DEF LowerHeld
  <2>3. CalmReads' BY <1>0, <1>1, <2>1, <2>2 DEF CalmReads
  <2> QED BY <2>1, <2>3 DEF CalmInv
<1>6. CASE ~Probe("lower") /\ ~(asked.action = "read" \/ verdicts # NoVerdicts)
  <2>1. pc' = "answered" /\ answer' = Answer("no") BY <1>6 DEF Lower
  <2>2. asked.action = "open" /\ verdicts = NoVerdicts BY <1>2, <1>6 DEF Checks
  <2>3. Value(facts, asked) = "no" BY <1>2, <1>3, <1>6, <2>2, NothingUndecided DEF LowerHeld
  <2>4. CalmAnswer' BY <1>0, <2>1, <2>3 DEF CalmAnswer, Answer
  <2> QED BY <2>1, <2>4 DEF CalmInv
<1> QED BY <1>4, <1>5, <1>6

LEMMA CalmUpper ==
    ASSUME TypeOK, CalmInv, Upper
    PROVE CalmInv'
<1> SUFFICES ASSUME writes' = 0 PROVE CalmInv' BY DEF CalmInv
<1>0. writes = 0 /\ facts' = facts /\ asked' = asked /\ revision' = revision /\ pc = "upper"
      /\ policy' = policy /\ types' = types /\ verdicts' = verdicts /\ deep' = deep /\ rows' = rows
  BY DEF Upper, database
<1>1. CalmReads BY <1>0 DEF CalmInv
<1>2. /\ facts \in Facts /\ asked \in Checks /\ verdicts \in Verdicts
      /\ verdicts = Prepared(facts, asked.action) /\ types = facts.links[asked.object]
      /\ verdicts.true \subseteq Decided("true") /\ verdicts.false \subseteq Decided("false")
      /\ revision = policy
  BY <1>0, <1>1, CalmVerdicts
<1>3. Probe("upper") <=> UpperHeld BY <1>2 DEF Probe, UpperHeld
<1>4. CASE Probe("upper")
  <2>1. pc' = IF asked.action = "read" THEN "depth" ELSE "residual" BY <1>4 DEF Upper
  <2>2. UpperHeld' BY <1>0, <1>3, <1>4 DEF UpperHeld
  <2>3. ~LowerHeld' /\ ~deep BY <1>0, <1>1 DEF CalmReads, LowerHeld
  <2>4. CalmReads' BY <1>0, <1>1, <2>1, <2>2, <2>3 DEF CalmReads
  <2> QED BY <2>1, <2>4 DEF CalmInv
<1>5. CASE ~Probe("upper")
  <2>1. pc' = "answered" /\ answer' = Answer("no") BY <1>5 DEF Upper
  <2>2. Value(facts, asked) = "no" BY <1>2, <1>3, <1>5, BoundsDecide DEF UpperHeld
  <2>3. CalmAnswer' BY <1>0, <2>1, <2>2 DEF CalmAnswer, Answer
  <2> QED BY <2>1, <2>3 DEF CalmInv
<1> QED BY <1>4, <1>5

LEMMA CalmDepth ==
    ASSUME TypeOK, CalmInv, Depth
    PROVE CalmInv'
<1> SUFFICES ASSUME writes' = 0 PROVE CalmInv' BY DEF CalmInv
<1>0. writes = 0 /\ facts' = facts /\ asked' = asked /\ revision' = revision /\ pc = "depth"
      /\ policy' = policy /\ types' = types /\ verdicts' = verdicts /\ rows' = rows
      /\ deep' = Probe("depth") /\ pc' = "residual"
  BY DEF Depth, database
<1>1. CalmReads BY <1>0 DEF CalmInv
<1>2. types = facts.links[asked.object] /\ revision = policy /\ asked.action = "read"
  BY <1>0, <1>1 DEF CalmReads
<1>3. Probe("depth") <=> DepthUnknown(facts, asked, verdicts, types) BY <1>2 DEF Probe
<1>4. UpperHeld' /\ ~LowerHeld' BY <1>0, <1>1 DEF CalmReads, LowerHeld, UpperHeld
<1>5. CalmReads' BY <1>0, <1>1, <1>2, <1>3, <1>4 DEF CalmReads
<1> QED BY <1>0, <1>5 DEF CalmInv

LEMMA CalmRight ==
    ASSUME TypeOK, CalmInv, ReadRightSide
    PROVE CalmInv'
<1> SUFFICES ASSUME writes' = 0 PROVE CalmInv' BY DEF CalmInv
<1>0. writes = 0 /\ facts' = facts /\ asked' = asked /\ pc = "bans" /\ pc' = "answered"
  BY DEF ReadRightSide, database
<1>1. CalmReads BY <1>0 DEF CalmInv
<1>2. /\ facts \in Facts /\ asked \in Checks
      /\ verdicts = Prepared(facts, asked.action) /\ types = facts.links[asked.object]
  BY <1>0, <1>1, CalmVerdicts
<1>3. asked.object \in Objects /\ asked.action \in {"read", "open"}
  BY <1>2, TuplesAssumption DEF Checks
<1>4. /\ [facts EXCEPT !.viewers = rows.viewers, !.parents = rows.parents, !.links = rows.links] = facts
      /\ [facts EXCEPT !.parents = rows.parents] = facts
  <2>1. rows.viewers = facts.viewers /\ rows.parents = facts.parents /\ rows.links = facts.links
    BY <1>0, <1>1 DEF CalmReads
  <2> QED BY <1>2, <2>1 DEF Facts
<1> DEFINE left == Paths(facts, asked.action, "inherited", asked.object)
           right == Paths(facts, asked.action, "barred", asked.object)
<1>5. answer' = Residual(left, right) BY <1>4 DEF ReadRightSide
<1>6. /\ ~Holds(facts, asked, "lower", Prepared(facts, asked.action), facts.links[asked.object], TRUE)
      /\ asked.action = "read" =>
           (deep <=> DepthUnknown(facts, asked, Prepared(facts, asked.action), facts.links[asked.object]))
  BY <1>0, <1>1, <1>2 DEF CalmReads, LowerHeld
<1>7. /\ Residual(left, right).result = "no" => Value(facts, asked) = "no"
      /\ Residual(left, right).result = "conditional" =>
           /\ Value(facts, asked) = "unknown"
           /\ \A yes \in SUBSET Residual(left, right).missing :
                ValueGiven(facts, asked, Decided("true") \cup yes,
                           Decided("false") \cup (Residual(left, right).missing \ yes)) # "unknown"
      /\ Residual(left, right).result = "depth" => deep \/ Cut \in OpenAtoms(left, right)
  BY <1>2, <1>6, ResidualIsRight
<1>8. deep => ChainOf(DepthLimit + 1) # {} BY <1>0, <1>1, <1>2, DeepIsLong DEF CalmReads
<1>9. Cut \in OpenAtoms(left, right) => ChainOf(DepthLimit + 1) # {}
  <2> SUFFICES ASSUME Cut \in OpenAtoms(left, right) PROVE ChainOf(DepthLimit + 1) # {} OBVIOUS
  <2>1. Cut \in Relevant(left) \/ Cut \in Relevant(right) BY DEF OpenAtoms, RelevantTo
  <2>2. PICK name \in Names : Cut \in Relevant(Paths(facts, asked.action, name, asked.object))
    BY <2>1 DEF Names
  <2>3. PICK p \in Paths(facts, asked.action, name, asked.object) : Cut \in p
    BY <2>2 DEF Relevant
  <2>4. asked.action = "read" BY <1>2, <1>3, <2>3, PathsAreTyped
  <2> QED BY <1>2, <1>3, <2>3, <2>4, CutIsLong
<1>10. ChainOf(DepthLimit + 1)' = ChainOf(DepthLimit + 1) BY <1>0, SameChains
<1> HIDE DEF left, right
<1>11. CalmAnswer' BY <1>0, <1>5, <1>7, <1>8, <1>9, <1>10 DEF CalmAnswer
<1> QED BY <1>0, <1>11 DEF CalmInv

LEMMA CalmInit == Init => CalmInv
BY DEF Init, CalmInv

LEMMA CalmStep == TypeOK /\ CalmInv /\ [Next]_vars => CalmInv'
<1> SUFFICES ASSUME TypeOK, CalmInv, [Next]_vars PROVE CalmInv' OBVIOUS
<1>1. CASE \E o \in Askable, a \in {"read", "open"} : Ask(o, a)
  <2>1. PICK o \in Askable, a \in {"read", "open"} : Ask(o, a) BY <1>1
  <2> QED BY <2>1 DEF Ask, CalmInv, CalmReads, database
<1>2. CASE ReadTypes BY <1>2 DEF ReadTypes, CalmInv, CalmReads, database
<1>3. CASE PrepareVerdicts BY <1>3 DEF PrepareVerdicts, CalmInv, CalmReads, database
<1>4. CASE Lower BY <1>4, CalmLower
<1>5. CASE Upper BY <1>5, CalmUpper
<1>6. CASE Depth BY <1>6, CalmDepth
<1>7. CASE ReadLeftSide
  BY <1>7 DEF ReadLeftSide, CalmInv, CalmReads, LowerHeld, UpperHeld, database
<1>8. CASE ReadRightSide BY <1>8, CalmRight
<1>9. CASE Return BY <1>9 DEF Return, CalmInv
<1>10. CASE Write
  <2>1. writes' # 0 BY <1>10 DEF Write, TypeOK
  <2> QED BY <2>1 DEF CalmInv
<1>11. CASE UNCHANGED vars
  <2>1. CalmReads' <=> CalmReads BY <1>11 DEF vars, CalmReads, LowerHeld, UpperHeld
  <2>2. ChainOf(DepthLimit + 1)' = ChainOf(DepthLimit + 1) BY <1>11, SameChains DEF vars
  <2>3. CalmAnswer' <=> CalmAnswer BY <1>11, <2>2 DEF vars, CalmAnswer
  <2> QED BY <1>11, <2>1, <2>3 DEF vars, CalmInv
<1> QED BY <1>1, <1>2, <1>3, <1>4, <1>5, <1>6, <1>7, <1>8, <1>9, <1>10, <1>11 DEF Next

LEMMA CalmInvariance == Spec => []CalmInv
BY TypesInit, TypesStep, CalmInit, CalmStep, PTL DEF Spec

\* The depth bound decides nothing by itself: a check nothing interferes with
\* denies only what the schema denies over chains of any length, and raises only
\* where the data has a chain longer than the bound (compile/read.py:_answer).
THEOREM TheBoundDecidesNothing == Spec => []DepthIsExact
<1>1. CalmInv => DepthIsExact
  BY DEF CalmInv, CalmAnswer, DepthIsExact, ChecksNeverTruncate, ShortChainsAreDecided, Calm
<1> QED BY <1>1, CalmInvariance, PTL

\* A check that nothing interferes with answers CONDITIONAL only where the schema
\* is undecided, and what it names as missing decides it, whatever its outcome
\* (compile/evaluate.py:residual).
THEOREM MissingInputsDecide == Spec => []ConditionalsCanBeDecided
<1>1. CalmInv => ConditionalsCanBeDecided
  BY DEF CalmInv, CalmAnswer, ConditionalsCanBeDecided, Calm
<1> QED BY <1>1, CalmInvariance, PTL
=============================================================================
