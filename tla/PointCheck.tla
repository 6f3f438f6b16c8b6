----------------------------- MODULE PointCheck -----------------------------
(***************************************************************************)
(* One point check of an actor, by the statements LocalBackend runs for it *)
(* (compile/read.py): the content types of the row, the caveat instances,  *)
(* the lower bound, the upper bound, the depth probe and the residual      *)
(* pass.  Tuples, rows and the policy change between any two of them.      *)
(*                                                                         *)
(* The schema is fixed and has what makes the bounds differ:               *)
(*     permission inherited = viewer + team->member + parent->inherited    *)
(*     permission barred    = banned + block->member + parent->barred      *)
(*     permission read      = inherited - barred                           *)
(*     permission open      = (viewer + team->member)                      *)
(*                              - (banned + block->member)                 *)
(* viewer, banned and parent are stored relations whose tuples may carry a *)
(* caveat; team and block are backed by one GenericForeignKey, and the     *)
(* actor is a member of every team and block.                              *)
(***************************************************************************)
EXTENDS Naturals, FiniteSets, TLC

CONSTANTS Objects,    \* what tuples name
          Keys,       \* caveat instances (Relationship.caveat_key)
          Verdict,    \* what the request context makes of each instance
          Plain,      \* no caveat
          Viewers,    \* the viewer tuples that may be written: object, caveat
          Bans,       \* the banned tuples that may be written: object, caveat
          Parents,    \* the parent tuples that may be written: object, parent, caveat
          Linkable,   \* the objects whose row may change its content type
          Askable,    \* the objects checked
          DepthLimit, \* REBAC_DEPTH_LIMIT
          MaxWrites   \* bound: changes during one check

Caveats == Keys \cup {Plain}
Types == {"team", "block", "other"}

ASSUME TuplesAssumption ==
    /\ IsFiniteSet(Objects) /\ Plain \notin Keys
    /\ Verdict \in [Keys -> {"true", "false", "unknown"}]
    /\ Viewers \subseteq Objects \X Caveats /\ Bans \subseteq Objects \X Caveats
    /\ Parents \subseteq Objects \X Objects \X Caveats
    /\ Linkable \subseteq Objects /\ Askable \subseteq Objects /\ Askable # {}
ASSUME BoundsAssumption == DepthLimit \in Nat \ {0} /\ MaxWrites \in Nat

\* A cut recursion, as an atom of a residual path.
Cut == "depth"
ASSUME CutAssumption == Cut \notin Caveats

VARIABLES facts,    \* the tuples and the content type of each row
          revision, \* of the published policy
          pc,
          asked,    \* the object and the permission of the check
          policy,   \* the revision its statements are compiled from
          types,    \* the content type read for the object's row
          verdicts, \* the caveat instances decided for the check
          deep,     \* what the depth probe found
          rows,     \* the viewer and parent tuples the residual pass has read
          answer,
          truth,    \* what the check should say at the moment of the lower bound;
                    \* not known once its policy is replaced
          writes    \* how often something changed since the check began

database == <<facts, revision>>
local == <<asked, policy, types, verdicts, deep, rows, answer>>
vars == <<facts, revision, pc, asked, policy, types, verdicts, deep, rows, answer, truth, writes>>

Facts == [viewers : SUBSET Viewers, bans : SUBSET Bans, parents : SUBSET Parents,
          links : [Objects -> Types]]
NoVerdicts == [true |-> {}, false |-> {}, unknown |-> {}]
Answers == [result : {"none", "has", "no", "conditional", "depth"}, missing : SUBSET Keys]
Answer(result) == [result |-> result, missing |-> {}]

Phases == {"idle", "types", "verdicts", "lower", "upper", "depth", "residual", "bans", "answered"}

TypeOK ==
    /\ facts \in Facts /\ revision \in 0..1 /\ policy \in 0..1
    /\ pc \in Phases /\ asked \in [object : Askable, action : {"read", "open"}]
    /\ types \in Types /\ deep \in BOOLEAN
    /\ verdicts \in [true : SUBSET Keys, false : SUBSET Keys, unknown : SUBSET Keys]
    /\ rows \in [viewers : SUBSET Viewers, parents : SUBSET Parents, links : [Objects -> Types]]
    /\ answer \in Answers /\ truth \in {"yes", "no", "unknown"} /\ writes \in 0..MaxWrites

-----------------------------------------------------------------------------
(* The two bounds of a permission, as the compiler builds them.            *)

Opposite(bound) == IF bound = "lower" THEN "upper" ELSE "lower"

\* Mutant: an upper bound that admits only the instances it knows.
AdmittedIfKnown(bound, v, k) ==
    IF bound = "lower" THEN k = Plain \/ k \in v.true ELSE k \in v.true \cup v.unknown \cup {Plain}

\* A lower bound admits what is decided true, an upper bound what is not
\* decided false; an instance written after the preparation is in neither set.
Admitted(bound, v, k) ==
    IF bound = "lower" THEN k = Plain \/ k \in v.true ELSE k \notin v.false

Tuples(f, name) == IF name = "inherited" THEN f.viewers ELSE f.bans
LinkOf(name) == IF name = "inherited" THEN "team" ELSE "block"

Edges(f, bound, v) ==
    {e \in Objects \X Objects : \E k \in Caveats :
        <<e[1], e[2], k>> \in f.parents /\ Admitted(bound, v, k)}

\* The base of a recursion at an object some tuple names.
Base(f, name, bound, v) ==
    {o \in Objects : \/ f.links[o] = LinkOf(name)
                     \/ \E k \in Caveats : <<o, k>> \in Tuples(f, name) /\ Admitted(bound, v, k)}

\* The base at the object of the check: only the arm of the type read for its
\* row is compiled.
BaseAtPoint(f, name, bound, v, o, type) ==
    \/ type = LinkOf(name) /\ f.links[o] = type
    \/ \E k \in Caveats : <<o, k>> \in Tuples(f, name) /\ Admitted(bound, v, k)

Above(edges, s) == {o \in Objects : \E p \in s : <<o, p>> \in edges}

\* The objects from which some edges, DepthLimit at most and at least one,
\* lead to the base.
Closure(edges, base) ==
    LET level[n \in 1..DepthLimit] == IF n = 1 THEN Above(edges, base)
                                      ELSE level[n - 1] \cup Above(edges, level[n - 1])
    IN level[DepthLimit]

\* Mutant: one more hop is taken to reach nothing.
AssumedConverged(edges, closure, base) == FALSE
\* Mutant: an edge inside the closure counts as one that leaves it.
NotConvergedInside(edges, closure, base) ==
    \E e \in edges : e[2] \in closure /\ e[1] \notin base

\* One more hop reaches an object outside the closure.
NotConverged(edges, closure, base) ==
    \E e \in edges : e[2] \in closure /\ e[1] \notin closure /\ e[1] \notin base

Reached(f, name, bound, v, o, cut) ==
    LET edges == Edges(f, bound, v)
        base == Base(f, name, bound, v)
        closure == Closure(edges, base)
    IN \/ o \in closure
       \/ bound = "upper" /\ cut /\ NotConverged(edges, closure, base)

Member(f, action, name, bound, v, o, type, cut) ==
    \/ BaseAtPoint(f, name, bound, v, o, type)
    \/ action = "read" /\ Reached(f, name, bound, v, o, cut)

\* A subtraction compiles its right side at the opposite bound.
Holds(f, q, bound, v, type, cut) ==
    /\ Member(f, q.action, "inherited", bound, v, q.object, type, cut)
    /\ ~Member(f, q.action, "barred", Opposite(bound), v, q.object, type, cut)

\* Undecided only because a recursion was cut: without the cuts the upper bound
\* fails, or the lower one holds.
DepthUnknown(f, q, v, type) ==
    \/ ~Holds(f, q, "upper", v, type, FALSE)
    \/ Holds(f, q, "lower", v, type, FALSE)

\* Mutant: the row's content type is not read again.
UnwitnessedProbe(which) ==
    /\ revision = policy
    /\ CASE which = "depth" -> DepthUnknown(facts, asked, verdicts, types)
         [] OTHER -> Holds(facts, asked, which, verdicts, types, TRUE)

\* One statement: the fence, the row's content type and the bound.
Probe(which) ==
    /\ revision = policy
    /\ facts.links[asked.object] = types
    /\ CASE which = "depth" -> DepthUnknown(facts, asked, verdicts, types)
         [] OTHER -> Holds(facts, asked, which, verdicts, types, TRUE)

-----------------------------------------------------------------------------
(* The residual pass.  A path is the set of atoms it needs: instances whose *)
(* caveat is undecided and cut recursions.                                  *)

\* The atoms a tuple adds to a path; none if its caveat fails.
Conditions(k) ==
    IF k = Plain THEN {{}}
    ELSE CASE Verdict[k] = "true" -> {{}} [] Verdict[k] = "false" -> {} [] OTHER -> {{k}}

\* The paths that end at the object.
OwnPaths(f, name, o) ==
    (IF f.links[o] = LinkOf(name) THEN {{}} ELSE {})
      \cup UNION {Conditions(t[2]) : t \in {t \in Tuples(f, name) : t[1] = o}}

\* Those that go on over a parent tuple.
LongerPaths(f, o, further) ==
    UNION {{c \cup p : c \in Conditions(t[3]), p \in further[t[2]]} :
             t \in {t \in f.parents : t[1] = o}}

\* A branch that comes back to an object, or is longer than the bound, is cut.
Paths(f, action, name, object) ==
    IF action = "open" THEN OwnPaths(f, name, object)
    ELSE LET paths[seen \in SUBSET Objects] ==
               [o \in Objects |->
                   IF Cardinality(seen) > DepthLimit \/ o \in seen THEN {{Cut}}
                   ELSE OwnPaths(f, name, o) \cup LongerPaths(f, o, paths[seen \cup {o}])]
         IN paths[{}][object]

\* The atoms that can still change the union of the paths (a reduced diagram
\* keeps those of the minimal paths).
Relevant(paths) == UNION {p \in paths : ~\E q \in paths : q # p /\ q \subseteq p}

Settled(paths) == IF {} \in paths THEN "yes" ELSE IF paths = {} THEN "no" ELSE "unknown"

TriMinus(left, right) ==
    IF left = "no" \/ right = "yes" THEN "no"
    ELSE IF left = "yes" /\ right = "no" THEN "yes" ELSE "unknown"

\* Mutant: the excluded side adds no missing input.
LeftRelevant(left, right) == Relevant(left)

RelevantTo(left, right) == Relevant(left) \cup Relevant(right)

\* What can still change the difference of the two sides.
OpenAtoms(left, right) ==
    IF TriMinus(Settled(left), Settled(right)) = "unknown" THEN RelevantTo(left, right) ELSE {}

\* Mutant: a cut recursion is reported as one more missing input.
ResidualWithoutDepth(left, right) ==
    IF deep THEN Answer("depth")
    ELSE IF OpenAtoms(left, right) # {}
         THEN [result |-> "conditional", missing |-> OpenAtoms(left, right)]
         ELSE Answer("no")

\* What _answer() makes of the residual and the depth probe.
Residual(left, right) ==
    LET open == OpenAtoms(left, right)
    IN IF Cut \in open \/ deep THEN Answer("depth")
       ELSE IF open # {} THEN [result |-> "conditional", missing |-> open]
       ELSE Answer("no")

-----------------------------------------------------------------------------
(* What the check should say: the schema's meaning over all chains, with    *)
(* the walker's three values.                                               *)

\* The least set that has s and is closed under the edges.
Ancestors(edges, s) ==
    {o \in Objects : \A c \in SUBSET Objects :
        s \subseteq c /\ (\A e \in edges : e[1] \in c => e[2] \in c) => o \in c}

\* The value of one side when the instances in yes hold and those in no do not.
Side(f, q, name, yes, no) ==
    LET v == [true |-> yes, false |-> no, unknown |-> {}]
        from(bound) == IF q.action = "read" THEN Ancestors(Edges(f, bound, v), {q.object}) ELSE {q.object}
    IN IF from("lower") \cap Base(f, name, "lower", v) # {} THEN "yes"
       ELSE IF from("upper") \cap Base(f, name, "upper", v) # {} THEN "unknown" ELSE "no"

ValueGiven(f, q, yes, no) == TriMinus(Side(f, q, "inherited", yes, no), Side(f, q, "barred", yes, no))

Decided(value) == {k \in Keys : Verdict[k] = value}
Value(f, q) == ValueGiven(f, q, Decided("true"), Decided("false"))

-----------------------------------------------------------------------------

NoRows == [viewers |-> {}, parents |-> {}, links |-> [o \in Objects |-> "other"]]
NoCheck == CHOOSE q \in [object : Askable, action : {"read", "open"}] : TRUE

Init ==
    /\ facts \in Facts /\ \A o \in Objects \ Linkable : facts.links[o] = "other"
    /\ revision = 0 /\ pc = "idle"
    /\ policy = 0 /\ types = "other" /\ verdicts = NoVerdicts /\ asked = NoCheck
    /\ deep = FALSE /\ rows = NoRows /\ answer = Answer("none")
    /\ truth = "unknown" /\ writes = 0

Ask(o, a) ==
    /\ pc = "idle" /\ pc' = "types"
    /\ asked' = [object |-> o, action |-> a]
    /\ policy' = revision
    /\ UNCHANGED <<types, verdicts, deep, rows, answer, truth, writes>> /\ UNCHANGED database

ReadTypes ==
    /\ pc = "types" /\ pc' = "verdicts"
    /\ types' = facts.links[asked.object]
    /\ UNCHANGED <<asked, policy, verdicts, deep, rows, answer, truth, writes>> /\ UNCHANGED database

\* The instances on any tuple of a relation in reach, whatever object it names.
Prepared(f, action) ==
    LET keys == {t[2] : t \in f.viewers \cup f.bans}
                  \cup (IF action = "read" THEN {t[3] : t \in f.parents} ELSE {})
    IN [true |-> keys \cap Decided("true"), false |-> keys \cap Decided("false"),
        unknown |-> keys \cap Decided("unknown")]

PrepareVerdicts ==
    /\ pc = "verdicts" /\ pc' = "lower"
    /\ verdicts' = Prepared(facts, asked.action)
    /\ UNCHANGED <<asked, policy, types, deep, rows, answer, truth, writes>> /\ UNCHANGED database

\* Only this statement may allow.  Without a caveat or a recursion in reach the
\* bounds are the same and its answer is final.
Lower ==
    /\ pc = "lower"
    /\ truth' = IF revision = policy THEN Value(facts, asked) ELSE "unknown"
    /\ IF Probe("lower")
         THEN pc' = "answered" /\ answer' = Answer("has")
         ELSE IF asked.action = "read" \/ verdicts # NoVerdicts
         THEN pc' = "upper" /\ UNCHANGED answer
         ELSE pc' = "answered" /\ answer' = Answer("no")
    /\ UNCHANGED <<asked, policy, types, verdicts, deep, rows, writes>> /\ UNCHANGED database

Upper ==
    /\ pc = "upper"
    /\ IF Probe("upper")
         THEN /\ pc' = IF asked.action = "read" THEN "depth" ELSE "residual"
              /\ UNCHANGED answer
         ELSE pc' = "answered" /\ answer' = Answer("no")
    /\ UNCHANGED <<asked, policy, types, verdicts, deep, rows, truth, writes>> /\ UNCHANGED database

Depth ==
    /\ pc = "depth" /\ pc' = "residual"
    /\ deep' = Probe("depth")
    /\ UNCHANGED <<asked, policy, types, verdicts, rows, answer, truth, writes>>
    /\ UNCHANGED database

\* The residual pass reads the left side of the subtraction first and keeps the
\* parent tuples it read for the right side (rows_cache).
ReadLeftSide ==
    /\ pc = "residual" /\ pc' = "bans"
    /\ rows' = [viewers |-> facts.viewers, parents |-> facts.parents, links |-> facts.links]
    /\ UNCHANGED <<asked, policy, types, verdicts, deep, answer, truth, writes>>
    /\ UNCHANGED database

ReadRightSide ==
    /\ pc = "bans" /\ pc' = "answered"
    /\ LET left == [facts EXCEPT !.viewers = rows.viewers, !.parents = rows.parents, !.links = rows.links]
           right == [facts EXCEPT !.parents = rows.parents]
       IN answer' = Residual(Paths(left, asked.action, "inherited", asked.object),
                             Paths(right, asked.action, "barred", asked.object))
    /\ UNCHANGED <<asked, policy, types, verdicts, deep, rows, truth, writes>>
    /\ UNCHANGED database

Return ==
    /\ pc = "answered" /\ pc' = "idle"
    /\ policy' = 0 /\ types' = "other" /\ verdicts' = NoVerdicts /\ asked' = NoCheck
    /\ deep' = FALSE /\ rows' = NoRows /\ answer' = Answer("none")
    /\ truth' = "unknown" /\ writes' = 0 /\ UNCHANGED database

\* Other transactions: one tuple is written or deleted, one row changed, or the
\* policy replaced.
Toggle(set, x) == IF x \in set THEN set \ {x} ELSE set \cup {x}

Change(f) ==
    \/ \E x \in Viewers : f = [facts EXCEPT !.viewers = Toggle(@, x)]
    \/ \E x \in Bans : f = [facts EXCEPT !.bans = Toggle(@, x)]
    \/ \E x \in Parents : f = [facts EXCEPT !.parents = Toggle(@, x)]
    \/ \E o \in Linkable, t \in Types : t # facts.links[o] /\ f = [facts EXCEPT !.links[o] = t]

Write ==
    /\ pc # "idle" /\ pc # "answered" /\ writes < MaxWrites /\ writes' = writes + 1
    /\ \/ Change(facts') /\ UNCHANGED revision
       \/ revision' = 1 - revision /\ UNCHANGED facts
    /\ UNCHANGED pc /\ UNCHANGED truth /\ UNCHANGED local

Next ==
    \/ \E o \in Askable, a \in {"read", "open"} : Ask(o, a)
    \/ ReadTypes \/ PrepareVerdicts \/ Lower \/ Upper \/ Depth
    \/ ReadLeftSide \/ ReadRightSide \/ Return \/ Write

Spec == Init /\ [][Next]_vars

-----------------------------------------------------------------------------
(* Properties                                                              *)

\* A check during which nothing was written.
Calm == pc = "answered" /\ writes = 0

\* A check answers HAS only if, at the moment of the statement that allowed it,
\* the permission held on every chain and whatever the undecided caveats turn
\* out to be, under the policy still in force: nothing written since the content
\* types and the caveats were read makes the lower bound allow
\* (compile/read.py:_point_result "Only LOWER may authorize").
HasIsJustified == pc = "answered" /\ answer.result = "has" => truth = "yes"

\* A check nothing interferes with answers NO only if the actor is denied on the
\* whole data: not by a chain cut at the bound, on either side of the
\* subtraction, and not by a caveat it could not decide (compile/read.py:_answer).
ChecksNeverTruncate == Calm /\ answer.result = "no" => Value(facts, asked) = "no"

\* A conditional answer names what decides it: the check is undecided, and
\* supplying the inputs of the instances it names, with any outcome, decides it
\* (compile/evaluate.py:residual).
ConditionalsCanBeDecided ==
    Calm /\ answer.result = "conditional" =>
        /\ Value(facts, asked) = "unknown"
        /\ \A yes \in SUBSET answer.missing :
              ValueGiven(facts, asked, Decided("true") \cup yes,
                         Decided("false") \cup (answer.missing \ yes)) # "unknown"

\* The objects from which some chain has n edges.
ChainOf(n) ==
    LET from[i \in 0..n] == IF i = 0 THEN Objects
                            ELSE {t[1] : t \in {t \in facts.parents : t[2] \in from[i - 1]}}
    IN from[n]

\* With a bound that covers the deepest chain of the data, no check raises for
\* depth: neither the convergence test nor the residual pass is one hop short
\* (predicate.py:_not_converged, evaluate.py:node).
ShortChainsAreDecided ==
    Calm /\ answer.result = "depth" => ChainOf(DepthLimit + 1) # {}

\* The depth bound decides nothing by itself (compile/read.py:_answer).
DepthIsExact == ChecksNeverTruncate /\ ShortChainsAreDecided

\* Stated by docs/ARCHITECTURE.md:1991 and docs/ZED.md:615: where one more hop
\* reaches nothing new the closure is complete, data cycles included, and the
\* check answers.  The residual pass of the code raises for the revisit.
ConvergedClosuresAreDecided ==
    Calm /\ answer.result = "depth" =>
        \E name \in {"inherited", "barred"} :
            LET edges == Edges(facts, "upper", verdicts)
                base == Base(facts, name, "upper", verdicts)
            IN NotConverged(edges, Closure(edges, base), base)
=============================================================================
