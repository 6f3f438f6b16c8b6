------------------------------- MODULE Overrides -------------------------------
(***************************************************************************)
(* What override rows make of the permissions of a policy                  *)
(* (composition.py), and the statements prepared for the composed policy   *)
(* (compile/read.py, compile/predicate.py), while deadlines of overrides   *)
(* pass and other sessions edit the rows.                                  *)
(*                                                                         *)
(* Permissions are composed from relations of one object, from each other  *)
(* and from `authenticated'.  A tuple of a relation may carry the one      *)
(* caveat of the schema, whose expression a recaveat override replaces.    *)
(* The tuples do not change here: PointCheck has them changing between the *)
(* statements of a check.                                                  *)
(***************************************************************************)
EXTENDS Naturals, FiniteSets

CONSTANTS
    Relations,     \* the relations of the definition
    Gone,          \* names the baseline no longer has
    Permissions,
    Expressions,   \* what is written in baselines and override rows, with its parts
    DepthOf,       \* DepthOf[e]: how deep e nests
    MaxDepth,      \* bound on that
    Baseline,      \* Baseline[p]: the stored expression of p
    Forms,         \* what override rows may say
    Writable,      \* those that may be created
    FirstRows,     \* the rows that may be there at the start
    FirstRevision, \* the revision published then
    FirstFacts,    \* the tuples that may be there: none, plain or under the caveat
    Decides,       \* Decides[x]: what the request context makes of CEL expression x
    StoredCaveat,  \* the expression of the stored caveat
    Kinds,         \* the operations asked for
    Never,         \* no deadline
    MaxTime,       \* bound on the clock
    LastRevision,  \* bound on the revisions that are published
    MaxAsks,       \* bound on operations and scopes
    Nil            \* nothing there

Caveat == "caveat"
Times == 0..MaxTime
Truths == {"true", "false", "unknown"}
Presence == {"none", "plain", Caveat}

Ref(name) == [op |-> "ref", name |-> name]
Cel(name) == [op |-> "cel", name |-> name]
Binary(o, left, right) == [op |-> o, left |-> left, right |-> right]

\* A row also has the revision that its creation published, for its place in
\* the order of created_at.
Stamped(form, n) == [target |-> form.target, kind |-> form.kind,
                     expression |-> form.expression, expires |-> form.expires, created |-> n]
OverrideRows == {Stamped(form, n) : form \in Forms, n \in 1..LastRevision}

\* What is nested in an expression is less deep than it.
ASSUME ExpressionsAssumption ==
    /\ MaxDepth \in Nat /\ DepthOf \in [Expressions -> 0..MaxDepth]
    /\ \A e \in Expressions : e.op \in {"+", "&", "-"} =>
          /\ e.left \in Expressions /\ DepthOf[e.left] < DepthOf[e]
          /\ e.right \in Expressions /\ DepthOf[e.right] < DepthOf[e]
    /\ Baseline \in [Permissions -> Expressions]
    /\ \A p \in Permissions : Ref(p) \in Expressions
ASSUME NamesAssumption ==
    /\ Relations \cap Permissions = {} /\ "authenticated" \notin Relations \cup Permissions
    /\ IsFiniteSet(Permissions) /\ \A p \in Permissions : \E q \in Permissions : q # p
ASSUME FormsAssumption ==
    /\ Forms \subseteq [target : Permissions \cup {Caveat}, expression : Expressions, expires : Nat,
                        kind : {"extend", "loosen", "disable", "tighten", "recaveat"}]
    /\ \A form \in Forms : form.kind = "recaveat" =>
          form.expression.op = "cel" /\ form.expression.name \in DOMAIN Decides
    /\ Writable \subseteq Forms
ASSUME DecidesAssumption ==
    StoredCaveat \in DOMAIN Decides /\ \A x \in DOMAIN Decides : Decides[x] \in Truths
ASSUME LimitsAssumption ==
    /\ MaxTime \in Nat /\ MaxAsks \in Nat /\ Never \in Nat /\ Never > MaxTime
    /\ LastRevision \in Nat /\ FirstRevision \in 0..LastRevision

VARIABLES
    now,          \* the application clock
    facts,        \* facts[r]: the actor's tuple of relation r on the object
    overrideRows, \* the committed override rows
    current,      \* the revision of the published policy
    \* The process.
    shared,       \* the policy snapshot its loads share
    pin,          \* the one its evaluator scope has pinned
    generation,   \* how many snapshots were shared
    kept,         \* the policy of _policies
    statements,   \* _statements: those kept for later operations
    answers,      \* the check cache of the evaluator
    scope,        \* a queryset scope that is built and may be executed later
    \* One operation of a thread.
    pc,
    asks,         \* how many began, scopes included
    op,           \* the operation: its kind, its permission, the snapshot it began with
    began,        \* when it began (auxiliary)
    policy,       \* the policy its statements are compiled for
    answer

database == <<now, facts, overrideRows, current>>
process == <<shared, pin, generation, kept, statements, answers, scope>>
local == <<asks, op, began, policy, answer>>
overridesVars == <<now, facts, overrideRows, current, shared, pin, generation, kept, statements,
                   answers, scope, pc, asks, op, began, policy, answer>>

-----------------------------------------------------------------------------
(* Expressions.                                                            *)

Names[e \in Expressions] ==
    CASE e.op = "ref" -> {e.name} [] e.op = "cel" -> {}
      [] OTHER -> Names[e.left] \cup Names[e.right]

\* An expression is read where so many more permissions may be entered.  No
\* accepted policy is cyclic, so none is left out.
Levels == Cardinality(Permissions)
Nodes == Expressions \X (0..Levels)
Bounds == {"lower", "upper"}

-----------------------------------------------------------------------------
(* Composition of a policy from the baseline and its override rows.        *)

ActiveAt(row, t) == row.expires > t
Active(rs, t) == {row \in rs : ActiveAt(row, t)}

\* split_stale_overrides: an arm with a name the baseline lost is ignored.
Unstale(rs) == {row \in rs : Names[row.expression] \cap Gone = {}}

Aimed(rs, p, kinds) == {row \in rs : row.target = p /\ row.kind \in kinds}

\* ((baseline + extends) - disables) & tightens.
ComposePermission(rs, p) ==
    [base |-> Baseline[p],
     extends |-> Aimed(rs, p, {"extend", "loosen"}),
     disables |-> Aimed(rs, p, {"disable"}),
     tightens |-> Aimed(rs, p, {"tighten"})]

Operands(body) ==
    {body.base} \cup {row.expression : row \in body.extends \cup body.disables \cup body.tightens}

\* Mutant: the first recaveat wins.
FirstCaveat(rs) ==
    LET recaveats == Aimed(rs, Caveat, {"recaveat"})
        first == CHOOSE row \in recaveats : \A r \in recaveats : row.created <= r.created
    IN IF recaveats = {} THEN StoredCaveat ELSE first.expression.name

\* The last recaveat wins.
ComposeCaveat(rs) ==
    LET recaveats == Aimed(rs, Caveat, {"recaveat"})
        winners == {row \in recaveats : \A r \in recaveats : r.created <= row.created}
    IN IF recaveats = {} THEN StoredCaveat ELSE (CHOOSE row \in winners : TRUE).expression.name

ComposeTagged(rs) ==
    [permissions |-> [p \in Permissions |-> ComposePermission(rs, p)],
     caveat |-> ComposeCaveat(rs)]

Edges(rs) == {pq \in Permissions \X Permissions :
                \E e \in Operands(ComposePermission(rs, pq[1])) : pq[2] \in Names[e]}

\* _detect_cycles, over the references between permissions of one definition.
CyclicGraph(edges) ==
    LET next(s) == {q \in Permissions : \E p \in s : <<p, q>> \in edges}
        reach[n \in 1..Levels] ==
            [p \in Permissions |-> IF n = 1 THEN next({p})
                                   ELSE reach[n - 1][p] \cup next(reach[n - 1][p])]
    IN \E p \in Permissions : p \in reach[Levels][p]

Cyclic(rs) == CyclicGraph(Edges(rs))

-----------------------------------------------------------------------------
(* A policy, and the SQL compiled from it.  A policy is known by the rows  *)
(* and the snapshot it is prepared from and by selected_at.                *)

\* Every permission row, expired ones too; of the recaveats, those in force.
InStatement(rs, t) == {row \in Unstale(rs) : row.kind # "recaveat" \/ ActiveAt(row, t)}
Tagged(pol) == ComposeTagged(InStatement(pol.rows, pol.at))
Effective(pol) == ComposeTagged(Unstale(Active(pol.rows, pol.at)))

Deadlines(rs) == {row.expires : row \in rs} \ {Never}
Ahead(pol) == {d \in Deadlines(Unstale(pol.rows)) : d > pol.at}
Passed(pol) == {d \in Deadlines(Aimed(pol.rows, Caveat, {"recaveat"})) : d <= pol.at}
Fence(pol) == [ahead |-> Ahead(pol), passed |-> Passed(pol)]

\* Mutant: only the deadlines of recaveats are witnessed.
FenceOfCaveats(pol, rev, t) ==
    /\ pol.revision = rev
    /\ \A d \in Ahead(pol) \cap Deadlines(Aimed(pol.rows, Caveat, {"recaveat"})) : t < d
    /\ \A d \in Passed(pol) : t >= d

\* Mutant: a statement outlives the policy it was compiled from.
FenceOfDeadlines(pol, rev, t) ==
    /\ \A d \in Ahead(pol) : t < d
    /\ \A d \in Passed(pol) : t >= d

\* The policy is still the published one, and no deadline it chose by has
\* passed since.
FenceOpen(pol, rev, t) ==
    /\ pol.revision = rev
    /\ \A d \in Ahead(pol) : t < d
    /\ \A d \in Passed(pol) : t >= d

\* Mutant: an excluded expression is bounded from the same side.
SameSide(bound) == IF bound = "lower" THEN "lower" ELSE "upper"

\* An excluded expression is bounded from the other side.
Opposite(bound) == IF bound = "lower" THEN "upper" ELSE "lower"

\* A tuple under the caveat counts for the lower bound when the caveat is
\* decided true, for the upper one unless it is decided false.
Admitted(fact, verdict, bound) ==
    \/ fact = "plain"
    \/ fact = Caveat /\ IF bound = "lower" THEN verdict = "true" ELSE verdict # "false"

\* Mutant: the arm is in force for ever.
UntaggedArm(row, t) == row.expires = row.expires

\* Mutant: the operand is in force for ever.
UntaggedSite(row, t) == row.expires = row.expires

\* The tags of an override that contributes: an arm of the union counts before
\* its deadline, an exclusion or a restriction binds before its own.
Arm(row, t) == t < row.expires
Site(row, t) == t < row.expires

\* The predicate of an expression in a bound, at instant t, from those of the
\* expressions it rests on: s is the composed schema, f the tuples.
HoldsAt(holds, s, f, t, x) ==
    LET e == x[1][1]
        n == x[1][2]
        in(y, m, b) == holds[<<<<y, m>>, b>>]
        permission(body) ==
           /\ \/ in(body.base, n - 1, x[2])
              \/ \E row \in body.extends : in(row.expression, n - 1, x[2]) /\ Arm(row, t)
           /\ \A row \in body.disables :
                 Site(row, t) => ~in(row.expression, n - 1, Opposite(x[2]))
           /\ \A row \in body.tightens : Site(row, t) => in(row.expression, n - 1, x[2])
    IN \/ e.op = "+" /\ (in(e.left, n, x[2]) \/ in(e.right, n, x[2]))
       \/ e.op = "&" /\ in(e.left, n, x[2]) /\ in(e.right, n, x[2])
       \/ e.op = "-" /\ in(e.left, n, x[2]) /\ ~in(e.right, n, Opposite(x[2]))
       \/ e.op = "ref" /\ e.name = "authenticated"
       \/ e.op = "ref" /\ e.name \in Relations
                       /\ Admitted(f[e.name], Decides[s.caveat], x[2])
       \/ e.op = "ref" /\ e.name \in Permissions /\ n > 0
                       /\ permission(s.permissions[e.name])

Compiled(s, f, t) ==
    LET holds[x \in Nodes \X Bounds] == HoldsAt(holds, s, f, t, x) IN holds

NoFacts == [r \in Relations |-> "none"]

Entry(p) == <<Ref(p), Levels>>

Holds(pol, f, p, bound, t) == Compiled(Tagged(pol), f, t)[<<Entry(p), bound>>]

-----------------------------------------------------------------------------
(* Kleene's three values, as walker.py combines them.                      *)

KNot(v) == CASE v = "true" -> "false" [] v = "false" -> "true" [] OTHER -> "unknown"
KOr(vs) == IF "true" \in vs THEN "true" ELSE IF "unknown" \in vs THEN "unknown" ELSE "false"
KAnd(vs) == IF "false" \in vs THEN "false" ELSE IF "unknown" \in vs THEN "unknown" ELSE "true"

\* The residual pass: the value of an expression of a composed schema.
ValueAt(value, s, f, x) ==
    LET e == x[1]
        n == x[2]
        permission(body) ==
           LET of(rs) == {value[<<row.expression, n - 1>>] : row \in rs}
           IN KAnd({KOr({value[<<body.base, n - 1>>]} \cup of(body.extends))}
                   \cup {KNot(v) : v \in of(body.disables)} \cup of(body.tightens))
    IN CASE e.op = "+" -> KOr({value[<<e.left, n>>], value[<<e.right, n>>]})
         [] e.op = "&" -> KAnd({value[<<e.left, n>>], value[<<e.right, n>>]})
         [] e.op = "-" -> KAnd({value[<<e.left, n>>], KNot(value[<<e.right, n>>])})
         [] e.op = "ref" ->
              (CASE e.name \in Permissions ->
                      IF n > 0 THEN permission(s.permissions[e.name]) ELSE "false"
                 [] e.name \in Relations ->
                      (CASE f[e.name] = "none" -> "false" [] f[e.name] = "plain" -> "true"
                         [] OTHER -> Decides[s.caveat])
                 [] OTHER -> IF e.name = "authenticated" THEN "true" ELSE "false")
         [] OTHER -> "false"

ValueOf(s, f) == LET value[x \in Nodes] == ValueAt(value, s, f, x) IN value

-----------------------------------------------------------------------------
(* The policy snapshots of the process: SchemaLoader has the loads.        *)

Snapshot(t, g) ==
    [rows |-> overrideRows, revision |-> current, at |-> t, generation |-> g]

\* Mutant: a snapshot is used until the revision moves.
NeverExpires(snapshot, t) == snapshot.rows = snapshot.rows

\* A snapshot is fresh until the first deadline among the overrides that were
\* active when it was loaded.
Unexpired(snapshot, t) ==
    \A d \in Deadlines(Active(Unstale(snapshot.rows), snapshot.at)) : t < d

Shareable == shared # Nil /\ shared.revision = current /\ Unexpired(shared, now)
Acquired == IF pin # Nil /\ Unexpired(pin, now) THEN pin
            ELSE IF Shareable THEN shared ELSE Snapshot(now, generation + 1)

Acquire ==
    /\ pin' = Acquired
    /\ shared' = IF Acquired.generation > generation THEN Acquired ELSE shared
    /\ generation' = IF Acquired.generation > generation THEN Acquired.generation
                     ELSE generation

-----------------------------------------------------------------------------
NoOperation == [kind |-> Nil, permission |-> Nil, revision |-> 0, key |-> 0,
                shares |-> FALSE, with |-> Nil]

PolicySnapshots ==
    [rows : SUBSET OverrideRows, revision : 0..LastRevision, generation : Nat, at : Times]
Operations == [kind : Kinds \cup {"scope", "held", "shared"}, permission : Permissions,
               revision : 0..LastRevision, key : Nat, shares : BOOLEAN,
               with : PolicySnapshots]
ASSUME KindsAssumption == Kinds \subseteq {"check", "all", "many", "list", "build"}
ASSUME NilAssumption ==
    /\ Nil \notin PolicySnapshots /\ Nil \notin [policy : PolicySnapshots, permission : Permissions]
    /\ Nil \notin {"has", "no", "conditional", "refused"}
Stages == {"idle", "asked", "selected", "prepared", "upper", "residual", "answered"}

OverridesTypeOK ==
    /\ now \in Times /\ asks \in 0..MaxAsks /\ facts \in [Relations -> Presence]
    /\ overrideRows \in SUBSET OverrideRows /\ current \in 0..LastRevision
    /\ generation \in Nat
    /\ {shared, pin, kept, policy} \subseteq PolicySnapshots \cup {Nil}
    /\ statements \in [Permissions -> PolicySnapshots \cup {Nil}]
    /\ answers \subseteq [generation : Nat, permission : Permissions, answer : {"has", "no"}]
    /\ scope = Nil \/ scope \in [policy : PolicySnapshots, permission : Permissions]
    /\ pc \in Stages
    /\ op \in Operations \cup {NoOperation}
    /\ began \in [time : Times, seen : SUBSET [rows : SUBSET OverrideRows, time : Times]]
    /\ answer \in {Nil, "has", "no", "conditional", "refused"}

Unasked == [time |-> 0, seen |-> {}]

OverridesInit ==
    /\ now = 0 /\ facts \in FirstFacts /\ overrideRows \in FirstRows /\ current = FirstRevision
    /\ shared = Nil /\ pin = Nil /\ generation = 0 /\ kept = Nil
    /\ statements = [p \in Permissions |-> Nil] /\ answers = {} /\ scope = Nil
    /\ pc = "idle" /\ asks = 0 /\ op = NoOperation /\ began = Unasked
    /\ policy = Nil /\ answer = Nil

-----------------------------------------------------------------------------
(* The clock and the writers of override rows.  An answer is looked at as  *)
(* it is given: neither moves before the operation returns.                *)

\* What an operation under way lives to see.
Witness(rs, t) ==
    began' = IF pc = "idle" THEN began
             ELSE [began EXCEPT !.seen = @ \cup {[rows |-> rs, time |-> t]}]

Tick ==
    /\ now < MaxTime /\ pc # "answered"
    /\ now' = now + 1
    /\ Witness(overrideRows, now + 1)
    /\ UNCHANGED <<facts, overrideRows, current, pc, asks, op, policy, answer>>
    /\ UNCHANGED process

\* Mutant: the overrides that are over are not composed.
ActiveRowsCompose(rs) == ~Cyclic(Unstale(Active(rs, now)))

\* What the outermost owner of a policy write checks before it commits: every
\* row composes with the others, whether its deadline has passed or not.
Accepted(rs) == ~Cyclic(Unstale(rs))

ASSUME StartAssumption ==
    /\ FirstFacts \subseteq [Relations -> Presence]
    /\ \A rs \in FirstRows : rs \subseteq OverrideRows /\ ~Cyclic(Unstale(rs))
    /\ \A rs \in FirstRows : \A row \in rs : row.created <= FirstRevision

\* A write of this process ends its pins, one of another process does not.
CommitRows(rs) ==
    /\ current < LastRevision /\ pc # "answered" /\ Accepted(rs)
    /\ overrideRows' = rs
    /\ current' = current + 1
    /\ pin' \in {pin, Nil}
    /\ Witness(rs, now)
    /\ UNCHANGED <<now, facts, pc, asks, op, policy, answer>>
    /\ UNCHANGED <<shared, generation, kept, statements, answers, scope>>

CreateOverride(form) ==
    /\ \A row \in overrideRows : row # Stamped(form, row.created)
    /\ Names[form.expression] \cap Gone = {}
    /\ CommitRows(overrideRows \cup {Stamped(form, current + 1)})

DeleteOverride(row) == CommitRows(overrideRows \ {row})

\* save() and update() of a row: here, of its deadline.
Reschedule(row, form) ==
    /\ form.expires # row.expires
    /\ Stamped(form, row.created) = [row EXCEPT !.expires = form.expires]
    /\ CommitRows((overrideRows \ {row}) \cup {Stamped(form, row.created)})

-----------------------------------------------------------------------------
(* The operations of read.py and of the evaluator.                         *)

\* Mutant: overrides do not keep permissions apart.
SharesByBaseline(pol) == \A p, q \in Permissions : Baseline[p] = Baseline[q]

\* held_many: permissions of an unmodified policy with equal expressions.
Shares(pol) ==
    /\ \A row \in Unstale(pol.rows) : row.kind = "recaveat"
    /\ \A p, q \in Permissions : Baseline[p] = Baseline[q]

\* A schema_operation begins, or an enumeration that is consumed later.
Ask(k, p) ==
    /\ pc = "idle" /\ asks < MaxAsks /\ (k = "build" => scope = Nil)
    /\ asks' = asks + 1
    /\ Acquire
    /\ op' = [kind |-> k, permission |-> p, revision |-> Acquired.revision,
              key |-> Acquired.generation, shares |-> Shares(Acquired), with |-> Acquired]
    /\ began' = [time |-> now, seen |-> {[rows |-> Acquired.rows, time |-> now]}]
    /\ pc' = "asked"
    /\ UNCHANGED <<kept, statements, answers, scope, policy, answer>>
    /\ UNCHANGED database

Found == {a \in answers : a.generation = op.key /\ a.permission = op.permission}

\* PermissionEvaluator.check: a kept answer under the snapshot's generation.
Recall ==
    /\ pc = "asked" /\ op.kind = "check" /\ Found # {}
    /\ answer' = (CHOOSE a \in Found : TRUE).answer
    /\ pc' = "answered"
    /\ UNCHANGED <<asks, op, began, policy>>
    /\ UNCHANGED database /\ UNCHANGED process

\* Mutant: exclusions inside another permission are not looked for.
ExcludesHereAt(excludes, s, x) ==
    LET e == x[1]
        n == x[2]
    IN \/ e.op = "-"
       \/ e.op \in {"+", "&"} /\ (excludes[<<e.left, n>>] \/ excludes[<<e.right, n>>])
       \/ /\ e.op = "ref" /\ e.name \in Permissions /\ n = Levels
          /\ \/ s.permissions[e.name].disables # {}
             \/ \E y \in Operands(s.permissions[e.name]) : excludes[<<y, n - 1>>]

\* _excludes_on_the_row: some expression the permission rests on excludes.
ExcludesAt(excludes, s, x) ==
    LET e == x[1]
        n == x[2]
    IN \/ e.op = "-"
       \/ e.op \in {"+", "&"} /\ (excludes[<<e.left, n>>] \/ excludes[<<e.right, n>>])
       \/ /\ e.op = "ref" /\ e.name \in Permissions /\ n > 0
          /\ \/ s.permissions[e.name].disables # {}
             \/ \E y \in Operands(s.permissions[e.name]) : excludes[<<y, n - 1>>]

Excludes(s) == LET excludes[x \in Nodes] == ExcludesAt(excludes, s, x) IN excludes

\* grants_all: a permission with an exclusion never holds everywhere.
RefuseAll ==
    /\ pc = "asked" /\ op.kind = "all"
    /\ Excludes(Effective(op.with))[Entry(op.permission)]
    /\ answer' = "no"
    /\ pc' = "answered"
    /\ UNCHANGED <<asks, op, began, policy>>
    /\ UNCHANGED database /\ UNCHANGED process

\* _policy reads the snapshot, a new one if a deadline has passed.
Select ==
    /\ pc = "asked"
    /\ op.kind = "check" => Found = {}
    /\ op.kind = "all" => ~Excludes(Effective(op.with))[Entry(op.permission)]
    /\ Acquire
    /\ op' = [op EXCEPT !.with = Acquired]
    /\ pc' = "selected"
    /\ UNCHANGED <<kept, statements, answers, scope, asks, began, policy, answer>>
    /\ UNCHANGED database

Prepared(snapshot, t) == [snapshot EXCEPT !.at = t]

\* A policy that some deadline will change is prepared afresh each time.
Keepable(pol) == Ahead(pol) = {}

Reusable(snapshot, t) ==
    /\ kept # Nil /\ kept.revision = snapshot.revision
    /\ kept.generation = snapshot.generation
    /\ \A d \in Ahead(kept) \cup Passed(kept) : t >= d

PolicyFor(snapshot, t) == IF Reusable(snapshot, t) THEN kept ELSE Prepared(snapshot, t)

DoesNotCompose(snapshot, t) == Cyclic(InStatement(snapshot.rows, t))

KeepPolicy(pol) == kept' = IF Keepable(pol) THEN pol ELSE kept

\* The rest of _policy, which starts by reading the clock.  An enumeration
\* insists on the revision it was asked at; a scope pins the policy.
Prepare ==
    /\ pc = "selected"
    /\ LET pol == PolicyFor(op.with, now)
           over == op.kind = "list" /\ op.with.revision # op.revision
       IN IF over \/ DoesNotCompose(op.with, now)
            THEN /\ answer' = IF over THEN "no" ELSE "refused"
                 /\ pc' = "answered"
                 /\ UNCHANGED <<kept, scope, op, began, policy>>
            ELSE /\ KeepPolicy(pol)
                 /\ IF op.kind = "build"
                      THEN /\ scope' = [policy |-> pol, permission |-> op.permission]
                           /\ pc' = "idle" /\ op' = NoOperation /\ began' = Unasked
                           /\ UNCHANGED policy
                      ELSE /\ policy' = pol
                           /\ pc' = "prepared"
                           /\ UNCHANGED <<scope, op, began>>
                 /\ UNCHANGED answer
    /\ UNCHANGED <<shared, pin, generation, statements, answers, asks>>
    /\ UNCHANGED database

\* The relations an expression of a composed schema can read.
ReadAt(reads, s, x) ==
    LET e == x[1]
        n == x[2]
    IN CASE e.op \in {"+", "&", "-"} -> reads[<<e.left, n>>] \cup reads[<<e.right, n>>]
         [] e.op = "ref" ->
              IF e.name \notin Permissions THEN {e.name} \cap Relations
              ELSE IF n = 0 THEN {}
              ELSE UNION {reads[<<y, n - 1>>] : y \in Operands(s.permissions[e.name])}
         [] OTHER -> {}

Reading(s) == LET reads[x \in Nodes] == ReadAt(reads, s, x) IN reads

\* CaveatVerdicts.empty: no tuple in reach is under a caveat.
NoVerdicts(pol, p) == \A r \in Reading(Tagged(pol))[Entry(p)] : facts[r] # Caveat

\* Mutant: statements are kept whatever the deadlines of their policy.
SameRevision(pol, p) ==
    statements[p] # Nil /\ statements[p].revision = pol.revision
                        /\ statements[p].generation = pol.generation

SameStatement(pol, p) ==
    /\ statements[p] # Nil /\ statements[p].revision = pol.revision
    /\ statements[p].generation = pol.generation /\ Fence(statements[p]) = Fence(pol)

\* The policy whose SQL is executed.
Statement(pol, p) ==
    IF NoVerdicts(pol, p) /\ SameStatement(pol, p) THEN statements[p] ELSE pol

KeepStatement(pol, p) ==
    statements' = IF NoVerdicts(pol, p) THEN [statements EXCEPT ![p] = Statement(pol, p)]
                  ELSE statements

\* One statement: the fence, and the predicate at the tuples of the object, or
\* at no tuples for the empty id.
Executed(pol, f, p, bound) == FenceOpen(pol, current, now) /\ Holds(pol, f, p, bound, now)

TuplesAsked == IF op.kind = "all" THEN NoFacts ELSE facts

\* Mutant: a conditional answer is kept, too.
RememberAll(p, a) ==
    answers' = IF op.kind = "check"
                 THEN answers \cup {[generation |-> op.key, permission |-> p, answer |-> a]}
                 ELSE answers

\* Definite answers are kept for later checks.
Remember(p, a) ==
    answers' = IF op.kind = "check" /\ a # "conditional"
                 THEN answers \cup {[generation |-> op.key, permission |-> p, answer |-> a]}
                 ELSE answers

Other(p) == CHOOSE q \in Permissions : q # p

\* The lower bound allows; without it, a check goes on where the bounds may
\* differ, and held_many goes on to its second permission.
Lower ==
    /\ pc = "prepared"
    /\ LET p == op.permission
           allowed == Executed(Statement(policy, p), TuplesAsked, p, "lower")
           verdict == IF allowed THEN "has" ELSE "no"
           open == ~allowed /\ op.kind = "check" /\ ~NoVerdicts(policy, p)
           second == [op EXCEPT !.permission = Other(p)]
       IN /\ KeepStatement(policy, p)
          /\ IF open THEN /\ pc' = "upper"
                          /\ UNCHANGED <<op, answers, answer>>
             ELSE IF op.kind = "many" /\ ~op.shares
               THEN /\ op' = [second EXCEPT !.kind = "held"]
                    /\ pc' = "asked"
                    /\ UNCHANGED <<answers, answer>>
               ELSE /\ op' = IF op.kind = "many" THEN [second EXCEPT !.kind = "shared"] ELSE op
                    /\ Remember(p, verdict)
                    /\ answer' = verdict
                    /\ pc' = "answered"
    /\ UNCHANGED <<shared, pin, generation, kept, scope, asks, began, policy>>
    /\ UNCHANGED database

Upper ==
    /\ pc = "upper"
    /\ IF Executed(policy, facts, op.permission, "upper")
         THEN /\ pc' = "residual"
              /\ UNCHANGED <<answers, answer>>
         ELSE /\ Remember(op.permission, "no")
              /\ answer' = "no"
              /\ pc' = "answered"
    /\ UNCHANGED <<shared, pin, generation, kept, statements, scope, asks, op, began,
                   policy>>
    /\ UNCHANGED database

\* _answer: what the overrides active when the policy was prepared leave open.
Residual ==
    /\ pc = "residual"
    /\ answer' = IF ValueOf(Effective(policy), facts)[Entry(op.permission)] = "unknown"
                   THEN "conditional" ELSE "no"
    /\ Remember(op.permission, answer')
    /\ pc' = "answered"
    /\ UNCHANGED <<shared, pin, generation, kept, statements, scope, asks, op, began,
                   policy>>
    /\ UNCHANGED database

ExecuteScope ==
    /\ pc = "idle" /\ scope # Nil
    /\ LET p == scope.permission
       IN /\ KeepStatement(scope.policy, p)
          /\ answer' = IF Executed(Statement(scope.policy, p), facts, p, "lower")
                         THEN "has" ELSE "no"
    /\ op' = [NoOperation EXCEPT !.kind = "scope", !.permission = scope.permission,
                                 !.revision = scope.policy.revision, !.with = scope.policy]
    /\ began' = [time |-> scope.policy.at, seen |-> {[rows |-> overrideRows, time |-> now]}]
    /\ policy' = scope.policy
    /\ pc' = "answered"
    /\ UNCHANGED <<shared, pin, generation, kept, answers, scope, asks>>
    /\ UNCHANGED database

DropScope ==
    /\ pc = "idle" /\ scope # Nil
    /\ scope' = Nil
    /\ UNCHANGED <<shared, pin, generation, kept, statements, answers, pc>>
    /\ UNCHANGED database /\ UNCHANGED local

Return ==
    /\ pc = "answered"
    /\ pc' = "idle" /\ op' = NoOperation /\ began' = Unasked
    /\ policy' = Nil /\ answer' = Nil
    /\ UNCHANGED asks
    /\ UNCHANGED database /\ UNCHANGED process

\* The evaluator scope ends, and with it its pin and its answers.  An
\* enumeration that is not consumed yet lives on.
CloseEvaluator ==
    /\ pc = "idle" \/ (pc = "asked" /\ op.kind = "list")
    /\ pin # Nil
    /\ pin' = Nil /\ answers' = {}
    /\ UNCHANGED <<shared, generation, kept, statements, scope, pc>>
    /\ UNCHANGED database /\ UNCHANGED local

OverridesNext ==
    \/ Tick
    \/ \E form \in Writable : CreateOverride(form)
    \/ \E row \in overrideRows : DeleteOverride(row)
    \/ \E row \in overrideRows : \E form \in Forms : Reschedule(row, form)
    \/ \E k \in Kinds : \E p \in Permissions : Ask(k, p)
    \/ Recall \/ RefuseAll \/ Select \/ Prepare \/ Lower \/ Upper \/ Residual
    \/ ExecuteScope \/ DropScope \/ Return \/ CloseEvaluator

OverridesSpec == OverridesInit /\ [][OverridesNext]_overridesVars

-----------------------------------------------------------------------------
(* What a policy promises: the composition of the overrides in force at an *)
(* instant, in three values.                                               *)

InForce(rs, t) == {row \in Unstale(rs) : ActiveAt(row, t)}

InForceCaveat(rs) ==
    LET in == {row \in rs : row.kind = "recaveat" /\ row.target = Caveat}
        last == {row \in in : ~\E r \in in : r.created > row.created}
    IN IF in = {} THEN StoredCaveat
       ELSE (CHOOSE row \in last : TRUE).expression.name

DenotedAt(value, rs, f, x) ==
    LET of(e) == value[<<e, x[2]>>]
        below(e) == value[<<e, x[2] - 1>>]
        values(p, kinds) == {below(row.expression) :
                               row \in {r \in rs : r.target = p /\ r.kind \in kinds}}
        granted(p) == KAnd({KOr({below(Baseline[p])} \cup values(p, {"extend", "loosen"}))}
                           \cup {KNot(v) : v \in values(p, {"disable"})}
                           \cup values(p, {"tighten"}))
        e == x[1]
    IN IF e.op = "+" THEN KOr({of(e.left), of(e.right)})
       ELSE IF e.op = "-" THEN KAnd({of(e.left), KNot(of(e.right))})
       ELSE IF e.op = "&" THEN KAnd({of(e.left), of(e.right)})
       ELSE IF e.op # "ref" THEN "false"
       ELSE IF e.name \in Permissions THEN IF x[2] = 0 THEN "false" ELSE granted(e.name)
       ELSE IF e.name \notin Relations THEN KOr({v \in {"true"} : e.name = "authenticated"})
       ELSE IF f[e.name] # Caveat THEN KOr({v \in {"true"} : f[e.name] = "plain"})
       ELSE Decides[InForceCaveat(rs)]

Denotes(rs, f) == LET value[x \in Nodes] == DenotedAt(value, rs, f, x) IN value

Granted(rs, t, f, p) == Denotes(InForce(rs, t), f)[Entry(p)]

AllFacts == [Relations -> Presence]
Worlds == IF op.kind = "all" THEN AllFacts ELSE {facts}

\* No deadline passed and no policy was published since the operation began.
Calm ==
    /\ op.revision = current /\ op.with.revision = current
    /\ \A d \in Deadlines(Unstale(overrideRows)) : ~(began.time < d /\ d <= now)

Justified ==
    \E w \in began.seen : \A f \in Worlds :
        Granted(w.rows, w.time, f, op.permission) = "true"

\* The operations that decide something by the policy and then read it again.
SplitReads == {"shared", "all"}

\* A grant is one of the composed policy as it was at some moment of the
\* operation, whatever deadlines pass and whatever is kept; "on every row" is
\* meant for rows with any tuples.  A scope that is executed later grants by
\* the policy of that moment, and nothing once a deadline has passed that lay
\* ahead when it was built (compile/read.py:_fence, predicate.py:_in_force).
GrantsFollowTheComposition ==
    answer = "has" /\ (op.kind \in SplitReads => Calm) =>
        /\ Justified
        /\ op.kind = "scope" =>
             ~\E d \in Deadlines(Unstale(op.with.rows)) : op.with.at < d /\ d <= now

\* A denial is one of the policy too, unless the policy changed on the way; a
\* check is then exact in all three values.  A policy whose writers saw to it
\* that it composes is never refused, whatever expires later.
DenialsFollowTheComposition ==
    LET value == Granted(overrideRows, now, facts, op.permission)
    IN /\ answer # "refused"
       /\ answer = "no" /\ Calm /\ op.kind # "all" => value # "true"
       /\ op.kind = "check" /\ answer # Nil /\ Calm =>
            answer = (CASE value = "true" -> "has" [] value = "false" -> "no"
                        [] OTHER -> "conditional")

\* "Only an unmodified policy shares; an override carries action-specific sites
\* and deadlines" (compile/read.py:1332): what the first read of the policy
\* let an operation conclude is true of the policy it then answers by.
SplitReadsFollowOnePolicy == answer = "has" /\ op.kind \in SplitReads => Justified

-----------------------------------------------------------------------------
(* The inductive invariant.                                                *)

HeldPolicies ==
    ({shared, pin, kept, policy, op.with} \cup {statements[p] : p \in Permissions}
       \cup (IF scope = Nil THEN {} ELSE {scope.policy})) \ {Nil}

\* A policy is one of a revision that was published, was read before now, and
\* composes.
KnownPolicy(pol) ==
    /\ pol.revision <= current /\ (pol.revision = current => pol.rows = overrideRows)
    /\ pol.at <= now /\ Accepted(pol.rows)

PoliciesAreKnown ==
    Accepted(overrideRows) /\ \A pol \in HeldPolicies : KnownPolicy(pol)

\* A pin is the shared snapshot, and what is kept is under no deadline.
SnapshotsAreInOrder ==
    /\ pin \in {Nil, shared}
    /\ shared # Nil => shared.generation = generation
    /\ kept # Nil => Ahead(kept) = {}
    /\ \A a \in answers : a.generation <= generation

UnderWay == pc \notin {"idle", "answered"}

\* What a kept answer of the shared snapshot says was true when the snapshot
\* was loaded, and remains true until it expires.
SharedAnswersFit ==
    shared # Nil /\ (Unexpired(shared, now) \/ (pc = "asked" /\ op.kind = "check")) =>
        \A a \in answers : a.generation = generation =>
            LET value == Granted(shared.rows, shared.at, facts, a.permission)
            IN /\ a.answer = "has" => value = "true"
               /\ a.answer = "no" /\ shared.revision = current => value = "false"

\* An operation that is still asked for goes by the shared snapshot, as it was
\* when the operation began.
AsksByTheSnapshot ==
    pc = "asked" /\ op.kind # "held" =>
        /\ shared.revision = op.revision /\ op.key = generation
        /\ Unexpired(shared, began.time) /\ shared.at <= began.time
        /\ [rows |-> shared.rows, time |-> began.time] \in began.seen

OperationIsInOrder ==
    /\ pc # "answered" => answer = Nil
    /\ pc # "idle" => op \in Operations
    /\ UnderWay =>
        /\ op.with = shared /\ op.kind \notin {"scope", "shared"}
        /\ op.revision <= current /\ op.key <= generation /\ began.time <= now
        /\ pc \in {"upper", "residual"} => op.kind = "check"
        /\ op.shares /\ op.revision = current => Shares([rows |-> overrideRows])
        /\ op.kind = "all" /\ pc \in {"selected", "prepared"} /\ op.revision = current =>
             ~Excludes(ComposeTagged(InForce(overrideRows, began.time)))[Entry(op.permission)]

\* The published policy is one that the operation lives to see, or it keeps to
\* an older one that is pinned or that it was asked at.
SeesOrIsPinned ==
    UnderWay =>
        \/ [rows |-> overrideRows, time |-> now] \in began.seen
        \/ /\ op.revision # current
           /\ pc \in {"prepared", "upper", "residual"} => policy.revision = op.revision
           /\ op.kind # "list" =>
                pin # Nil /\ Unexpired(pin, now) /\ pin.revision = op.revision

\* What the statements of a check have shown holds while their fence is open.
StatementsTell ==
    pc \in {"prepared", "upper", "residual"} =>
        /\ policy # Nil /\ policy.revision = shared.revision
        /\ Ahead(policy) = {} \/ (shared.at <= policy.at /\ began.time <= policy.at)
        /\ FenceOpen(policy, current, now) =>
             LET value == Granted(policy.rows, policy.at, facts, op.permission)
             IN /\ pc \in {"upper", "residual"} => value # "true"
                /\ pc = "residual" => value # "false"

OverridesInv ==
    /\ OverridesTypeOK /\ PoliciesAreKnown /\ SnapshotsAreInOrder /\ SharedAnswersFit
    /\ AsksByTheSnapshot /\ OperationIsInOrder /\ SeesOrIsPinned /\ StatementsTell
    /\ GrantsFollowTheComposition /\ DenialsFollowTheComposition

=============================================================================
