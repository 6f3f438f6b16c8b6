------------------------------ MODULE Authority ------------------------------
(***************************************************************************)
(* Whom a read or a save answers to.  Tasks carry an ambient actor and an  *)
(* ambient bypass (two context variables, opened and closed by blocks);    *)
(* querysets and instances carry pins of their own.  A queryset decides    *)
(* once, when its scope is applied, and that moment may be long before the *)
(* statement runs: a queryset may be evaluated twice, embedded, streamed   *)
(* or pickled, under other blocks or in another task.                      *)
(*                                                                         *)
(* A restriction is the actor whose permission predicate is in the WHERE   *)
(* clause; Nobody stands for the predicate that selects nothing.  A bypass *)
(* is numbered when it is opened: the number is its reason in the audit.   *)
(***************************************************************************)
EXTENDS Naturals, Sequences, FiniteSets, SequencesExt

CONSTANTS
    Actors, Tasks, Instances,
    Roots,          \* the tasks that run by themselves; others are started by them
    Strict,         \* REBAC_STRICT_MODE
    Programs,       \* sets of features: what one application makes use of
    QuerySets,      \* the names application code has for querysets
    MaxEntries,     \* bypasses ever opened
    MaxBlocks,      \* depth of blocks in a task
    MaxSteps,       \* length of a program
    Nobody, Bypass, Refused, Undecided, NoRows, NoRead, NoStream, NotRelated

AuthorityAssumption ==
    /\ Strict \in BOOLEAN
    /\ MaxEntries \in Nat /\ MaxBlocks \in Nat /\ MaxSteps \in Nat
    /\ Roots \subseteq Tasks
    /\ {Nobody, Bypass, Refused} \cap Actors = {}
    /\ Nobody # Bypass /\ Refused \notin {Nobody, Bypass}

ASSUME AuthorityAssumption

VARIABLES
    context,    \* _current_actor and _sudo_state of each task
    blocks,     \* the open blocks of a task and what closing them restores
    querysets,  \* what those names stand for now, in any task
    instances,  \* the pins of model instances
    stream,     \* an iterator in use
    opened,     \* where each bypass was put: on a block, a queryset, an instance
    audits,     \* the audit rows: an entry and the reason it wrote
    read,       \* the statement of the last step, if it ran one
    uses, steps     \* the features in use, and how far the program is

vars == <<context, blocks, querysets, instances, stream, opened, audits, read, uses, steps>>

Entries == 0..MaxEntries    \* 0 is no bypass
Decisions == Actors \cup {Nobody, Bypass}
Context == [actor : Actors \cup {Nobody}, sudo : Entries]
NoContext == [actor |-> Nobody, sudo |-> 0]
Block == [sets : SUBSET {"actor", "sudo"}, new : Context, old : Context]

\* `entry` is the bypass the embedded queryset was given itself.
Embedded == [where : SUBSET (Actors \cup {Nobody}), entry : Entries,
             pending : SUBSET (Entries \X Entries)]

QuerySet == [
    actor : Actors \cup {Nobody},                   \* _rebac_actor
    relation : Actors \cup {Nobody, NotRelated},    \* the pin of its source instance
    reason : Entries,                               \* _rebac_sudo_reason
    entry : Entries,                                \* _rebac_bypass_entry
    audited : BOOLEAN,
    ambient : BOOLEAN,                              \* the reason is that of a block
    mixed : BOOLEAN,            \* history: the reason is not the one these flags are of
    eager : BOOLEAN, aggregate : BOOLEAN,
    applied : BOOLEAN, decision : Decisions \cup {Undecided},
    where : SUBSET (Actors \cup {Nobody}),
    empty : BOOLEAN,                                \* none()
    used : BOOLEAN,                                 \* this object was evaluated
    holds : SUBSET Embedded,                        \* the subquery in its filters
    cache : Decisions \cup {NoRows}]                \* _result_cache, by the actor stamped

Fresh == [
    actor |-> Nobody, relation |-> NotRelated, reason |-> 0, entry |-> 0,
    audited |-> FALSE, ambient |-> FALSE, mixed |-> FALSE,
    eager |-> FALSE, aggregate |-> FALSE,
    applied |-> FALSE, decision |-> Undecided, where |-> {}, empty |-> FALSE, used |-> FALSE,
    holds |-> {}, cache |-> NoRows]

Instance == [actor : Actors \cup {Nobody}, reason : Entries, audited : BOOLEAN]
Unpinned == [actor |-> Nobody, reason |-> 0, audited |-> FALSE]

-----------------------------------------------------------------------------
(* Resolution *)

\* Mutant: an ambient bypass comes before the pins.
ResolveBlocksFirst(t, pin, sudo, failClosed) ==
    CASE sudo \/ context[t].sudo # 0 -> Bypass
      [] ~(sudo \/ context[t].sudo # 0) /\ pin # Nobody -> pin
      [] OTHER -> IF context[t].actor # Nobody THEN context[t].actor
                  ELSE IF failClosed THEN Nobody ELSE Refused

\* resolve(): the local pins, then the ambient bypass, then the ambient actor.
Resolve(t, pin, sudo, failClosed) ==
    CASE sudo                                       -> Bypass
      [] ~sudo /\ pin # Nobody                      -> pin
      [] ~sudo /\ pin = Nobody /\ context[t].sudo # 0 -> Bypass
      [] OTHER ->
            IF context[t].actor # Nobody THEN context[t].actor
            ELSE IF failClosed THEN Nobody
            ELSE IF Strict THEN Refused ELSE Bypass

\* The actor a queryset carries, its own or that of its source instance.
Pin(q) == IF q.actor = Nobody /\ q.relation # NotRelated THEN q.relation ELSE q.actor

EffectiveActor(t, q) == Resolve(t, Pin(q), q.reason # 0, q.aggregate)

\* _apply_scope_in_place: decides once.
ApplyScope(t, q) ==
    LET d == EffectiveActor(t, q)
    IN  IF q.applied THEN q
        ELSE [q EXCEPT !.applied = TRUE, !.decision = d,
                       !.where = IF d = Bypass THEN @ ELSE @ \cup {d}]

\* Mutant: an actorless queryset is let through.
LenientlyResolvable(t, q) == TRUE

\* It raises when the queryset needs an actor and has none.
Resolvable(t, q) == EffectiveActor(t, q) # Refused

\* Mutant: the decision is forgotten and the restriction is not taken out.
ResetDecision(q) == [q EXCEPT !.applied = FALSE, !.decision = Undecided]

ResetScope(q) ==
    [q EXCEPT !.where = {}, !.applied = FALSE, !.decision = Undecided]

RefreshScope(t, q) ==
    IF q.eager THEN ApplyScope(t, ResetScope(q)) ELSE ResetScope(q)

\* Mutant: clones share the decision of what they are made from.
CloneScope(q) == [q EXCEPT !.cache = NoRows, !.used = FALSE]

Clone(q) ==
    LET copy == [q EXCEPT !.cache = NoRows, !.used = FALSE]
    IN  IF q.eager THEN copy ELSE ResetScope(copy)

-----------------------------------------------------------------------------
(* Audit rows *)

\* Mutant: any open block is taken to have audited the bypass.
OwesOutsideBlocks(t, q) == q.reason # 0 /\ context[t].sudo = 0

\* A bypass captured from a block is audited by the block while that is open.
Owes(t, q) == q.reason # 0 /\ ~(q.ambient /\ context[t].sudo # 0)

BypassRows(t, q) == IF Owes(t, q) THEN {<<q.entry, q.reason>>} ELSE {}

DirectRows(t, q) == IF q.audited THEN {} ELSE BypassRows(t, q)

AuditBypassOnce(t, q) == [q EXCEPT !.audited = @ \/ Owes(t, q)]

\* What executing the statement of q adds for the subquery it renders.
PendingRows(q) == IF q.empty THEN {} ELSE UNION {e.pending : e \in q.holds}

-----------------------------------------------------------------------------
\* `again` says that the same queryset object was evaluated before,
\* `streamed` that the authority is that of the call of an iterator.
Statement(t, q, as, again, wrote) ==
    [rows |-> q.where, as |-> as, of |-> q, context |-> context[t],
     again |-> again, streamed |-> FALSE, wrote |-> wrote]

\* Application code names a queryset that it got from another one.
Make(name, q) ==
    /\ stream # NoStream => stream.of # name
    /\ querysets' = [querysets EXCEPT ![name] = q]

Can(feature) == feature \in uses

\* A bypass is opened with a reason of its own.
Bypassed == Len(opened)
OpenBypass(kind) ==
    /\ Len(opened) < MaxEntries
    /\ opened' = Append(opened, kind)

Init ==
    /\ context = [t \in Tasks |-> NoContext]
    /\ blocks = [t \in Tasks |-> <<>>]
    /\ querysets = [n \in QuerySets |-> Fresh]
    /\ instances = [i \in Instances |-> Unpinned]
    /\ stream = NoStream
    /\ opened = <<>>
    /\ audits = {}
    /\ read = NoRead
    /\ uses \in Programs
    /\ steps = 0

-----------------------------------------------------------------------------
(* Blocks *)

Open(t, sets, new) ==
    /\ Len(blocks[t]) < MaxBlocks
    /\ context' = [context EXCEPT ![t] = new]
    /\ blocks' = [blocks EXCEPT ![t] = Append(@, [sets |-> sets, new |-> new, old |-> context[t]])]

\* actor_context(), and the middleware for a request without bypass.
ActorContext(t, a) ==
    /\ Open(t, {"actor"}, [context[t] EXCEPT !.actor = a])
    /\ read' = NoRead
    /\ UNCHANGED <<querysets, instances, stream, opened, audits>>

\* sudo(), system_context(): installed, and the row written on entry.  When
\* writing it fails the state is reset and the block is not entered.
SudoContext(t) ==
    /\ Can("sudo block")
    /\ OpenBypass("block")
    /\ Open(t, {"sudo"}, [context[t] EXCEPT !.sudo = Bypassed + 1])
    /\ audits' = audits \cup {<<Bypassed + 1, Bypassed + 1>>}
    /\ read' = NoRead
    /\ UNCHANGED <<querysets, instances, stream>>

\* A superuser's request runs in a bypass, unless the resolver named another
\* actor than the user; then the actor is all that is installed.
SuperuserRequest(t, user, a) ==
    LET asActor == [NoContext EXCEPT !.actor = a]
        elevated == [asActor EXCEPT !.sudo = Bypassed + 1]
    IN  /\ Can("request") /\ blocks[t] = <<>> /\ context[t] = NoContext
        /\ user = a /\ MaxBlocks >= 2
        /\ OpenBypass("block")
        /\ context' = [context EXCEPT ![t] = elevated]
        /\ blocks' = [blocks EXCEPT ![t] =
                <<[sets |-> {"actor"}, new |-> asActor, old |-> NoContext],
                  [sets |-> {"sudo"}, new |-> elevated, old |-> asActor]>>]
        /\ audits' = audits \cup {<<Bypassed + 1, Bypassed + 1>>}
        /\ read' = NoRead
        /\ UNCHANGED <<querysets, instances, stream>>

\* _as_actor_only: the checks of a save that the gates refused.
AsActorOnly(t, a) ==
    /\ Can("actor only")
    /\ Open(t, {"actor", "sudo"}, [actor |-> a, sudo |-> 0])
    /\ read' = NoRead
    /\ UNCHANGED <<querysets, instances, stream, opened, audits>>

\* What closing block b leaves in effect; b sets one of the variables or both.
\* Mutant: the variable is cleared, and not put back.
Cleared(b, now) ==
    [actor |-> IF "actor" \in b.sets THEN Nobody ELSE now.actor,
     sudo  |-> IF "sudo" \in b.sets THEN 0 ELSE now.sudo]

Restored(b, now) ==
    [actor |-> IF "actor" \in b.sets THEN b.old.actor ELSE now.actor,
     sudo  |-> IF "sudo" \in b.sets THEN b.old.sudo ELSE now.sudo]

\* The end of the innermost block, normal, by an exception or a cancellation.
Close(t) ==
    /\ blocks[t] # <<>>
    /\ context' = [context EXCEPT ![t] = Restored(Last(blocks[t]), @)]
    /\ blocks' = [blocks EXCEPT ![t] = Front(@)]
    /\ read' = NoRead
    /\ UNCHANGED <<querysets, instances, stream, opened, audits>>

\* A task started inside a block works on a copy of the context, which
\* closing the block does not reach.
Spawn(t, child) ==
    /\ Can("spawn") /\ child # t
    /\ blocks[child] = <<>> /\ context[child] = NoContext
    /\ context[t] # NoContext
    /\ context' = [context EXCEPT ![child] = context[t]]
    /\ read' = NoRead
    /\ UNCHANGED <<blocks, querysets, instances, stream, opened, audits>>

-----------------------------------------------------------------------------
(* Querysets that are built, without running a statement *)

Building == read' = NoRead /\ UNCHANGED <<context, blocks, instances, stream>>

\* Model.objects.all().
All(r) ==
    /\ Make(r, Fresh)
    /\ Building
    /\ UNCHANGED <<opened, audits>>

\* instance.children: the manager carries the actor of the instance.
Related(i, r) ==
    /\ Can("instance")
    /\ Make(r, [Fresh EXCEPT !.relation = instances[i].actor])
    /\ Building
    /\ UNCHANGED <<opened, audits>>

\* filter(), with_action(), a slice.
Filter(n, r) ==
    /\ Make(r, Clone(querysets[n]))
    /\ Building
    /\ UNCHANGED <<opened, audits>>

None(n, r) ==
    /\ Can("combine")
    /\ Make(r, [Clone(querysets[n]) EXCEPT !.empty = TRUE])
    /\ Building
    /\ UNCHANGED <<opened, audits>>

\* Eager querysets are scoped again at once, which writes the row they owe.
Refreshed(t, q, r) ==
    LET fresh == RefreshScope(t, q)
    IN  /\ q.eager => Resolvable(t, q)
        /\ Make(r, IF q.eager THEN AuditBypassOnce(t, fresh) ELSE fresh)
        /\ audits' = audits \cup IF q.eager THEN DirectRows(t, q) ELSE {}

WithActor(t, n, a, r) ==
    /\ Refreshed(t, [Clone(querysets[n]) EXCEPT
            !.actor = a, !.reason = 0, !.audited = FALSE, !.entry = 0,
            !.ambient = FALSE, !.mixed = FALSE], r)
    /\ Building
    /\ UNCHANGED opened

\* sudo(), system_context() on a queryset.
Sudo(t, n, r) ==
    /\ Can("sudo")
    /\ OpenBypass("queryset")
    /\ Refreshed(t, [Clone(querysets[n]) EXCEPT
            !.actor = Nobody, !.reason = Bypassed + 1, !.audited = FALSE,
            !.entry = Bypassed + 1, !.ambient = FALSE, !.mixed = FALSE], r)
    /\ Building

\* scoped() and scoped_for_aggregate(): decide now.
Scoped(t, n, aggregate, r) ==
    LET c == Clone(querysets[n])
        q == IF aggregate THEN ResetScope([c EXCEPT !.aggregate = TRUE]) ELSE c
        d == EffectiveActor(t, q)
        pinned ==
            [q EXCEPT !.eager = TRUE,
                      !.actor = IF d \in Actors THEN d ELSE @,
                      !.reason = IF d = Bypass /\ @ = 0 THEN context[t].sudo ELSE @,
                      !.ambient = @ \/ (d = Bypass /\ q.reason = 0 /\ context[t].sudo # 0)]
    IN  /\ Can("scoped")
        /\ d # Refused
        /\ Make(r, IF q.applied THEN pinned
                ELSE AuditBypassOnce(t, ApplyScope(t, pinned)))
        /\ audits' = audits \cup IF q.applied THEN {} ELSE DirectRows(t, pinned)
        /\ Building
        /\ UNCHANGED opened

\* a | b, a & b, union(): the policy of the left operand.  An empty left
\* operand makes Django return the right one, whose flags stay: the bypass of
\* the left operand with what the right one had audited.
Combine(t, left, right, r) ==
    LET a == querysets[left]
        b == querysets[right]
        combined == IF a.empty THEN b
                    ELSE IF b.empty THEN a
                    ELSE [a EXCEPT !.where = @ \cup b.where, !.holds = @ \cup b.holds]
    IN  /\ Can("combine") /\ left # right
        /\ Refreshed(t, [Clone(combined) EXCEPT
                !.actor = a.actor, !.relation = a.relation, !.reason = a.reason,
                !.eager = a.eager, !.aggregate = a.aggregate,
                !.mixed = a.empty \/ a.mixed], r)
        /\ Building
        /\ UNCHANGED opened

\* Another process gets the queryset without its authority.
Pickle(n, r) ==
    /\ Can("pickle")
    /\ Make(r, [ResetScope(querysets[n]) EXCEPT
                !.actor = Nobody, !.relation = NotRelated, !.reason = 0,
                !.audited = FALSE, !.entry = 0, !.ambient = FALSE, !.mixed = FALSE,
                !.eager = FALSE, !.cache = NoRows, !.used = FALSE])
    /\ Building
    /\ UNCHANGED <<opened, audits>>

\* Mutant: a queryset that was audited itself owes no row where it is embedded.
SubqueryOnce(t, q) ==
    [where |-> q.where, pending |-> DirectRows(t, q),
     entry |-> IF q.ambient \/ q.reason = 0 THEN 0 ELSE q.entry]

Subquery(t, q) ==
    [where |-> q.where, pending |-> BypassRows(t, q),
     entry |-> IF q.ambient \/ q.reason = 0 THEN 0 ELSE q.entry]

\* outer.filter(pk__in=inner): resolve_expression applies the scope of the
\* inner queryset and leaves its audit row to the statement that renders it.
Embed(t, outer, inner, r) ==
    LET q == ApplyScope(t, Clone(querysets[inner]))
    IN  /\ Can("embed") /\ inner # outer
        /\ querysets[outer].holds = {} /\ querysets[inner].holds = {}
        /\ q.applied /\ Resolvable(t, Clone(querysets[inner]))
        /\ Make(r, [Clone(querysets[outer]) EXCEPT
                    !.holds = {Subquery(t, q)}])
        /\ Building
        /\ UNCHANGED <<opened, audits>>

-----------------------------------------------------------------------------
(* Querysets that are evaluated *)

\* What every evaluation does first: it may raise, decides unless that was
\* done, and writes the row of the queryset's own bypass once.
Evaluate(t, n, keeps) ==
    LET q == querysets[n]
        r == [AuditBypassOnce(t, ApplyScope(t, q)) EXCEPT !.used = TRUE]
        as == EffectiveActor(t, q)
        wrote == DirectRows(t, q) \cup PendingRows(q)
    IN  /\ as # Refused
        /\ querysets' = [querysets EXCEPT ![n] =
                IF keeps THEN [r EXCEPT !.cache = as] ELSE r]
        /\ audits' = audits \cup wrote
        /\ read' = IF q.empty THEN NoRead ELSE Statement(t, r, as, q.used, wrote)
        /\ UNCHANGED <<context, blocks, instances, stream, opened>>

\* _fetch_all, whose rows stay.
Fetch(t, n) == querysets[n].cache = NoRows /\ Evaluate(t, n, TRUE)

\* It is called again: no statement, but the row may be owed by now.
FetchAgain(t, n) ==
    LET q == querysets[n]
    IN  /\ q.cache # NoRows
        /\ Resolvable(t, q)
        /\ DirectRows(t, q) # {}
        /\ querysets' = [querysets EXCEPT ![n] = AuditBypassOnce(t, q)]
        /\ audits' = audits \cup DirectRows(t, q)
        /\ read' = NoRead
        /\ UNCHANGED <<context, blocks, instances, stream, opened>>

\* count(), exists(), aggregate(), explain().
Count(t, n) == querysets[n].cache = NoRows /\ Evaluate(t, n, FALSE)

\* raw() only with a bypass, which is resolved now whatever was decided.
Raw(t, n) ==
    LET q == querysets[n]
    IN  /\ Can("raw")
        /\ EffectiveActor(t, q) = Bypass
        /\ querysets' = [querysets EXCEPT ![n] = AuditBypassOnce(t, q)]
        /\ audits' = audits \cup DirectRows(t, q)
        /\ read' = Statement(t, [q EXCEPT !.where = {}, !.holds = {}], Bypass, FALSE, DirectRows(t, q))
        /\ UNCHANGED <<context, blocks, instances, stream, opened>>

\* iterator() decides, applies the scope and audits when it is called.
Iterate(t, n) ==
    LET q == querysets[n]
        as == EffectiveActor(t, q)
    IN  /\ Can("stream") /\ stream = NoStream /\ ~q.empty
        /\ as # Refused
        /\ querysets' = [querysets EXCEPT ![n] =
                [AuditBypassOnce(t, ApplyScope(t, q)) EXCEPT !.used = TRUE]]
        /\ audits' = audits \cup DirectRows(t, q)
        /\ stream' = [of |-> n, as |-> as, ready |-> TRUE, again |-> q.used]
        /\ read' = NoRead
        /\ UNCHANGED <<context, blocks, instances, opened>>

\* aiterator() decides; the rest is left to its consumer.
AIterate(t, n) ==
    LET q == querysets[n]
    IN  /\ Can("stream") /\ stream = NoStream /\ ~q.empty
        /\ Resolvable(t, q)
        /\ stream' = [of |-> n, as |-> EffectiveActor(t, q), ready |-> FALSE,
                      again |-> q.used]
        /\ read' = NoRead
        /\ UNCHANGED <<context, blocks, querysets, instances, opened, audits>>

\* The consumer runs the statement, in whatever context it has.
Consume(t) ==
    /\ stream # NoStream
    /\ LET q == querysets[stream.of]
           scoped == IF stream.ready \/ q.applied THEN q
                     ELSE [q EXCEPT !.applied = TRUE, !.decision = stream.as,
                                    !.used = TRUE,
                                    !.where = IF stream.as = Bypass THEN @
                                              ELSE @ \cup {stream.as}]
           owed == IF stream.ready THEN {} ELSE DirectRows(t, q)
           wrote == owed \cup PendingRows(q)
           r == IF stream.ready THEN scoped ELSE AuditBypassOnce(t, scoped)
       IN  /\ querysets' = [querysets EXCEPT ![stream.of] = r]
           /\ audits' = audits \cup wrote
           /\ read' = [Statement(t, r, stream.as,
                            stream.again \/ (~stream.ready /\ q.used), wrote)
                        EXCEPT !.streamed = TRUE]
    /\ stream' = NoStream
    /\ UNCHANGED <<context, blocks, instances, opened>>

-----------------------------------------------------------------------------
(* Instances *)

Keep(i, pins) ==
    /\ Can("instance")
    /\ instances' = [instances EXCEPT ![i] = pins]
    /\ read' = NoRead
    /\ UNCHANGED <<context, blocks, querysets, stream>>

\* A row of a queryset that was fetched: _stamp pins its actor, never its bypass.
Load(n, i) ==
    /\ querysets[n].cache # NoRows
    /\ Keep(i, [Unpinned EXCEPT
            !.actor = IF querysets[n].cache \in Actors THEN querysets[n].cache ELSE @])
    /\ UNCHANGED <<opened, audits>>

PinActor(i, a) ==
    /\ Keep(i, [actor |-> a, reason |-> 0, audited |-> FALSE])
    /\ UNCHANGED <<opened, audits>>

PinSudo(i) ==
    /\ OpenBypass("instance")
    /\ Keep(i, [instances[i] EXCEPT !.reason = Bypassed + 1, !.audited = FALSE])
    /\ UNCHANGED audits

Unsudo(i) ==
    /\ instances[i].reason # 0
    /\ Keep(i, [instances[i] EXCEPT !.reason = 0, !.audited = FALSE])
    /\ UNCHANGED <<opened, audits>>

PickleInstance(i) ==
    /\ instances[i] # Unpinned
    /\ Keep(i, Unpinned)
    /\ UNCHANGED <<opened, audits>>

\* check_access() and the gate of save(): strict, and audited once.  The
\* statement is a read with no queryset of its own.
CheckInstance(t, i) ==
    LET o == instances[i]
        as == Resolve(t, o.actor, o.reason # 0, FALSE)
        wrote == IF o.reason # 0 /\ ~o.audited THEN {<<o.reason, o.reason>>} ELSE {}
        q == [Fresh EXCEPT !.actor = o.actor, !.reason = o.reason, !.entry = o.reason,
                           !.where = IF as = Bypass THEN {} ELSE {as}]
    IN  /\ Can("instance")
        /\ as # Refused
        /\ instances' = [instances EXCEPT ![i].audited = @ \/ o.reason # 0]
        /\ audits' = audits \cup wrote
        /\ read' = Statement(t, q, as, FALSE, wrote)
        /\ UNCHANGED <<context, blocks, querysets, stream, opened>>

\* Mutant: the bypass of the queryset goes over to the instance.
PinsWithReason(q, o, as) ==
    [o EXCEPT !.actor = IF as = Bypass THEN Nobody ELSE as, !.reason = q.reason]

PinsOfInsertion(q, o, as) ==
    [o EXCEPT !.actor = IF as = Bypass THEN Nobody ELSE as, !.reason = 0]

\* queryset.insert(obj): the queryset's scope replaces the pins of the instance.
Insert(t, n, i) ==
    LET q == querysets[n]
        as == EffectiveActor(t, q)
        gate == [q EXCEPT !.where = IF as = Bypass THEN {} ELSE {as}, !.holds = {}]
    IN  /\ Can("instance") /\ ~q.empty
        /\ as \notin {Refused, Nobody}
        /\ instances' = [instances EXCEPT ![i] =
                PinsOfInsertion(q, @, as)]
        /\ querysets' = [querysets EXCEPT ![n] = AuditBypassOnce(t, q)]
        /\ audits' = audits \cup DirectRows(t, q)
        /\ read' = Statement(t, gate, as, FALSE, DirectRows(t, q))
        /\ UNCHANGED <<context, blocks, stream, opened>>

-----------------------------------------------------------------------------
ContextStep(t) ==
    \/ \E a \in Actors : ActorContext(t, a)
    \/ SudoContext(t)
    \/ \E user, a \in Actors : SuperuserRequest(t, user, a)
    \/ \E a \in Actors : AsActorOnly(t, a)
    \/ Close(t)
    \/ \E child \in Tasks : Spawn(t, child)

BuildStep(t) == \E r \in QuerySets :
    \/ All(r)
    \/ \E i \in Instances : Related(i, r)
    \/ \E n \in QuerySets :
        \/ Filter(n, r) \/ None(n, r) \/ Pickle(n, r)
        \/ \E a \in Actors : WithActor(t, n, a, r)
        \/ Sudo(t, n, r)
        \/ \E aggregate \in BOOLEAN : Scoped(t, n, aggregate, r)
        \/ \E m \in QuerySets : Combine(t, n, m, r) \/ Embed(t, n, m, r)

ReadStep(t) ==
    \/ \E n \in QuerySets :
        \/ Fetch(t, n) \/ FetchAgain(t, n) \/ Count(t, n) \/ Raw(t, n)
        \/ Iterate(t, n) \/ AIterate(t, n)
    \/ Consume(t)

InstanceStep(t) ==
    \E i \in Instances :
        \/ \E n \in QuerySets : Load(n, i) \/ Insert(t, n, i)
        \/ \E a \in Actors : PinActor(i, a)
        \/ PinSudo(i) \/ Unsudo(i) \/ PickleInstance(i)
        \/ CheckInstance(t, i)

Runs(t) == t \in Roots \/ context[t] # NoContext

Next ==
    /\ steps < MaxSteps
    /\ steps' = steps + 1 /\ UNCHANGED uses
    /\ \E t \in Tasks : Runs(t) /\
        (ContextStep(t) \/ BuildStep(t) \/ ReadStep(t) \/ InstanceStep(t))

Spec == Init /\ [][Next]_vars
-----------------------------------------------------------------------------
(* Properties *)

\* The variables stay in their types.
TypeOK ==
    /\ context \in [Tasks -> Context]
    /\ blocks \in [Tasks -> Seq(Block)] /\ \A t \in Tasks : Len(blocks[t]) <= MaxBlocks
    /\ querysets \in [QuerySets -> QuerySet]
    /\ instances \in [Instances -> Instance]
    /\ opened \in Seq({"block", "queryset", "instance"}) /\ Bypassed <= MaxEntries
    /\ audits \subseteq Entries \X Entries

\* No block above the k-th sets v.
SetLast(stack, k, v) == \A j \in DOMAIN stack : j > k => v \notin stack[j].sets

\* Blocks nest: what a task has in effect is what the innermost open blocks
\* set, also after inner ones were left by an error (reset(token) in a finally).
ContextsFollowTheirBlocks ==
    \A t \in Tasks : \A v \in {"actor", "sudo"} :
        \A k \in DOMAIN blocks[t] :
            v \in blocks[t][k].sets /\ SetLast(blocks[t], k, v) =>
                context[t][v] = blocks[t][k].new[v]

\* scoped_for_aggregate() outside any context has no actor to pin and selects
\* nothing; what is combined from it is scoped again without a pin, and a later
\* scoped() pins an actor beside the scope there is.  Outside strict mode that
\* goes for every queryset that was scoped where there was no actor.
ScopedUnpinned(q) == q.eager /\ (q.aggregate \/ ~Strict)

\* No ambient actor and no ambient bypass overrides a pinned actor, its own
\* or that of the instance a related queryset was reached from.
PinsOutrankTheBlocks ==
    read # NoRead => LET q == read.of IN
        q.reason = 0 /\ Pin(q) # Nobody =>
            \/ read.rows = {Pin(q)} /\ read.as = Pin(q)
            \/ ScopedUnpinned(read.of)

\* The rows a statement selects are those of the actor who is stamped on
\* them, whose field gates redact them: whatever the queryset went through
\* before, clones, combinations, changes of actor, pickling.  Not so where an
\* unpinned queryset had been evaluated before under other authority.
RowsAreReadForTheirActor ==
    read # NoRead =>
        \/ read.rows = (IF read.as = Bypass THEN {} ELSE {read.as})
        \/ ScopedUnpinned(read.of)
        \/ read.again /\ read.of.reason = 0 /\ Pin(read.of) = Nobody

\* Rows are read without restriction only under a bypass of the queryset, of
\* the block, or one that was in effect when the queryset or iterator decided.
ElevationNeedsABypass ==
    read # NoRead /\ read.rows = {} =>
        \/ read.of.reason # 0 \/ read.context.sudo # 0
        \/ read.again \/ (read.streamed /\ read.as = Bypass)
        \/ ~Strict \/ ScopedUnpinned(read.of)

\* Every public bypass has its row by the time a statement runs under it:
\* its own, or that of the block it was taken from.  A mixed queryset may have
\* none: what it says of its audit is what the right operand had done.
ElevatedReadsAreAudited ==
    read # NoRead /\ read.rows = {} =>
        /\ read.context.sudo # 0 => <<read.context.sudo, read.context.sudo>> \in audits
        /\ read.of.reason # 0 /\ ~read.of.mixed => \E row \in audits : row[2] = read.of.reason

\* Every public bypass is audited at first use, whatever the queryset it was
\* put on was combined with.
EveryBypassHasItsRow ==
    read # NoRead /\ read.rows = {} /\ read.of.reason # 0 =>
        \E row \in audits : row[2] = read.of.reason

\* Each execution of a statement writes a row for a bypass embedded in it,
\* also when the embedded queryset had been evaluated and audited itself.
EmbeddedBypassesAreAudited ==
    read # NoRead => \A e \in read.of.holds :
        e.entry # 0 => \E row \in read.wrote : row[1] = e.entry

\* A bypass stays on the queryset or the instance it was put on and what is
\* built from it: rows, related querysets and insertions do not take it over.
SudoStaysWhereItWasPut ==
    /\ \A n \in QuerySets : querysets[n].reason # 0 =>
            \/ opened[querysets[n].reason] = "queryset"
            \/ opened[querysets[n].reason] = "block" /\ querysets[n].eager
    /\ \A i \in Instances : instances[i].reason # 0 =>
            opened[instances[i].reason] = "instance"

\* Whose rows a statement selects, and whether it is restricted at all, is
\* decided by its authority, a pin before a block (resolve,
\* _apply_scope_in_place, _reset_scope, _clone).
ReadsFollowTheirAuthority ==
    PinsOutrankTheBlocks /\ RowsAreReadForTheirActor /\ ElevationNeedsABypass

\* No bypass that takes effect is missing from the audit, direct or embedded.
BypassesAreAudited == ElevatedReadsAreAudited /\ EmbeddedBypassesAreAudited

\* Ambient authority ends with its block, pinned authority stays on its carrier.
AuthorityStaysInItsPlace == ContextsFollowTheirBlocks /\ SudoStaysWhereItWasPut

\* A chunk that is consumed later, after the context closed or under another
\* actor, is still read for the actor at the call of the iterator.
ChunksAreReadForTheirCaller ==
    read # NoRead /\ read.streamed =>
        read.rows = (IF read.as = Bypass THEN {} ELSE {read.as})
=============================================================================
