----------------------------- MODULE FieldGates -----------------------------
(***************************************************************************)
(* The read__<field> and write__<field> gates of a model: field_visibility *)
(* .py, the guards of RebacQuerySet (managers.py), rebac_select_related    *)
(* (relation_loading.py), the visibility memo of evaluator.py, and the     *)
(* saves, refreshes and cleans of RebacMixin (mixins.py).                  *)
(*                                                                         *)
(* One actor queries a table, keeps one of the instances it loaded, and    *)
(* writes it back, while other processes and other code of this process    *)
(* change rows and tuples between any two statements.  The model has a     *)
(* plain field, title, and a gated one, salary.  A query is abstracted to  *)
(* the places where it reads something other than plain columns.  Modes    *)
(* "redact", "omit" and "raise" hide the same values, so a mode is         *)
(* "allow" or "enforce".  Row scope, row-level write and bypasses are the  *)
(* subject of Authority and GatedWrites: here the actor's `write` holds on *)
(* every row, and no instance or queryset is a bypass.                     *)
(***************************************************************************)
EXTENDS Naturals, FiniteSets

CONSTANTS
    Rows,
    Related,      \* Related[r]: the row that r's foreign key names
    Values,
    Null, Absent, Copy, Unset,
    Starts,       \* the policies, settings and tuples to start from
    FirstRows,
    Queries,      \* the queries the actor may run
    MaxChanges,   \* bound on what others do
    MaxOps        \* bound on what the actor does

ASSUME FieldAssumption ==
    /\ Related \in [Rows -> Rows]
    /\ MaxChanges \in Nat /\ MaxOps \in Nat
    /\ \A names \in SUBSET {"title", "salary"} : names # Unset

Fields == {"title", "salary"}
Gated == {"salary"}   \* declares read__salary and write__salary
Cells == Values \cup {Null}
Row == [Fields -> Cells]

\* Where a query reads, and what: a gated column, readable() of one, hand-written
\* SQL, or a column of a related row.
Places == {"where", "order", "select", "subquery", "operand"}
Columns == {"gated", "masked", "raw", "joined"}
Terminals == {"iterate", "count", "exists", "aggregate"}
Query == [kind : {"query"}, terminal : Terminals, reads : SUBSET (Places \X Columns),
          sliced : BOOLEAN, distinct : BOOLEAN, related : BOOLEAN, mode : {Unset, "allow"}]
Saves == [kind : {"save"}, fields : {Unset} \cup SUBSET Fields]
Updates == [kind : {"update"}, field : Fields, value : Values \cup {Copy}, mode : {Unset, "allow"}]
Batches == [kind : {"bulk_update"}, field : Fields, mode : {Unset}]
Cleans == [kind : {"clean"}]
Nothing == [kind |-> "none"]

\* What a policy says: is read__salary an exclusion, does a caveat occur in it;
\* and the settings REBAC_FIELD_READ_MODE, ..._FAIL_CLOSED_ON_CONDITIONAL.
Setup == [excludes : BOOLEAN, caveated : BOOLEAN, setting : {"allow", "enforce"},
          failClosed : BOOLEAN]
\* The tuples: who reads which row, the role and the owners of read__salary, what
\* the exclusion takes away, and the holders of write__salary.
Facts == [readers : SUBSET Rows, role : BOOLEAN, owner : [Rows -> {"no", "maybe", "yes"}],
          blocked : SUBSET Rows, writers : SUBSET Rows]

ASSUME StartAssumption ==
    /\ Starts \subseteq Setup \X Facts
    /\ FirstRows \subseteq [Rows -> [Fields -> Values]]
    /\ Queries \subseteq Query
    \* A column of a related row is selected, with its row.
    /\ \A q \in Queries, p \in Places :
          <<p, "joined">> \in q.reads => p = "select" /\ q.related

VARIABLES
    setup,
    stored,      \* the rows of the table
    facts,
    changes,     \* how often others changed rows or tuples
    ops,         \* how many operations the actor began
    mark,        \* tuple writes of this process: part of a memo key
    memo,        \* the visibility memo of the evaluator scope, Unset outside one
    object,      \* the instance the actor holds
    op, pc,
    keys,        \* the rows the statement in hand found
    fetched,     \* the rows it read, related ones too, as it read them
    batch,       \* whose salaries are being decided: roots, then related rows
    visible,     \* the instances found to show theirs
    verdict,     \* _SAVE_VERDICT of the instance
    window,      \* what held at some moment of the operation (auxiliary)
    fresh,       \* ... since the scope opened or this process wrote (auxiliary)
    exposed,     \* rows whose salary an enforced answer depends on (auxiliary)
    revealed,    \* rows an answer shows or counts (auxiliary)
    compared     \* rows whose salary a clean compared (auxiliary)

statement == <<keys, fetched, batch, visible, verdict>>
seen == <<exposed, revealed, compared>>
world == <<setup, stored, facts, changes, mark>>
vars == <<setup, stored, facts, changes, ops, mark, memo, object, op, pc, keys, fetched, batch,
          visible, verdict, window, fresh, exposed, revealed, compared>>

Held3 == [readable : SUBSET Rows, readers : SUBSET Rows, writers : SUBSET Rows]
Instance ==
    [row : Rows, now : [Fields -> Cells \cup {Copy}],
     loaded : {Unset} \cup [Fields -> Cells \cup {Absent}], redacted : SUBSET Fields,
     mode : {Unset, "allow", "enforce"}, assigned : SUBSET Fields]
Labels == {"idle", "guard", "statement", "visibility", "conditional", "related", "deliver",
           "keys", "gate", "write", "unique", "constraints", "cleaned", "ended"}

TypeOK ==
    /\ setup \in Setup
    /\ stored \in [Rows -> Row] /\ facts \in Facts
    /\ changes \in 0..MaxChanges /\ ops \in 0..MaxOps /\ mark \in 0..changes
    /\ \/ memo = Unset
       \/ \A e \in memo : e \in [rows : SUBSET Rows, mark : 0..mark, held : SUBSET Rows]
    /\ object \in Instance \cup {Unset}
    /\ op \in Query \cup Saves \cup Updates \cup Batches \cup Cleans \cup {Nothing}
    /\ pc \in Labels /\ (pc = "idle" <=> op = Nothing)
    /\ keys \subseteq Rows /\ batch \in {"roots", "related"}
    /\ \/ fetched = Unset
       \/ DOMAIN fetched \subseteq Rows /\ \A r \in DOMAIN fetched : fetched[r] \in Row
    /\ visible \subseteq {"roots", "related"} \X Rows
    /\ verdict \in {"none", "admits", "refuses"}
    /\ window \in Held3 /\ fresh \in Held3
    /\ exposed \subseteq Rows /\ revealed \subseteq Rows /\ compared \subseteq Rows

-----------------------------------------------------------------------------
(***************************************************************************)
(* What the actor holds.                                                   *)
(***************************************************************************)

Level(f, r) ==
    IF setup.excludes /\ r \in f.blocked THEN "no"
    ELSE IF f.role THEN "yes" ELSE f.owner[r]
Held(r) == Level(facts, r) = "yes"
Undecided(r) == Level(facts, r) = "maybe"
\* Mutant: a conditional permission counts as held.
HeldOrConditional(R) == {r \in R : Held(r) \/ Undecided(r)}
HeldMany(R) == {r \in R : Held(r)}

\* Mutant: a role is taken for a grant on every row, whatever is excluded.
GrantsByRole == facts.role
\* grants_all: held at the empty id, and no exclusion that one row could meet.
GrantsAll == facts.role /\ ~setup.excludes

\* A conditional permission shows the field unless the settings fail it closed.
Shown(f) == {r \in Rows : Level(f, r) = "yes" \/ (Level(f, r) = "maybe" /\ ~setup.failClosed)}

\* The mode of a queryset or an instance, else REBAC_FIELD_READ_MODE.
Mode(mode) == IF mode = Unset THEN setup.setting ELSE mode
Enforced(mode) == Mode(mode) = "enforce"

\* What holds now, and what held at some moment of a stretch of time.
Holding(f) == [readable |-> Shown(f), readers |-> f.readers, writers |-> f.writers]
Never == [readable |-> {}, readers |-> {}, writers |-> {}]
And(w, f) == [readable |-> w.readable \cup Shown(f), readers |-> w.readers \cup f.readers,
              writers |-> w.writers \cup f.writers]

-----------------------------------------------------------------------------
(***************************************************************************)
(* The other sessions.                                                     *)
(***************************************************************************)

\* A tuple is written or deleted, by this process (`own`) or by another.  A write of
\* this process moves the generation that every memo key names.
Rewrite(new, own) ==
    /\ changes < MaxChanges /\ new # facts /\ pc # "ended"
    /\ changes' = changes + 1
    /\ facts' = new
    /\ mark' = IF own THEN mark + 1 ELSE mark
    /\ fresh' = IF memo = Unset THEN Never
                ELSE IF own THEN Holding(new) ELSE And(fresh, new)
    /\ window' = IF pc = "idle" THEN Never ELSE And(window, new)
    /\ UNCHANGED <<setup, stored, ops, memo, object, op, pc, statement, seen>>

ChangeTuples ==
    \E own \in {FALSE, memo # Unset}, r \in Rows :
        \/ Rewrite([facts EXCEPT !.role = ~@], own)
        \/ Rewrite([facts EXCEPT !.owner[r] = IF @ = "no" THEN "yes" ELSE "no"], own)
        \/ Rewrite([facts EXCEPT !.readers = @ \ {r}], own)
        \/ Rewrite([facts EXCEPT !.writers = @ \ {r}], own)
        \/ setup.excludes /\ Rewrite([facts EXCEPT !.blocked = @ \cup {r}], own)

\* A writer that no gate restricts.
ChangeRow(r) ==
    /\ changes < MaxChanges /\ pc # "ended"
    /\ changes' = changes + 1
    /\ \E f \in Fields, v \in Values : stored' = [stored EXCEPT ![r][f] = v]
    /\ stored' # stored
    /\ UNCHANGED <<setup, facts, ops, mark, memo, object, op, pc, statement, window, fresh, seen>>

-----------------------------------------------------------------------------
(***************************************************************************)
(* How the actor's operations begin and end.                               *)
(***************************************************************************)

OpenScope ==
    /\ pc = "idle" /\ memo = Unset
    /\ memo' = {} /\ fresh' = Holding(facts)
    /\ UNCHANGED <<world, ops, object, op, pc, statement, window, seen>>

CloseScope ==
    /\ pc = "idle" /\ memo # Unset
    /\ memo' = Unset /\ fresh' = Never
    /\ UNCHANGED <<world, ops, object, op, pc, statement, window, seen>>

\* What an open scope remembers counts for the operations in it.
Begin(o, label) ==
    /\ pc = "idle" /\ pc' = label /\ op' = o
    /\ window' = IF memo = Unset THEN Holding(facts) ELSE fresh
    /\ ops < MaxOps /\ ops' = ops + 1
    /\ UNCHANGED <<world, memo, object, statement, fresh, seen>>

Goto(label) == pc' = label /\ UNCHANGED op

\* What the answer shows, and the rows whose salary it depends on.
End(rows, shown) ==
    /\ pc' = "ended" /\ UNCHANGED op
    /\ keys' = {} /\ fetched' = Unset /\ batch' = "roots" /\ visible' = {} /\ verdict' = "none"
    /\ revealed' = rows /\ exposed' = shown
    /\ UNCHANGED <<setup, facts, changes, ops, mark, window, fresh, compared>>

Return ==
    /\ pc = "ended" /\ pc' = "idle" /\ op' = Nothing
    /\ window' = Never /\ exposed' = {} /\ revealed' = {} /\ compared' = {}
    /\ UNCHANGED <<world, ops, memo, object, statement, fresh>>

\* A refused operation shows nothing.
Refuse == End({}, {}) /\ UNCHANGED <<stored, memo, object>>

-----------------------------------------------------------------------------
(***************************************************************************)
(* Queries: the guards, the statement, and what its instances show.        *)
(***************************************************************************)

Ask(q) == Begin(q, "guard")

In(q, places) == {c \in Columns : \E p \in places : <<p, c>> \in q.reads}
Combined(q) == In(q, {"operand"}) # {}

\* What _clause_expressions compiles: an existence test drops the ordering, a count or
\* an aggregate keeps it on a slice only.
Clauses(q) ==
    In(q, {"where", "subquery"}
          \cup (IF q.terminal = "iterate" \/ (q.terminal # "exists" /\ q.sliced)
                THEN {"order"} ELSE {}))
\* Mutant: the operands of a combination are not inspected.
SelectsOfItsOwn(q) ==
    IF q.terminal \in {"iterate", "aggregate"} \/ q.distinct \/ Combined(q)
    THEN In(q, {"select"}) ELSE {}
\* What a query selects, itself and by the operands of a combination; a count or an
\* existence test answers for it only when its rows are distinct or combined.
Selections(q) ==
    IF q.terminal \in {"iterate", "aggregate"} \/ q.distinct \/ Combined(q)
    THEN In(q, {"select", "operand"}) ELSE {}
\* What the database evaluates to answer (Django's SQL).
Evaluated(q) ==
    Clauses(q) \cup In(q, {"operand"})
        \cup (IF q.terminal \in {"iterate", "aggregate"} \/ (q.terminal = "count" /\ q.distinct)
              THEN In(q, {"select"}) ELSE {})

HiddenFrom(columns) == "gated" \in columns /\ ~GrantsAll

\* Mutant: only the WHERE clause is inspected.
GuardFilters(q) ==
    /\ Enforced(q.mode)
    /\ "raw" \in In(q, {"where"}) \/ HiddenFrom(In(q, {"where"}))
GuardClauses(q) ==
    Enforced(q.mode) /\ ("raw" \in Clauses(q) \/ HiddenFrom(Clauses(q)))
GuardSelections(q) ==
    Enforced(q.mode) /\ ("raw" \in Selections(q) \/ HiddenFrom(Selections(q)))
\* A column of a related row is no instance that could be guarded.
GuardRelated(q) == q.related /\ "joined" \in Selections(q)

Guard ==
    /\ pc = "guard"
    /\ IF GuardClauses(op) \/ GuardSelections(op) \/ GuardRelated(op)
       THEN Refuse
       ELSE Goto("statement") /\ UNCHANGED <<world, ops, memo, object, statement, window, fresh, seen>>

Targets(R) == {Related[r] : r \in R}

\* The rows in scope whose salary the statement's answer depends on.
Depends(q, R) ==
    IF ~Enforced(q.mode) THEN {}
    ELSE (IF Evaluated(q) \cap {"gated", "raw"} # {} THEN R ELSE {})
            \cup (IF "masked" \in Evaluated(q) THEN HeldMany(R) ELSE {})

Select ==
    /\ pc = "statement"
    /\ LET R == facts.readers
           joined == IF "joined" \in Evaluated(op) THEN Targets(R) ELSE {}
       IN  IF op.terminal = "iterate"
           THEN /\ Goto("visibility")
                /\ keys' = R
                /\ fetched' = [r \in R \cup (IF op.related THEN Targets(R) ELSE {}) |-> stored[r]]
                /\ exposed' = Depends(op, R) /\ revealed' = R \cup joined
                /\ UNCHANGED <<world, ops, memo, object, batch, visible, verdict, window, fresh, compared>>
           ELSE End(R \cup joined, Depends(op, R)) /\ UNCHANGED <<stored, memo, object>>

Candidates == IF batch = "roots" THEN keys ELSE Targets(keys)
Mark(R) == visible' = visible \cup ({batch} \X R)

\* _held_many: a batch is remembered under its exact ids and the generation, unless
\* a caveat is declared.
Remembers(R) == memo # Unset /\ ~setup.caveated /\ R # {}
\* Mutant: a batch is found again whatever was written since.
KeptForever(R) == {e \in memo : e.rows = R}
Kept(R) == {e \in memo : e.rows = R /\ e.mark = mark}

Decided == IF batch = "roots" /\ op.related THEN "related" ELSE "deliver"

Visibility ==
    /\ pc = "visibility"
    /\ LET R == Candidates IN
       \/ /\ ~Enforced(op.mode)
          /\ Mark(R) /\ Goto(Decided) /\ UNCHANGED memo
       \/ /\ Enforced(op.mode)
          /\ \/ /\ Remembers(R) /\ Kept(R) # {}
                /\ \E e \in Kept(R) : Mark(e.held)
                /\ UNCHANGED memo
             \/ /\ ~(Remembers(R) /\ Kept(R) # {})
                /\ Mark(HeldMany(R))
                /\ memo' = IF Remembers(R)
                           THEN memo \cup {[rows |-> R, mark |-> mark, held |-> HeldMany(R)]}
                           ELSE memo
          /\ Goto(IF setup.failClosed THEN Decided ELSE "conditional")
    /\ UNCHANGED <<world, ops, object, keys, fetched, batch, verdict, window, fresh, seen>>

\* The rows that were not held are checked one by one.
Conditional ==
    /\ pc = "conditional"
    /\ Mark({r \in Candidates : Held(r) \/ Undecided(r)})
    /\ Goto(Decided)
    /\ UNCHANGED <<world, ops, memo, object, keys, fetched, batch, verdict, window, fresh, seen>>

\* Mutant: the selected related rows are taken as the query read them.
TrustRelated ==
    /\ pc = "related"
    /\ Goto("visibility") /\ batch' = "related"
    /\ UNCHANGED <<world, ops, memo, object, keys, fetched, visible, verdict, window, fresh, seen>>

\* guard_selected_related_instances: every related row must be one the actor reads.
SelectedRelated ==
    /\ pc = "related"
    /\ IF Targets(keys) \subseteq facts.readers
       THEN /\ Goto("visibility") /\ batch' = "related"
            /\ UNCHANGED <<world, ops, memo, object, keys, fetched, visible, verdict, window, fresh, seen>>
       ELSE Refuse

\* Mutant: the snapshot keeps the value that was hidden.
WithoutScrubbing(i, hidden) ==
    [i EXCEPT !.now = [f \in Fields |-> IF f \in hidden THEN Null ELSE @[f]],
              !.redacted = @ \cup hidden, !.assigned = @ \ hidden]

\* mark_denied_fields: the value and its snapshot go, the name is remembered.
Without(i, hidden) ==
    [i EXCEPT !.now = [f \in Fields |-> IF f \in hidden THEN Null ELSE @[f]],
              !.loaded = IF @ = Unset THEN Unset
                         ELSE [f \in Fields |-> IF f \in hidden THEN Absent ELSE @[f]],
              !.redacted = @ \cup hidden, !.assigned = @ \ hidden]

\* from_db and _stamp; a related row carries the mode in effect.
Loaded(b, r) ==
    [row |-> r, now |-> fetched[r], loaded |-> fetched[r], redacted |-> {},
     mode |-> IF b = "roots" THEN op.mode ELSE Mode(op.mode), assigned |-> {}]

Deliver ==
    /\ pc = "deliver"
    /\ LET all == ({"roots"} \X keys)
                    \cup (IF op.related THEN {"related"} \X Targets(keys) ELSE {})
       IN  /\ \/ all = {} /\ UNCHANGED object
              \/ \E i \in all :
                    object' = Without(Loaded(i[1], i[2]), IF i \in visible THEN {} ELSE {"salary"})
           /\ End(revealed \cup {i[2] : i \in all},
                  exposed \cup (IF Enforced(op.mode) THEN {i[2] : i \in visible} ELSE {}))
    /\ UNCHANGED <<stored, memo>>

-----------------------------------------------------------------------------
(***************************************************************************)
(* The instance in memory.                                                 *)
(***************************************************************************)

InMemory(new) ==
    /\ pc = "idle" /\ object # Unset
    /\ object' = new /\ new # object
    /\ ops < MaxOps /\ ops' = ops + 1
    /\ UNCHANGED <<world, memo, op, pc, statement, window, fresh, seen>>

Assign(f, v) ==
    InMemory([object EXCEPT !.now[f] = v, !.assigned = @ \cup {f}])

\* redacted(): denied_read_fields by check_access, row by row.
Redact ==
    InMemory(IF Enforced(object.mode) /\ object.row \notin Shown(facts)
             THEN Without(object, {"salary"}) ELSE object)

\* Mutant: a refresh shows what the row holds.
RefreshOpenly == InMemory([object EXCEPT !.now = stored[object.row], !.assigned = {}])

\* refresh_from_db reads through the base manager, then hides again what was hidden.
Refresh ==
    InMemory(Without([object EXCEPT !.now = stored[object.row], !.assigned = {}],
                     object.redacted))

\* __getstate__ drops the snapshot and the mode, not the redacted names.
Pickle ==
    InMemory([object EXCEPT !.loaded = Unset, !.mode = Unset])

-----------------------------------------------------------------------------
(***************************************************************************)
(* Writes.                                                                 *)
(***************************************************************************)

\* Mutant: a full save of a redacted instance stays a full save.
RequestsEverything(fields) == fields

\* _rebac_save: a full save of a redacted instance names what changed since it was
\* loaded and is not redacted.
Requested(fields) ==
    IF fields # Unset \/ object.redacted = {} THEN fields
    ELSE {f \in Fields \ object.redacted :
            object.loaded # Unset => object.loaded[f] \notin {Absent, object.now[f]}}

Save(fields) ==
    /\ object # Unset
    /\ Requested(fields) # {}   \* Django returns without a write
    /\ Begin([kind |-> "save", fields |-> Requested(fields)], "gate")

Writes(names) == IF names = Unset THEN Fields ELSE names

\* Mutant: without a snapshot nothing counts as changed.
DirtyBySnapshot(names) ==
    IF names # Unset THEN names
    ELSE IF object.loaded = Unset THEN {}
    ELSE {f \in Fields : object.loaded[f] # object.now[f]}

\* _dirty_field_names
Dirty(names) ==
    IF names # Unset THEN names
    ELSE IF object.loaded = Unset THEN Fields
    ELSE {f \in Fields : object.loaded[f] # object.now[f]}

\* Mutant: the gate does not look at the redacted names.
SaveRefusedByGates(names) ==
    \/ \E f \in Writes(names) : object.now[f] = Copy /\ Enforced(object.mode) /\ ~Held(object.row)
    \/ "salary" \in Dirty(names) /\ object.row \notin facts.writers

\* _gate_save of a stored row, in its order.
SaveRefused(names) ==
    \/ \E f \in Writes(names) : object.now[f] = Copy /\ Enforced(object.mode) /\ ~Held(object.row)
    \/ names # Unset /\ names \cap object.redacted # {}
    \/ "salary" \in Dirty(names) /\ object.row \notin facts.writers

Update(u) == Begin(u, "keys")
BulkUpdate(f) ==
    object # Unset /\ Begin([kind |-> "bulk_update", field |-> f, mode |-> Unset], "keys")

\* update() and bulk_update() act on the rows in scope.
SelectKeys ==
    /\ pc = "keys"
    /\ keys' = IF op.kind = "update" THEN facts.readers ELSE facts.readers \cap {object.row}
    /\ Goto("gate")
    /\ UNCHANGED <<world, ops, memo, object, fetched, batch, visible, verdict, window, fresh, seen>>

\* What the rows are set to: bulk_update() sends the value of the instance.
NewValue == IF op.kind = "update" THEN op.value ELSE object.now[op.field]
\* Mutant: a bulk write checks what it reads, not what it writes.
UpdateRefusedByReads == NewValue = Copy /\ Enforced(op.mode) /\ HeldMany(keys) # keys
\* Mutant: a bulk write passes when one of its rows may be written.
UpdateRefusedByAll ==
    \/ op.field = "salary" /\ keys # {} /\ keys \cap facts.writers = {}
    \/ NewValue = Copy /\ Enforced(op.mode) /\ HeldMany(keys) # keys
UpdateRefused ==
    \/ op.field = "salary" /\ ~(keys \subseteq facts.writers)
    \/ NewValue = Copy /\ Enforced(op.mode) /\ HeldMany(keys) # keys

Gate ==
    /\ pc = "gate"
    /\ IF (IF op.kind = "save" THEN SaveRefused(op.fields) ELSE UpdateRefused)
       THEN Refuse
       ELSE Goto("write") /\ UNCHANGED <<world, ops, memo, object, statement, window, fresh, seen>>

\* Mutant: an expression is stored for its value.
PutUnread(v, r) == v
\* What a cell is set to: an expression reads the stored row.
Put(v, r) == IF v = Copy THEN stored[r].salary ELSE v

WriteSave ==
    /\ pc = "write" /\ op.kind = "save"
    /\ LET r == object.row
           W == Writes(op.fields)
           copies == {f \in W : object.now[f] = Copy}
       IN  /\ stored' = [stored EXCEPT ![r] =
                            [f \in Fields |-> IF f \in W THEN Put(object.now[f], r) ELSE @[f]]]
           \* Django reads the value of an expression back.
           /\ object' = [object EXCEPT !.now =
                            [f \in Fields |-> IF f \in copies THEN Put(Copy, r) ELSE @[f]]]
           /\ End({}, IF copies # {} /\ Enforced(object.mode) THEN {r} ELSE {})
    /\ UNCHANGED memo

WriteUpdate ==
    /\ pc = "write" /\ op.kind # "save"
    /\ stored' = [r \in Rows |->
                     IF r \in keys THEN [stored[r] EXCEPT ![op.field] = Put(NewValue, r)]
                     ELSE stored[r]]
    /\ End({}, IF NewValue = Copy /\ Enforced(op.mode) THEN keys ELSE {})
    /\ UNCHANGED <<memo, object>>

-----------------------------------------------------------------------------
(***************************************************************************)
(* Cleans: full_clean() with a unique salary, by validate_unique() and by  *)
(* validate_constraints().                                                 *)
(***************************************************************************)

Clean == object # Unset /\ Begin([kind |-> "clean"], "unique")

\* _rebac_compares_other_rows: a unique field without a value compares nothing.
Asks == pc = "constraints" \/ (pc = "unique" /\ object.now["salary"] # Null)

\* _rebac_gates_admit: the save is rehearsed once, when the first rule asks.
Rehearse ==
    /\ Asks /\ verdict = "none"
    /\ LET names == Requested(Unset)
       IN  verdict' = IF names # {} /\ SaveRefused(names) THEN "refuses" ELSE "admits"
    /\ UNCHANGED <<world, ops, memo, object, op, pc, keys, fetched, batch, visible, window, fresh, seen>>

\* Mutant: a refused row is validated on the fields a filter would be refused on.
LeftUnwritten == object.redacted
\* The fields a rule leaves out: those a save leaves unwritten, and as the actor
\* alone those a filter would be refused on.
LeftOut ==
    object.redacted
        \cup (IF verdict = "refuses" /\ Enforced(object.mode) /\ ~GrantsAll THEN Gated ELSE {})
Compares ==
    IF object.now["salary"] \in {Null, Copy} \/ "salary" \in LeftOut THEN {}
    ELSE (IF verdict = "admits" THEN Rows ELSE facts.readers) \ {object.row}

CleanStep ==
    /\ pc \in {"unique", "constraints"} /\ (Asks => verdict # "none")
    /\ compared' = compared \cup Compares
    /\ Goto(IF pc = "unique" THEN "constraints" ELSE "cleaned")
    /\ UNCHANGED <<world, ops, memo, object, statement, window, fresh, exposed, revealed>>

Cleaned ==
    /\ pc = "cleaned"
    /\ End({}, {}) /\ UNCHANGED <<stored, memo, object>>

-----------------------------------------------------------------------------

Init ==
    /\ \E s \in Starts : setup = s[1] /\ facts = s[2]
    /\ stored \in FirstRows
    /\ changes = 0 /\ ops = 0 /\ mark = 0
    /\ memo = Unset /\ object = Unset
    /\ op = Nothing /\ pc = "idle"
    /\ keys = {} /\ fetched = Unset /\ batch = "roots" /\ visible = {} /\ verdict = "none"
    /\ window = Never /\ fresh = Never
    /\ exposed = {} /\ revealed = {} /\ compared = {}

Others == ChangeTuples \/ \E r \in Rows : ChangeRow(r)

Reads ==
    \/ \E q \in Queries : Ask(q)
    \/ Guard \/ Select \/ Visibility \/ Conditional \/ SelectedRelated \/ Deliver

Edits ==
    \/ \E f \in Fields, v \in Values : Assign(f, v)
    \/ Assign("title", Copy)
    \/ Redact \/ Refresh \/ Pickle

Writing ==
    \/ \E fields \in {Unset} \cup SUBSET Fields : Save(fields)
    \/ \E u \in Updates : Update(u)
    \/ \E f \in Fields : BulkUpdate(f)
    \/ SelectKeys \/ Gate \/ WriteSave \/ WriteUpdate

Cleaning == Clean \/ Rehearse \/ CleanStep \/ Cleaned

Next == Others \/ OpenScope \/ CloseScope \/ Return \/ Reads \/ Edits \/ Writing \/ Cleaning
Spec == Init /\ [][Next]_vars

-----------------------------------------------------------------------------

\* An answer under enforcement depends on the salary of a row only if it could be read
\* at some moment of the operation, or of the scope whose memo answered; and shows
\* only rows that could be read.
AnswersRestOnReadableFields ==
    pc = "ended" => exposed \subseteq window.readable /\ revealed \subseteq window.readers

\* A redacted field holds nothing of the row: only what the actor assigned.
RedactedInstancesAreEmpty ==
    object # Unset =>
        \A f \in object.redacted :
            /\ f \in object.assigned \/ object.now[f] = Null
            /\ object.loaded = Unset \/ object.loaded[f] = Absent

\* A clean compares salaries the actor could read, or those a save of this very
\* instance would meet, and the gates passed it.
CleansTellWhatASaveWould ==
    pc = "cleaned" =>
        \/ /\ compared \subseteq window.readers
           /\ Enforced(object.mode) => compared \subseteq window.readable
        \/ /\ "salary" \notin object.redacted
           /\ "salary" \in Dirty(Requested(Unset)) => object.row \in window.writers

HiddenValuesStayHidden ==
    AnswersRestOnReadableFields /\ RedactedInstancesAreEmpty /\ CleansTellWhatASaveWould

Ends == pc = "write" /\ pc' = "ended"
Saved == Ends /\ op.kind = "save"

\* A save leaves the fields that were redacted on the instance as they are stored.
SavesKeepWhatIsHidden ==
    Saved => \A f \in object.redacted : stored'[object.row][f] = stored[object.row][f]

\* An instance writes back the salary it loaded, over another that was stored since.
WritesBack(r) ==
    op.kind = "save" /\ object.loaded # Unset /\ object.now["salary"] = object.loaded["salary"]

\* A write of the actor changes a salary only if write__salary held meanwhile.
SalariesChangeUnderTheirGate ==
    Ends => \A r \in Rows :
                stored'[r].salary # stored[r].salary => r \in window.writers \/ WritesBack(r)

WritesKeepTheFieldGates == [][SavesKeepWhatIsHidden /\ SalariesChangeUnderTheirGate]_vars

-----------------------------------------------------------------------------
(* The inductive invariant behind the properties.                           *)

Querying == {"guard", "statement", "visibility", "conditional", "related", "deliver"}
Delivering == {"visibility", "conditional", "related", "deliver"}
Writable == {"gate", "write"}
Validating == {"unique", "constraints", "cleaned"}

\* A step belongs to an operation of its kind, and what a statement left is there
\* only as long as the operation uses it.
StepsFitTheirOperation ==
    /\ pc \in Querying => op \in Queries
    /\ pc = "keys" => op \in Updates \cup Batches
    /\ pc \in Writable => op \in Saves \cup Updates \cup Batches
    /\ pc \in Writable \cup {"keys"} /\ op.kind # "update" => object # Unset
    /\ pc \in Validating => object # Unset
    /\ visible # {} => pc \in Delivering
    /\ batch = "related" => pc \in Delivering \ {"related"}
    /\ verdict # "none" => pc \in Validating

Within(v, w) ==
    v.readable \subseteq w.readable /\ v.readers \subseteq w.readers /\ v.writers \subseteq w.writers

\* The window of an operation has what holds and what its memo may answer from; what
\* is remembered under the mark in force was readable since the scope opened.
WindowsAreTrue ==
    /\ pc = "idle" => window = Never /\ compared = {}
    /\ pc # "idle" => Within(Holding(facts), window)
    /\ memo # Unset =>
          /\ Within(Holding(facts), fresh)
          /\ pc # "idle" => Within(fresh, window)
          /\ \A e \in memo : e.mark = mark => e.held \subseteq fresh.readable

AnswersAreWithin == exposed \subseteq window.readable /\ revealed \subseteq window.readers

\* What passed the guards may read what the statement reads.
QueriesAreGuarded ==
    pc = "statement" =>
        /\ "joined" \notin Evaluated(op)
        /\ Enforced(op.mode) /\ Evaluated(op) \cap {"gated", "raw"} # {} => window.readable = Rows

\* The rows in hand, those whose salary is shown, and the related rows were readable.
RowsAreReadable ==
    /\ pc \in Delivering =>
          /\ keys \subseteq window.readers
          /\ DOMAIN fetched = keys \cup (IF op.related THEN Targets(keys) ELSE {})
          /\ \A r \in DOMAIN fetched : fetched[r] \in Row
          /\ Enforced(op.mode) => \A i \in visible : i[2] \in window.readable
    /\ batch = "related" => Targets(keys) \subseteq window.readers
    /\ pc = "related" => op.related
    /\ pc = "deliver" /\ op.related => batch = "related"
    /\ pc = "conditional" => ~setup.failClosed /\ Enforced(op.mode)

\* What passed the gates of a write may write what the statement writes.
WritesAreGated ==
    /\ pc = "gate" /\ op.kind = "save" /\ op.fields = Unset => object.redacted = {}
    /\ pc = "write" /\ op.kind = "save" =>
          /\ Writes(op.fields) \cap object.redacted = {}
          /\ "salary" \in Dirty(op.fields) => object.row \in window.writers
          /\ Enforced(object.mode) /\ (\E f \in Writes(op.fields) : object.now[f] = Copy) =>
                object.row \in window.readable
    /\ pc = "write" /\ op.kind # "save" =>
          /\ op.field = "salary" => keys \subseteq window.writers
          /\ NewValue = Copy /\ Enforced(op.mode) => keys \subseteq window.readable

MayBeSaved == "salary" \in Dirty(Requested(Unset)) => object.row \in window.writers

\* A clean has compared what the actor could read, or was admitted by the gates.
CleansAreGated ==
    pc \in Validating =>
        /\ verdict = "admits" => MayBeSaved
        /\ \/ /\ compared \subseteq window.readers
              /\ Enforced(object.mode) => compared \subseteq window.readable
           \/ "salary" \notin object.redacted /\ MayBeSaved

IInv ==
    /\ TypeOK
    /\ StepsFitTheirOperation
    /\ WindowsAreTrue
    /\ AnswersAreWithin
    /\ QueriesAreGuarded
    /\ RowsAreReadable
    /\ WritesAreGated
    /\ CleansAreGated
    /\ RedactedInstancesAreEmpty
=============================================================================
