------------------------- MODULE RelationshipStore -------------------------
(***************************************************************************)
(* The relationship tuples of the local backend and everything that writes *)
(* them: batches, deletes, memberships, instance saves, the sweep after an *)
(* object is deleted, and the tokens (zookies) the writes return.          *)
(*                                                                         *)
(* The database is READ COMMITTED: a statement sees what is committed when *)
(* it runs and what its own transaction wrote; a write waits for rows and  *)
(* for unique keys that another transaction has touched.  A step is one    *)
(* statement, with the Python code up to the next one.                     *)
(*                                                                         *)
(* In denormalized storage a tuple carries the names of its ends; in       *)
(* registry storage it refers to a resource row of each, by a foreign key  *)
(* that is checked when the transaction commits.                           *)
(***************************************************************************)
EXTENDS Naturals, Sequences, FiniteSets

CONSTANTS
    Sessions,       \* threads of one process, each on a connection of its own
    Objects,        \* the objects tuples name at either end
    Edges,          \* resource, relation and subject of a tuple
    Ends,           \* [Edges -> SUBSET Objects], the resource and the subject
    ResourceOf,     \* [Edges -> Objects]
    Names,          \* caveat names, part of the identity of a tuple
    Contexts,       \* caveat contexts, which are not
    Batches,        \* what write_relationships is called with
    FirstRows,      \* the rows there are at first
    Changes,        \* what instance saves write, and which columns they name
    Kinds,          \* the operations each session performs
    MaxOps,         \* operations of each session
    MaxIds,         \* primary keys ever handed out
    Readings,       \* of the clock
    FirstFloors,    \* the tokens that clients bring along
    MaxXid,
    Gone, None

Ids == 1..MaxIds
Tuple == [edge : Edges, name : Names]
\* What a caller has written: a tuple with its context.
Given == [edge : Edges, name : Names, context : Contexts]
\* `key` is caveat_key, which names the instance of the caveat in SQL.
Row == [edge : Edges, name : Names, context : Contexts, key : Names \X Contexts,
        xid : 0..MaxXid]
KeyMatches(row) == row.key = <<row.name, row.context>>

\* The columns of the caveat; a save without update_fields writes both.
Columns == {"name", "context"}
Change == [fields : SUBSET Columns, partial : BOOLEAN, name : Names, context : Contexts]

\* A table as bulk creation leaves it.
Filled(table) ==
    /\ table \in [Ids -> Row \cup {Gone}]
    /\ \E n \in 0..MaxIds : \A i \in Ids : table[i] # Gone <=> i <= n
    /\ \A i \in Ids : table[i] # Gone => KeyMatches(table[i])

StoreAssumption ==
    /\ MaxOps \in [Sessions -> Nat] /\ MaxIds \in Nat /\ MaxXid \in Nat
    /\ Readings \subseteq Nat
    /\ Ends \in [Edges -> SUBSET Objects]
    /\ \A e \in Edges : ResourceOf[e] \in Ends[e]
    /\ None \notin Nat /\ None \notin {"found", "missing"} /\ Gone \notin Row
    /\ FirstFloors \subseteq [Sessions -> 0..MaxXid \cup {None}]
    /\ \A table \in FirstRows : Filled(table)
    /\ \A b \in Batches : b \in Seq(Given) /\ b # << >>
    /\ Changes \subseteq Change
    /\ \A c \in Changes : c.fields # {} /\ (~c.partial => c.fields = Columns)
ASSUME StoreAssumption

VARIABLES
    registry,       \* REBAC_LOCAL_BACKEND_STORAGE
    rows,           \* the committed rows, by primary key
    objects,        \* the objects whose Django row exists
    resources,      \* registry: the objects with a resource row,
    epoch,          \*   and how often that row was deleted
    used,           \* the highest primary key handed out
    last,           \* LocalBackend._last_xid
    ops,            \* how many operations a session started
    pc, op,
    ambient,        \* whether the operation runs in a transaction of its caller
    at,             \* which tuple of the batch is being written
    drawn,          \* the transaction id _next_xid computed
    newest,         \* max_xid of the batch
    found,          \* the row an upsert found, or the one a save writes
    derived,        \* the caveat_key a save derived
    draft,          \* the rows this transaction wrote
    dropping,       \* the objects it deleted,
    adding,         \* the resource rows it inserted,
    interned,       \* the epochs of those it resolved,
    swept,          \* and the rows its deletion had to remove
    renamed,        \* rows whose identity an instance save changed,
    reborn,         \*   and deleted rows that one inserted again
    buried,         \* the rows that committed deletions had to remove
    lapsed,         \* by object, the highest key when its deletion committed,
    cascaded,       \*   and when its resource row was deleted with it
    floor,          \* the token of the zookie scope, None when none is open
    written,        \* the highest id of a tuple written in that scope
    outcome         \* what a grant read back, or a revocation saw

committed == <<registry, rows, objects, resources, epoch, buried, lapsed, cascaded>>
clocks == <<used, last>>
locals == <<at, drawn, newest, found, derived>>
overlay == <<draft, dropping, adding, interned, swept>>
history == <<renamed, reborn>>
scope == <<floor, written>>
vars == <<committed, clocks, ops, pc, op, ambient, locals, overlay, history,
          scope, outcome>>

(***************************************************************************)
(* What a statement sees, and whom a write waits for.                      *)
(***************************************************************************)

View(s, i) == IF i \in DOMAIN draft[s] THEN draft[s][i] ELSE rows[i]
Stored(s, i) == View(s, i) # Gone
Identity(row) == [edge |-> row.edge, name |-> row.name]
Holding(s, t) == {i \in Ids : Stored(s, i) /\ Identity(View(s, i)) = t}
Naming(s, o) == {i \in Ids : Stored(s, i) /\ o \in Ends[View(s, i).edge]}

Others(s) == Sessions \ {s}
RowFree(s, i) == \A z \in Others(s) : i \notin DOMAIN draft[z]
\* The unique index: nobody else has inserted, changed or deleted the identity.
KeyFree(s, t) ==
    \A z \in Others(s) : \A i \in DOMAIN draft[z] :
        /\ draft[z][i] # Gone => Identity(draft[z][i]) # t
        /\ rows[i] # Gone => Identity(rows[i]) # t
ResourceFree(s, o) == \A z \in Others(s) : o \notin dropping[z] \cup adding[z]
ResourcesOf(s) == (resources \ dropping[s]) \cup adding[s]

Goto(s, label) == pc' = [pc EXCEPT ![s] = label]
Put(f, s, v) == [f EXCEPT ![s] = v]
Larger(a, b) == IF a > b THEN a ELSE b
Overlaid(f, i, v) == [j \in DOMAIN f \cup {i} |-> IF j = i THEN v ELSE f[j]]
Laid(s, i, v) == draft' = Put(draft, s, Overlaid(draft[s], i, v))

(***************************************************************************)
(* Operations.                                                             *)
(***************************************************************************)

Writes == [kind : {"write"}, batch : Batches]
Grants == [kind : {"grant"}, batch : {b \in Batches : Len(b) = 1}]
\* A filter leaves the caveat open, an exact delete and a revocation name it.
Removals == [kind : {"remove"}, edge : Edges, names : {Names} \cup {{n} : n \in Names}]
Revocations == [kind : {"revoke"}, edge : Edges, names : {{n} : n \in Names}]
\* save() of an instance loaded before, with update_fields or without; erase
\* is its delete().
Saves == [kind : {"save"}, id : Ids, change : Changes, edge : Edges]
Erasures == [kind : {"erase"}, id : Ids]
\* bulk_create of tuple instances: what becomes of those that are there.
Bulks == [kind : {"bulk"}, batch : {b \in Batches : Len(b) = 1},
          conflicts : {"ignore", "update", "raise"}]
Drops == [kind : {"drop"}, object : Objects]
Operations == Writes \cup Grants \cup Removals \cup Revocations \cup Saves
              \cup Erasures \cup Bulks \cup Drops
Nothing == [kind |-> "none"]

Admissible(o) ==
    CASE o.kind = "save" -> rows[o.id] # Gone /\ o.edge = rows[o.id].edge
      [] o.kind = "erase" -> rows[o.id] # Gone
      [] o.kind = "drop" -> o.object \in objects
      [] OTHER -> TRUE

FirstStep(o) ==
    CASE o.kind \in {"write", "grant"} -> IF registry THEN "intern" ELSE "draw"
      [] o.kind = "remove" -> "remove"
      [] o.kind = "revoke" -> "look"
      [] o.kind = "save" -> "derive"
      [] o.kind = "erase" -> "erase"
      [] o.kind = "bulk" -> "bulk"
      [] o.kind = "drop" -> "drop"

\* memberships and roles open a transaction around theirs.
WrappedRemovals == {"revoke"}
Wrapped == {"grant", "revoke"}

Start(s) ==
    /\ pc[s] = "idle" /\ ops[s] < MaxOps[s]
    /\ ops' = [ops EXCEPT ![s] = @ + 1]
    /\ \E o \in Operations, within \in BOOLEAN :
          /\ o.kind \in Kinds[s] /\ Admissible(o)
          /\ o.kind \in Wrapped => within
          /\ o.kind \in {"save", "erase", "bulk", "drop"} => ~within
          /\ op' = Put(op, s, o)
          /\ ambient' = Put(ambient, s, within)
          /\ found' = Put(found, s, IF o.kind \in {"save", "erase"} THEN o.id ELSE None)
          /\ interned' = IF o.kind \in {"save", "bulk"}
                        THEN Put(interned, s, epoch) ELSE interned
          /\ Goto(s, FirstStep(o))
    /\ UNCHANGED <<committed, clocks, at, drawn, newest, derived, draft, dropping,
                   adding, swept, history, scope, outcome>>

\* The end of a transaction.
Unwind(s) ==
    /\ draft' = Put(draft, s, << >>)
    /\ dropping' = Put(dropping, s, {})
    /\ adding' = Put(adding, s, {})
    /\ interned' = Put(interned, s, [o \in Objects |-> 0])
    /\ swept' = Put(swept, s, {})

Idle(s) ==
    /\ Goto(s, "idle")
    /\ op' = Put(op, s, Nothing)
    /\ ambient' = Put(ambient, s, FALSE)
    /\ at' = Put(at, s, 1)
    /\ drawn' = Put(drawn, s, 0)
    /\ newest' = Put(newest, s, 0)
    /\ found' = Put(found, s, None)
    /\ derived' = Put(derived, s, None)
    /\ outcome' = Put(outcome, s, None)
    /\ UNCHANGED ops

Fail(s) ==
    /\ Unwind(s) /\ Idle(s)
    /\ UNCHANGED <<committed, clocks, history, scope>>

\* A deadlock the database resolves, a lost connection, an exception.
DatabaseError(s) == pc[s] # "idle" /\ Fail(s)

\* The foreign keys of registry storage, checked when a transaction commits:
\* the resources the new tuples refer to are still those that were resolved,
\* and nobody committed a tuple that refers to one this transaction deleted.
Inserted(s) == {i \in DOMAIN draft[s] : draft[s][i] # Gone /\ rows[i] = Gone}
ReferencesUnversioned(s) ==
    registry =>
        /\ \A i \in Inserted(s) : Ends[draft[s][i].edge] \subseteq ResourcesOf(s)
        /\ \A o \in dropping[s] : Naming(s, o) = {}
References(s) ==
    registry =>
        /\ \A i \in Inserted(s) : \A o \in Ends[draft[s][i].edge] :
              o \in ResourcesOf(s) /\ (o \in resources => epoch[o] = interned[s][o])
        /\ \A o \in dropping[s] : Naming(s, o) = {}

Publish(s) ==
    /\ rows' = [i \in Ids |-> View(s, i)]
    /\ objects' = objects \ dropping[s]
    /\ resources' = ResourcesOf(s)
    /\ epoch' = [o \in Objects |-> IF o \in dropping[s] \cap resources
                                   THEN epoch[o] + 1 ELSE epoch[o]]
    /\ buried' = buried \cup swept[s]
    /\ lapsed' = [o \in Objects |-> IF o \in dropping[s] THEN used ELSE lapsed[o]]
    /\ cascaded' = [o \in Objects |-> IF o \in dropping[s] \cap resources
                                      THEN used ELSE cascaded[o]]
    /\ Unwind(s)
    /\ UNCHANGED registry

\* The end of the atomic block of the operation.
AfterBlock(s) ==
    CASE op[s].kind \in {"write", "grant"} -> "token"
      [] op[s].kind \in {"remove", "revoke"} -> "draw"
      [] OTHER -> "done"

Leave(s) ==
    /\ pc[s] = "leave"
    /\ IF ambient[s]
       THEN UNCHANGED <<committed, overlay>>
       ELSE References(s) /\ Publish(s)
    /\ Goto(s, AfterBlock(s))
    /\ UNCHANGED <<clocks, ops, op, ambient, locals, history, scope, outcome>>

\* The commit of the transaction of the caller.
Commit(s) ==
    /\ pc[s] = "commit"
    /\ References(s) /\ Publish(s)
    /\ Goto(s, "done")
    /\ UNCHANGED <<clocks, ops, op, ambient, locals, history, scope, outcome>>

IntegrityError(s) ==
    /\ pc[s] = "commit" \/ (pc[s] = "leave" /\ ~ambient[s])
    /\ ~References(s)
    /\ Fail(s)

Return(s) ==
    /\ pc[s] = "done"
    /\ Idle(s)
    /\ UNCHANGED <<committed, clocks, overlay, history, scope>>

----------------------------------------------------------------------------
(***************************************************************************)
(* write_relationships.                                                    *)
(***************************************************************************)

\* upsert_refs_bulk: insert what is missing, then read the keys of all.
BatchEnds(s) == UNION {Ends[op[s].batch[k].edge] : k \in DOMAIN op[s].batch}

Intern(s) ==
    /\ pc[s] = "intern"
    /\ \A o \in BatchEnds(s) : ResourceFree(s, o)
    /\ adding' = Put(adding, s, BatchEnds(s) \ resources)
    /\ Goto(s, "resolve")
    /\ UNCHANGED <<committed, clocks, ops, op, ambient, locals, draft, dropping,
                   interned, swept, history, scope, outcome>>

Resolve(s) ==
    /\ pc[s] = "resolve"
    /\ BatchEnds(s) \subseteq ResourcesOf(s)
    /\ interned' = Put(interned, s, epoch)
    /\ Goto(s, "draw")
    /\ UNCHANGED <<committed, clocks, ops, op, ambient, locals, draft, dropping,
                   adding, swept, history, scope, outcome>>

\* SchemaError: a resource row that was there was deleted in between.
Unresolved(s) ==
    /\ pc[s] = "resolve"
    /\ ~(BatchEnds(s) \subseteq ResourcesOf(s))
    /\ Fail(s)

Writing(s) == op[s].kind \in {"write", "grant"}

\* _next_xid reads _last_xid, stores it and reads it again; threads share it.
NextXid(now) == Larger(now, last + 1)

Draw(s) ==
    /\ pc[s] = "draw"
    /\ \E now \in Readings :
          NextXid(now) <= MaxXid /\ drawn' = Put(drawn, s, NextXid(now))
    /\ Goto(s, "store")
    /\ UNCHANGED <<committed, clocks, ops, op, ambient, at, newest, found, derived,
                   overlay, history, scope, outcome>>

StoreXid(s) ==
    /\ pc[s] = "store"
    /\ last' = drawn[s]
    /\ Goto(s, IF Writing(s) THEN "find" ELSE "token")
    /\ UNCHANGED <<committed, used, ops, op, ambient, locals, overlay, history, scope,
                   outcome>>

Current(s) == op[s].batch[at[s]]
CurrentTuple(s) == [edge |-> Current(s).edge, name |-> Current(s).name]

Find(s) ==
    /\ pc[s] = "find"
    /\ drawn' = Put(drawn, s, last)
    /\ newest' = Put(newest, s, Larger(newest[s], last))
    /\ LET held == Holding(s, CurrentTuple(s))
       IN  /\ found' = Put(found, s, IF held = {} THEN None ELSE CHOOSE i \in held : TRUE)
           /\ Goto(s, IF held = {} THEN "insert" ELSE "derive")
    /\ UNCHANGED <<committed, clocks, ops, op, ambient, at, derived, overlay, history,
                   scope, outcome>>

AfterTuple(s) ==
    IF op[s].kind \in {"write", "grant"} /\ at[s] < Len(op[s].batch)
    THEN Goto(s, "draw") /\ at' = [at EXCEPT ![s] = @ + 1]
    ELSE Goto(s, "leave") /\ UNCHANGED at

Fresh(t, xid) == [edge |-> t.edge, name |-> t.name, context |-> t.context,
                  key |-> <<t.name, t.context>>, xid |-> xid]

\* force_insert: the unique constraint refuses a tuple somebody else inserted.
Insert(s) ==
    /\ pc[s] = "insert"
    /\ KeyFree(s, CurrentTuple(s)) /\ used < MaxIds
    /\ Holding(s, CurrentTuple(s)) = {}
    /\ used' = used + 1
    /\ Laid(s, used + 1, Fresh(Current(s), drawn[s]))
    /\ AfterTuple(s)
    /\ UNCHANGED <<committed, last, ops, op, ambient, drawn, newest, found, derived,
                   dropping, adding, interned, swept, history, scope, outcome>>

Duplicate(s) ==
    /\ pc[s] = "insert"
    /\ KeyFree(s, CurrentTuple(s))
    /\ Holding(s, CurrentTuple(s)) # {}
    /\ Fail(s)

----------------------------------------------------------------------------
(***************************************************************************)
(* save_base and _save_table of a tuple: of the row an upsert found, with  *)
(* its context and id, and of an instance.                                 *)
(***************************************************************************)

Assigned(s) == IF op[s].kind = "save" THEN op[s].change ELSE Current(s)
Fields(s) == IF op[s].kind = "save" THEN op[s].change.fields ELSE {"context"}
Omitted(s) == Columns \ Fields(s)

\* _derive_caveat_key: of the columns the save leaves out, the stored values,
\* under the lock of the row; the rest from the instance.
ReadsOnly(s) == FALSE
Locks(s) == Omitted(s) # {} /\ Stored(s, found[s])
UnderivedKey(s) == None
DerivedKey(s) ==
    LET source(column) == IF column \in Omitted(s) /\ Stored(s, found[s])
                          THEN View(s, found[s]) ELSE Assigned(s)
    IN  <<source("name").name, source("context").context>>

Derive(s) ==
    /\ pc[s] = "derive"
    /\ derived' = Put(derived, s, DerivedKey(s))
    /\ IF Locks(s)
       THEN RowFree(s, found[s]) /\ Laid(s, found[s], View(s, found[s]))
       ELSE UNCHANGED draft
    /\ Goto(s, "update")
    /\ UNCHANGED <<committed, clocks, ops, op, ambient, at, drawn, newest, found,
                   dropping, adding, interned, swept, history, scope, outcome>>

\* The columns the UPDATE sets, caveat_key among them.
Saved(s) ==
    LET row == View(s, found[s])
        source(column) == IF column \in Fields(s) THEN Assigned(s) ELSE row
    IN  [edge |-> row.edge, name |-> source("name").name,
         context |-> source("context").context,
         key |-> derived[s],
         xid |-> IF op[s].kind = "save" THEN row.xid ELSE drawn[s]]

Renames(s) == Stored(s, found[s]) /\ Identity(Saved(s)) # Identity(View(s, found[s]))

\* Of a row that is there; a renaming save waits for the unique key.
Update(s) ==
    /\ pc[s] = "update"
    /\ Stored(s, found[s]) /\ RowFree(s, found[s])
    /\ Renames(s) => KeyFree(s, Identity(Saved(s))) /\ Holding(s, Identity(Saved(s))) = {}
    /\ Laid(s, found[s], Saved(s))
    /\ renamed' = IF Renames(s) THEN renamed \cup {found[s]} ELSE renamed
    /\ AfterTuple(s)
    /\ UNCHANGED <<committed, clocks, ops, op, ambient, drawn, newest, found, derived,
                   dropping, adding, interned, swept, reborn, scope, outcome>>

SavesWhole(s) == op[s].kind = "save" /\ ~op[s].change.partial
Whole(s) == [edge |-> op[s].edge, name |-> op[s].change.name]

\* update_fields of a row that is gone: Django raises, the operation fails.
\* Of an upsert that inserts what it cannot update, this is the third form.
LostSilently(s) ==
    /\ AfterTuple(s)
    /\ UNCHANGED <<committed, clocks, ops, op, ambient, drawn, newest, found, derived,
                   overlay, history, scope, outcome>>
LostInserted(s) ==
    /\ Writing(s)
    /\ KeyFree(s, CurrentTuple(s)) /\ Holding(s, CurrentTuple(s)) = {}
    /\ Laid(s, found[s], Fresh(Current(s), drawn[s]))
    /\ AfterTuple(s)
    /\ UNCHANGED <<committed, clocks, ops, op, ambient, drawn, newest, found, derived,
                   dropping, adding, interned, swept, history, scope, outcome>>
Lost(s) == Fail(s)

UpdateNothing(s) ==
    /\ pc[s] = "update" /\ ~Stored(s, found[s]) /\ RowFree(s, found[s])
    /\ ~SavesWhole(s)
    /\ Lost(s)

\* A save without update_fields inserts the row again, with the values the
\* instance had.
Reinsert(s) ==
    /\ pc[s] = "update" /\ ~Stored(s, found[s]) /\ RowFree(s, found[s])
    /\ SavesWhole(s)
    /\ KeyFree(s, Whole(s)) /\ Holding(s, Whole(s)) = {}
    /\ Laid(s, found[s], [edge |-> op[s].edge, name |-> op[s].change.name,
                          context |-> op[s].change.context, key |-> derived[s], xid |-> 0])
    /\ reborn' = reborn \cup {found[s]}
    /\ AfterTuple(s)
    /\ UNCHANGED <<committed, clocks, ops, op, ambient, drawn, newest, found, derived,
                   dropping, adding, interned, swept, renamed, scope, outcome>>

\* The unique constraint refuses the new identity of the row.
Refused(s, t) == KeyFree(s, t) /\ Holding(s, t) # {}
UpdateRefused(s) ==
    /\ pc[s] = "update"
    /\ \/ Stored(s, found[s]) /\ Renames(s) /\ Refused(s, Identity(Saved(s)))
       \/ ~Stored(s, found[s]) /\ SavesWhole(s) /\ Refused(s, Whole(s))
    /\ Fail(s)

\* One INSERT for all, with the key derived before it; an upsert may change the
\* context and then writes the key too.
BulkCreate(s) ==
    /\ pc[s] = "bulk"
    /\ KeyFree(s, CurrentTuple(s))
    /\ LET held == Holding(s, CurrentTuple(s))
       IN  \/ /\ held = {} /\ used < MaxIds
              /\ used' = used + 1
              /\ Laid(s, used + 1, Fresh(Current(s), 0))
           \/ /\ held # {} /\ op[s].conflicts = "update"
              /\ \E i \in held :
                    Laid(s, i, Fresh(Current(s), View(s, i).xid))
              /\ UNCHANGED used
           \/ /\ held # {} /\ op[s].conflicts = "ignore"
              /\ UNCHANGED <<draft, used>>
    /\ Goto(s, "leave")
    /\ UNCHANGED <<committed, last, ops, op, ambient, locals, dropping, adding, interned,
                   swept, history, scope, outcome>>

BulkRefused(s) ==
    /\ pc[s] = "bulk" /\ op[s].conflicts = "raise"
    /\ Refused(s, CurrentTuple(s))
    /\ Fail(s)

----------------------------------------------------------------------------
(***************************************************************************)
(* Deletes: by filter, of one tuple, of an instance.                       *)
(***************************************************************************)

Matched(s) ==
    UNION {Holding(s, [edge |-> op[s].edge, name |-> n]) : n \in op[s].names}

Erased(s, R) ==
    /\ \A i \in R : RowFree(s, i)
    /\ draft' = Put(draft, s, [i \in DOMAIN draft[s] \cup R |->
                                 IF i \in R THEN Gone ELSE draft[s][i]])

\* revoke answers by what it saw before the delete.
Look(s) ==
    /\ pc[s] = "look"
    /\ outcome' = Put(outcome, s, IF Matched(s) = {} THEN "missing" ELSE "found")
    /\ Goto(s, "remove")
    /\ UNCHANGED <<committed, clocks, ops, op, ambient, locals, overlay, history, scope>>

Remove(s) ==
    /\ pc[s] = "remove"
    /\ Erased(s, Matched(s))
    /\ swept' = Put(swept, s, Matched(s))
    /\ Goto(s, "leave")
    /\ UNCHANGED <<committed, clocks, ops, op, ambient, locals, dropping, adding,
                   interned, history, scope, outcome>>

Erase(s) ==
    /\ pc[s] = "erase"
    /\ Erased(s, {i \in {found[s]} : Stored(s, i)})
    /\ Goto(s, "leave")
    /\ UNCHANGED <<committed, clocks, ops, op, ambient, locals, dropping, adding,
                   interned, swept, history, scope, outcome>>

----------------------------------------------------------------------------
(***************************************************************************)
(* The end of the public helpers: the token, the read-back of a grant.     *)
(***************************************************************************)

\* A batch returns at least the largest of its own ids, whatever another
\* thread made of _last_xid; a delete draws an id.
WriteToken(s) == Larger(newest[s], last)

TokenOfClock(s) == last
TokenOf(s) == WriteToken(s)

\* record_zookie: nothing outside a scope, and never a smaller token.
RecordLatest(old, token) == IF old = None THEN None ELSE token
Record(old, token) ==
    IF old = None THEN None ELSE Larger(old, token)

Token(s) ==
    /\ pc[s] = "token"
    /\ floor' = Put(floor, s, Record(floor[s], IF Writing(s) THEN TokenOf(s) ELSE last))
    /\ written' = Put(written, s, Larger(written[s], newest[s]))
    /\ Goto(s, CASE op[s].kind = "grant" -> "get"
                 [] op[s].kind # "grant" /\ ambient[s] -> "commit"
                 [] OTHER -> "done")
    /\ UNCHANGED <<committed, clocks, ops, op, ambient, locals, overlay, history, outcome>>

\* memberships.grant reads its row back, in its own transaction.
Get(s) ==
    /\ pc[s] = "get"
    /\ outcome' = Put(outcome, s, IF Holding(s, CurrentTuple(s)) = {}
                                  THEN "missing" ELSE "found")
    /\ Goto(s, IF ambient[s] THEN "commit" ELSE "done")
    /\ UNCHANGED <<committed, clocks, ops, op, ambient, locals, overlay, history, scope>>

----------------------------------------------------------------------------
(***************************************************************************)
(* The deletion of an object: its row, and in the same transaction the     *)
(* tuples that name it at either end (cleanup_identities); in registry     *)
(* storage the resource row goes too.                                      *)
(***************************************************************************)

SweepsResource(s, o) == {i \in Naming(s, o) : ResourceOf[View(s, i).edge] = o}
Sweeps(s, o) == Naming(s, o)

Drop(s) ==
    /\ pc[s] = "drop"
    /\ op[s].object \in objects
    /\ \A z \in Others(s) : op[s].object \notin dropping[z]
    /\ dropping' = Put(dropping, s, {op[s].object})
    /\ swept' = Put(swept, s, Naming(s, op[s].object))
    /\ Goto(s, "sweep")
    /\ UNCHANGED <<committed, clocks, ops, op, ambient, locals, draft, adding,
                   interned, history, scope, outcome>>

DropNothing(s) ==
    /\ pc[s] = "drop" /\ op[s].object \notin objects
    /\ Goto(s, "leave")
    /\ UNCHANGED <<committed, clocks, ops, op, ambient, locals, overlay, history,
                   scope, outcome>>

Sweep(s) ==
    /\ pc[s] = "sweep"
    /\ Erased(s, Sweeps(s, op[s].object))
    /\ swept' = Put(swept, s, swept[s] \cup Naming(s, op[s].object))
    /\ Goto(s, "leave")
    /\ UNCHANGED <<committed, clocks, ops, op, ambient, locals, dropping, adding,
                   interned, history, scope, outcome>>

----------------------------------------------------------------------------
Init ==
    /\ registry \in BOOLEAN
    /\ rows \in FirstRows
    /\ objects = Objects
    /\ resources = IF registry
                   THEN UNION {Ends[rows[i].edge] : i \in {j \in Ids : rows[j] # Gone}}
                   ELSE {}
    /\ epoch = [o \in Objects |-> 0]
    /\ buried = {}
    /\ lapsed = [o \in Objects |-> 0]
    /\ cascaded = [o \in Objects |-> 0]
    /\ used = Cardinality({i \in Ids : rows[i] # Gone})
    /\ last = 0
    /\ renamed = {}
    /\ reborn = {}
    /\ ops = [s \in Sessions |-> 0]
    /\ pc = [s \in Sessions |-> "idle"]
    /\ op = [s \in Sessions |-> Nothing]
    /\ ambient = [s \in Sessions |-> FALSE]
    /\ at = [s \in Sessions |-> 1]
    /\ drawn = [s \in Sessions |-> 0]
    /\ newest = [s \in Sessions |-> 0]
    /\ found = [s \in Sessions |-> None]
    /\ derived = [s \in Sessions |-> None]
    /\ draft = [s \in Sessions |-> << >>]
    /\ dropping = [s \in Sessions |-> {}]
    /\ adding = [s \in Sessions |-> {}]
    /\ interned = [s \in Sessions |-> [o \in Objects |-> 0]]
    /\ swept = [s \in Sessions |-> {}]
    /\ floor \in FirstFloors
    /\ written = [s \in Sessions |-> 0]
    /\ outcome = [s \in Sessions |-> None]

WriteStep(s) ==
    \/ Intern(s) \/ Resolve(s) \/ Unresolved(s) \/ Draw(s) \/ StoreXid(s) \/ Find(s)
    \/ Insert(s) \/ Duplicate(s)
SaveStep(s) ==
    \/ Derive(s) \/ Update(s) \/ UpdateNothing(s) \/ Reinsert(s) \/ UpdateRefused(s)
    \/ BulkCreate(s) \/ BulkRefused(s)
DeleteStep(s) ==
    \/ Look(s) \/ Remove(s) \/ Erase(s) \/ Drop(s) \/ DropNothing(s) \/ Sweep(s)
HelperStep(s) ==
    \/ Token(s) \/ Get(s)
EndStep(s) ==
    \/ Leave(s) \/ Commit(s) \/ IntegrityError(s) \/ Return(s) \/ DatabaseError(s)

Next ==
    \E s \in Sessions :
        Start(s) \/ WriteStep(s) \/ SaveStep(s) \/ DeleteStep(s)
        \/ HelperStep(s) \/ EndStep(s)

Spec == Init /\ [][Next]_vars

----------------------------------------------------------------------------
(***************************************************************************)
(* Properties.                                                             *)
(***************************************************************************)

Labels == {"idle", "intern", "resolve", "draw", "store", "find", "insert", "derive", "update", "bulk",
           "look", "remove", "erase", "drop", "sweep", "leave", "token", "get", "commit", "done"}

DatabaseTypeOK ==
    /\ registry \in BOOLEAN
    /\ rows \in [Ids -> Row \cup {Gone}]
    /\ objects \subseteq Objects
    /\ resources \subseteq Objects
    /\ epoch \in [Objects -> Nat]
    /\ buried \subseteq Ids
    /\ lapsed \in [Objects -> 0..MaxIds]
    /\ cascaded \in [Objects -> 0..MaxIds]
    /\ used \in 0..MaxIds
    /\ last \in 0..MaxXid
    /\ renamed \subseteq Ids
    /\ reborn \subseteq Ids

SessionsTypeOK ==
    /\ ops \in [Sessions -> Nat]
    /\ pc \in [Sessions -> Labels]
    /\ op \in [Sessions -> Operations \cup {Nothing}]
    /\ ambient \in [Sessions -> BOOLEAN]
    /\ at \in [Sessions -> Nat \ {0}]
    /\ found \in [Sessions -> Ids \cup {None}]
    /\ derived \in [Sessions -> (Names \X Contexts) \cup {None}]
    /\ outcome \in [Sessions -> {None, "found", "missing"}]

TokensTypeOK ==
    /\ drawn \in [Sessions -> 0..MaxXid]
    /\ newest \in [Sessions -> 0..MaxXid]
    /\ floor \in [Sessions -> 0..MaxXid \cup {None}]
    /\ written \in [Sessions -> 0..MaxXid]

OverlayTypeOK ==
    /\ DOMAIN draft = Sessions
    /\ \A s \in Sessions :
          /\ DOMAIN draft[s] \subseteq Ids
          /\ \A i \in DOMAIN draft[s] : draft[s][i] \in Row \cup {Gone}
    /\ dropping \in [Sessions -> SUBSET Objects]
    /\ adding \in [Sessions -> SUBSET Objects]
    /\ interned \in [Sessions -> [Objects -> Nat]]
    /\ swept \in [Sessions -> SUBSET Ids]

\* Every variable has its type.
TypeOK == DatabaseTypeOK /\ SessionsTypeOK /\ TokensTypeOK /\ OverlayTypeOK

\* caveat_key is that of the name and the context beside it, although a save
\* may write one of them while another session writes the other: SQL decides
\* by the key what Python decides by the context.  (A row that a whole save
\* brought back may be written by a save that looked for it when it was gone.)
CaveatKeysMatch ==
    \A i \in Ids \ reborn : rows[i] # Gone => KeyMatches(rows[i])

\* Every write path writes the key with the tuple, whatever happens to the row.
EveryCaveatKeyMatches ==
    \A i \in Ids : rows[i] # Gone => KeyMatches(rows[i])

\* "Atomically commit relationship rows": when a batch is through, the last
\* word on each of its tuples is in the table of its transaction; a row that
\* somebody deletes between the search and the UPDATE fails the batch.  (A row
\* that an instance save gives another identity, or brings back under one, is
\* updated under that.)
LastWord(batch, k) ==
    \A j \in DOMAIN batch : j > k =>
        <<batch[j].edge, batch[j].name>> # <<batch[k].edge, batch[k].name>>
BatchesAreWhole ==
    \A s \in Sessions : Writing(s) /\ pc[s] = "leave" =>
        \A k \in DOMAIN op[s].batch : LastWord(op[s].batch, k) =>
            LET t == op[s].batch[k]
            IN  \/ \E i \in Holding(s, [edge |-> t.edge, name |-> t.name]) :
                      View(s, i).context = t.context
                \/ \E i \in DOMAIN draft[s] : i \in renamed \cup reborn

\* grant() and imply() find the row they have just written, or updated, as they
\* read it back in the transaction that wrote it: the comment in imply() names
\* the race.
GrantsFindTheirRow ==
    \A s \in Sessions : op[s].kind = "grant" /\ outcome[s] = "missing" =>
        found[s] \in renamed \cup reborn

\* A batch, a grant or an implication that returns has its tuples stored, and no row
\* is left half one write and half another.
WritesLandWhole == BatchesAreWhole /\ GrantsFindTheirRow /\ CaveatKeysMatch

\* The token of a scope covers every tuple written in it, however threads race
\* for _last_xid and whatever token the scope was opened with.
FloorsCoverWrites ==
    \A s \in Sessions : floor[s] # None => floor[s] >= written[s]

\* and is never replaced by a smaller one.
FloorsRise == \A s \in Sessions : floor[s] # None => floor'[s] >= floor[s]
FloorsNeverFall == [][FloorsRise]_vars

\* What a committed deletion took stays gone, the tuples that named an object
\* when its row was deleted among them, whoever had found them before: a batch, a
\* grant or a partial save does not bring back what it read.  (A save without
\* update_fields does; those rows are reborn.)
BuriedStayGone == \A i \in buried \ reborn : rows[i] = Gone

\* In registry storage a tuple does not even survive that was inserted beside
\* the deletion of its resource or its subject, before that was committed: the
\* foreign key finds another row, or none.
CascadesAreWhole ==
    \A i \in Ids \ reborn : rows[i] # Gone =>
        \A o \in Ends[rows[i].edge] : i > cascaded[o]

\* What a deletion has taken is never seen again.
DeletionsAreFinal == BuriedStayGone /\ CascadesAreWhole

\* "so a reused identity does not inherit a grant" (Deleted objects): no tuple is
\* as old as the deletion of an object it names.
GrantsDieWithTheirObject ==
    \A i \in Ids \ reborn : rows[i] # Gone =>
        \A o \in Ends[rows[i].edge] : i > lapsed[o]
=============================================================================
