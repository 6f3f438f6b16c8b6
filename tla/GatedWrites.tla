---------------------------- MODULE GatedWrites ----------------------------
(***************************************************************************)
(* Writes to rows whose columns carry permissions, under an actor.         *)
(*                                                                         *)
(* A row (a resource) lies in a container, by a foreign key a policy may   *)
(* read: what an actor may do with the row follows from what it may do     *)
(* with the container, so a move takes the row out of one container and    *)
(* puts it into another, and the actor has to write both.  The containers  *)
(* are also linked with one other object by a many-to-many table, whose    *)
(* rows the related managers write.                                        *)
(*                                                                         *)
(* The database is READ COMMITTED: a statement sees what is committed when *)
(* it runs and what its own transaction wrote; UPDATE, DELETE and SELECT   *)
(* FOR UPDATE wait for the row.  A step is one statement with the Python   *)
(* code up to the next one, so rows, grants and the published policy can   *)
(* change between any two steps.                                           *)
(***************************************************************************)
EXTENDS Naturals, FiniteSets

CONSTANTS
    Rows,           \* primary keys
    Containers,
    Sessions,       \* connections, each with one thread of control
    Unscoped,       \* the sessions under sudo or a system context
    Kinds,          \* the kinds of operation each session performs
    FirstRows, FirstLinks, FirstGrants, FirstPolicies,
    MaxWrites,      \* operations of one session
    MaxChanges,     \* changes by the environment to rows, grants, policies
    Gone, None

\* Before the first sync there is no policy; `loose` gives every actor `write`
\* on every row by a constant and reads no column; `backed` reads the columns.
Policies == {"none", "loose", "backed"}
Grants == {"none", "read", "write"}

\* `on` is what the filters of the queryset writes look at.
Row == [at : Containers, on : BOOLEAN]

GatedAssumption ==
    /\ Unscoped \subseteq Sessions
    /\ Kinds \in [Sessions -> SUBSET {"save", "insert", "remove", "update", "delete", "links"}]
    /\ FirstRows \in [Rows -> Row \cup {Gone}]
    /\ FirstLinks \subseteq Containers
    /\ FirstGrants \subseteq [Containers -> Grants]
    /\ FirstPolicies \subseteq Policies
    /\ MaxWrites \in Nat
    /\ MaxChanges \in Nat
    /\ None \notin Sessions
    /\ Gone \notin Containers \cup Row
ASSUME GatedAssumption

VARIABLES
    rows,           \* committed rows
    links,          \* committed pairs of the through table, by container
    grants,         \* what the actor may do with each container
    policy,         \* the published policy
    lock,           \* the row locks
    changes,        \* how often the environment changed something
    writes,         \* how many operations each session started
    pc, op,         \* where a session is, and in which operation
    held,           \* the policy of the open model_write, `_open`
    keys,           \* statement_keys(): the keys a queryset write is bound to
    scanned,        \* the rows of the last scan: of a guard, or of a collector
    roots,          \* DeleteScope.root_pks
    asked,          \* the containers the next edge check asks `write` of
    exempt,         \* _related_m2m_write: the pairs the wrapper gated
    draft,          \* the rows this transaction wrote
    crossed,        \* the pairs this transaction wrote, and those of them
    present,        \* it inserted
    pinned,         \* rows whose stored value a gate has read under the lock
    judged,         \* containers an edge check found writable
    guarded,        \* rows a check found writable
    moved,          \* <<row, from, to>>: what the statements really replaced
    refused,        \* the resource the operation was refused for
    trail           \* the denials whose audit rows survive the operation

db == <<rows, links, grants, policy, changes>>
scope == <<keys, scanned, roots, exempt>>
history == <<judged, guarded, pinned, moved, refused, trail>>
vars == <<db, lock, writes, pc, op, held, scope, asked, draft, crossed,
          present, history>>

(***************************************************************************)
(* What a statement of a session sees, and what the actor may do.          *)
(***************************************************************************)

View(s, r) == IF r \in DOMAIN draft[s] THEN draft[s][r] ELSE rows[r]
Exists(s, r) == View(s, r) # Gone
Stored(s, r) == IF Exists(s, r) THEN View(s, r).at ELSE Gone
Matching(s) == {r \in Rows : Exists(s, r) /\ View(s, r).on}
Linked(s) == (links \ crossed[s]) \cup present[s]

CanWrite(c) == policy # "none" /\ grants[c] = "write"
RowHeld(s, r, wanted) ==
    /\ Exists(s, r)
    /\ \/ policy = "loose"
       \/ (policy = "backed" /\ grants[Stored(s, r)] \in wanted)
WriteRow(s, r) == RowHeld(s, r, {"write"})
ReadRow(s, r) == RowHeld(s, r, {"read", "write"})
CreateRow(c) == policy = "loose" \/ CanWrite(c)

Scoped(s) == s \notin Unscoped
Watched(s) == held[s] = "backed"
Free(s, R) == \A r \in R : lock[r] \in {None, s}
Take(s, R) == lock' = [r \in Rows |-> IF r \in R THEN s ELSE lock[r]]

Goto(s, label) == pc' = [pc EXCEPT ![s] = label]
Put(f, s, v) == [f EXCEPT ![s] = v]

(***************************************************************************)
(* Operations.                                                             *)
(***************************************************************************)

\* save() of a loaded instance: the foreign key may be among the fields it
\* writes, with a value that was loaded long ago; a new instance; check_save()
\* of either is `dry`.
Saves == [kind : {"save"}, row : Rows, to : Containers, edge : BOOLEAN, dry : BOOLEAN]
Inserts == [kind : {"insert"}, row : Rows, to : Containers, dry : BOOLEAN]
Removals == [kind : {"remove"}, row : Rows]
\* Queryset updates of the foreign key, or of a column no policy reads.
Updates == [kind : {"update"}, to : Containers \cup {Gone}]
Deletes == [kind : {"delete"}]
\* add(), remove() and clear() of a related manager; set() is made of them.
Through == [kind : {"links"}, verb : {"add", "remove", "clear"}, with : SUBSET Containers]
Operations == Saves \cup Inserts \cup Removals \cup Updates \cup Deletes \cup Through
Nothing == [kind |-> "none"]

Dry(s) == op[s].kind \in {"save", "insert"} /\ op[s].dry
MovesEdge(s) ==
    CASE op[s].kind = "save" -> op[s].edge
      [] op[s].kind = "insert" -> TRUE
      [] op[s].kind = "update" -> op[s].to # Gone
      [] OTHER -> FALSE

FirstStep(o) ==
    CASE o.kind \in {"save", "insert", "remove"} -> "check"
      [] o.kind \in {"update", "delete"} -> "keys"
      [] o.kind = "links" -> "wrapper"

\* model_write reads the policy before its transaction starts and holds it;
\* a related manager gates before there is a model_write.
Start(s) ==
    /\ pc[s] = "idle" /\ writes[s] < MaxWrites
    /\ \E o \in Operations :
          /\ o.kind \in Kinds[s]
          /\ o.kind = "insert" => rows[o.row] = Gone
          /\ o.kind \in {"save", "remove"} => rows[o.row] # Gone
          /\ op' = Put(op, s, o)
          /\ Goto(s, FirstStep(o))
          /\ held' = Put(held, s, IF o.kind = "links" THEN None ELSE policy)
    /\ writes' = [writes EXCEPT ![s] = @ + 1]
    /\ UNCHANGED <<db, lock, scope, asked, draft, crossed, present, history>>

\* The end of the transaction and of the scopes Python has open.
Unwind(s, label) ==
    /\ Goto(s, label)
    /\ lock' = [r \in Rows |-> IF lock[r] = s THEN None ELSE lock[r]]
    /\ asked' = Put(asked, s, {})
    /\ scanned' = Put(scanned, s, {})
    /\ roots' = Put(roots, s, {})
    /\ exempt' = Put(exempt, s, {})
    /\ draft' = Put(draft, s, << >>)
    /\ crossed' = Put(crossed, s, {})
    /\ present' = Put(present, s, {})
    /\ pinned' = Put(pinned, s, {})

Rollback(s, label) ==
    /\ Unwind(s, label)
    /\ moved' = Put(moved, s, {})
    /\ UNCHANGED <<db, writes, op, held, keys, judged, guarded>>

Commit(s) ==
    /\ pc[s] = "commit"
    /\ Unwind(s, "done")
    /\ rows' = [r \in Rows |-> View(s, r)]
    /\ links' = Linked(s)
    /\ UNCHANGED <<grants, policy, changes, writes, op, held, keys, judged,
                   guarded, moved, refused, trail>>

RefuseInside(s, resource, again) ==
    /\ Rollback(s, "denied")
    /\ refused' = Put(refused, s, resource)
    /\ trail' = Put(trail, s, {})

\* PermissionDenied.  An audit row written inside the transaction goes with
\* it; `again` says that an owner writes it once more after the rollback.
Refuse(s, resource, again) ==
    /\ Rollback(s, "denied")
    /\ refused' = Put(refused, s, resource)
    /\ trail' = Put(trail, s, IF again /\ ~Dry(s) THEN {resource} ELSE {})

\* A constraint, a deadlock the database resolves, a lost connection.
DatabaseError(s) ==
    /\ pc[s] \notin {"idle", "done", "denied"}
    /\ Rollback(s, "done")
    /\ UNCHANGED <<refused, trail>>

Finish(s) ==
    /\ pc[s] \in {"done", "denied"}
    /\ Goto(s, "idle")
    /\ op' = Put(op, s, Nothing)
    /\ held' = Put(held, s, None)
    /\ keys' = Put(keys, s, {})
    /\ judged' = Put(judged, s, {})
    /\ guarded' = Put(guarded, s, {})
    /\ moved' = Put(moved, s, {})
    /\ refused' = Put(refused, s, None)
    /\ trail' = Put(trail, s, {})
    /\ UNCHANGED <<db, lock, writes, scanned, roots, exempt, asked, draft,
                   crossed, present, pinned>>

----------------------------------------------------------------------------
(***************************************************************************)
(* Saves and instance deletes.                                             *)
(***************************************************************************)

\* _gate_save and _gate_delete: `write`, `delete` or `create`, by one check.
Passes(s) ==
    IF op[s].kind = "insert" THEN CreateRow(op[s].to) ELSE WriteRow(s, op[s].row)

Check(s) ==
    /\ pc[s] = "check"
    /\ IF Scoped(s) /\ ~Passes(s)
       THEN Refuse(s, op[s].row, TRUE)
       ELSE /\ guarded' = Put(guarded, s, {op[s].row})
            /\ Goto(s, IF op[s].kind = "remove" THEN "write" ELSE "edge")
            /\ UNCHANGED <<db, lock, writes, op, held, scope, asked, draft,
                           crossed, present, judged, pinned, moved, refused, trail>>

\* The next step once the gates passed; check_save() stops here.
GatedWithoutGuard(s) == IF Dry(s) THEN "rehearsed" ELSE "write"
GatedRehearsals(s) == IF op[s].kind = "update" THEN "scan" ELSE "write"
Gated(s) == IF op[s].kind = "update" THEN "scan" ELSE IF Dry(s) THEN "rehearsed" ELSE "write"

\* _stored: the rows whose values the write replaces, read under their locks.
Replaced(s) ==
    {r \in Rows : /\ Exists(s, r)
                  /\ CASE op[s].kind = "save" -> r = op[s].row
                       [] op[s].kind = "update" -> r \in keys[s]
                       [] OTHER -> FALSE}

LockNone(s) == {}
Lockable(s) == Replaced(s)

\* The containers an edge leaves and enters, of every row whose value changes;
\* a save asks of the container it enters though its row is gone.
EndsOfGone(s, found) == {Stored(s, r) : r \in Rows} \cup {op[s].to}
EndsLeaving(s, found) == {Stored(s, r) : r \in found} \ {op[s].to}
Ends(s, found) ==
    LET leaving == {Stored(s, r) : r \in found} \ {op[s].to}
    IN  leaving \cup IF leaving # {} \/ (op[s].kind # "update" /\ found = {})
                     THEN {op[s].to} ELSE {}

ReadEdge(s) ==
    /\ pc[s] = "edge"
    /\ IF ~Watched(s) \/ ~MovesEdge(s)
       THEN /\ Goto(s, Gated(s))
            /\ UNCHANGED <<lock, pinned, asked>>
       ELSE /\ Free(s, Lockable(s)) /\ Take(s, Lockable(s))
            /\ pinned' = Put(pinned, s, Replaced(s))
            /\ asked' = Put(asked, s, Ends(s, Replaced(s)))
            /\ Goto(s, "judge")
    /\ UNCHANGED <<db, writes, op, held, scope, draft, crossed, present, judged,
                   guarded, moved, refused, trail>>

\* _check_edge_writes, of the containers and of the rows that move, which are
\* declaring resources too: a row is writable when its container is.
Denied(s) == {c \in asked[s] : ~CanWrite(c)}
Judge(s) ==
    /\ pc[s] = "judge"
    /\ IF Scoped(s) /\ Denied(s) # {}
       THEN \E c \in Denied(s) : Refuse(s, c, TRUE)
       ELSE /\ judged' = Put(judged, s, judged[s] \cup asked[s])
            /\ asked' = Put(asked, s, {})
            /\ Goto(s, Gated(s))
            /\ UNCHANGED <<db, lock, writes, op, held, scope, draft, crossed,
                           present, guarded, pinned, moved, refused, trail>>

\* check_save() rolls back and restores the instance.
Rehearsed(s) ==
    /\ pc[s] = "rehearsed"
    /\ Rollback(s, "done")
    /\ UNCHANGED <<refused, trail>>

\* One row in the draft; the lock also stands for the unique index.
Lay(s, r, row) ==
    /\ Free(s, {r}) /\ Take(s, {r})
    /\ draft' = Put(draft, s, [q \in {r} |-> row])
    /\ moved' = Put(moved, s, {<<r, Stored(s, r), IF row = Gone THEN Gone ELSE row.at>>})

\* Django updates the row its key names; when there is none any more, a save
\* of every field inserts it again, and one with update_fields fails.
WriteSave(s) ==
    /\ pc[s] = "write" /\ op[s].kind = "save"
    /\ Exists(s, op[s].row) \/ op[s].edge
    /\ LET r == op[s].row
           on == IF Exists(s, r) THEN View(s, r).on ELSE TRUE
           at == IF op[s].edge THEN op[s].to ELSE Stored(s, r)
       IN  Lay(s, r, [at |-> at, on |-> on])
    /\ Goto(s, "commit")
    /\ UNCHANGED <<db, writes, op, held, scope, asked, crossed, present, judged,
                   guarded, pinned, refused, trail>>

WriteInsert(s) ==
    /\ pc[s] = "write" /\ op[s].kind = "insert"
    /\ ~Exists(s, op[s].row)
    /\ Lay(s, op[s].row, [at |-> op[s].to, on |-> TRUE])
    /\ Goto(s, "commit")
    /\ UNCHANGED <<db, writes, op, held, scope, asked, crossed, present, judged,
                   guarded, pinned, refused, trail>>

WriteRemoval(s) ==
    /\ pc[s] = "write" /\ op[s].kind = "remove"
    /\ Lay(s, op[s].row, Gone)
    /\ Goto(s, "commit")
    /\ UNCHANGED <<db, writes, op, held, scope, asked, crossed, present, judged,
                   guarded, pinned, refused, trail>>

----------------------------------------------------------------------------
(***************************************************************************)
(* Queryset updates and deletes.                                           *)
(***************************************************************************)

\* The keys of the rows that match and that the actor's scope admits.
SelectKeys(s) ==
    /\ pc[s] = "keys"
    /\ keys' = Put(keys, s, {r \in Matching(s) : Scoped(s) /\ ReadRow(s, r)})
    /\ Goto(s, CASE ~Scoped(s) /\ op[s].kind = "update" -> "write"
                 [] ~Scoped(s) /\ op[s].kind = "delete" -> "roots"
                 [] Scoped(s) /\ op[s].kind = "update" -> "edge"
                 [] Scoped(s) /\ op[s].kind = "delete" -> "scan")
    /\ UNCHANGED <<db, lock, writes, op, held, scanned, roots, exempt, asked,
                   draft, crossed, present, history>>

StatementByFilter(s) == Matching(s)

\* by_key: the statement keeps the caller's filter and adds the keys.
Statement(s) == {r \in Matching(s) : Scoped(s) => r \in keys[s]}

\* _affected_resource_ids_for_guard: the statement's rows, once more.
ScanGuard(s) ==
    /\ pc[s] = "scan"
    /\ scanned' = Put(scanned, s, Statement(s))
    /\ Goto(s, "guard")
    /\ UNCHANGED <<db, lock, writes, op, held, keys, roots, exempt, asked,
                   draft, crossed, present, history>>

\* _guard_bulk_action: all or nothing, and no audit row.
Guard(s) ==
    /\ pc[s] = "guard"
    /\ LET denied == {r \in scanned[s] : ~WriteRow(s, r)}
       IN  IF denied # {}
           THEN \E r \in denied : Refuse(s, r, FALSE)
           ELSE /\ guarded' = Put(guarded, s, guarded[s] \cup scanned[s])
                /\ Goto(s, IF op[s].kind = "update" THEN "write" ELSE "roots")
                /\ UNCHANGED <<db, lock, writes, op, held, scope, asked, draft,
                               crossed, present, judged, pinned, moved, refused, trail>>

Replace(s, R, new) ==
    /\ Free(s, R) /\ Take(s, R)
    /\ draft' = Put(draft, s, [r \in R |-> new[r]])
    /\ moved' = Put(moved, s,
                    {<<r, Stored(s, r), IF new[r] = Gone THEN Gone ELSE new[r].at>> : r \in R})

WriteUpdate(s) ==
    /\ pc[s] = "write" /\ op[s].kind = "update"
    /\ Replace(s, Statement(s),
               [r \in Statement(s) |->
                   IF op[s].to = Gone THEN View(s, r) ELSE [View(s, r) EXCEPT !.at = op[s].to]])
    /\ Goto(s, "commit")
    /\ UNCHANGED <<db, writes, op, held, scope, asked, crossed, present, judged,
                   guarded, pinned, refused, trail>>

\* deletion_owner captures the roots by a statement of its own, which are then
\* covered; Django's collector reads the rows again.
CaptureRoots(s) ==
    /\ pc[s] = "roots"
    /\ roots' = Put(roots, s, Statement(s))
    /\ Goto(s, "collect")
    /\ UNCHANGED <<db, lock, writes, op, held, keys, scanned, exempt, asked,
                   draft, crossed, present, history>>

Collect(s) ==
    /\ pc[s] = "collect"
    /\ scanned' = Put(scanned, s, Statement(s))
    /\ Goto(s, "batch")
    /\ UNCHANGED <<db, lock, writes, op, held, keys, roots, exempt, asked,
                   draft, crossed, present, history>>

\* delete_collected: the collected rows its owner did not check, as one batch.
Uncovered(s) == IF Scoped(s) THEN scanned[s] \ roots[s] ELSE {}
Batch(s) ==
    /\ pc[s] = "batch"
    /\ LET denied == {r \in Uncovered(s) : ~WriteRow(s, r)}
       IN  IF denied # {}
           THEN \E r \in denied : Refuse(s, r, FALSE)
           ELSE /\ guarded' = Put(guarded, s, guarded[s] \cup Uncovered(s))
                /\ Goto(s, "write")
                /\ UNCHANGED <<db, lock, writes, op, held, scope, asked, draft,
                               crossed, present, judged, pinned, moved, refused, trail>>

WriteDelete(s) ==
    /\ pc[s] = "write" /\ op[s].kind = "delete"
    /\ Replace(s, {r \in scanned[s] : Exists(s, r)}, [r \in scanned[s] |-> Gone])
    /\ Goto(s, "commit")
    /\ UNCHANGED <<db, writes, op, held, scope, asked, crossed, present, judged,
                   guarded, pinned, refused, trail>>

----------------------------------------------------------------------------
(***************************************************************************)
(* Related managers.  The wrapper gates the pairs the caller names, or     *)
(* those the table has, outside Django's atomic block; the signal and the  *)
(* through table's own manager gate what the wrapper did not.              *)
(***************************************************************************)

\* _gate_m2m: the pairs it decides on, and none before the first sync.
Named(s) ==
    IF ~Scoped(s) \/ policy = "none" THEN {}
    ELSE IF op[s].verb = "clear" THEN Linked(s) ELSE op[s].with

Wrapper(s) ==
    /\ pc[s] = "wrapper"
    /\ asked' = Put(asked, s, Named(s))
    /\ exempt' = Put(exempt, s, Named(s))
    /\ Goto(s, "wrapped")
    /\ UNCHANGED <<db, lock, writes, op, held, keys, scanned, roots, draft,
                   crossed, present, history>>

JudgeLinks(s, label) ==
    IF Denied(s) # {}
    THEN \E c \in Denied(s) : Refuse(s, c, TRUE)
    ELSE /\ judged' = Put(judged, s, judged[s] \cup asked[s])
         /\ asked' = Put(asked, s, {})
         /\ Goto(s, label)
         /\ UNCHANGED <<db, lock, writes, op, held, scope, draft, crossed,
                        present, guarded, pinned, moved, refused, trail>>

Wrapped(s) == pc[s] = "wrapped" /\ JudgeLinks(s, "signal")

\* pre_add names the pairs that are missing, pre_remove those of the caller,
\* and pre_clear none: the receiver reads the table.
Signalled(s) ==
    CASE op[s].verb = "add" -> op[s].with \ Linked(s)
      [] op[s].verb = "remove" -> op[s].with
      [] op[s].verb = "clear" -> Linked(s)

Signal(s) ==
    /\ pc[s] = "signal"
    /\ keys' = Put(keys, s, Signalled(s))
    /\ asked' = Put(asked, s,
           IF Signalled(s) \subseteq exempt[s] \/ ~Scoped(s) \/ policy = "none"
           THEN {} ELSE Signalled(s))
    /\ Goto(s, "signalled")
    /\ UNCHANGED <<db, lock, writes, op, held, scanned, roots, exempt, draft,
                   crossed, present, history>>

Receiver(s) == pc[s] = "signalled" /\ JudgeLinks(s, "through")

\* The pairs the manager of the through table writes: bulk_create inserts what
\* was missing, delete() what the filter finds now.
Written(s) ==
    CASE op[s].verb = "add" -> keys[s]
      [] op[s].verb = "remove" -> op[s].with \cap Linked(s)
      [] op[s].verb = "clear" -> Linked(s)

\* covers_row: a pair the wrapper gated is not gated again.
UngatedOutsideCalls(s, C) == {}
Ungated(s, C) == IF Scoped(s) /\ policy # "none" THEN C \ exempt[s] ELSE {}

\* A handler of m2m_changed inserts a pair of its own, through the manager.
Handler(s) ==
    /\ pc[s] = "through" /\ crossed[s] = {}
    /\ \E c \in Containers \ Linked(s) :
          IF \E d \in Ungated(s, {c}) : ~CanWrite(d)
          THEN Refuse(s, c, TRUE)
          ELSE /\ crossed' = Put(crossed, s, {c})
               /\ present' = Put(present, s, {c})
               /\ judged' = Put(judged, s, judged[s] \cup Ungated(s, {c}))
               /\ UNCHANGED <<db, lock, writes, pc, op, held, scope, asked, draft,
                              guarded, pinned, moved, refused, trail>>

\* Its deletes are gated when the policy reads the table, its inserts always.
OpenThrough(s) ==
    /\ pc[s] = "through"
    /\ held' = Put(held, s, policy)
    /\ keys' = Put(keys, s, Written(s))
    /\ asked' = Put(asked, s, IF op[s].verb = "add" \/ policy = "backed"
                              THEN Ungated(s, Written(s)) ELSE {})
    /\ Goto(s, "throughGate")
    /\ UNCHANGED <<db, lock, writes, op, scanned, roots, exempt, draft, crossed,
                   present, history>>

ThroughGate(s) == pc[s] = "throughGate" /\ JudgeLinks(s, "write")

WriteLinks(s) ==
    /\ pc[s] = "write" /\ op[s].kind = "links"
    /\ IF op[s].verb = "add"
       THEN /\ crossed' = Put(crossed, s, crossed[s] \cup keys[s])
            /\ present' = Put(present, s, present[s] \cup keys[s])
       ELSE /\ crossed' = Put(crossed, s, crossed[s] \cup (keys[s] \cap Linked(s)))
            /\ present' = Put(present, s, present[s] \ keys[s])
    /\ Goto(s, "commit")
    /\ UNCHANGED <<db, lock, writes, op, held, scope, asked, draft, history>>

----------------------------------------------------------------------------
(***************************************************************************)
(* The environment: other transactions, each in one step, and the admin.   *)
(***************************************************************************)

Changing(rest) ==
    /\ changes < MaxChanges
    /\ changes' = changes + 1
    /\ UNCHANGED rest
    /\ UNCHANGED <<lock, writes, pc, op, held, scope, asked, draft, crossed,
                   present, history>>

Grant ==
    /\ \E c \in Containers, g \in Grants : grants' = [grants EXCEPT ![c] = g]
    /\ Changing(<<rows, links, policy>>)

Publish ==
    /\ policy' \in Policies \ {"none", policy}
    /\ Changing(<<rows, links, grants>>)

\* Another transaction moves, marks or deletes a row nobody has locked.
OtherWrite ==
    /\ \E r \in Rows :
          /\ rows[r] # Gone /\ lock[r] = None
          /\ \E new \in Row \cup {Gone} :
                new # rows[r] /\ rows' = [rows EXCEPT ![r] = new]
    /\ Changing(<<links, grants, policy>>)

OtherLink ==
    /\ \E c \in Containers :
          links' = IF c \in links THEN links \ {c} ELSE links \cup {c}
    /\ Changing(<<rows, grants, policy>>)

----------------------------------------------------------------------------
Init ==
    /\ rows = FirstRows
    /\ links = FirstLinks
    /\ grants \in FirstGrants
    /\ policy \in FirstPolicies
    /\ changes = 0
    /\ lock = [r \in Rows |-> None]
    /\ writes = [s \in Sessions |-> 0]
    /\ pc = [s \in Sessions |-> "idle"]
    /\ op = [s \in Sessions |-> Nothing]
    /\ held = [s \in Sessions |-> None]
    /\ draft = [s \in Sessions |-> << >>]
    /\ refused = [s \in Sessions |-> None]
    /\ keys = [s \in Sessions |-> {}]
    /\ scanned = [s \in Sessions |-> {}]
    /\ roots = [s \in Sessions |-> {}]
    /\ asked = [s \in Sessions |-> {}]
    /\ exempt = [s \in Sessions |-> {}]
    /\ crossed = [s \in Sessions |-> {}]
    /\ present = [s \in Sessions |-> {}]
    /\ pinned = [s \in Sessions |-> {}]
    /\ judged = [s \in Sessions |-> {}]
    /\ guarded = [s \in Sessions |-> {}]
    /\ moved = [s \in Sessions |-> {}]
    /\ trail = [s \in Sessions |-> {}]

SaveStep(s) ==
    \/ Check(s) \/ ReadEdge(s) \/ Judge(s) \/ Rehearsed(s)
    \/ WriteSave(s) \/ WriteInsert(s) \/ WriteRemoval(s)

QuerysetStep(s) ==
    \/ SelectKeys(s) \/ ScanGuard(s) \/ Guard(s) \/ WriteUpdate(s)
    \/ CaptureRoots(s) \/ Collect(s) \/ Batch(s) \/ WriteDelete(s)

LinksStep(s) ==
    \/ Wrapper(s) \/ Wrapped(s) \/ Signal(s) \/ Receiver(s)
    \/ Handler(s) \/ OpenThrough(s) \/ ThroughGate(s) \/ WriteLinks(s)

SessionStep(s) ==
    \/ Start(s) \/ SaveStep(s) \/ QuerysetStep(s) \/ LinksStep(s)
    \/ Commit(s) \/ DatabaseError(s) \/ Finish(s)

Next ==
    \/ \E s \in Sessions : SessionStep(s)
    \/ Grant \/ Publish \/ OtherWrite \/ OtherLink

Spec == Init /\ [][Next]_vars

----------------------------------------------------------------------------
(***************************************************************************)
(* Properties.                                                             *)
(***************************************************************************)

Labels == {"idle", "check", "edge", "judge", "rehearsed", "keys", "scan",
           "guard", "roots", "collect", "batch", "wrapper", "wrapped",
           "signal", "signalled", "through", "throughGate", "write",
           "commit", "done", "denied"}
Places == Rows \cup Containers

\* Every variable has its type.
TypeOK ==
    /\ rows \in [Rows -> Row \cup {Gone}]
    /\ links \subseteq Containers
    /\ grants \in [Containers -> Grants]
    /\ policy \in Policies
    /\ lock \in [Rows -> Sessions \cup {None}]
    /\ changes \in 0..MaxChanges
    /\ writes \in [Sessions -> 0..MaxWrites]
    /\ pc \in [Sessions -> Labels]
    /\ op \in [Sessions -> Operations \cup {Nothing}]
    /\ held \in [Sessions -> Policies \cup {None}]
    /\ keys \in [Sessions -> SUBSET Places]
    /\ scanned \in [Sessions -> SUBSET Rows]
    /\ roots \in [Sessions -> SUBSET Rows]
    /\ asked \in [Sessions -> SUBSET Containers]
    /\ exempt \in [Sessions -> SUBSET Containers]
    /\ crossed \in [Sessions -> SUBSET Containers]
    /\ present \in [Sessions -> SUBSET Containers]
    /\ pinned \in [Sessions -> SUBSET Rows]
    /\ judged \in [Sessions -> SUBSET Containers]
    /\ guarded \in [Sessions -> SUBSET Rows]
    /\ moved \in [Sessions -> SUBSET (Rows \X (Containers \cup {Gone}) \X (Containers \cup {Gone}))]
    /\ refused \in [Sessions -> Places \cup {None}]
    /\ trail \in [Sessions -> SUBSET Places]
    /\ \A s \in Sessions :
          /\ DOMAIN draft[s] \subseteq Rows
          /\ \A r \in DOMAIN draft[s] : draft[s][r] \in Row \cup {Gone}

\* A write that moves a row from one container to another, under a policy that
\* reads the column when the write starts, was checked against the container
\* the row really left and the one it enters: nobody slips another value under
\* the statement between the gate and the write, and a policy published in
\* between does not take the gate away (_stored, _gate_backed_field_change,
\* _gate_backed_rows, gate_policy).
EdgesAreJudged ==
    \A s \in Sessions : Scoped(s) /\ Watched(s) /\ MovesEdge(s) =>
        \A m \in moved[s] : m[1] \in pinned[s] /\ m[2] # m[3] =>
            {m[2], m[3]} \subseteq judged[s]

\* A save that puts a row into a container that it was not in, even by
\* inserting a row that was deleted meanwhile, was checked against it.
EntriesAreJudged ==
    \A s \in Sessions :
        Scoped(s) /\ Watched(s) /\ op[s].kind \in {"save", "insert"} /\ MovesEdge(s) =>
            \A m \in moved[s] : m[2] # m[3] => m[3] \in judged[s]

\* What a queryset write replaces or deletes was in the actor's scope when the
\* keys were read: rows that start to match are not written (by_key).
KeysBoundTheWrite ==
    \A s \in Sessions : Scoped(s) /\ op[s].kind \in {"update", "delete"} =>
        \A m \in moved[s] : m[1] \in keys[s]

\* An update of a column the policy reads writes only rows its guard checked:
\* the locks of the gate keep the statement's rows what they were.
GuardedUpdates ==
    \A s \in Sessions : Scoped(s) /\ Watched(s) /\ MovesEdge(s) /\ op[s].kind = "update" =>
        \A m \in moved[s] : m[1] \in pinned[s] => m[1] \in guarded[s]

\* Every pair a related manager inserts or deletes, those a handler inserts
\* and those another session slips in during the call included, was checked on
\* its container (_gate_m2m, covers, covers_row, _gate_direct_through_rows).
PairsAreJudged ==
    \A s \in Sessions :
        Scoped(s) /\ op[s].kind = "links" /\ pc[s] = "commit"
            /\ (held[s] = "backed" \/ (held[s] = "loose" /\ op[s].verb = "add")) =>
        crossed[s] \subseteq judged[s]

\* What a write changes was checked for its actor, by whichever way it came:
\* an edge of a row, a new row, or a pair of a related manager.
WritesAreJudged == EdgesAreJudged /\ EntriesAreJudged /\ PairsAreJudged

\* A queryset write stays within the rows it read and guarded first.
QuerysetWritesAreBounded == KeysBoundTheWrite /\ GuardedUpdates

DenialsAreAudited ==
    \A s \in Sessions : pc[s] = "denied" =>
        IF Dry(s) THEN trail[s] = {}
        ELSE \/ op[s].kind \in {"update", "delete"} /\ refused[s] \in Rows
             \/ trail[s] = {refused[s]}

RehearsalsWriteNothing ==
    \A s \in Sessions : Dry(s) => draft[s] = << >> /\ moved[s] = {}

\* A denial of a save, of an instance delete or of an edge leaves one audit
\* row, of what was denied, though its transaction is rolled back; a rehearsal
\* leaves none, and writes nothing.
OnlyAuditRowsRemain == DenialsAreAudited /\ RehearsalsWriteNothing

----------------------------------------------------------------------------
(***************************************************************************)
(* The inductive invariant, for policies published from the beginning.     *)
(***************************************************************************)

Related == {"wrapper", "wrapped", "signal", "signalled", "through", "throughGate"}
Fetching == {"roots", "collect", "batch"}

\* Each step is one of the operation's kind, and a rehearsal writes nothing.
PhaseFits(s) ==
    /\ pc[s] # "idle" => op[s] # Nothing
    /\ pc[s] = "check" => op[s].kind \in {"save", "insert", "remove"}
    /\ pc[s] \in {"edge", "judge"} => op[s].kind \in {"save", "insert", "update"}
    /\ pc[s] \in {"keys", "scan", "guard"} => op[s].kind \in {"update", "delete"}
    /\ pc[s] \in Fetching => op[s].kind = "delete"
    /\ pc[s] \in Related => op[s].kind = "links"
    /\ Dry(s) => pc[s] \notin {"write", "commit"}
    /\ op[s].kind = "links" /\ pc[s] \in {"signalled", "through", "throughGate", "write"} =>
          keys[s] \subseteq Containers

\* The statement that writes is the last before the commit.
WritesComeLast(s) ==
    /\ pc[s] # "commit" => draft[s] = << >>
    /\ pc[s] \notin {"commit", "done"} => moved[s] = {}

\* What is drafted or pinned is locked.
LocksHold(s) == \A r \in DOMAIN draft[s] \cup pinned[s] : lock[r] = s

\* Rows are pinned by the gate of a write that moves them, which has asked, and
\* then judged, both ends.
PinsAreGated(s) ==
    /\ pinned[s] # {} =>
          /\ op[s].kind \in {"save", "update"} /\ Watched(s) /\ MovesEdge(s)
          /\ pc[s] \in {"judge", "rehearsed", "scan", "guard", "write", "commit"}
          /\ op[s].kind = "save" => pinned[s] \subseteq {op[s].row}
    /\ Scoped(s) /\ Watched(s) /\ MovesEdge(s) =>
          /\ pc[s] = "judge" => Ends(s, pinned[s]) \subseteq asked[s]
          /\ pc[s] \in {"scan", "guard", "write"} => Ends(s, pinned[s]) \subseteq judged[s]

\* A queryset write has keys, and guarded what it pinned.
QuerysetsAreGated(s) ==
    /\ Scoped(s) /\ pc[s] = "guard" =>
          \A r \in pinned[s] \cap Statement(s) : r \in scanned[s]
    /\ Scoped(s) /\ op[s].kind = "update" /\ pc[s] = "write" =>
          \A r \in pinned[s] \cap Statement(s) : r \in guarded[s]
    /\ Scoped(s) /\ op[s].kind = "delete" /\ pc[s] \in {"batch", "write"} =>
          scanned[s] \subseteq keys[s]

\* The gate of a through table looks at what the manager will write.
Gating(s) == held[s] = "backed" \/ (held[s] = "loose" /\ op[s].verb = "add")

\* What the wrapper exempts from later gates, it had judged; so was every pair
\* written, or it is by now.
PairsAreGated(s) ==
    /\ crossed[s] # {} => pc[s] \in {"through", "throughGate", "write", "commit"}
    /\ Scoped(s) /\ op[s].kind = "links" =>
          /\ pc[s] = "wrapped" => exempt[s] \subseteq asked[s]
          /\ pc[s] \in {"signal", "signalled", "through", "throughGate", "write"} =>
                exempt[s] \subseteq judged[s] /\ crossed[s] \subseteq judged[s]
          /\ pc[s] = "throughGate" /\ Gating(s) => keys[s] \subseteq asked[s] \cup judged[s]
          /\ pc[s] = "write" /\ Gating(s) => keys[s] \subseteq judged[s]

SessionFits(s) ==
    /\ PhaseFits(s) /\ WritesComeLast(s) /\ LocksHold(s)
    /\ PinsAreGated(s) /\ QuerysetsAreGated(s) /\ PairsAreGated(s)

Kept ==
    /\ policy # "none"
    /\ DOMAIN draft = Sessions
    /\ \A s \in Sessions : SessionFits(s)

IInv == TypeOK /\ Kept /\ WritesAreJudged /\ QuerysetWritesAreBounded /\ OnlyAuditRowsRemain
=============================================================================
