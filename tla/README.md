# Models and proofs of django-zed-rebac

This directory models `src/rebac`, a relationship-based access-control library
for Django. Permissions are expressions over relationship tuples; a *policy*
(schema definitions plus overrides, kept in database tables) gives them their
meaning. A check compiles the policy to SQL and lets one statement decide. The
library promises that an answer rests on one committed policy and on committed
tuples, although policy and tuples change under running requests, snapshots of
the policy are shared by threads, and answers are remembered; that writes,
queries and hidden fields are gated by that answer; and that nobody reads or
writes with authority that was not given to him.

Paths below are relative to `src/rebac/` of the repository unless they start
with `docs/`, `tests/` or `README.md`.

## 1. Inventory

| Component | State it keeps | Operations | Talks to |
|---|---|---|---|
| Policy tables and writers (`models/schema.py`, `models/overrides.py`, `models/schema_write.py`, `models/generation.py`) | policy rows; the generation row (revision and lock); the context variable `_owners` | row and queryset writes, `schema_index_write`, `schema_changes`, `advance`, `lock` | every reader of the policy, by the revision |
| Policy loader (`backends/local.py` 147-569, `schema/cache.py`) | shared snapshots and loads per alias, `_schema_invalidation_generation`, pins of scopes | `_load_schema_snapshot`, `reset_backend`, `evaluator_scope`, `schema_operation` | generation row, composition, evaluator, compiler |
| Statement fence (`compile/read.py` 160-242) | none: a predicate of every statement | `_fence` | generation row, clock |
| Evaluator (`evaluator.py`) | LRU cache of answers, visibility batches, schema pins | `check`, `_held_many`, `invalidate`, nested scopes | loader, local backend |
| Local backend (`backends/local.py` 570-1046) | `_relationship_generation`, transaction ids | `check_access`, `write_relationships`, `delete_relationships`, `mark_relationships_changed` | tuples, evaluator |
| Relationship tuples (`models/relationship.py`, `models/resource.py`, `relationships.py`) | tuples and, in registry storage, resource rows | instance saves, bulk creation, interning of resources | local backend |
| Point checks, bulk checks, lookups (`compile/read.py`) | a policy per operation, compiled statements | `check`, `check_many`, `grants_all`, `held_many`, `lookup_subjects`, scopes | loader, SQL |
| Permission expressions (`compile/predicate.py`, `compile/program.py`, `compile/formulas.py`, `compile/conditions.py`) | none | lower, upper and depth bounds as SQL | point checks |
| Residual evaluation (`compile/evaluate.py`) | none | which caveat parameters still matter | point checks |
| Composition (`composition.py`) | none | overrides over a baseline, stale overrides, cycles | policy writers, loader |
| Zookies (`consistency.py`) | a context variable per scope | `record`, `zookie_scope` | backend, middleware |
| Gated writes (`watch.py`, `managers.py`, `mixins.py`, `signals.py`) | the policy a `model_write` holds | `gate_policy`, `model_write`, queryset, instance and related-manager gates | loader, point checks |
| Field gates (`field_visibility.py`, `managers.py`, `mixins.py`, `relation_loading.py`) | redacted names and the loaded snapshot of an instance, the visibility memo | query guards, redaction, saves, bulk writes, cleans | evaluator, gated writes |
| Deletion lifecycle (`signals.py`, `models/resource.py`) | identities captured before a delete | captures, `cleanup_identities` | tuples, marks |
| Schema sync (`management/commands/rebac.py`) | policy rows, `PackageManagedRecord` | sync in its modes, prune, retirement, explain | policy writers, tuples |
| Actors and middleware (`actors.py`, `middleware.py`, `managers.py`) | actor and sudo context variables; pins of querysets and instances | `actor_context`, `sudo`, request lifecycle, scopes of querysets | everything that asks |
| Audit (`audit.py`) | rows written with, or after the rollback of, what they report | `emit`, denials | writers, bypasses |
| Roles, memberships, MCP (`roles.py`, `memberships.py`, `mcp.py`) | tuples | grants, implied roles | relationship writes |
| GraphQL, REST, admin (`graphql/`, `drf.py`, `admin.py`) | an evaluator per operation | per-emission invalidation, adapters | evaluator |
| Field backing (`field_backing.py`) | none | which rows back a relation, as queries | compiler |
| Schema language, caveats, codecs, reports (`schema/`, `caveats.py`, `codec.py`, `checks.py`, `preflight.py`) | none | parsing, formatting, static reports | composition |

### What is hard here

* **Interleaving with the database.** The policy is read by several statements
  while other transactions commit; the revision that is to identify it is read
  by yet another one. A permission statement runs later still.
* **Serial validation.** Two policy changes, each valid over the policy it
  started from, may be invalid together; the generation row is the lock that
  has to stop this, through nested owners and rolled-back savepoints.
* **Shared work.** Threads wait for one another's loads. The load may fail, be
  thrown away, or be overtaken by a write of this or another process.
* **Stale pins.** Scopes keep the policy they resolved. They must give it up on
  certain events and must never have taken an uncommitted one.
* **Remembered answers.** The answer is computed with no lock between the read
  of the generation that keys it and the statement that decides it; the policy,
  the tuples, the clock and live columns move on their own.
* **Several statements per answer.** A check asks a lower bound, an upper
  bound, a depth probe and a residual pass; tuples change between them.
* **Deadlines.** An override ends by the clock, not by a write, at any moment
  between the composition of a policy and the use of a statement kept for it.
* **Gate and write apart.** A gate reads the row, the grants and the policy;
  the statement writes later, under READ COMMITTED, what may be another row by
  then. A write without an actor's permission must leave only its audit row.
* **Authority at a distance.** A queryset decides once whom it answers to, and
  may be cloned, combined, embedded, streamed or pickled before it runs.
* **Redaction.** An instance that was loaded without a hidden value is later
  assigned, refreshed, saved whole or cleaned; a count or an ordering tells
  what a column would not.
* **Two kinds of drift.** A sync compares what packages ship, what was written
  last and what administrators made of it, while fragments change packages.

The hazards, each at the line where it bites and with the properties that would
catch it going wrong, are in `PROJECT.json`; those without a property say why.

### What makes each component correct

* *Policy writers*: the committed policy never goes from sound to refused; a
  revision names one content; a reader sees whole policies only.
* *Loader and fence*: a statement the fence lets through was compiled from the
  policy visible to it; a refusal that is shared rests on a policy that was really
  there, and one that nothing confirms is at least right while its revision is
  visible; an operation uses nothing older than the policy it started under;
  loading ends.
* *Evaluator*: an answer sees every completed write of its process that had a
  transaction of its own; it fits the policy it is filed under; it never rests on
  rows that were rolled back or on facts no generation covers; an emission forgets
  what came before it.
* *Point checks*: only the lower bound allows; CONDITIONAL names parameters that
  can still change the result; the depth bound decides nothing.
* *Composition*: a grant is one of the composed policy at some moment of the
  operation: none outlives its override's deadline or a tightening, through
  everything that is kept.
* *Relationship writes and deletions*: a batch lands whole or not at all; no
  tuple that a deletion found comes back; tokens cover what was
  written and do not go back.
* *Gated writes*: what a statement really replaced was checked, at both ends of
  a move, under one policy.
* *Field gates*: nothing under enforcement depends on a value that could not be
  read; a write neither clobbers a hidden field nor passes by its gate.
* *Contexts*: sudo and actors stay where they were put; a pin is stronger than
  a block; every bypass has its audit row.
* *Schema sync*: managed rows keep text and key without the force flag; a sync
  repeated does nothing; `--check` tells the truth; a retired row takes its
  tuples with it.

## 2. The modules

| Module | Models | Role |
|---|---|---|
| `PolicyHistory` | what a reader may observe of the tables | abstract specification |
| `PolicyStore` | writers, owners, savepoints, the row lock, validation | implements `PolicyHistory` |
| `SchemaLoader`, `SchemaLoader_proofs` | `_load_schema_snapshot`, shared loads, pins, fence | uses the behaviour of the store: commits, drafts, rollbacks |
| `DecisionCache`, `DecisionCache_proofs` | `PermissionEvaluator.check` beside writers of tuples and policy | the loader appears by what it returns |
| `PointCheck`, `PointCheck_proofs` | one point check, statement by statement | the answers of the evaluator, from tuples that change |
| `Overrides` | composition, deadlines, and everything kept from a composed policy | the answers of the evaluator, from a policy that changes |
| `RelationshipStore`, `RelationshipStore_proofs` | the tuples in both storage shapes, and their writers | the writes that `DecisionCache` has as events |
| `GatedWrites`, `GatedWrites_proofs` | saves, deletes, queryset and link writes under an actor | permissions appear as grants that change |
| `FieldGates`, `FieldGates_proofs` | read and write gates of one column, with the visibility memo | row gates appear as passed |
| `Authority`, `Authority_proofs` | blocks, pins, querysets, instances, audits of bypasses | whom the checks of the others ask for |
| `SchemaSync` | `rebac sync` over the policy rows | one transaction of `PolicyStore` per sync |
| `PolicyTables_proofs` | proofs about `PolicyStore`, `SchemaSync` and `Overrides` | no variable is shared and nothing is said of them together |
| `MC...` | a small instance of each for TLC | |

The components interact at four seams, and each module represents its
neighbour by what it may observe of it: the *revision* (store, loader, fence,
overrides), the *relationship generation* (tuple writes, decision cache,
visibility memo), *permission statements* (point checks, gates) and the
*authority* of a queryset or instance.

### PolicyStore

`stored` and `revision` are committed; `point[w]` is what writer `w` has written
since (an overlay of row values, `Untouched` where it wrote nothing), the
revision it advanced to and whether it holds the row lock. `phase` says whether
it is idle, in a caller's transaction, inside an owner or leaving its last one;
`savepoints` is the stack of what the blocks of its owners restore; `before` and
`sound` are the locals of `schema_index_write`.

| Action | Code |
|---|---|
| `OpenTransaction` | a caller's `atomic` around owners (`models/generation.py` 10-17) |
| `EnterOwner` | `lock`, `revision`, `_stored_policy_errors` (57-65) |
| `EnterNestedOwner`, `ExitNestedOwner`, `FailNestedOwner` | an owner inside one: a savepoint only (57-60) |
| `Write` | one `SchemaQuerySet`/`SchemaRow` write: an owner around row and `advance` (106-228) |
| `ExitOwner`, `FailOwner` | the last validation, or its refusal (68-78) |
| `Commit`, `Rollback` | the end of the outermost transaction |

What makes a policy sound is the constant `SoundPolicies`: composition is a
component of its own. The lock is released by the database: at the end of the
transaction, and by the rollback of the savepoint in which it was taken.

### SchemaLoader

The policy is `NumParts` parts, read by that many statements (`ReadPart`), so a
commit can fall between any two. `pc` follows the code: `resolve` (the pins),
`revision` (read it), `lookup` (the shared snapshot, somebody's load or a new
one), `load` (the parts, then the revision again), `publish`, `settled`; `wait`
for another thread's load and `recheck` it; `live` for a load inside a
transaction; `before` and `fallback` when the attempts are used up; then
`ready`, where the operation runs statements under the fence (`FencePasses`) or
resolves again, or one of the errors. A shared load that read an unsound policy
reads the revision again before it is `refused`; a load that is not shared
(`live`, `fallback`) raises the same error out of `_load_schema_from_db`, before
any comparison, and may have read a torn policy: `RefuseUncached`, which ends in
`unconfirmed`. `cached`, `loads` and `invalidation` are the
backend's, changed under its lock; `pinned` and `held` are the evaluator's and
the operation's. Writers of the same process save rows (`SaveRow`), advance,
roll back to savepoints, commit; `RemoteCommit` is another process. With
`HandlersRead` a save handler may check a permission between the row and
`advance`.

### DecisionCache

`check` is one action per access to something shared: `Resolve`
(`_cache_generation` up to the eligibility tests), `ReadGeneration`, `Lookup`,
`Take` (`move_to_end` and the value, which raises when the key is gone),
`Compile`, `Execute` (the statements), `Store` (with its eviction), `Return`.
`key` is the generation pair and question of the cache key. Tuples are changes
that are committed or not (`committed`), live columns and the clock are the
counter `live`, a policy is its revision. An answer records what it was computed
from: the changes seen, the live reading, the policy. The loader is represented
by what it may return: a pin that is still honoured, or the visible policy.
`Invalidate` is the per-emission call of `graphql/strawberry.py`; scopes nest,
and an evaluator may be installed by several threads. `completed` and `carried`
are no state of the code: they remember which writes had a transaction of their own and
returned, and which a caller's transaction committed.

### PointCheck

A schema with what makes the bounds differ is fixed: two recursive unions
(`inherited`, `barred`), each of stored tuples that may carry a caveat and of
an arm backed by one GenericForeignKey, `read = inherited - barred`, and `open`
without the recursion. `facts` are the tuples and the content types of the
rows; `revision` is the policy's. A check reads the content type of its row
(`ReadTypes`, `_key_types`), decides the caveat instances
(`PrepareVerdicts`), and asks `Lower`, `Upper` and `Depth`, each one statement
with the fence and the witness of the content type (`Probe`); then the residual
pass reads the left and the right side (`ReadLeftSide`, `ReadRightSide`) and
`_answer` decides. `Write` falls between any two of them.

`Holds` is the pair of bounds: `Admitted` (`condition_q`) for tuples, `Closure`
and `NotConverged` for the recursion over stored tuples, the opposite bound on
the right of a subtraction. `Paths` are the paths the residual evaluator
follows, as the sets of atoms each needs: those that end at an object
(`OwnPaths`) and those that go on over a parent tuple (`LongerPaths`), where a
branch that comes back to an object it has `seen`, or has seen more than
`DepthLimit`, is cut. The binary decision diagram of the code keeps the variables
a monotone function depends on, which are those of its minimal paths
(`Relevant`). `Value` is the reference: the schema's meaning over all chains with
the three values of `schema/walker.py`.

Two approximations: the residual pass reads each relation of each object by a
statement of its own and the model by two reads; and only the recursive form
over stored tuples is modelled. Wildcards, subject sets and expirations are
left out.

### Overrides

Permissions of one object over its relations (two over three in the run).
`overrideRows` are the override rows, each with the revision that its creation
published for its place in the order; `Ask` begins an operation of one of five kinds: a check, a
type-wide check (`grants_all`), a shared decision (`held_many`), an enumeration,
a scope that is built and executed later. `ComposeTagged` is `composition.py`:
what a permission is extended, disabled and tightened by, stale overrides,
recaveats, cycles. The order of arms of one kind changes no truth value, so they
are sets of rows, each with its deadline. `Admitted`/`HoldsAt`/`Holds` are the
bounds of `compile/predicate.py` over the composed expression, where a tagged
arm counts while its deadline lies ahead (`Arm`, `Site`). What the code computes
by recursion over expressions and named permissions (the bounds, the residual
pass `ValueAt`, `ExcludesAt`, `ReadAt`) is a recursive function over `Nodes`: an
expression, and how many named permissions may still be entered below it. That
number starts at `Levels`, the number of permissions, and no accepted policy is
cyclic, so it cuts nothing. Each step is a definition of its own that takes the
function as an argument. What is kept is state: the shared and pinned
snapshot, `kept` (`_policies`), `statements`, `answers` (the check cache) and
`scope`. `Prepare` decides which of them is reused, `Executed` is a statement
under the fence (`FenceOpen`: revision, deadlines, caveats). `Tick`,
`CreateOverride`, `DeleteOverride` and `Reschedule` fall between any two steps. The
reference `Granted` gives the composition of the rows in force in three values
without tags or bounds.

### RelationshipStore

`rows` are the committed tuples by primary key; `draft[s]` is what the
transaction of `s` wrote; `registry` chooses the storage shape, in which
`resources` are the resource rows and `epoch` counts how often one was deleted
(a foreign key to an earlier epoch fails at the commit). Operations are
`write_relationships` with batches, `grant`/`imply`, `delete_relationships`,
`revoke`/`unimply`, instance saves (whole or with `update_fields`), instance
deletes, `bulk_create`, and the deletion of an object with the sweep of what
names it; each may run in a transaction of its caller. A step is one statement
under READ COMMITTED; `RowFree`, `KeyFree` and `ResourceFree` are the waits for
rows, unique keys and referenced rows. `Draw` and `StoreXid` are the two halves
of `_next_xid`, which threads of a process race through; `Token`, `Record` and
`floor` are the zookies. `renamed` and `reborn` are no state of the code: they
remember which rows an instance save gave another identity, or inserted again
after a delete, and the properties exempt these. Nor are `swept` and `buried`
(the rows an operation had to remove: when it found them, and once that is
committed) and `lapsed` and `cascaded` (the newest key in use when the deletion of
an object, and of its resource row, was committed).

### GatedWrites

A row lies in a container by a foreign key that the policy may read; containers
are linked to another object through a many-to-many table. Sessions save,
insert, delete, update and delete by queryset, and use related managers; a save
or an insert may be a rehearsal (`check_save`). `held[s]` is the policy that
`model_write` holds (`gate_policy`), `keys` those of `statement_keys()`,
`scanned` and `roots` what the guard and the delete collector read. `Check` is
the gate on the instance, `ReadEdge`/`Judge` the gate on both ends of a move
(`_stored`, `_gate_backed_field_change`, under row locks), `ScanGuard`/`Guard`
the bulk guard, `Collect`/`Batch` Django's collector, `Wrapper`/`Signal`/
`Receiver`/`ThroughGate` the three places where the pairs of a related manager
are gated. A refusal unwinds the transaction, then writes the audit row
(`Refuse`, `RefuseInside`). Others grant, revoke, publish and write between any
two statements. `moved` records what the statements really replaced, `judged`
and `guarded` what was checked.

### FieldGates

A table with a plain and a gated column. A query is a terminal and the places
where it reads a gated, masked, raw or joined column; `Guard` is the chain of
guards of `RebacQuerySet`, `Select` the statement, `Visibility` and
`Conditional` the batch of verdicts (from `memo` when it has them) and the
checks behind those it cannot give, `SelectedRelated`
`rebac_select_related`, `Deliver` the redaction. `object` is an instance the
actor keeps: its values, the loaded snapshot, redacted and assigned fields.
`Assign`, `Redact`, `Refresh` and `Pickle` edit it; `Save`, `Update` and
`BulkUpdate` write, with `Gate` before the statement; `Clean` rehearses a save
(`_SAVE_VERDICT`) and then compares for uniqueness and constraints. `window` and
`fresh` collect what held at some moment of the operation, or since the scope's
memo could have read it; `exposed`, `revealed` and `compared` which rows an
answer depended on.

### Authority

`context` holds the two context variables of each task; `blocks` what closing a
block restores. `querysets` and `instances` carry pins, the decision of an
applied scope, and embedded querysets; a restriction is the actor whose
predicate is in the WHERE clause. The actions are the blocks and the requests
of a superuser (`ContextStep`); `Filter`, `None`, `WithActor`, `Sudo`,
`Scoped`, `Combine`, `Pickle`, `Embed` (`BuildStep`); fetching, counting, raw
SQL, synchronous and asynchronous iteration with later chunks (`ReadStep`);
and instances with what is inserted through them (`InstanceStep`). A bypass is
numbered when it is opened and the number is its reason in `audits`. `Programs`
are the sets of features that one application makes use of. `mixed` is a history
variable: the queryset is a combination with an empty left operand, whose audit
flags are those of the right one (section 5).

### SchemaSync

`files` is the deployed release, `rows` the policy, each with a key that
overrides name it by, `records` the `PackageManagedRecord` rows with the hash
of what was written. `Sync` is one action, as the command is one transaction
under the policy lock, over a *draft* of what the transaction has written.
`SyncPackages` goes through the applications: `SyncRows` through the fragments
of a file (`Create`, `Adopt`, `Transfer` or `Compare`), `PruneDefinitions`
through its definitions (`PruneChildren`), then `PruneRecords`; with
`--prune-stale` `RetireRecords` does the last for all packages by name, with the
tuples of what is retired. Then `Publishes`, or nothing at all. The four loops of
the code are recursive functions over the positions of a sequence. Between syncs releases are deployed, administrators edit, add and
delete rows and add overrides, and sessions store tuples that they validated
before.

The definitions that `PROJECT.json` lists under `mutants` as "as" are not part of
a model (most are marked "Mutant"): each is what a plausible mistake would make
of the definition after it, and the property beside it refutes the mistake.

## 3. Runs

| Run | Asks | Shows |
|---|---|---|
| `PolicyStore` | two writers over a base and an override, owners two deep, three revisions | the inductive invariant, `OwnerKeepsItsBase`, `SoundnessPreserved`, `PublishesHistory` (refinement) |
| `Loader` | a reader, and a writer that checks in its own transaction and inside an evaluator scope, while other processes change the policy | the inductive invariant, `FencedByTheVisiblePolicy`, `PinsHoldTheirPolicy`, `RefusalsAreDeserved`, and under fairness `LoadsTerminate` |
| `DecisionsOwn` | nested evaluators beside writes of tuples and policy | the inductive invariant (`AnswersSeeOwnWrites` is part of it), `KeptAnswersFit` |
| `DecisionsAmbient` | two threads in one full evaluator, checks and writes in a caller's transaction, live-backed types | `AnswersRestOnKnownFacts`, `AnswersSeeOwnWrites` |
| `PointChecks` | one check over every set of tuples on a chain longer than the bound and a cycle, a write between any two statements | `HasIsJustified`, `DepthIsExact`, `ConditionalsCanBeDecided` |
| `Overrides` | two operations of every kind over override rows of every kind, two deadlines, a write | `GrantsFollowTheComposition`, `DenialsFollowTheComposition` |
| `RelationshipStore` | two threads with every kind of write on one tuple identity and its variants, in both storage shapes | `WritesLandWhole`, `FloorsCoverWrites`, `FloorsNeverFall`, `DeletionsAreFinal` |
| `GatedWrites` | one session with every kind of write and one that saves, a change of grants, policy, rows or links | `WritesAreJudged`, `QuerysetWritesAreBounded`, `OnlyAuditRowsRemain` |
| `FieldGates` | three operations on two rows: twenty-one queries, edits, saves, bulk writes, cleans | the inductive invariant, `HiddenValuesStayHidden`, `WritesKeepTheFieldGates` |
| `Authority` | programs of six steps over two querysets, an instance and two tasks | `ReadsFollowTheirAuthority`, `BypassesAreAudited`, `AuthorityStaysInItsPlace` |
| `SchemaSync` | six deployments, syncs in sixteen modes, edits and tuples | `SyncConverges`, `UpgradesKeepEdits`, `RetirementIsComplete` |
| `SplitReads` | one sentence of the source about `held_many` | a disagreement, section 5 |

Every run without an inductive invariant also checks the `TypeOK` of its module
(`SyncTypeOK` in `SchemaSync`, `OverridesTypeOK` in `Overrides`)
(`DecisionsAmbient` shares that of `DecisionsOwn`).

**Bounds.**

* `MaxRevision` is 1 to 3: one revision to start from, one to be overtaken by,
  one more so that an earlier one may be reused or skipped. `NumParts = 2` is
  the least that can be torn. `Attempts = 2` (the code has three) leaves a first
  attempt that fails, a retry and the fallback. In `Loader` the uncached
  loads that are refused are those before the first policy is published (`live`);
  a fallback that is torn and refused needs a third revision. With
  `MaxRevision = 3`, one attempt and one thread that loads it is reached, and the
  invariants of the run hold there too. The proofs hold for every number.
* `MaxSize = 1` makes every second answer an eviction. `MaxMarks` bounds how
  many relationship writes a process makes: one to be missed and one more;
  `MaxLive` how often live facts change. `MaxScopes` and `MaxNesting` are the
  depths to which evaluators and owners nest: two has an outer and an inner one.
* In `PointChecks` the bound `DepthLimit` is 2 and the chain has three edges, so
  a chain is covered, cut, or closed to a cycle; each verdict of a caveat (true,
  false, two undecided) is on some tuple, and `MaxWrites = 1` suffices to make
  any one statement see other rows than its predecessors.
* In `Overrides` `MaxTime = 2` gives two deadlines and a time after both;
  `MaxAsks = 2` an operation that fills what is kept and one that reuses it;
  `FirstRevision = 3` and `LastRevision = 4` a policy between them. `FirstRows` are eight combinations with
  each kind, a cycle and stale arms among them.
* In `RelationshipStore` `MaxIds = 3` lets a deleted row be inserted again under
  a new key and once more; `MaxXid = 6` covers each write of each thread with
  room for one in which they race; one thread performs two operations, the other
  one, so that something happens before, during and after an operation.
* In `GatedWrites` each session writes once (`MaxWrites`) and others change one
  thing (`MaxChanges`): with the other session's save that is two changes
  between the gate and the statement.
* In `FieldGates` `MaxOps = 3` is a load, an edit or first save, and the write or
  clean that meets what they left; `MaxChanges = 1` a change between any two
  statements.
* In `Authority` `MaxSteps = 6`, `MaxBlocks = 2` and `MaxEntries = 2`: an outer
  and an inner block, two bypasses that can be confused, and a queryset that is
  built, evaluated and used again. The features in `Programs` split what would
  be one run too large; every pair of features whose state interacts is in one
  of them.
* In `SchemaSync` `MaxSteps = 6` reaches a fragment that is shipped, edited,
  moved, pruned and shipped again; `MaxPk = 10` keys are enough for every row of
  those syncs.

All bounds are guards of actions of the environment or of the start of an
operation. Symmetry is used only in `Authority`, whose actors and querysets are
interchangeable and which checks invariants alone.

**Deadlock** is checked in `PolicyStore`, `Loader`, `DecisionsOwn`,
`DecisionsAmbient` and `PointChecks`, whose environment can always open or close
something: there the check rules out a model driven into a corner. In the other
runs a program performs a bounded number of operations and stops, so
`CHECK_DEADLOCK` is FALSE; a session of `GatedWrites` or `RelationshipStore` that
waits for another one's lock may also be chosen by the database as the victim of
a deadlock (`DatabaseError`).

**Fairness.** `FairSpec` of `SchemaLoader` asks weak fairness of each thread's
`LoadStep`: a thread that runs Python code and whose next statement or lock is
available goes on. Writers, other processes, errors and scopes are not fair:
nothing makes a request happen. A waiting thread is woken when the load it waits
for is settled, which the code does in a `finally`. The other modules claim no
liveness: their operations are loops over statements that no other thread can
prolong.

## 4. Proofs

Each `_proofs` module proves `Spec => []IInv` for an inductive invariant of its
component (`PolicyTables_proofs` of three), and
derives the properties from it. TLC checks each `IInv` as an invariant of a run,
except those of `RelationshipStore` (its first one is little more than the
properties the run checks), of `SchemaSync`, of `Overrides`, of `GatedWrites`, of `Authority` and of `PointCheck`;
these, `FitInv` of `DecisionCache` and `ScopeInv` of `SchemaLoader`, which strengthen the `IInv`
of their modules, hold in the run of their component when they are added there.
A *Keeps* lemma states which primed variables a step has to leave alone for one
conjunct to survive; an action's proof then has a step per conjunct that it
disturbs.

* **PolicyStore.** `WritesUnderLock` and `SavepointsUnderLock` say that what a
  transaction wrote, now or at a savepoint it may fall back to, it wrote under
  the lock and under a revision of its own; `RevisionsAreFresh` that this
  revision is newer than every published one; `HolderIsSound` that the holder
  can only commit a sound policy over a sound one, and inside an owner remembers
  that it started from one. `SoundnessPreserved` is not inductive alone:
  `ExitOwner` skips the validation when the revision did not move, so soundness
  rests on `RevisionNamesWrites` through every savepoint. Proved:
  `TypeCorrectness`, `RevisionIdentity`, `OwnersAreSerial`,
  `SoundnessIsPreserved`, and the refinement `ImplementsHistory`.
* **SchemaSync** (in `PolicyTables_proofs`). The three claims are about the
  whole command, so each part of it is described by what it does to a draft
  (`Steps`): it stays sane (`Sane`: keys are among those given, one record of a
  fragment per package), what a package manages keeps text and key without
  `--force-overwrite` (`KeepsRows`), what goes takes its tuples (`LosesTuples`),
  what one package has done no later part undoes (`StaysDone`), and no undeclared
  child or record comes back (`StaysClean`). The descriptions compose
  (`StepsCompose`), and a loop keeps what its step keeps, by induction over the
  positions as a set of numbers that has zero and with each the next
  (`LastNumber`; `FoldsExist` for the recursive functions themselves). From them
  `DraftSteps`: an applied sync leaves nothing for the same call (`Settled`).
  Two more passes over the same loops say that a sync in a settled state changes
  hashes at most (`DraftStill`), and that a `--check` which reports no drift has
  seen a settled state (`DraftLooks`). `SyncInv` keeps this between the steps: the
  policy is sane, no child is without its definition, and after an outcome that
  concluded (`Concluded`) the same call has nothing left to do. `SyncTypeOK`
  alone is not inductive, since that a record names a key already given is what
  keeps a new row from being taken for an old one. Proved: `SyncInvariance`,
  `SyncTypeCorrectness`, `SyncsConverge`, `EditsSurviveUpgrades`,
  `RetirementTakesTuples`, for any fragments, packages, releases, edits and
  calls. Not claimed: convergence of `--force-overwrite` without
  `--prune-stale`, which deletes rows by records of a package that no longer
  declares them, though a package synced before may (section 6). What failed at
  first was due to a property: a permission that a forced prune takes as a child
  keeps its tuples (section 6), so `RetiresWithTuples` exempts it.
* **Overrides** (in `PolicyTables_proofs`). Half of the proof is about operators.
  The residual pass over the rows in force computes the reference
  (`ResidualIsExact`), and the bounds are exact wherever they are asked while the
  rows whose deadline lies ahead are the rows in force: the lower one is
  "certainly", the upper one "possibly" (`BoundsAreExact`). Both are inductions over
  `Nodes` by a rank (`Ranks`; the depth of an expression under the number of
  permissions still to enter). The fence keeps a statement to those rows
  (`Stands`, `StatementsStand`): no deadline that a policy chose by has passed, so a
  recaveat chosen then is the one in force now. `grants_all()` asks at no tuples,
  and what no exclusion can take away holds at all tuples if it holds there
  (`GrantsGrow`). `held_many()` answers for a second permission by the first, which
  is right where no override aims at either (`SharedPermissionsAgree`).
  The other half is the invariant. `PoliciesAreKnown`: every policy that is held
  anywhere was published, read before now, composes, and has the published rows
  if it has the published revision. `SnapshotsAreInOrder`: a pin is the shared
  snapshot, and a kept policy has no deadline ahead. `SharedAnswersFit`: what a
  kept answer says was so when the shared snapshot was loaded, and stays so until
  it expires. `AsksByTheSnapshot`, `OperationIsInOrder` and `SeesOrIsPinned` say
  by which policy an operation goes and that it lived to see it, or that the
  published one has left it behind; `StatementsTell` carries what the bounds of a
  check found to the residual pass, as long as the fence is open. None of the
  three properties is inductive alone: a grant is justified when it is given by a
  policy that was selected several steps earlier. Proved: `OverridesInvariance`,
  `OverridesTypeCorrectness`, `GrantsAreComposed`, `DenialsAreComposed`, for any
  permissions, expressions, caveat, tuples, override rows and deadlines, and any
  number of operations and writes.
* **SchemaLoader.** `RevisionsNamePolicies`: a revision names the rows it was
  issued for, and an open transaction has one nobody else sees.
  `SnapshotsAreTruthful`: every snapshot (shared, in a load, pinned, held or in
  the hands of a thread) has the rows its revision names. `LoadsAreWhole`: as
  long as the visible revision is the one a load wanted, the parts it has read
  belong to it, which is what makes reading the revision again enough.
  `FenceIsSound` follows: equal revisions are equal policies. `Invariance`
  assumes `~HandlersRead`; with handlers that check permissions the invariant
  does not hold (`SharedUnderItsRevision`, section 5).
  `ScopeInv` strengthens it for the pins, under the same assumption. What a
  thread is after was published unless it is in a transaction
  (`OperationGoesForward`), which is why an evaluator's pin, taken only outside
  one, is never of uncommitted rows; and it is at least what the operation saw
  first, as the revision a thread sees only goes forward during an operation.
  `LoadsAnswerForTheirRevision` and `LoadsHaveTheirOwner` carry the outcome of a
  load to everyone who waits for it or finds it before its owner forgets it, so
  a shared refusal rests on a whole policy for all of them. For the refusal of an
  uncached load there is only `LoadsAreWhole`: what it read belongs together if
  the revision it started under is still the visible one, and nothing is claimed
  otherwise (section 5, item 18). Proved: `PinsAreHeld`, `RefusalsRestOnPolicies`.
* **DecisionCache.** `TypedInv` is the types and what a thread has at each step of
  a question; it stands alone, whatever transactions there are, and the other
  invariants rest on it. `KnownInv`: nothing is filed of a transaction, so every
  entry saw committed rows only, and a question that reaches live rows has no key;
  outside transactions a thread has written nothing that is not committed, so a
  statement sees only committed rows. Proved without an assumption on writes or
  evaluators: `TypeCorrectness`, `OnlyKnownFacts`. For `IInv`, `MarksFollowCommits`: a write that has marked is committed,
  and one that has returned has marked. `AnswersCountTheirMarks`: an entry filed
  under a generation saw every write whose mark is at or below it, and the
  generation a question reads counts every write that had returned when it was
  asked. It is needed because a statement runs later than the generation is
  read: the entry may see more than its key counts, never less. `OwnWritesAreSeen`
  assumes nothing of what callers do: it is about the writes that had a transaction
  of their own, and other writes may be carried by a caller's transaction beside
  them. Of those it says nothing; `CommittedWritesDropDecisions`, which does, does not hold
  (section 5, item 3).
  `FitInv` strengthens it for what is kept. `PoliciesAreOrdered`: of the
  snapshots in use, one under a later generation has no earlier policy.
  `Covers` carries this to what is kept: an answer filed under a generation rests
  on no policy before those that generation names, although its statements ran
  after the generation was read. `AnswersFit` also follows what an emission has
  to forget from `invalidate()` to the answers in flight and in the cache.
  `KeptAnswersAreUsedRightly` assumes `~AmbientWrites` and `Unshared`, that no
  two threads install one evaluator; without it the claim is false (section 5).
* **RelationshipStore.** `TokensCover` says that the counter of the process is
  at least every id it drew and that a session's ids and the token it is about
  to record are covered by what it records next; the race of threads for
  `_next_xid` can repeat an id, never lower the token of a scope.
  Proved: `TokensCoverWrites`, `TokensNeverFall`.
  `LandInv` is about what each transaction has in hand. `DraftFits`: a row it
  wrote nobody else has touched, the row keeps its identity unless an instance
  save changes it, and one it inserted has a key that no other session knows
  (`i <= used`). So what `Find` saw of the tuple still names the same tuple at the
  `UPDATE` although other transactions commit in between (`FoundFits`), and the
  columns a partial save leaves out are locked from the derivation of the key to
  the `UPDATE` (`DerivedFits`). `BatchFits` says that each tuple a batch is
  through with is in its overlay, unless it comes again: a later tuple cannot
  overwrite it, as the row it finds has another identity. `Alone` and `Apart` say
  what a step of one session does to the others, `Taken` what a row must satisfy
  that it writes. Proved: `TypeCorrectness`, `WritesLand`. What failed at first was
  due to the property: a row that a whole save brings back (section 5, item 16).
  `FinalInv` adds what becomes of deleted rows. A row that a committed deletion
  took is `Dead`: gone, and in nobody's draft, since whoever would write it has
  found it under its lock and seen it go, or finds no row at its `UPDATE` (`Lost`,
  `BuriedFit`). Until the commit it is `Doomed` (`SweptFits`): erased in the draft, or, between
  the deletion of the object and its sweep, still one that names it. In registry
  storage a tuple that is new in a draft and older than the deletion of one of its
  ends refers to the resource row that was there before (`NewTuplesFit`: its epoch is
  past, and the session is not about to insert another), so the foreign key refuses the commit.
  Proved: `DeletedStaysDeleted`. Column storage has no such key
  (section 5, item 17).
* **GatedWrites.** The properties of a session are `Honest(s)`, and `SessionFits(s)`
  is what they need of its next step. `LocksHold`: what a session has pinned or
  drafted is locked by it, so a row between its gate and its statement reads as
  the gate read it, whatever others do (`SeesTheSame`, `RestingFits`: a session
  that rests is gated as before). `PinsAreGated`: both ends of every row the gate
  pinned are asked of, then judged, until the statement; a save whose row was
  gone at the gate was judged on the container it enters. `QuerysetsAreGated`: of
  the pinned rows, those the statement will find were scanned, then guarded.
  `PairsAreGated`: what the wrapper exempts from later gates it has judged, and a
  pair is written only when it is exempt or was judged again. Proved:
  `NothingIsWrittenUnjudged`, `QuerysetWritesStayBounded`,
  `DenialsLeaveTheirAudit`, for any sessions, rows and operations, some of them
  under sudo. They assume `"none" \notin FirstPolicies`, a database that was
  synced before: `_gate_m2m` gates nothing without a policy, so the pair of a
  handler that was written before the first sync is unjudged when that sync
  commits during the call.
* **Authority.** The three properties are about the last statement that read
  (`read`), so the invariant is about every queryset such a statement may come
  from. `Fits(q)` says what a queryset is worth whoever made it: a scope that is
  applied is the one its pins call for, unless `scoped()` or an aggregate fixed it
  without a pin (`Decided`); its bypass was put on a queryset, or is that of the
  block it was scoped in (`Placed`); a bypass that counts as audited has its row (`Accounted`); what is embedded
  carries the bypass it still has to report (`Carries`). `InEffect` says of the
  context of a task, and of what closing any of its blocks restores, that a bypass
  in it is a block's and was audited at its entry (`TasksFit`, with `Nested` for
  the stack); `Streams` that chunks still come from a scope decided when the
  iterator was called, or, with a scope applied before, for whoever decided it.
  A lemma per operation of querysets shows that it keeps `Fits`, one per action
  that the statement read as `read` says. Proved, for both values of `Strict` and
  any features: `TypeCorrectness`, `AuthorityStays`, `ReadsFollow`,
  `BypassesAudited`. What failed at first was due to the properties: the row of an
  empty queryset's bypass (section 5, item 15), and, outside strict mode,
  `scoped()` called without an actor, which keeps its unrestricted scope when it is
  evaluated under one later (`ScopedUnpinned`).
* **PointCheck.** `JustInv` carries what one statement found to the answer: no
  step changes the `truth` of the lower bound afterwards, and no other statement
  allows. That the statement is right is a fact about operators: the lower bound
  takes fewer tuples than the meaning and the upper bound more, whatever was
  written since the caveats were decided (`LowerIsSound`), as everything in a
  closure is connected to the base (`ClosureReaches`). This is the half of
  soundness that needs no calm. `CalmInv` says what a check that nothing
  interfered with has in hand (its type, verdicts and rows are those of the
  facts), that the lower bound failed before the upper is asked, and that an
  answer is right for the facts. It rests on what the two recursions compute:
  a closure that one more hop does not leave is all that can reach the base
  (`ConvergedClosureIsWhole`), so without the cut the upper bound is complete
  (`UpperIsComplete`); every path of the residual pass follows a chain
  (`PathIsInClosure`, `PathHolds`), and every chain that holds under a resolution
  of the caveats has a path whose atoms hold, unless it was cut
  (`HoldingHasPath`). The residual is then undecided exactly if the check is, and
  to resolve the atoms of the minimal paths resolves it (`OpenSides`,
  `ResidualIsRight`). A branch is cut, or a closure has not converged, only if
  the data has a chain longer than the bound (`CutIsLong`, `UnconvergedIsLong`),
  data cycles included (`CyclesAreLong`). Induction over levels and over sets of
  seen objects uses the least number of a set (`LeastNumber`, `DeepestSeen`).
  Proved: `TypeCorrectness`, `OnlyJustifiedAnswersAllow`,
  `TheBoundDecidesNothing`, `MissingInputsDecide`, for any finite set of objects,
  any tuples and caveats and any `DepthLimit`; the schema is the fixed one of
  section 2.
* **FieldGates.** The properties speak of a `window`, what held at some moment of
  the operation. `WindowsAreTrue` has in it what holds now and, through `fresh`,
  what an entry of the memo under the mark in force may answer; so a verdict may
  be old, never older than the scope or the last write of the process.
  `QueriesAreGuarded` says that a statement which reads the gated column passed
  a grant on every row, which rests on `EvaluatedIsInspected`: the guards look
  at all that the SQL evaluates. `RowsAreReadable`, `WritesAreGated` and
  `CleansAreGated` carry the verdicts of each gate to the step that uses them
  after others have changed rows and tuples. Proved: `TypeCorrectness`,
  `HiddenStaysHidden`, `WritesAreGatedByField`.

Assumptions on constants are named in the modules (`...Assumption`) and say only
that bounds are natural numbers, that initial states are well typed, that sets
of actors are subsets of one another and that sentinels are not values; in
`FieldGates` also that a column of a related row is read only where it is
selected, with its row; in `PointCheck` that there are finitely many objects and
one to check; in `RelationshipStore` that the first rows have the first
primary keys and fitting caveat keys, that a batch is not empty, and that a save
without `update_fields` writes both columns of the caveat; in `SchemaSync` that a
definition comes before its relations and permissions, that a tuple which names
one of these names its definition, and that files and edits are of known
fragments and texts; in `Overrides` that expressions nest to some depth, that
relations, permissions and `authenticated` are different names and that each
permission has another beside it (for `held_many()`), that the expression of a
recaveat is one the request context decides, and that the rows at the start
compose (`StartAssumption`).

**Only model-checked**: `LoadsTerminate` (liveness is beyond the prover). Every
safety property that a passing run checks is stated by a theorem.

## 5. Where code and documentation disagree

With a run: `SplitReads` (`expect: violation`; the quotation is in
`PROJECT.json`). `held_many()` decides by one read of the policy that two
permissions share one decision, and answers by the next read, which may be a
newer policy.

The following were met while modelling. Where the models state the sentence it
is named; it holds in none of them and belongs to no run.

1. *Pins* (`OwnWritesReachScopes`). `advance()` raises the invalidation
   generation inside the writer's transaction. A scope that resolves the policy
   before the commit pins the old revision under the new generation and keeps it
   afterwards; its statements then select nothing until the scope ends.
   `docs/ARCHITECTURE.md:1031` says that writes and transaction boundaries end
   the pins (also `tests/test_schema_scope_cache.py:117`).
2. *Handlers* (`SharedUnderItsRevision`). A save handler that checks a permission
   between the row and `advance()` makes the loader share uncommitted rows under
   the committed revision. The fence compares that revision and passes, so here it
   is no safeguard: statements compiled from the uncommitted rows run in other
   transactions, until `advance()` drops the snapshot or, when the save fails
   before it, for as long as the revision stays. `FencedByTheVisiblePolicy` fails
   with such handlers; the runs and the theorems are for processes that have none.
3. *Ambient writes* (`CommittedWritesDropDecisions`). A relationship write inside a
   caller's transaction raises the relationship generation (`local.py:842`, in the
   library's own savepoint) before the commit, as does the cleanup after a delete
   (`signals.py:412`). A check of another thread between the two files an answer
   without the write under the generation that stays good, and that is the answer
   to questions asked after the commit. The docstring of
   `mark_relationships_changed` (`local.py:1037`) says that it is called "so every
   local backend instance and every evaluator scope in this process drops its
   decisions", and `docs/ARCHITECTURE.md:2914` that backend writes and the
   `post_delete` cascade invalidate decision generations. TLC finds the state with
   the constants of `DecisionsAmbient`.
4. *Cycles* (`ConvergedClosuresAreDecided`). The SQL closure over a cycle of
   stored tuples converges, but when a caveat leaves the check undecided the
   residual pass treats the revisit as a cut recursion, and the check raises
   `PermissionDepthExceeded` where `docs/ARCHITECTURE.md:1991` and
   `docs/ZED.md:615` promise an answer.
5. *Type-wide checks*. `grants_all()` reads the policy twice as well: with two
   writes between them it answers by a policy that excludes some rows.
6. *Chunks* (`ChunksAreReadForTheirCaller`). `_apply_scope_in_place`
   (`managers.py:1145`) returns early for a queryset that was scoped before, so
   an iterator of a queryset that was counted earlier reads for whoever counted;
   `docs/ARCHITECTURE.md:2523` says that it is bound at its call.
7. *Edits* (`EditsAreKept`). A sync adopts a row that no package manages and
   writes its text (`management/commands/rebac.py:638`), so an administrator's
   row is overwritten without the force flag that `README.md:139` and
   `docs/ARCHITECTURE.md:3345` require.
8. *Revoke*. The number that `revoke()` returns is counted before the delete and
   can differ from what it removed.
9. *Bulk guard*. The guard of a queryset write evaluates the filter again
   (`managers.py:2127`), so it may guard fewer rows than the keys the statement
   is bound to; only for columns a policy reads do locks prevent it
   (`GuardedUpdates`).
10. *Saving back*. The snapshot of an instance is not refreshed after a save
    (`mixins.py` 1653-1745). Saving the loaded value back changes a gated column
    without its gate (`WritesBack`, the exemption in
    `SalariesChangeUnderTheirGate`).
11. *Redacted full saves*. They compare with the same snapshot
    (`mixins.py:1335`): a field set from a to b, saved, set back to a and saved
    keeps b.
12. *Refresh*. It hides again only what was hidden before (`mixins.py:942`),
    where `docs/ARCHITECTURE.md:2835` says it never reveals a hidden value.
13. *`bulk_update()`* (`managers.py:1898`) writes the None of a redacted field
    when the write gate passes, where `docs/ARCHITECTURE.md:2825` calls redacted
    fields fail-closed on writes.
14. *Emissions* (`EmissionsForget`). `check()` files its answer after its
    statements (`evaluator.py:258`). When another thread that shares the evaluator
    calls `invalidate()` in between, the answer of the previous emission enters the
    emptied cache under a key that is still good, since the revocation that
    another process committed moved no generation of this one; the next emission
    takes it. `graphql/strawberry.py:122` says that the shared evaluator is
    invalidated "so producer tasks inheriting it cannot reuse the previous
    emission's grants after a revocation".
15. *Combined bypasses* (`EveryBypassHasItsRow`). `_combined_scope`
    (`managers.py:1219`) takes the reason of a sudo bypass from the left operand,
    but not whether it was audited, nor its entry. For an empty left operand Django
    returns the right one, whose flags stay: `q2.none() | q1`, with `q1` read under
    sudo before, reads unrestricted for the reason of `q2` and writes no row.
    `docs/ARCHITECTURE.md:2405` says that every public bypass is audited at first
    use. The proof of `BypassesAudited` asked for the exemption `mixed`.
16. *Caveat keys of rows that come back* (`EveryCaveatKeyMatches`).
    `_derive_caveat_key` (`models/relationship.py:218`) locks nothing when the row
    is gone, and takes the columns that the save leaves out from the instance. A
    whole save in another session can insert the row again, under another caveat,
    before the `UPDATE` of this one, which then stores a key that is not that of
    the columns. `docs/ARCHITECTURE.md:804` says that every supported write path
    writes the key with the tuple. The proof of `WritesLand` asked for the
    exemption `reborn`; with three sessions (a batch, a whole save, a delete) TLC
    finds the state.
17. *Deletions* (`GrantsDieWithTheirObject`). The sweep after a delete
    (`signals.py:402`) removes the tuples its statement sees. Writers validate
    names, not that objects exist, so in column storage nothing makes the two
    wait for each other: a batch that has inserted a tuple and commits it after
    the sweep leaves a tuple of a deleted object. `docs/ARCHITECTURE.md:2167`
    says that the receiver removes the tuples that name the row "at either end,
    so a reused identity does not inherit a grant". In registry storage the foreign
    key makes the deletion wait or the batch fail, unless the batch has itself
    interned the resource row, which the sweep then does not see. TLC finds the
    state with a session that writes and one that deletes.
18. *Refusals nobody confirms* (`RefuseUncached`). `_load_schema_snapshot` reads the
    revision again before it shares a refusal, but a live load (`local.py:264`) and
    the last fallback (344) raise it as it comes (567-568), so that a policy read
    between two commits, which was never stored, is reported as refused. It denies and
    grants nothing, and a retry reads another; but its caller is told of errors in a
    schema that has none, not to retry as by line 348. No document says otherwise.

## 6. Not modelled

* Of the loader: `known_revision` (a caller that read the revision already) and
  schemas set by hand (`set_schema`). `_owners` is a context variable that
  threads may copy; in the models a writer is one context on one connection.
* Several databases: the fence refuses to compare revisions across aliases, and
  the models have one alias.
* Of the compiler: bulk statements and named subjects, subject sets, wildcards,
  expirations of tuples, the recursive forms over foreign keys, paths and several
  types.
* Of `Overrides`: a clock that goes back; more than one kept policy or statement
  per slot; tuples that change (they do in `PointCheck`). Two observations: the
  CEL of a recaveat that a later one supersedes is never checked, and rows that
  have expired still take part in the check that a new row composes, so they can
  refuse it.
* Of `Authority`: how an actor is found, the field modes, `select_related` (the
  run is in strict mode, the theorems are for both). Observation:
  `_rebac_sudo_audited` stays set although the transaction that held the audit row was rolled back.
* Of `RelationshipStore`: validation against the schema, expirations, audit rows,
  the `get_or_create` of the registry's manager, the transport of tokens.
* Of `GatedWrites`: upserts and sessions under sudo (the constant `Unscoped` is
  empty in the run, as nothing is claimed of them).
* Of `FieldGates`: deferred columns, instances pinned to another actor, the
  marker that skips a second redaction, the budget of the memo, transactions and
  creates, and the decision cache behind conditional checks; the gates of one
  save are one step.
* Of `SchemaSync`: `check`, `build-zed`, `migrate-storage`, `explain`, `grant`,
  `revoke`. Observations: `--force-overwrite` after a move deletes rows that the
  new owner adopted in the same sync when it comes first in the order of
  applications; an override names a row by key, so retiring and creating again
  drops it silently; an override that names a missing relation which the stored
  expression names too makes the composition refuse; tuples validated before a
  retirement can be stored after it; `target_pk` of a record is not refreshed when
  an administrator recreates the row; a forced prune removes a stale permission
  although tuples name it as their subject's relation.
* Field backing (query building), parsing, formatting, codecs and static reports,
  which are sequential and which unit tests reach; CEL itself, a library, whose
  three verdicts are where `PointCheck` and `Overrides` start.

## 7. Plan

Done: `PolicyStore` with `PolicyHistory`, `SchemaLoader` with the fence,
`DecisionCache`, `RelationshipStore` (with zookies and roles), `GatedWrites`,
`FieldGates` (with the visibility memo), `Authority` (contexts, querysets and
the audit of bypasses), `PointCheck`, `SchemaSync` and `Overrides` (composition
and deadlines), each checked and proved.

Left, in order of importance:

1. What a zookie promises as an abstract specification that `RelationshipStore`
   implements.
2. Bulk checks and named subjects; the other recursive forms and expirations in
   `PointCheck`.
3. Upserts in `GatedWrites`; deferred columns and creates in `FieldGates`.
4. `known_revision` and manual schemas in `SchemaLoader`; the worker thread of
   asynchronous audits.
