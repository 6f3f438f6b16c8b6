---------------------------- MODULE SchemaLoader ----------------------------
(***************************************************************************)
(* How the threads of one process come to hold the stored policy           *)
(* (LocalBackend._load_schema_snapshot in backends/local.py and the scopes *)
(* of schema/cache.py), while policy writers run in this process and in    *)
(* others, and the fence that every permission statement carries           *)
(* (compile/read.py).                                                      *)
(*                                                                         *)
(* A load reads the policy by several statements, each of which sees what  *)
(* is committed at its own moment (and the thread's own uncommitted        *)
(* writes), so the parts of a policy can come from different commits.      *)
(* Snapshots are shared per revision, one load per revision runs at a      *)
(* time, and every policy write of this process raises the invalidation    *)
(* generation when it advances the revision, before it commits.            *)
(*                                                                         *)
(* The database side is PolicyStore seen from a reader: one transaction at *)
(* a time holds the generation row.  A manual schema (set_schema) and      *)
(* override deadlines are left out.                                        *)
(***************************************************************************)
EXTENDS Naturals

CONSTANTS
    Threads,        \* threads of this process, each with its own connection
    Readers,        \* those that check permissions
    Writers,        \* those that open transactions and write the policy
    Scopers,        \* those that open evaluator scopes
    NumParts,       \* the statements of _load_schema_from_db, in order
    Values,         \* what the rows behind one statement may hold
    SoundPolicies,  \* the policies a load accepts
    FirstPolicies,  \* those the process may start with
    MaxRevision,    \* bound on the identities issued
    Attempts,       \* load attempts before the fenced fallback; 3 in the code
    HandlersRead,   \* may code run by a save check a permission before advance()?
    None            \* no thread, no snapshot, no pin, a part not read

Parts == 1..NumParts
Policies == [Parts -> Values]
Revisions == 0..MaxRevision

ASSUME SoundAssumption ==
    SoundPolicies \subseteq Policies /\ FirstPolicies \subseteq SoundPolicies
ASSUME BoundAssumption ==
    /\ NumParts \in Nat \ {0}
    /\ MaxRevision \in Nat
    /\ Attempts \in Nat \ {0}
    /\ HandlersRead \in BOOLEAN
    /\ Readers \subseteq Threads /\ Writers \subseteq Threads /\ Scopers \subseteq Threads
\* Revision 0 is the empty one: nothing is published.
Snapshots == [rows : Policies, revision : Revisions]
Pins == [rows : Policies, revision : Revisions, invalidation : Revisions]

\* How an operation ends without a policy: the loader refuses the stored policy,
\* the policy changed during an uncached read, the database failed.
Errors == {"refused", "closed", "failed"}

\* An uncached load raises the loader's refusal too, the same SchemaError for its
\* caller, and nobody reads the revision again.
Raised == Errors \cup {"unconfirmed"}

\* A load in flight, or delivered and not yet forgotten.
Loads == [owner : Threads, state : {"pending", "delivered"} \cup Errors,
          snapshot : Snapshots \cup {None}]

ASSUME NoneAssumption == None \notin Threads \cup Values \cup Snapshots \cup Pins \cup Loads

VARIABLES
    \* The database.
    rows,          \* the committed policy
    revision,      \* the committed revision
    issued,        \* the last identity given
    holder,        \* the thread whose transaction holds the generation row
    draft,         \* the policy and revision as that transaction sees them
    dirty,         \* it wrote rows and has not advanced the revision yet
    inTx,          \* inTx[t]: t is inside a transaction
    published,     \* revisions that were committed (auxiliary)
    own,           \* those that this process committed (auxiliary)
    policyAt,      \* the policy each issued revision names (auxiliary)
    \* The process.
    cached,        \* the shared snapshot of this alias
    loads,         \* loads[r]: the load in flight for revision r
    invalidation,  \* the schema invalidation generation
    \* The scopes of a thread.
    evaluator,     \* evaluator[t]: t is inside an evaluator scope
    pinned,        \* pinned[t]: the evaluator scope's pin
    held,          \* held[t]: the operation scope's pin
    \* One operation of a thread.
    pc,
    seen,          \* seen[t]: the invalidation generation it read
    wanted,        \* wanted[t]: the revision it read
    attempt,
    next,          \* next[t]: the next statement of its load
    got,           \* got[t]: the parts it has read
    snap,          \* snap[t]: the snapshot it found
    startedAt      \* startedAt[t]: the revision visible at its start (auxiliary)

database == <<rows, revision, issued, holder, draft, dirty, inTx, published, own, policyAt>>
process == <<cached, loads, invalidation>>
scopes == <<evaluator, pinned, held>>
locals == <<pc, seen, wanted, attempt, next, got, snap, startedAt>>
vars == <<rows, revision, issued, holder, draft, dirty, inTx, published, own, policyAt,
          cached, loads, invalidation, evaluator, pinned, held,
          pc, seen, wanted, attempt, next, got, snap, startedAt>>

Phases == {"idle", "resolve", "revision", "lookup", "load", "publish", "settled",
           "wait", "recheck", "live", "before", "fallback", "ready"} \cup Raised

DatabaseTypeOK ==
    /\ rows \in Policies /\ revision \in Revisions /\ issued \in Revisions
    /\ holder \in Threads \cup {None} /\ draft \in Snapshots \cup {None} /\ dirty \in BOOLEAN
    /\ inTx \in [Threads -> BOOLEAN]
    /\ published \subseteq Revisions /\ own \subseteq Revisions
    /\ policyAt \in [Revisions -> Policies]

ProcessTypeOK ==
    /\ cached \in Snapshots \cup {None}
    /\ loads \in [Revisions -> Loads \cup {None}]
    /\ invalidation \in Revisions

ScopesTypeOK ==
    /\ evaluator \in [Threads -> BOOLEAN]
    /\ pinned \in [Threads -> Pins \cup {None}]
    /\ held \in [Threads -> Pins \cup {None}]

LocalsTypeOK ==
    /\ pc \in [Threads -> Phases]
    /\ seen \in [Threads -> Revisions] /\ wanted \in [Threads -> Revisions]
    /\ attempt \in [Threads -> 0..Attempts] /\ next \in [Threads -> 1..(NumParts + 1)]
    /\ got \in [Threads -> [Parts -> Values \cup {None}]]
    /\ snap \in [Threads -> Snapshots \cup {None}]
    /\ startedAt \in [Threads -> Revisions]

TypeOK == DatabaseTypeOK /\ ProcessTypeOK /\ ScopesTypeOK /\ LocalsTypeOK

-----------------------------------------------------------------------------
(* What a statement of thread t sees.                                      *)

PolicySeenBy(t) == IF holder = t THEN draft.rows ELSE rows
RevisionSeenBy(t) == IF holder = t THEN draft.revision ELSE revision

\* Nobody checks a permission in the middle of a save, unless its handlers do.
MayRead(t) == ~(dirty /\ holder = t) \/ HandlersRead

\* Mutant: the pin is usable inside a transaction too.
AlwaysScoped(t) == TRUE

\* An autocommit connection: the evaluator scope's pin is usable.
Scoped(t) == ~inTx[t]

Nothing == [p \in Parts |-> None]
Snapshot(policy, r) == [rows |-> policy, revision |-> r]
PinOf(s, generation) ==
    [rows |-> s.rows, revision |-> s.revision, invalidation |-> generation]

\* A statement compiled from a snapshot selects nothing unless the generation row
\* still carries the snapshot's revision.
FencePasses(t) == snap[t].revision # 0 /\ snap[t].revision = RevisionSeenBy(t)

Init ==
    /\ rows \in FirstPolicies
    /\ revision \in {0, 1} \cap Revisions
    /\ issued = revision
    /\ holder = None
    /\ draft = None
    /\ dirty = FALSE
    /\ inTx = [t \in Threads |-> FALSE]
    /\ published = {revision}
    /\ own = {}
    /\ policyAt = [r \in Revisions |-> rows]
    /\ cached = None
    /\ loads = [r \in Revisions |-> None]
    /\ invalidation = 0
    /\ evaluator = [t \in Threads |-> FALSE]
    /\ pinned = [t \in Threads |-> None]
    /\ held = [t \in Threads |-> None]
    /\ pc = [t \in Threads |-> "idle"]
    /\ seen = [t \in Threads |-> 0]
    /\ wanted = [t \in Threads |-> 0]
    /\ attempt = [t \in Threads |-> 0]
    /\ next = [t \in Threads |-> 1]
    /\ got = [t \in Threads |-> Nothing]
    /\ snap = [t \in Threads |-> None]
    /\ startedAt = [t \in Threads |-> 0]

-----------------------------------------------------------------------------
(* Policy writers.                                                         *)

BeginTransaction(t) ==
    /\ t \in Writers /\ pc[t] = "idle" /\ ~inTx[t]
    /\ inTx' = [inTx EXCEPT ![t] = TRUE]
    /\ UNCHANGED <<rows, revision, issued, holder, draft, dirty, published, own, policyAt>>
    /\ UNCHANGED process /\ UNCHANGED scopes /\ UNCHANGED locals

\* The row of a policy save, under the generation row; advance() comes later.
SaveRow(t, p, v) ==
    /\ pc[t] = "idle" /\ inTx[t]
    /\ holder \in {None, t} /\ ~dirty
    /\ issued < MaxRevision
    /\ v # PolicySeenBy(t)[p]
    /\ holder' = t
    /\ draft' = Snapshot([PolicySeenBy(t) EXCEPT ![p] = v], RevisionSeenBy(t))
    /\ dirty' = TRUE
    /\ UNCHANGED <<rows, revision, issued, inTx, published, own, policyAt>>
    /\ UNCHANGED process /\ UNCHANGED scopes /\ UNCHANGED locals

\* advance(): a fresh revision in the transaction, and the caches of this process
\* invalidated now, while nothing is committed.
Advance(t) ==
    /\ pc[t] = "idle" /\ holder = t /\ dirty
    /\ issued' = issued + 1
    /\ draft' = [draft EXCEPT !.revision = issued']
    /\ policyAt' = [policyAt EXCEPT ![issued'] = draft.rows]
    /\ dirty' = FALSE
    /\ invalidation' = invalidation + 1
    /\ cached' = None
    /\ UNCHANGED <<rows, revision, holder, inTx, published, own, loads>>
    /\ UNCHANGED scopes /\ UNCHANGED locals

\* The owner validated what it wrote; its transaction commits.
Commit(t) ==
    /\ pc[t] = "idle" /\ inTx[t]
    /\ inTx' = [inTx EXCEPT ![t] = FALSE]
    /\ \/ /\ holder = t /\ ~dirty /\ draft.rows \in SoundPolicies
          /\ rows' = draft.rows
          /\ revision' = draft.revision
          /\ published' = published \cup {revision'}
          /\ own' = own \cup {revision'}
          /\ holder' = None /\ draft' = None
       \/ /\ holder # t
          /\ UNCHANGED <<rows, revision, published, own, holder, draft>>
    /\ UNCHANGED <<issued, dirty, policyAt>>
    /\ UNCHANGED process /\ UNCHANGED scopes /\ UNCHANGED locals

Rollback(t) ==
    /\ pc[t] = "idle" /\ inTx[t]
    /\ inTx' = [inTx EXCEPT ![t] = FALSE]
    /\ IF holder = t
         THEN holder' = None /\ draft' = None /\ dirty' = FALSE
         ELSE UNCHANGED <<holder, draft, dirty>>
    /\ UNCHANGED <<rows, revision, issued, published, own, policyAt>>
    /\ UNCHANGED process /\ UNCHANGED scopes /\ UNCHANGED locals

\* A savepoint around the policy writes is rolled back, an owner's or one of the
\* application; the transaction goes on, and nothing tells the scopes.
RollbackSavepoint(t) ==
    /\ pc[t] = "idle" /\ inTx[t] /\ holder = t
    /\ holder' = None /\ draft' = None /\ dirty' = FALSE
    /\ UNCHANGED <<rows, revision, issued, inTx, published, own, policyAt>>
    /\ UNCHANGED process /\ UNCHANGED scopes /\ UNCHANGED locals

\* A whole policy write of another process: this one is not told.
RemoteCommit(policy) ==
    /\ holder = None
    /\ issued < MaxRevision
    /\ policy # rows
    /\ issued' = issued + 1
    /\ rows' = policy
    /\ revision' = issued'
    /\ published' = published \cup {revision'}
    /\ policyAt' = [policyAt EXCEPT ![issued'] = policy]
    /\ UNCHANGED <<holder, draft, dirty, inTx, own>>
    /\ UNCHANGED process /\ UNCHANGED scopes /\ UNCHANGED locals

-----------------------------------------------------------------------------
(* Evaluator scopes.                                                       *)

OpenScope(t) ==
    /\ t \in Scopers /\ pc[t] = "idle" /\ ~evaluator[t]
    /\ evaluator' = [evaluator EXCEPT ![t] = TRUE]
    /\ UNCHANGED <<pinned, held>>
    /\ UNCHANGED database /\ UNCHANGED process /\ UNCHANGED locals

CloseScope(t) ==
    /\ pc[t] = "idle" /\ evaluator[t]
    /\ evaluator' = [evaluator EXCEPT ![t] = FALSE]
    /\ pinned' = [pinned EXCEPT ![t] = None]
    /\ UNCHANGED held
    /\ UNCHANGED database /\ UNCHANGED process /\ UNCHANGED locals

\* PermissionEvaluator.invalidate(), between the emissions of a subscription.
InvalidateEvaluator(t) ==
    /\ pc[t] = "idle" /\ evaluator[t]
    /\ pinned' = [pinned EXCEPT ![t] = None]
    /\ UNCHANGED <<evaluator, held>>
    /\ UNCHANGED database /\ UNCHANGED process /\ UNCHANGED locals

-----------------------------------------------------------------------------
(* One permission operation.                                               *)

StartOperation(t) ==
    /\ t \in Readers /\ pc[t] = "idle" /\ MayRead(t)
    /\ pc' = [pc EXCEPT ![t] = "resolve"]
    /\ startedAt' = [startedAt EXCEPT ![t] = RevisionSeenBy(t)]
    /\ UNCHANGED <<seen, wanted, attempt, next, got, snap>>
    /\ UNCHANGED database /\ UNCHANGED process /\ UNCHANGED scopes

\* A pin taken under the current invalidation generation needs no query.
Honoured(pin) == pin # None /\ pin.invalidation = invalidation

\* Mutant: inside a transaction the evaluator's pin is looked at before it goes.
PinBeforeDropping(t) == IF evaluator[t] THEN pinned[t] ELSE held[t]

\* The pin of the scope that keeps a snapshot: the evaluator's, if t may use it.
ScopePin(t) == IF evaluator[t] /\ Scoped(t) THEN pinned[t] ELSE held[t]

\* An evaluator's pin does not survive an operation inside a transaction.
Resolve(t) ==
    /\ pc[t] = "resolve"
    /\ pinned' = [pinned EXCEPT ![t] = IF evaluator[t] /\ ~Scoped(t) THEN None ELSE @]
    /\ \/ \E pin \in {ScopePin(t), held[t]} :
            /\ Honoured(pin)
            /\ Honoured(ScopePin(t)) => pin = ScopePin(t)
            /\ snap' = [snap EXCEPT ![t] = Snapshot(pin.rows, pin.revision)]
            /\ pc' = [pc EXCEPT ![t] = "ready"]
            /\ UNCHANGED <<seen, attempt>>
       \/ /\ ~Honoured(ScopePin(t)) /\ ~Honoured(held[t])
          /\ seen' = [seen EXCEPT ![t] = invalidation]
          /\ attempt' = [attempt EXCEPT ![t] = 1]
          /\ pc' = [pc EXCEPT ![t] = "revision"]
          /\ UNCHANGED snap
    /\ UNCHANGED <<evaluator, held, wanted, next, got, startedAt>>
    /\ UNCHANGED database /\ UNCHANGED process

\* An unpublished policy is read live, after evicting what is shared.
ReadRevision(t) ==
    /\ pc[t] = "revision"
    /\ wanted' = [wanted EXCEPT ![t] = RevisionSeenBy(t)]
    /\ IF RevisionSeenBy(t) = 0
         THEN /\ cached' = None
              /\ pc' = [pc EXCEPT ![t] = "live"]
         ELSE /\ pc' = [pc EXCEPT ![t] = "lookup"]
              /\ UNCHANGED cached
    /\ next' = [next EXCEPT ![t] = 1]
    /\ got' = [got EXCEPT ![t] = Nothing]
    /\ UNCHANGED <<loads, invalidation, seen, attempt, snap, startedAt>>
    /\ UNCHANGED database /\ UNCHANGED scopes

\* Under the schema lock: the shared snapshot, a load of one's own, or somebody
\* else's, which may have been delivered already.
SharedHit(r) == cached # None /\ cached.revision = r

Lookup(t) ==
    LET r == wanted[t] IN
    /\ pc[t] = "lookup"
    /\ \/ /\ SharedHit(r)
          /\ snap' = [snap EXCEPT ![t] = cached]
          /\ pc' = [pc EXCEPT ![t] = "recheck"]
          /\ UNCHANGED loads
       \/ /\ ~SharedHit(r) /\ loads[r] = None
          /\ loads' = [loads EXCEPT ![r] =
                         [owner |-> t, state |-> "pending", snapshot |-> None]]
          /\ pc' = [pc EXCEPT ![t] = "load"]
          /\ UNCHANGED snap
       \/ /\ ~SharedHit(r) /\ loads[r] # None /\ loads[r].state = "pending"
          /\ pc' = [pc EXCEPT ![t] = "wait"]
          /\ UNCHANGED <<loads, snap>>
       \/ /\ ~SharedHit(r) /\ loads[r] # None /\ loads[r].state # "pending"
          /\ snap' = [snap EXCEPT ![t] = loads[r].snapshot]
          /\ pc' = [pc EXCEPT ![t] = IF loads[r].state \in Errors
                                      THEN loads[r].state ELSE "recheck"]
          /\ UNCHANGED loads
    /\ UNCHANGED <<cached, invalidation, seen, wanted, attempt, next, got, startedAt>>
    /\ UNCHANGED database /\ UNCHANGED scopes

\* One statement of _load_schema_from_db.
ReadPart(t) ==
    /\ pc[t] \in {"load", "live", "fallback"}
    /\ next[t] \in Parts
    /\ got' = [got EXCEPT ![t][next[t]] = PolicySeenBy(t)[next[t]]]
    /\ next' = [next EXCEPT ![t] = @ + 1]
    /\ UNCHANGED <<pc, seen, wanted, attempt, snap, startedAt>>
    /\ UNCHANGED database /\ UNCHANGED process /\ UNCHANGED scopes

Loaded(t) == next[t] > NumParts

\* Mutant: only the owner learns the result.
SettleSilently(t, state, s) ==
    /\ loads' = [loads EXCEPT ![wanted[t]] = [owner |-> t, state |-> state, snapshot |-> s]]
    /\ snap' = [snap EXCEPT ![t] = s]
    /\ pc' = [pc EXCEPT ![t] = "settled"]
    /\ got' = [got EXCEPT ![t] = Nothing]
    /\ next' = [next EXCEPT ![t] = 1]

\* The result of t's load, delivered to t and to everyone who waits for it.
Settle(t, state, s) ==
    LET r == wanted[t]
        waiting == {f \in Threads : pc[f] = "wait" /\ wanted[f] = r} IN
    /\ loads' = [loads EXCEPT ![r] = [owner |-> t, state |-> state, snapshot |-> s]]
    /\ snap' = [u \in Threads |-> IF u = t \/ u \in waiting THEN s ELSE snap[u]]
    /\ pc' = [u \in Threads |->
                IF u = t THEN "settled"
                ELSE IF u \notin waiting THEN pc[u]
                ELSE IF state \in Errors THEN state ELSE "recheck"]
    /\ got' = [got EXCEPT ![t] = Nothing]
    /\ next' = [next EXCEPT ![t] = 1]

\* Mutant: a load that was refused raises at once.
OutcomeUnread(t) ==
    IF got[t] \notin SoundPolicies THEN "refused"
    ELSE IF RevisionSeenBy(t) = wanted[t] THEN "whole" ELSE "moved"

\* Mutant: only a load that was refused reads the revision again.
OutcomeTrusted(t) ==
    IF got[t] \in SoundPolicies THEN "whole"
    ELSE IF RevisionSeenBy(t) = wanted[t] THEN "refused" ELSE "moved"

\* What the owner makes of its load, reading the revision again.
Outcome(t) ==
    IF RevisionSeenBy(t) # wanted[t] THEN "moved"
    ELSE IF got[t] \in SoundPolicies THEN "whole" ELSE "refused"

\* A policy that moved under the load is neither shared nor reported as refused.
Confirm(t) ==
    /\ pc[t] = "load" /\ Loaded(t)
    /\ \/ Outcome(t) = "moved" /\ Settle(t, "delivered", None)
       \/ Outcome(t) = "refused" /\ Settle(t, "refused", None)
       \/ /\ Outcome(t) = "whole"
          /\ pc' = [pc EXCEPT ![t] = "publish"]
          /\ UNCHANGED <<loads, snap, got, next>>
    /\ UNCHANGED <<cached, invalidation, seen, wanted, attempt, startedAt>>
    /\ UNCHANGED database /\ UNCHANGED scopes

\* Mutant: it is given the revision of that moment.
FoundNow(t) == Snapshot(got[t], RevisionSeenBy(t))

\* The snapshot of a load that held.
Found(t) == Snapshot(got[t], wanted[t])

\* Under the schema lock: share it, unless this process wrote the policy meanwhile.
Publish(t) ==
    /\ pc[t] = "publish"
    /\ IF seen[t] = invalidation
         THEN /\ cached' = Found(t)
              /\ Settle(t, "delivered", Found(t))
         ELSE /\ Settle(t, "delivered", None)
              /\ UNCHANGED cached
    /\ UNCHANGED <<invalidation, seen, wanted, attempt, startedAt>>
    /\ UNCHANGED database /\ UNCHANGED scopes

\* The load leaves the table; until here a newcomer still finds its result.
Forget(t) ==
    LET state == loads[wanted[t]].state IN
    /\ pc[t] = "settled"
    /\ loads' = [loads EXCEPT ![wanted[t]] = None]
    /\ pc' = [pc EXCEPT ![t] = IF state \in Errors THEN state ELSE "recheck"]
    /\ UNCHANGED <<cached, invalidation, seen, wanted, attempt, next, got, snap, startedAt>>
    /\ UNCHANGED database /\ UNCHANGED scopes

\* The locals of _load_schema_snapshot end with it.
Forgets(t) ==
    /\ seen' = [seen EXCEPT ![t] = 0]
    /\ wanted' = [wanted EXCEPT ![t] = 0]
    /\ attempt' = [attempt EXCEPT ![t] = 0]
    /\ next' = [next EXCEPT ![t] = 1]
    /\ got' = [got EXCEPT ![t] = Nothing]

\* The snapshot found is pinned: by the evaluator's scope if t may use it.
Pin(t) ==
    /\ seen[t] = invalidation /\ snap[t] # None
    /\ pc' = [pc EXCEPT ![t] = "ready"]
    /\ LET pin == PinOf(snap[t], seen[t]) IN
         IF evaluator[t] /\ Scoped(t)
           THEN pinned' = [pinned EXCEPT ![t] = pin] /\ UNCHANGED held
           ELSE held' = [held EXCEPT ![t] = pin] /\ UNCHANGED pinned
    /\ Forgets(t)
    /\ UNCHANGED snap

\* Mutant: one attempt too many.
OneMoreAttempt(t) == attempt[t] <= Attempts

MayRetry(t) == attempt[t] < Attempts

\* There is none, or this process wrote the policy meanwhile.
Retry(t) ==
    /\ seen[t] # invalidation \/ snap[t] = None
    /\ snap' = [snap EXCEPT ![t] = None]
    /\ seen' = [seen EXCEPT ![t] = invalidation]
    /\ IF MayRetry(t)
         THEN /\ attempt' = [attempt EXCEPT ![t] = @ + 1]
              /\ pc' = [pc EXCEPT ![t] = "revision"]
         ELSE /\ pc' = [pc EXCEPT ![t] = "before"]
              /\ UNCHANGED attempt
    /\ UNCHANGED <<pinned, held, wanted, next, got>>

Recheck(t) ==
    /\ pc[t] = "recheck"
    /\ Pin(t) \/ Retry(t)
    /\ UNCHANGED <<evaluator, startedAt>>
    /\ UNCHANGED database /\ UNCHANGED process

\* A live read of an unpublished policy serves its operation only.
FinishLive(t) ==
    /\ pc[t] = "live" /\ Loaded(t) /\ got[t] \in SoundPolicies
    /\ snap' = [snap EXCEPT ![t] = Snapshot(got[t], 0)]
    /\ held' = [held EXCEPT ![t] = PinOf(Snapshot(got[t], 0), seen[t])]
    /\ pc' = [pc EXCEPT ![t] = "ready"]
    /\ Forgets(t)
    /\ UNCHANGED <<evaluator, pinned, startedAt>>
    /\ UNCHANGED database /\ UNCHANGED process

\* Attempts are exhausted: one uncached load between two reads of the revision.
StartFallback(t) ==
    /\ pc[t] = "before"
    /\ wanted' = [wanted EXCEPT ![t] = RevisionSeenBy(t)]
    /\ next' = [next EXCEPT ![t] = 1]
    /\ got' = [got EXCEPT ![t] = Nothing]
    /\ pc' = [pc EXCEPT ![t] = "fallback"]
    /\ UNCHANGED <<seen, attempt, snap, startedAt>>
    /\ UNCHANGED database /\ UNCHANGED process /\ UNCHANGED scopes

\* Mutant: the revision is not compared with the one before.
FinishFallbackUncompared(t) ==
    /\ pc[t] = "fallback" /\ Loaded(t) /\ got[t] \in SoundPolicies
    /\ snap' = [snap EXCEPT ![t] = FoundNow(t)]
    /\ pc' = [pc EXCEPT ![t] = "ready"]
    /\ Forgets(t)
    /\ UNCHANGED startedAt
    /\ UNCHANGED database /\ UNCHANGED process /\ UNCHANGED scopes

\* The policy that it read is good for one operation, if the revision did not move.
FinishFallback(t) ==
    /\ pc[t] = "fallback" /\ Loaded(t) /\ got[t] \in SoundPolicies
    /\ IF RevisionSeenBy(t) = wanted[t]
         THEN /\ snap' = [snap EXCEPT ![t] = Found(t)]
              /\ pc' = [pc EXCEPT ![t] = "ready"]
         ELSE /\ pc' = [pc EXCEPT ![t] = "closed"]
              /\ UNCHANGED snap
    /\ Forgets(t)
    /\ UNCHANGED startedAt
    /\ UNCHANGED database /\ UNCHANGED process /\ UNCHANGED scopes

\* Mutant: the refusal is put to the revision of that moment.
RefuseUncachedNow(t) ==
    /\ pc[t] \in {"live", "fallback"} /\ Loaded(t) /\ got[t] \notin SoundPolicies
    /\ pc' = [pc EXCEPT ![t] = "unconfirmed"]
    /\ wanted' = [wanted EXCEPT ![t] = RevisionSeenBy(t)]
    /\ UNCHANGED <<seen, attempt, next, got, snap, startedAt>>
    /\ UNCHANGED database /\ UNCHANGED process /\ UNCHANGED scopes

\* What an uncached load read, torn or not, is refused: it raises at once, and the
\* fallback's second read of the revision does not come.
RefuseUncached(t) ==
    /\ pc[t] \in {"live", "fallback"} /\ Loaded(t) /\ got[t] \notin SoundPolicies
    /\ pc' = [pc EXCEPT ![t] = "unconfirmed"]
    /\ UNCHANGED <<seen, wanted, attempt, next, got, snap, startedAt>>
    /\ UNCHANGED database /\ UNCHANGED process /\ UNCHANGED scopes

\* Mutant: the owner of a load keeps its error for itself.
DatabaseErrorUnshared(t) ==
    /\ pc[t] \in {"revision", "load", "live", "before", "fallback"}
    /\ pc' = [pc EXCEPT ![t] = "failed"]
    /\ UNCHANGED <<loads, snap, got, next>>
    /\ UNCHANGED <<cached, invalidation, seen, wanted, attempt, startedAt>>
    /\ UNCHANGED database /\ UNCHANGED scopes

\* Any exception of a query; the owner of a load hands it to those who wait.
DatabaseError(t) ==
    /\ \/ /\ pc[t] \in {"revision", "live", "before", "fallback"}
          /\ pc' = [pc EXCEPT ![t] = "failed"]
          /\ UNCHANGED <<loads, snap, got, next>>
       \/ /\ pc[t] = "load"
          /\ Settle(t, "failed", None)
    /\ UNCHANGED <<cached, invalidation, seen, wanted, attempt, startedAt>>
    /\ UNCHANGED database /\ UNCHANGED scopes

\* The operation asks for the policy again: a nested check, a second statement.
ResolveAgain(t) ==
    /\ pc[t] = "ready"
    /\ pc' = [pc EXCEPT ![t] = "resolve"]
    /\ snap' = [snap EXCEPT ![t] = None]
    /\ UNCHANGED <<seen, wanted, attempt, next, got, startedAt>>
    /\ UNCHANGED database /\ UNCHANGED process /\ UNCHANGED scopes

\* Mutant: the operation's pin outlives it.
EndOperationPinned(t) ==
    /\ pc[t] \in {"ready"} \cup Raised
    /\ pc' = [pc EXCEPT ![t] = "idle"]
    /\ snap' = [snap EXCEPT ![t] = None]
    /\ Forgets(t)
    /\ startedAt' = [startedAt EXCEPT ![t] = 0]
    /\ UNCHANGED <<evaluator, pinned, held>>
    /\ UNCHANGED database /\ UNCHANGED process

\* Its statements ran, or it raised: the operation scope and its pin are gone.
EndOperation(t) ==
    /\ pc[t] \in {"ready"} \cup Raised
    /\ pc' = [pc EXCEPT ![t] = "idle"]
    /\ held' = [held EXCEPT ![t] = None]
    /\ snap' = [snap EXCEPT ![t] = None]
    /\ Forgets(t)
    /\ startedAt' = [startedAt EXCEPT ![t] = 0]
    /\ UNCHANGED <<evaluator, pinned>>
    /\ UNCHANGED database /\ UNCHANGED process

-----------------------------------------------------------------------------
\* What a thread does by itself once an operation asked for the policy.
LoadStep(t) ==
    \/ Resolve(t) \/ ReadRevision(t) \/ Lookup(t)
    \/ ReadPart(t) \/ Confirm(t) \/ Publish(t) \/ Forget(t) \/ Recheck(t)
    \/ FinishLive(t) \/ StartFallback(t) \/ FinishFallback(t) \/ RefuseUncached(t)

WriteStep(t) ==
    \/ BeginTransaction(t)
    \/ \E p \in Parts, v \in Values : SaveRow(t, p, v)
    \/ Advance(t) \/ Commit(t) \/ Rollback(t) \/ RollbackSavepoint(t)

ScopeStep(t) == OpenScope(t) \/ CloseScope(t) \/ InvalidateEvaluator(t)

OperationStep(t) ==
    \/ StartOperation(t) \/ ResolveAgain(t) \/ EndOperation(t) \/ DatabaseError(t)

ThreadStep(t) == LoadStep(t) \/ WriteStep(t) \/ ScopeStep(t) \/ OperationStep(t)

Next ==
    \/ \E t \in Threads : ThreadStep(t)
    \/ \E policy \in SoundPolicies : RemoteCommit(policy)

Spec == Init /\ [][Next]_vars

\* A running thread goes on with the load it is in; nothing else is promised.
Fairness == \A t \in Threads : WF_vars(LoadStep(t))

FairSpec == Spec /\ Fairness

-----------------------------------------------------------------------------
(* Properties.                                                             *)

\* A statement whose fence passes was compiled from the very policy that is
\* visible to it, whole: no torn load, no stale cache entry and no rolled back
\* write ever decides a permission.
FencedByTheVisiblePolicy ==
    \A t \in Threads :
        pc[t] = "ready" /\ FencePasses(t) => snap[t].rows = PolicySeenBy(t)

\* What the process shares and what an evaluator scope keeps is a policy that was
\* committed under that revision (not one of a transaction that may roll back).
ScopesKeepPublishedPolicies ==
    \A t \in Threads :
        pinned[t] # None =>
            /\ pinned[t].revision \in published
            /\ pinned[t].rows = policyAt[pinned[t].revision]

\* Outside an evaluator scope, or inside a transaction, an operation works with a
\* policy at least as new as the one visible when it started ("the next operation
\* reads the new policy").
OperationsAreFresh ==
    \A t \in Threads :
        pc[t] = "ready" /\ (~evaluator[t] \/ inTx[t]) => snap[t].revision >= startedAt[t]

\* Pins hold on to what was published, and to nothing for longer than their scope.
PinsHoldTheirPolicy == ScopesKeepPublishedPolicies /\ OperationsAreFresh

\* The shared loads refuse no policy because a commit tore the load: whoever is
\* refused by one, his own or another's that he followed, asked for a policy that
\* the loader refuses.  An uncached load (a live one, the fallback) refuses torn
\* policies as well; but whoever still sees the revision it started from was
\* refused for the policy of that revision.
RefusalsAreDeserved ==
    \A t \in Threads :
        pc[t] = "refused" \/ (pc[t] = "unconfirmed" /\ RevisionSeenBy(t) = wanted[t])
            => policyAt[wanted[t]] \notin SoundPolicies

\* A policy write of this process ends the pins of every evaluator scope in it
\* ("Writes and transaction boundaries still invalidate its connection-local
\* pin", docs/ARCHITECTURE.md): an operation that starts after the commit, on an
\* autocommit connection, works with that policy or a newer one.
OwnWritesReachScopes ==
    \A t \in Threads :
        pc[t] = "ready" /\ ~inTx[t] =>
            \A r \in own : r <= startedAt[t] => snap[t].revision >= r

\* What the process shares under a revision is the policy of that revision
\* ("shares parsed effective-schema snapshots per database alias and revision",
\* docs/ARCHITECTURE.md).
SharedUnderItsRevision ==
    cached # None => cached.rows = policyAt[cached.revision]

\* Every operation gets its policy or an error, whatever writers do meanwhile.
LoadsTerminate ==
    \A t \in Threads : pc[t] = "resolve" ~> pc[t] \in {"ready"} \cup Raised

-----------------------------------------------------------------------------
(* The inductive invariant behind FencedByTheVisiblePolicy, for a process   *)
(* whose save handlers check no permission.                                 *)

\* A revision was issued once and names the rows it was issued for; a policy
\* transaction has a revision nobody else has seen, or has not advanced yet.
RevisionsNamePolicies ==
    /\ revision <= issued /\ invalidation <= issued
    /\ rows = policyAt[revision]
    /\ holder = None <=> draft = None
    /\ dirty => holder # None /\ issued < MaxRevision
    /\ holder # None =>
          /\ revision <= draft.revision /\ draft.revision <= issued
          /\ ~dirty => draft.rows = policyAt[draft.revision]
          /\ ~dirty => draft.revision # revision

\* A thread in an operation writes nothing, and the revision it asked for is
\* one it could see: never that of another transaction still open.
OperationsReadOnly ==
    \A t \in Threads :
        /\ pc[t] # "idle" => ~(dirty /\ holder = t)
        /\ wanted[t] <= issued
        /\ holder \notin {None, t} =>
              draft.revision = revision \/ wanted[t] # draft.revision

\* A policy kept with a revision other than 0 is the one that revision names.
Truthful(s) ==
    s # None /\ s.revision # 0 =>
        s.revision <= issued /\ s.rows = policyAt[s.revision]

SnapshotsAreTruthful ==
    /\ Truthful(cached)
    /\ \A r \in Revisions : loads[r] # None => Truthful(loads[r].snapshot)
    /\ \A t \in Threads : Truthful(pinned[t]) /\ Truthful(held[t]) /\ Truthful(snap[t])
    /\ \A t \in Threads : pc[t] = "ready" => snap[t] # None

\* As long as the revision is the one wanted, the parts already read belong to it.
LoadsAreWhole ==
    \A t \in Threads :
        /\ pc[t] \in {"lookup", "load", "live", "fallback"} /\ RevisionSeenBy(t) = wanted[t] =>
              \A p \in Parts : p < next[t] => got[t][p] = policyAt[wanted[t]][p]
        /\ pc[t] = "publish" => got[t] = policyAt[wanted[t]]

IInv ==
    /\ TypeOK
    /\ RevisionsNamePolicies
    /\ OperationsReadOnly
    /\ SnapshotsAreTruthful
    /\ LoadsAreWhole
-----------------------------------------------------------------------------
(* The inductive invariant behind PinsHoldTheirPolicy and                   *)
(* RefusalsAreDeserved, beside IInv.                                        *)

\* What a statement outside the open transaction sees was committed.
CommitsArePublished ==
    /\ revision \in published
    /\ \A r \in published : r <= issued
    /\ holder # None => inTx[holder]

\* Whoever finds a load finds the answer for the revision he asked for.
LoadsAnswerForTheirRevision ==
    \A r \in Revisions : loads[r] # None =>
        /\ r <= issued
        /\ loads[r].snapshot # None => loads[r].snapshot.revision = r
        /\ loads[r].state = "refused" => policyAt[r] \notin SoundPolicies

\* From the lookup to the pin a thread is after one published revision.
Seeking == {"lookup", "load", "publish", "settled", "wait", "recheck"}

\* An operation goes forward from the revision that was visible at its start.
OperationGoesForward(t) ==
    /\ pc[t] = "idle" => held[t] = None
    /\ pc[t] # "idle" => startedAt[t] <= RevisionSeenBy(t)
    /\ pc[t] = "live" => startedAt[t] = 0
    /\ pc[t] \in Seeking \cup {"fallback"} => startedAt[t] <= wanted[t]
    /\ pc[t] \in {"live", "fallback", "unconfirmed"} => wanted[t] <= RevisionSeenBy(t)
    /\ pc[t] \in Seeking => wanted[t] # 0 /\ (inTx[t] \/ wanted[t] \in published)
    /\ held[t] # None => startedAt[t] <= held[t].revision
    /\ pc[t] = "ready" /\ (~evaluator[t] \/ inTx[t]) => startedAt[t] <= snap[t].revision

\* What it finds, keeps or is refused is of the revision it asked for.
OperationFindsItsRevision(t) ==
    /\ pc[t] \in {"settled", "recheck"} /\ snap[t] # None => snap[t].revision = wanted[t]
    /\ pinned[t] # None => pinned[t].revision \in published \ {0}
    /\ pc[t] = "refused" => policyAt[wanted[t]] \notin SoundPolicies
    /\ pc[t] = "unconfirmed" /\ RevisionSeenBy(t) = wanted[t] =>
          policyAt[wanted[t]] \notin SoundPolicies

\* The load of a revision is its owner's until the owner forgets it.
Owning == {"load", "publish", "settled"}

LoadsHaveTheirOwner ==
    \A t \in Threads :
        pc[t] \in Owning => loads[wanted[t]] # None /\ loads[wanted[t]].owner = t

ScopeInv ==
    /\ CommitsArePublished
    /\ LoadsAnswerForTheirRevision
    /\ LoadsHaveTheirOwner
    /\ \A t \in Threads : OperationGoesForward(t) /\ OperationFindsItsRevision(t)
=============================================================================
