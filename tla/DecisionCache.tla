---------------------------- MODULE DecisionCache ----------------------------
(***************************************************************************)
(* The permission answers an evaluator scope keeps: PermissionEvaluator    *)
(* .check in evaluator.py over LocalBackend._cache_generation and          *)
(* mark_relationships_changed in backends/local.py, while relationship and *)
(* policy writers run in this process and in others.                       *)
(*                                                                         *)
(* What an answer says is abstracted to what it was computed from: the     *)
(* relationship changes visible to its statement, the rows of live-backed  *)
(* types at that moment, and the policy it was compiled from.  A key of    *)
(* the cache is the question with two generations: the one the shared      *)
(* policy snapshot was published with and the one that relationship writes *)
(* raise.  Loading the policy is SchemaLoader's subject; here it is one    *)
(* step.                                                                   *)
(***************************************************************************)
EXTENDS Naturals, Sequences, SequencesExt

CONSTANTS
    Threads,        \* each with a connection of its own
    Checkers,       \* those that ask questions
    Evaluators,     \* PermissionEvaluator instances
    Installable,    \* Installable[t]: those that t may open a scope with
    Questions,      \* (subject, action, resource, context)
    LiveQuestions,  \* those whose type reaches live rows or expiring tuples
    OwnChanges,     \* relationship writes of this process
    RemoteChanges,  \* those of other processes
    AmbientWrites,  \* may a write happen inside a transaction of the caller?
    MaxSize,        \* REBAC_EVALUATOR_CACHE_SIZE
    MaxScopes,      \* bound on nested evaluator scopes of a thread
    MaxRevision,    \* bound on policy revisions
    MaxLive,        \* bound on changes of live rows
    MaxMarks,       \* bound on relationship writes
    None

Changes == OwnChanges \cup RemoteChanges

ASSUME ThreadAssumption ==
    /\ Checkers \subseteq Threads
    /\ Installable \in [Threads -> SUBSET Evaluators]
ASSUME QuestionAssumption == LiveQuestions \subseteq Questions
ASSUME ChangeAssumption == OwnChanges \cap RemoteChanges = {}
ASSUME BoundAssumption ==
    /\ MaxSize \in Nat /\ MaxScopes \in Nat /\ MaxRevision \in Nat \ {0}
    /\ MaxLive \in Nat /\ MaxMarks \in Nat
    /\ AmbientWrites \in BOOLEAN

VARIABLES
    \* The database.
    committed,     \* the relationship changes that are committed
    live,          \* how often live rows changed
    policy,        \* the committed policy revision
    drafting,      \* the thread whose policy write is advanced and not committed
    transaction,   \* transaction[t]: none, its own (atomic in a write), or the caller's
    wrote,         \* wrote[t]: the changes of that transaction
    \* The process.
    marked,        \* _relationship_generation
    markOf,        \* markOf[c]: the generation raised for c after its commit (auxiliary)
    completed,     \* writes that had a transaction of their own and returned (auxiliary)
    carried,       \* those that a caller's transaction committed (auxiliary)
    invalidation,  \* the schema invalidation generation
    shared,        \* the shared policy snapshot
    published,     \* _schema_generation: snapshots shared so far
    \* The evaluators.
    cache,         \* cache[e]: what its check cache holds
    order,         \* order[e]: its keys, the next to evict first
    pins,          \* pins[e][t]: its policy pin for t's connection
    scopes,        \* scopes[t]: the evaluator scopes t is in, innermost last
    forgotten,     \* forgotten[e]: what was committed when it was last invalidated (auxiliary)
    \* One question of a thread.
    pc,
    asked,         \* asked[t]: the question
    since,         \* since[t]: what was written, live and forgotten at its start (auxiliary)
    key,           \* key[t]: the cache key, None to bypass the cache
    compiled,      \* compiled[t]: the snapshot its statement is compiled from
    answer

database == <<committed, live, policy, drafting, transaction, wrote>>
process == <<marked, markOf, completed, carried, invalidation, shared, published>>
evaluators == <<cache, order, pins, scopes, forgotten>>
locals == <<pc, asked, since, key, compiled, answer>>
vars == <<committed, live, policy, drafting, transaction, wrote, marked, markOf, completed,
          carried, invalidation, shared, published, cache, order, pins, scopes, forgotten,
          pc, asked, since, key, compiled, answer>>

Snapshots == [revision : 0..MaxRevision, generation : Nat, invalidation : Nat]
Keys == [question : Questions, schema : Nat, relationships : Nat]
ASSUME NoneAssumption == None \notin Keys /\ None \notin Snapshots
Answers == [seen : SUBSET Changes, live : 0..MaxLive, revision : 0..MaxRevision,
            verdict : {"decided", "conditional", "fenced"}]
Entries == [key : Keys, answer : Answers]
Starts == [completed : SUBSET OwnChanges, carried : SUBSET OwnChanges,
           forgotten : SUBSET Changes, live : 0..MaxLive]

Phases == {"idle", "resolve", "generation", "lookup", "found", "compile", "execute",
           "store", "answered", "raised", "commit", "mark", "policy"}

DatabaseTypeOK ==
    /\ committed \subseteq Changes /\ live \in 0..MaxLive /\ policy \in 0..MaxRevision
    /\ drafting \in Threads \cup {None}
    /\ transaction \in [Threads -> {"none", "own", "caller"}]
    /\ wrote \in [Threads -> SUBSET OwnChanges]

ProcessTypeOK ==
    /\ marked \in Nat /\ markOf \in [Changes -> Nat] /\ completed \subseteq OwnChanges
    /\ carried \subseteq OwnChanges
    /\ invalidation \in Nat /\ shared \in Snapshots \cup {None} /\ published \in Nat

EvaluatorsTypeOK ==
    /\ cache \in [Evaluators -> SUBSET Entries]
    /\ order \in [Evaluators -> Seq(Keys)]
    /\ pins \in [Evaluators -> [Threads -> Snapshots \cup {None}]]
    /\ scopes \in [Threads -> Seq(Evaluators)]
    /\ forgotten \in [Evaluators -> SUBSET Changes]

LocalsTypeOK ==
    /\ pc \in [Threads -> Phases]
    /\ asked \in [Threads -> Questions \cup {None}]
    /\ since \in [Threads -> Starts \cup {None}]
    /\ key \in [Threads -> Keys \cup {None}]
    /\ compiled \in [Threads -> Snapshots \cup {None}]
    /\ answer \in [Threads -> Answers \cup {None}]

TypeOK == DatabaseTypeOK /\ ProcessTypeOK /\ EvaluatorsTypeOK /\ LocalsTypeOK

Init ==
    /\ committed = {} /\ live = 0 /\ policy = 1 /\ drafting = None
    /\ transaction = [t \in Threads |-> "none"]
    /\ wrote = [t \in Threads |-> {}]
    /\ marked = 0 /\ markOf = [c \in Changes |-> 0] /\ completed = {} /\ carried = {}
    /\ invalidation = 0 /\ shared = None /\ published = 0
    /\ cache = [e \in Evaluators |-> {}]
    /\ order = [e \in Evaluators |-> << >>]
    /\ pins = [e \in Evaluators |-> [t \in Threads |-> None]]
    /\ scopes = [t \in Threads |-> << >>]
    /\ forgotten = [e \in Evaluators |-> {}]
    /\ pc = [t \in Threads |-> "idle"]
    /\ asked = [t \in Threads |-> None]
    /\ since = [t \in Threads |-> None]
    /\ key = [t \in Threads |-> None]
    /\ compiled = [t \in Threads |-> None]
    /\ answer = [t \in Threads |-> None]

Idle(t) == pc[t] = "idle"
InTransaction(t) == transaction[t] # "none"
InScope(t) == scopes[t] # << >>
Active(t) == Last(scopes[t])

-----------------------------------------------------------------------------
(* Relationship writers.                                                   *)

Untouched(c) == c \notin committed /\ \A t \in Threads : c \notin wrote[t]

\* The caller opens a transaction around the writes and whatever else it does.
BeginTransaction(t) ==
    /\ AmbientWrites /\ Idle(t) /\ ~InTransaction(t)
    /\ transaction' = [transaction EXCEPT ![t] = "caller"]
    /\ UNCHANGED <<committed, live, policy, drafting, wrote>>
    /\ UNCHANGED process /\ UNCHANGED evaluators /\ UNCHANGED locals

\* write_relationships, delete_relationships: the rows, in a transaction of the
\* write itself or in a savepoint of the caller's, which it then leaves.
WriteRelationships(t, c) ==
    /\ Idle(t)
    /\ Untouched(c) /\ marked < MaxMarks
    /\ wrote' = [wrote EXCEPT ![t] = @ \cup {c}]
    /\ IF InTransaction(t)
         THEN /\ pc' = [pc EXCEPT ![t] = "mark"]
              /\ UNCHANGED transaction
         ELSE /\ pc' = [pc EXCEPT ![t] = "commit"]
              /\ transaction' = [transaction EXCEPT ![t] = "own"]
    /\ UNCHANGED <<committed, live, policy, drafting>>
    /\ UNCHANGED <<asked, since, key, compiled, answer>>
    /\ UNCHANGED process /\ UNCHANGED evaluators

EndTransaction(t) ==
    /\ transaction' = [transaction EXCEPT ![t] = "none"]
    /\ UNCHANGED <<live, policy, drafting>>

CommitWrite(t) ==
    /\ pc[t] = "commit"
    /\ committed' = committed \cup wrote[t]
    /\ pc' = [pc EXCEPT ![t] = "mark"]
    /\ EndTransaction(t)
    /\ UNCHANGED wrote
    /\ UNCHANGED <<asked, since, key, compiled, answer>>
    /\ UNCHANGED process /\ UNCHANGED evaluators

\* The write raises: a refused tuple, a database error.
FailWrite(t) ==
    /\ pc[t] = "commit"
    /\ wrote' = [wrote EXCEPT ![t] = {}]
    /\ pc' = [pc EXCEPT ![t] = "idle"]
    /\ EndTransaction(t)
    /\ UNCHANGED committed
    /\ UNCHANGED <<asked, since, key, compiled, answer>>
    /\ UNCHANGED process /\ UNCHANGED evaluators

\* mark_relationships_changed(), the last thing a write does before it returns.
MarkChanged(t) ==
    /\ pc[t] = "mark"
    /\ marked' = marked + 1
    /\ IF InTransaction(t)
         THEN UNCHANGED <<markOf, completed, wrote>>
         ELSE /\ markOf' = [c \in Changes |-> IF c \in wrote[t] THEN marked + 1 ELSE markOf[c]]
              /\ completed' = completed \cup wrote[t]
              /\ wrote' = [wrote EXCEPT ![t] = {}]
    /\ pc' = [pc EXCEPT ![t] = "idle"]
    /\ UNCHANGED <<committed, live, policy, drafting, transaction>>
    /\ UNCHANGED <<carried, invalidation, shared, published>>
    /\ UNCHANGED <<asked, since, key, compiled, answer>>
    /\ UNCHANGED evaluators

\* The caller's transaction ends; the library is not told.
CommitTransaction(t) ==
    /\ Idle(t) /\ transaction[t] = "caller"
    /\ committed' = committed \cup wrote[t]
    /\ carried' = carried \cup wrote[t]
    /\ wrote' = [wrote EXCEPT ![t] = {}]
    /\ EndTransaction(t)
    /\ UNCHANGED <<marked, markOf, completed, invalidation, shared, published>>
    /\ UNCHANGED evaluators /\ UNCHANGED locals

RollbackTransaction(t) ==
    /\ Idle(t) /\ transaction[t] = "caller"
    /\ wrote' = [wrote EXCEPT ![t] = {}]
    /\ EndTransaction(t)
    /\ UNCHANGED committed
    /\ UNCHANGED process /\ UNCHANGED evaluators /\ UNCHANGED locals

\* Another process writes relationships; live rows change; an expiry passes.
RemoteWrite(c) ==
    /\ Untouched(c)
    /\ committed' = committed \cup {c}
    /\ UNCHANGED <<live, policy, drafting, transaction, wrote>>
    /\ UNCHANGED process /\ UNCHANGED evaluators /\ UNCHANGED locals

ChangeLiveRows ==
    /\ live < MaxLive
    /\ live' = live + 1
    /\ UNCHANGED <<committed, policy, drafting, transaction, wrote>>
    /\ UNCHANGED process /\ UNCHANGED evaluators /\ UNCHANGED locals

-----------------------------------------------------------------------------
(* Policy writers: advance() invalidates, the commit follows.              *)

AdvancePolicy(t) ==
    /\ Idle(t) /\ ~InTransaction(t)
    /\ drafting = None /\ policy < MaxRevision
    /\ drafting' = t
    /\ pc' = [pc EXCEPT ![t] = "policy"]
    /\ invalidation' = invalidation + 1
    /\ shared' = None
    /\ UNCHANGED <<committed, live, policy, transaction, wrote>>
    /\ UNCHANGED <<marked, markOf, completed, carried, published>>
    /\ UNCHANGED <<asked, since, key, compiled, answer>>
    /\ UNCHANGED evaluators

CommitPolicy(t) ==
    /\ pc[t] = "policy" /\ policy < MaxRevision
    /\ policy' = policy + 1
    /\ drafting' = None
    /\ pc' = [pc EXCEPT ![t] = "idle"]
    /\ UNCHANGED <<committed, live, transaction, wrote>>
    /\ UNCHANGED <<asked, since, key, compiled, answer>>
    /\ UNCHANGED process /\ UNCHANGED evaluators

RemotePolicy ==
    /\ drafting = None /\ policy < MaxRevision
    /\ policy' = policy + 1
    /\ UNCHANGED <<committed, live, drafting, transaction, wrote>>
    /\ UNCHANGED process /\ UNCHANGED evaluators /\ UNCHANGED locals

-----------------------------------------------------------------------------
(* Evaluator scopes.                                                       *)

\* evaluator_scope(e), nested or not; an evaluator may be installed again.
OpenScope(t, e) ==
    /\ t \in Checkers /\ Idle(t) /\ e \in Installable[t]
    /\ Len(scopes[t]) < MaxScopes
    /\ scopes' = [scopes EXCEPT ![t] = Append(@, e)]
    /\ UNCHANGED <<cache, order, pins, forgotten>>
    /\ UNCHANGED database /\ UNCHANGED process /\ UNCHANGED locals

NoPins == [t \in Threads |-> None]

\* The last user of an evaluator takes its policy pins along, not its answers.
CloseScope(t) ==
    LET e == Active(t) IN
    /\ Idle(t) /\ InScope(t)
    /\ scopes' = [scopes EXCEPT ![t] = Front(@)]
    /\ pins' = [pins EXCEPT ![e] =
                  IF \E u \in Threads : \E i \in 1..Len(scopes'[u]) : scopes'[u][i] = e
                    THEN @ ELSE NoPins]
    /\ UNCHANGED <<cache, order, forgotten>>
    /\ UNCHANGED database /\ UNCHANGED process /\ UNCHANGED locals

\* Mutant: only the policy pins go.
InvalidatePins(t) ==
    LET e == Active(t) IN
    /\ Idle(t) /\ InScope(t)
    /\ pins' = [pins EXCEPT ![e] = NoPins]
    /\ forgotten' = [forgotten EXCEPT ![e] = committed]
    /\ UNCHANGED <<cache, order, scopes>>
    /\ UNCHANGED database /\ UNCHANGED process /\ UNCHANGED locals

\* invalidate(), by whichever thread delivers a subscription's emission.
Invalidate(t) ==
    LET e == Active(t) IN
    /\ Idle(t) /\ InScope(t)
    /\ cache' = [cache EXCEPT ![e] = {}]
    /\ order' = [order EXCEPT ![e] = << >>]
    /\ pins' = [pins EXCEPT ![e] = NoPins]
    /\ forgotten' = [forgotten EXCEPT ![e] = committed]
    /\ UNCHANGED scopes
    /\ UNCHANGED database /\ UNCHANGED process /\ UNCHANGED locals

-----------------------------------------------------------------------------
(* One question: PermissionEvaluator.check.                                *)

Ask(t, q) ==
    /\ t \in Checkers /\ Idle(t) /\ InScope(t)
    /\ pc' = [pc EXCEPT ![t] = "resolve"]
    /\ asked' = [asked EXCEPT ![t] = q]
    /\ since' = [since EXCEPT ![t] =
         [completed |-> completed, carried |-> carried,
          forgotten |-> forgotten[Active(t)], live |-> live]]
    /\ UNCHANGED <<key, compiled, answer>>
    /\ UNCHANGED database /\ UNCHANGED process /\ UNCHANGED evaluators

Honoured(pin) == pin # None /\ pin.invalidation = invalidation

\* Mutant: a snapshot shared later has the generation of the one it replaces.
SameGeneration == published' = 1

NextGeneration == published' = published + 1

\* LocalBackend._schema_snapshot() as a question uses it: the evaluator's pin for
\* this connection, else the shared snapshot of the committed revision, else a
\* new one, shared under a generation of its own.  A pin needs autocommit.
SharePolicy ==
    IF shared # None /\ shared.revision = policy
      THEN UNCHANGED <<shared, published>>
      ELSE /\ NextGeneration
           /\ shared' = [revision |-> policy, generation |-> published', invalidation |-> 0]

ResolvePolicy(t) ==
    LET e == Active(t) IN
    \/ /\ ~InTransaction(t) /\ Honoured(pins[e][t])
       /\ compiled' = [compiled EXCEPT ![t] = pins[e][t]]
       /\ UNCHANGED <<pins, shared, published>>
    \/ /\ InTransaction(t) \/ ~Honoured(pins[e][t])
       /\ SharePolicy
       /\ compiled' = [compiled EXCEPT ![t] = [shared' EXCEPT !.invalidation = invalidation]]
       /\ pins' = [pins EXCEPT ![e][t] = IF InTransaction(t) THEN None ELSE compiled'[t]]

\* Mutant: a transaction is no reason to bypass the cache.
BypassedForLiveTypes(t) == asked[t] \in LiveQuestions

\* Mutant: a live type is no reason either.
BypassedInTransactions(t) == InTransaction(t)

\* _cache_generation() declines.
Bypassed(t) == InTransaction(t) \/ asked[t] \in LiveQuestions

Resolve(t) ==
    /\ pc[t] = "resolve"
    /\ IF InTransaction(t) /\ Bypassed(t)
         THEN UNCHANGED <<compiled, pins, shared, published>>
         ELSE ResolvePolicy(t)
    /\ pc' = [pc EXCEPT ![t] = IF Bypassed(t) THEN "compile" ELSE "generation"]
    /\ UNCHANGED <<marked, markOf, completed, carried, invalidation>>
    /\ UNCHANGED <<cache, order, scopes, forgotten>>
    /\ UNCHANGED <<asked, since, key, answer>>
    /\ UNCHANGED database

\* The relationship generation is read after the snapshot, before the answer.
ReadGeneration(t) ==
    /\ pc[t] = "generation"
    /\ key' = [key EXCEPT ![t] =
         [question |-> asked[t], schema |-> compiled[t].generation, relationships |-> marked]]
    /\ pc' = [pc EXCEPT ![t] = "lookup"]
    /\ UNCHANGED <<asked, since, compiled, answer>>
    /\ UNCHANGED database /\ UNCHANGED process /\ UNCHANGED evaluators

\* What a cache holds under a key: one entry or none.
Kept(e, k) == {x \in cache[e] : x.key = k}

Lookup(t) ==
    /\ pc[t] = "lookup"
    /\ pc' = [pc EXCEPT ![t] = IF Kept(Active(t), key[t]) # {} THEN "found" ELSE "compile"]
    /\ UNCHANGED <<asked, since, key, compiled, answer>>
    /\ UNCHANGED database /\ UNCHANGED process /\ UNCHANGED evaluators

Moved(keys, i) == Append(RemoveAt(keys, i), keys[i])

\* The entry becomes the most recent one; another thread of the scope may have
\* evicted it since (KeyError).
Take(t) ==
    LET e == Active(t) IN
    /\ pc[t] = "found"
    /\ \/ \E x \in Kept(e, key[t]), i \in DOMAIN order[e] :
            /\ order[e][i] = key[t]
            /\ answer' = [answer EXCEPT ![t] = x.answer]
            /\ order' = [order EXCEPT ![e] = Moved(@, i)]
            /\ pc' = [pc EXCEPT ![t] = "answered"]
       \/ /\ Kept(e, key[t]) = {}
          /\ pc' = [pc EXCEPT ![t] = "raised"]
          /\ UNCHANGED <<answer, order>>
    /\ UNCHANGED <<cache, pins, scopes, forgotten>>
    /\ UNCHANGED <<asked, since, key, compiled>>
    /\ UNCHANGED database /\ UNCHANGED process

\* check_access() asks for the policy again; its pin may have gone since.
Compile(t) ==
    /\ pc[t] = "compile"
    /\ ResolvePolicy(t)
    /\ pc' = [pc EXCEPT ![t] = "execute"]
    /\ UNCHANGED <<marked, markOf, completed, carried, invalidation>>
    /\ UNCHANGED <<cache, order, scopes, forgotten>>
    /\ UNCHANGED <<asked, since, key, answer>>
    /\ UNCHANGED database

\* What is missing from a conditional answer is not part of the key.
Keepable(t, verdict) == key[t] # None /\ verdict # "conditional"

\* The statement, behind its fence.
Execute(t) ==
    /\ pc[t] = "execute"
    /\ \E verdict \in (IF compiled[t].revision = policy
                        THEN {"decided", "conditional"} ELSE {"fenced"}) :
          /\ answer' = [answer EXCEPT ![t] =
               [seen |-> committed \cup wrote[t], live |-> live,
                revision |-> compiled[t].revision, verdict |-> verdict]]
          /\ pc' = [pc EXCEPT ![t] = IF Keepable(t, verdict) THEN "store" ELSE "answered"]
    /\ UNCHANGED <<asked, since, key, compiled>>
    /\ UNCHANGED database /\ UNCHANGED process /\ UNCHANGED evaluators

\* Mutant: the answer is filed under the generation of the moment.
EntryNow(t) == [key |-> [key[t] EXCEPT !.relationships = marked], answer |-> answer[t]]

Entry(t) == [key |-> key[t], answer |-> answer[t]]

\* Assigning to a key that is present keeps its place; the oldest ones go.
Store(t) ==
    LET e == Active(t)
        k == Entry(t).key
        kept == IF Kept(e, k) # {} THEN order[e] ELSE Append(order[e], k)
        over == IF Len(kept) > MaxSize THEN Len(kept) - MaxSize ELSE 0 IN
    /\ pc[t] = "store"
    /\ order' = [order EXCEPT ![e] = SubSeq(kept, over + 1, Len(kept))]
    /\ cache' = [cache EXCEPT ![e] =
         {x \in (@ \ Kept(e, k)) \cup {Entry(t)} : \E i \in DOMAIN order'[e] : order'[e][i] = x.key}]
    /\ pc' = [pc EXCEPT ![t] = "answered"]
    /\ UNCHANGED <<pins, scopes, forgotten>>
    /\ UNCHANGED <<asked, since, key, compiled, answer>>
    /\ UNCHANGED database /\ UNCHANGED process

Return(t) ==
    /\ pc[t] \in {"answered", "raised"}
    /\ pc' = [pc EXCEPT ![t] = "idle"]
    /\ asked' = [asked EXCEPT ![t] = None]
    /\ since' = [since EXCEPT ![t] = None]
    /\ key' = [key EXCEPT ![t] = None]
    /\ compiled' = [compiled EXCEPT ![t] = None]
    /\ answer' = [answer EXCEPT ![t] = None]
    /\ UNCHANGED database /\ UNCHANGED process /\ UNCHANGED evaluators

-----------------------------------------------------------------------------
WriterStep(t) ==
    \/ BeginTransaction(t) \/ CommitTransaction(t) \/ RollbackTransaction(t)
    \/ \E c \in OwnChanges : WriteRelationships(t, c)
    \/ CommitWrite(t) \/ FailWrite(t) \/ MarkChanged(t)
    \/ AdvancePolicy(t) \/ CommitPolicy(t)

ScopeStep(t) ==
    \/ \E e \in Evaluators : OpenScope(t, e)
    \/ CloseScope(t) \/ Invalidate(t)

QuestionStep(t) ==
    \/ \E q \in Questions : Ask(t, q)
    \/ Resolve(t) \/ ReadGeneration(t) \/ Lookup(t) \/ Take(t)
    \/ Compile(t) \/ Execute(t) \/ Store(t) \/ Return(t)

Elsewhere ==
    \/ \E c \in RemoteChanges : RemoteWrite(c)
    \/ ChangeLiveRows \/ RemotePolicy

Next ==
    \/ \E t \in Threads : WriterStep(t) \/ ScopeStep(t) \/ QuestionStep(t)
    \/ Elsewhere

Spec == Init /\ [][Next]_vars

-----------------------------------------------------------------------------
(* Properties.                                                             *)

\* An answer sees every relationship write of this process that had a transaction
\* of its own and had returned when the question was asked, whatever other writes
\* do inside transactions of their callers: writes "invalidate decision generations
\* across local backend instances in this process, including evaluators suspended
\* by a nested scope" (docs/ARCHITECTURE.md).
AnswersSeeOwnWrites ==
    \A t \in Threads : pc[t] = "answered" => since[t].completed \subseteq answer[t].seen

\* The same of every write that was committed, which the docstring of
\* mark_relationships_changed (backends/local.py) promises: "every local backend
\* instance and every evaluator scope in this process drops its decisions".  A write
\* inside a transaction of its caller, and the cleanup after a delete, marks before
\* it is committed: an answer computed in between is filed under the new generation
\* and outlives the commit.
CommittedWritesDropDecisions ==
    \A t \in Threads : pc[t] = "answered" =>
        since[t].completed \cup since[t].carried \subseteq answer[t].seen

\* Outside a transaction no answer rests on rows that were rolled back or may be.
AnswersRestOnCommittedRows ==
    \A t \in Threads :
        pc[t] = "answered" /\ ~InTransaction(t) => answer[t].seen \subseteq committed

\* Facts that change without a relationship write (live rows, expiry) are read
\* for every question that reaches them.
LiveFactsAreRead ==
    \A t \in Threads :
        pc[t] = "answered" /\ asked[t] \in LiveQuestions => answer[t].live >= since[t].live

\* What is kept depends on nothing that changes behind the relationship generation.
AnswersRestOnKnownFacts == AnswersRestOnCommittedRows /\ LiveFactsAreRead

\* A kept decision is used with the policy its question was resolved to, or with
\* a later one: never with one that the scope has left behind.
DecisionsMatchThePolicy ==
    \A t \in Threads :
        pc[t] = "answered" /\ answer[t].verdict = "decided"
            => answer[t].revision >= compiled[t].revision

\* Nothing computed before an emission invalidated its evaluator is used after it
\* ("producer tasks inheriting it cannot reuse the previous emission's grants
\* after a revocation", graphql/strawberry.py).
EmissionsForget ==
    \A t \in Threads : pc[t] = "answered" => since[t].forgotten \subseteq answer[t].seen

\* An answer fits the policy of its question and the emission it is given in.
KeptAnswersFit == DecisionsMatchThePolicy /\ EmissionsForget

-----------------------------------------------------------------------------
(* The types, and what a thread has while it asks.                         *)

Asking == {"resolve", "generation", "lookup", "found", "compile", "execute",
           "store", "answered", "raised"}

ThreadIsTyped(t) ==
    /\ pc[t] \in Asking => InScope(t) /\ asked[t] \in Questions /\ since[t] \in Starts
    /\ pc[t] \in {"generation", "execute"} => compiled[t] \in Snapshots
    /\ pc[t] \in {"lookup", "found", "store"} => key[t] \in Keys \ {None}
    /\ pc[t] \notin Asking \ {"resolve", "generation"} => key[t] = None
    /\ pc[t] \in {"store", "answered"} => answer[t] \in Answers

TypedInv == TypeOK /\ \A t \in Threads : ThreadIsTyped(t)

-----------------------------------------------------------------------------
(* The inductive invariant behind AnswersRestOnKnownFacts, beside the      *)
(* types.                                                                  *)

\* Nothing is filed of a transaction, nor of a question that reaches live rows;
\* outside transactions a thread has no change of its own that is not committed.
ThreadKnowsItsFacts(t) ==
    /\ ~InTransaction(t) => wrote[t] \subseteq committed
    /\ pc[t] \in Asking => since[t].live <= live
    /\ pc[t] = "generation" \/ key[t] # None =>
          ~InTransaction(t) /\ asked[t] \notin LiveQuestions
    /\ pc[t] \in {"store", "answered"} =>
          /\ ~InTransaction(t) => answer[t].seen \subseteq committed
          /\ asked[t] \in LiveQuestions => answer[t].live >= since[t].live

KnownInv ==
    /\ \A e \in Evaluators : \A x \in cache[e] : x.answer.seen \subseteq committed
    /\ \A t \in Threads : ThreadKnowsItsFacts(t)

-----------------------------------------------------------------------------
(* The inductive invariant behind AnswersSeeOwnWrites.                     *)

\* What a thread is doing, and what it wrote while it does it.
ThreadIsConsistent(t) ==
    /\ transaction[t] = "own" <=> pc[t] = "commit"
    /\ ~InTransaction(t) /\ pc[t] # "mark" => wrote[t] = {}
    /\ ~InTransaction(t) => wrote[t] \subseteq committed
    /\ ThreadIsTyped(t)

ThreadsAreConsistent == \A t \in Threads : ThreadIsConsistent(t)

\* A write in a transaction of its own marks once, after its commit, and completes
\* by marking.
MarksFollowCommits ==
    /\ \A c \in Changes : markOf[c] <= marked /\ (markOf[c] > 0 => c \in committed)
    /\ \A c \in completed : markOf[c] > 0
    /\ \A t \in Threads : \A c \in wrote[t] : markOf[c] = 0
    /\ \A t, u \in Threads : wrote[t] \cap wrote[u] # {} => t = u

\* A change that had marked when a generation was read.
MarkedBy(c, generation) == markOf[c] > 0 /\ markOf[c] <= generation

\* An answer filed under a generation sees what had marked by then, and a thread
\* looks only under generations that count what had completed when it was asked.
EntryCountsItsMarks(x) ==
    /\ x.key.relationships <= marked
    /\ \A c \in Changes : MarkedBy(c, x.key.relationships) => c \in x.answer.seen

AnswerCountsItsMarks(t) ==
    /\ pc[t] \in Asking => \A c \in since[t].completed : markOf[c] > 0
    /\ pc[t] \in Asking /\ key[t] # None =>
          /\ key[t].relationships <= marked
          /\ \A c \in since[t].completed : MarkedBy(c, key[t].relationships)
    /\ pc[t] = "store" =>
          \A c \in Changes : MarkedBy(c, key[t].relationships) => c \in answer[t].seen
    /\ pc[t] \in {"store", "answered"} => since[t].completed \subseteq answer[t].seen

AnswersCountTheirMarks ==
    /\ \A e \in Evaluators : \A x \in cache[e] : EntryCountsItsMarks(x)
    /\ \A t \in Threads : AnswerCountsItsMarks(t)

IInv ==
    /\ TypeOK
    /\ ThreadsAreConsistent
    /\ MarksFollowCommits
    /\ AnswersCountTheirMarks

-----------------------------------------------------------------------------
(* The inductive invariant behind KeptAnswersFit, for evaluators that      *)
(* threads do not share.                                                   *)

\* No evaluator may be installed by two threads.
Unshared == \A t, u \in Threads : Installable[t] \cap Installable[u] # {} => t = u

\* No caller has a transaction open around its writes and its questions.
OwnTransactions == \A t \in Threads : transaction[t] # "caller"

\* The snapshots that something may be compiled from, or is named by.
InUse ==
    ({shared} \cup {compiled[t] : t \in Threads}
        \cup {pins[e][t] : e \in Evaluators, t \in Threads}) \ {None}

\* What is filed under a generation rests on no policy before those it names.
Covers(generation, revision) ==
    /\ generation <= published
    /\ \A s \in InUse : s.generation <= generation => s.revision <= revision

PoliciesAreOrdered ==
    \A s \in InUse : s.revision <= policy /\ Covers(s.generation, s.revision)

EvaluatorsAreApart ==
    /\ \A t \in Threads : \A i \in 1..Len(scopes[t]) : scopes[t][i] \in Installable[t]
    /\ \A e \in Evaluators : forgotten[e] \subseteq committed

EntryFits(e, x) ==
    Covers(x.key.schema, x.answer.revision) /\ forgotten[e] \subseteq x.answer.seen

AnswerFits(t) ==
    /\ pc[t] \in Asking => since[t].forgotten = forgotten[Active(t)]
    /\ pc[t] \in {"generation", "lookup", "found", "compile"} =>
          compiled[t] # None /\ pins[Active(t)][t] \in {None, compiled[t]}
    /\ pc[t] \in {"lookup", "found", "compile"} /\ key[t] # None =>
          key[t].schema = compiled[t].generation
    /\ pc[t] = "execute" /\ key[t] # None => Covers(key[t].schema, compiled[t].revision)
    /\ pc[t] = "store" => Covers(key[t].schema, answer[t].revision)
    /\ pc[t] \in {"store", "answered"} =>
          compiled[t] # None /\ answer[t].revision >= compiled[t].revision
              /\ since[t].forgotten \subseteq answer[t].seen

AnswersFit ==
    /\ \A e \in Evaluators : \A x \in cache[e] : EntryFits(e, x)
    /\ \A t \in Threads : AnswerFits(t)

FitInv == PoliciesAreOrdered /\ EvaluatorsAreApart /\ AnswersFit
=============================================================================
