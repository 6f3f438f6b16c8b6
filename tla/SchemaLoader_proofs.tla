------------------------ MODULE SchemaLoader_proofs ------------------------
(***************************************************************************)
(* Proofs about SchemaLoader, for every number of threads, parts, values,  *)
(* attempts and revisions, of a process whose save handlers check no       *)
(* permission (HandlersRead = FALSE).  With it a save handler can share a  *)
(* policy under a revision that does not name it.  The last part is about  *)
(* the pins of the scopes: what holds there beside IInv is ScopeInv, that  *)
(* what a thread is looking for was published, unless the thread is in a   *)
(* transaction, and is no older than what its operation saw at its start.  *)
(***************************************************************************)
EXTENDS SchemaLoader, TLAPS

-----------------------------------------------------------------------------
(* What the parts of a state are made of.                                  *)

\* A policy with its revision is a snapshot, with the generation a pin; neither
\* is None.
LEMMA SnapshotType ==
    ASSUME NEW policy \in Policies, NEW r \in Revisions
    PROVE  /\ Snapshot(policy, r) \in Snapshots
           /\ Snapshot(policy, r).rows = policy
           /\ Snapshot(policy, r).revision = r
           /\ Snapshot(policy, r) # None
BY NoneAssumption DEF Snapshot, Snapshots

\* Conversely, what a snapshot and a pin hold.
LEMMA SnapshotParts ==
    ASSUME NEW s \in Snapshots
    PROVE  s.rows \in Policies /\ s.revision \in Revisions /\ s # None
BY NoneAssumption DEF Snapshots

\* A snapshot with an invalidation generation is a pin of the same policy.
LEMMA PinType ==
    ASSUME NEW s \in Snapshots, NEW g \in Revisions
    PROVE  /\ PinOf(s, g) \in Pins
           /\ PinOf(s, g).rows = s.rows
           /\ PinOf(s, g).revision = s.revision
           /\ PinOf(s, g) # None
BY NoneAssumption, SnapshotParts DEF PinOf, Pins

\* What a pin holds.
LEMMA PinParts ==
    ASSUME NEW s \in Pins
    PROVE  s.rows \in Policies /\ s.revision \in Revisions /\ s # None
BY NoneAssumption DEF Pins

\* None, and nothing read, have the types they are used with.
LEMMA NothingType == Nothing \in [Parts -> Values \cup {None}]
BY DEF Nothing

\* A load starts at a first statement, and may already be past the last one.
LEMMA FirstPart == 1 \in 1..(NumParts + 1)
BY BoundAssumption

\* Both no attempt and a first attempt are within the bound.
LEMMA FirstAttempt == 0 \in 0..Attempts /\ 1 \in 0..Attempts
BY BoundAssumption

\* Revisions are numbers up to the bound, and 0 (nothing published) is one.
LEMMA RevisionsAreNaturals ==
    /\ \A r \in Revisions : r \in Nat /\ r <= MaxRevision
    /\ \A r \in Nat : r <= MaxRevision => r \in Revisions
    /\ 0 \in Revisions
BY BoundAssumption DEF Revisions

\* What a thread sees is a policy with a revision already issued.
LEMMA SeenType ==
    ASSUME IInv, NEW t \in Threads
    PROVE  /\ PolicySeenBy(t) \in Policies
           /\ RevisionSeenBy(t) \in Revisions
           /\ RevisionSeenBy(t) <= issued
<1>1. CASE holder = t
  <2>1. draft \in Snapshots
    BY <1>1, NoneAssumption DEF IInv, TypeOK, DatabaseTypeOK, RevisionsNamePolicies
  <2>2. draft.revision <= issued
    BY <1>1, NoneAssumption DEF IInv, RevisionsNamePolicies
  <2>3. QED
    BY <1>1, <2>1, <2>2, SnapshotParts DEF PolicySeenBy, RevisionSeenBy
<1>2. CASE holder # t
  BY <1>2 DEF IInv, TypeOK, DatabaseTypeOK, RevisionsNamePolicies, PolicySeenBy,
              RevisionSeenBy
<1>3. QED
  BY <1>1, <1>2

\* In an operation, it is the policy that revision names.
LEMMA SeenIsNamed ==
    ASSUME IInv, NEW t \in Threads, pc[t] # "idle"
    PROVE  PolicySeenBy(t) = policyAt[RevisionSeenBy(t)]
<1>1. CASE holder = t
  <2>1. ~dirty
    BY <1>1 DEF IInv, OperationsReadOnly
  <2>2. draft.rows = policyAt[draft.revision]
    BY <1>1, <2>1, NoneAssumption DEF IInv, RevisionsNamePolicies
  <2>3. QED
    BY <1>1, <2>2 DEF PolicySeenBy, RevisionSeenBy
<1>2. CASE holder # t
  BY <1>2 DEF IInv, RevisionsNamePolicies, PolicySeenBy, RevisionSeenBy
<1>3. QED
  BY <1>1, <1>2

-----------------------------------------------------------------------------
(* Steps that leave the database alone.                                    *)

\* The database facts survive a step that leaves it and the generation alone.
LEMMA DatabaseKept ==
    ASSUME IInv, UNCHANGED database, UNCHANGED invalidation
    PROVE  DatabaseTypeOK' /\ RevisionsNamePolicies'
BY DEF IInv, TypeOK, DatabaseTypeOK, RevisionsNamePolicies, database

\* So does what every thread sees.
LEMMA SightKept ==
    ASSUME UNCHANGED database
    PROVE  \A t \in Threads :
               PolicySeenBy(t)' = PolicySeenBy(t) /\ RevisionSeenBy(t)' = RevisionSeenBy(t)
BY DEF database, PolicySeenBy, RevisionSeenBy

\* An operation asks for a revision it sees, or forgets the one it asked for.
LEMMA OperationsKept ==
    ASSUME IInv, UNCHANGED database,
           \A u \in Threads :
               /\ pc'[u] # "idle" => pc[u] # "idle" \/ ~(dirty /\ holder = u)
               /\ wanted'[u] \in {wanted[u], 0, RevisionSeenBy(u)}
    PROVE  OperationsReadOnly'
<1>1. SUFFICES ASSUME NEW u \in Threads
               PROVE  /\ pc'[u] # "idle" => ~(dirty /\ holder = u)
                      /\ wanted'[u] <= issued
                      /\ holder \notin {None, u} =>
                             draft.revision = revision \/ wanted'[u] # draft.revision
  BY DEF OperationsReadOnly, database
<1>2. pc'[u] # "idle" => ~(dirty /\ holder = u)
  BY DEF IInv, OperationsReadOnly
<1>3. issued \in Nat /\ revision \in Nat
  BY RevisionsAreNaturals DEF IInv, TypeOK, DatabaseTypeOK
<1>4. wanted'[u] <= issued
  BY <1>3, SeenType DEF IInv, OperationsReadOnly
<1>5. ASSUME holder \notin {None, u}, draft.revision # revision
      PROVE  wanted'[u] # draft.revision
  <2>1. draft \in Snapshots
    BY <1>5, NoneAssumption DEF IInv, TypeOK, DatabaseTypeOK, RevisionsNamePolicies
  <2>2. draft.revision \in Nat
    BY <2>1, SnapshotParts, RevisionsAreNaturals
  <2>3. revision <= draft.revision
    BY <1>5 DEF IInv, RevisionsNamePolicies
  <2>4. RevisionSeenBy(u) = revision
    BY <1>5 DEF RevisionSeenBy
  <2>5. wanted[u] # draft.revision
    BY <1>5 DEF IInv, OperationsReadOnly
  <2>6. QED
    BY <1>3, <1>5, <2>2, <2>3, <2>4, <2>5
<1>6. QED
  BY <1>2, <1>4, <1>5

\* A load that only began, or that did not move, is as whole as before.
LEMMA LoadsKept ==
    ASSUME IInv, UNCHANGED database,
           \A u \in Threads :
               /\ pc'[u] \in {"lookup", "load", "live", "fallback"} =>
                     \/ next'[u] = 1
                     \/ /\ pc[u] \in {"lookup", "load", "live", "fallback"}
                        /\ wanted'[u] = wanted[u] /\ next'[u] = next[u] /\ got'[u] = got[u]
               /\ pc'[u] = "publish" =>
                     pc[u] = "publish" /\ wanted'[u] = wanted[u] /\ got'[u] = got[u]
    PROVE  LoadsAreWhole'
<1>1. SUFFICES ASSUME NEW u \in Threads
               PROVE  /\ pc'[u] \in {"lookup", "load", "live", "fallback"}
                            /\ RevisionSeenBy(u) = wanted'[u] =>
                            \A p \in Parts :
                               p < next'[u] => got'[u][p] = policyAt[wanted'[u]][p]
                      /\ pc'[u] = "publish" => got'[u] = policyAt[wanted'[u]]
  BY SightKept DEF LoadsAreWhole, database
<1>2. \A p \in Parts : ~(p < 1)
  BY BoundAssumption DEF Parts
<1>3. QED
  BY <1>2 DEF IInv, LoadsAreWhole

\* What a step keeps of the snapshots, if it takes each from those there are.
LEMMA SnapshotsKept ==
    ASSUME IInv, UNCHANGED database,
           Truthful(cached'),
           \A r \in Revisions : loads'[r] # None => Truthful(loads'[r].snapshot),
           \A u \in Threads :
               Truthful(pinned'[u]) /\ Truthful(held'[u]) /\ Truthful(snap'[u]),
           \A u \in Threads : pc'[u] = "ready" => snap'[u] # None
    PROVE  SnapshotsAreTruthful'
BY DEF SnapshotsAreTruthful, Truthful, database

-----------------------------------------------------------------------------
(* Evaluator scopes.                                                       *)

\* Opening, closing or invalidating an evaluator scope only drops a pin.
LEMMA ScopeStepKeeps ==
    ASSUME IInv, NEW t \in Threads, ScopeStep(t)
    PROVE  IInv'
<1>1. UNCHANGED database /\ UNCHANGED process /\ UNCHANGED locals /\ UNCHANGED held
  BY DEF ScopeStep, OpenScope, CloseScope, InvalidateEvaluator
<1>2. \A u \in Threads : pinned'[u] \in {pinned[u], None}
  BY DEF ScopeStep, OpenScope, CloseScope, InvalidateEvaluator, IInv, TypeOK, ScopesTypeOK
<1>3. DatabaseTypeOK' /\ RevisionsNamePolicies'
  BY <1>1, DatabaseKept DEF process
<1>4. ScopesTypeOK'
  BY <1>1 DEF ScopeStep, OpenScope, CloseScope, InvalidateEvaluator, IInv, TypeOK, ScopesTypeOK
<1>5. ProcessTypeOK' /\ LocalsTypeOK'
  BY <1>1 DEF process, locals, IInv, TypeOK, ProcessTypeOK, LocalsTypeOK
<1>6. OperationsReadOnly'
  BY <1>1, OperationsKept DEF locals, IInv, OperationsReadOnly
<1>7. SnapshotsAreTruthful'
  BY <1>1, <1>2, SnapshotsKept DEF process, locals, IInv, SnapshotsAreTruthful, Truthful
<1>8. LoadsAreWhole'
  BY <1>1, LoadsKept DEF locals
<1>9. QED
  BY <1>3, <1>4, <1>5, <1>6, <1>7, <1>8 DEF IInv, TypeOK

-----------------------------------------------------------------------------
(* The steps of an operation.                                              *)

\* An operation starts outside the middle of a save: the one place where
\* HandlersRead matters.
LEMMA StartOperationKeeps ==
    ASSUME IInv, ~HandlersRead, NEW t \in Threads, StartOperation(t)
    PROVE  IInv'
<1>1. UNCHANGED database /\ UNCHANGED process /\ UNCHANGED scopes
      /\ UNCHANGED <<seen, wanted, attempt, next, got, snap>>
  BY DEF StartOperation
<1>2. \A u \in Threads : pc'[u] = IF u = t THEN "resolve" ELSE pc[u]
  BY DEF StartOperation, IInv, TypeOK, LocalsTypeOK
<1>3. DatabaseTypeOK' /\ RevisionsNamePolicies'
  BY <1>1, DatabaseKept DEF process
<1>4. ProcessTypeOK' /\ ScopesTypeOK'
  BY <1>1 DEF process, scopes, IInv, TypeOK, ProcessTypeOK, ScopesTypeOK
<1>5. LocalsTypeOK'
  BY <1>1, SeenType DEF StartOperation, IInv, TypeOK, LocalsTypeOK, Phases
<1>6. OperationsReadOnly'
  BY <1>1, <1>2, OperationsKept DEF StartOperation, MayRead
<1>7. SnapshotsAreTruthful'
  BY <1>1, <1>2, SnapshotsKept DEF process, scopes, IInv, SnapshotsAreTruthful
<1>8. LoadsAreWhole'
  BY <1>1, <1>2, LoadsKept
<1>9. QED
  BY <1>3, <1>4, <1>5, <1>6, <1>7, <1>8 DEF IInv, TypeOK

\* A pin that is honoured is as truthful as when it was taken.
LEMMA ResolveKeeps ==
    ASSUME IInv, NEW t \in Threads, Resolve(t)
    PROVE  IInv'
<1>1. UNCHANGED database /\ UNCHANGED process
      /\ UNCHANGED <<evaluator, held, wanted, next, got, startedAt>>
  BY DEF Resolve
<1>2. /\ pc[t] = "resolve"
      /\ \A u \in Threads : pinned'[u] \in {pinned[u], None}
      /\ \A u \in Threads : u # t => pc'[u] = pc[u] /\ snap'[u] = snap[u]
      /\ pc'[t] \in {"ready", "revision"}
  BY DEF Resolve, IInv, TypeOK, LocalsTypeOK, ScopesTypeOK
<1>3. /\ Truthful(snap'[t])
      /\ snap'[t] \in Snapshots \cup {None}
      /\ pc'[t] = "ready" => snap'[t] # None
  <2>1. ASSUME NEW pin \in {ScopePin(t), held[t]}, Honoured(pin),
               snap' = [snap EXCEPT ![t] = Snapshot(pin.rows, pin.revision)]
        PROVE  Truthful(snap'[t]) /\ snap'[t] \in Snapshots /\ snap'[t] # None
    <3>1. pin \in Pins /\ Truthful(pin)
      BY <2>1 DEF ScopePin, Honoured, IInv, TypeOK, ScopesTypeOK, SnapshotsAreTruthful
    <3>2. snap'[t] = Snapshot(pin.rows, pin.revision)
      BY <2>1 DEF IInv, TypeOK, LocalsTypeOK
    <3>3. QED
      BY <3>1, <3>2, PinParts, SnapshotType DEF Truthful
  <2>2. ASSUME snap' = snap
        PROVE  Truthful(snap'[t]) /\ snap'[t] \in Snapshots \cup {None}
    BY <2>2 DEF IInv, TypeOK, LocalsTypeOK, SnapshotsAreTruthful
  <2>3. CASE \E pin \in {ScopePin(t), held[t]} :
                /\ Honoured(pin)
                /\ snap' = [snap EXCEPT ![t] = Snapshot(pin.rows, pin.revision)]
    BY <2>1, <2>3
  <2>4. CASE snap' = snap /\ pc' = [pc EXCEPT ![t] = "revision"]
    BY <2>2, <2>4 DEF IInv, TypeOK, LocalsTypeOK
  <2>5. QED
    BY <2>3, <2>4 DEF Resolve
<1>4. DatabaseTypeOK' /\ RevisionsNamePolicies'
  BY <1>1, DatabaseKept DEF process
<1>5. ProcessTypeOK' /\ ScopesTypeOK'
  BY <1>1 DEF Resolve, process, IInv, TypeOK, ProcessTypeOK, ScopesTypeOK
<1>6. LocalsTypeOK'
  <2>1. snap' \in [Threads -> Snapshots \cup {None}]
    BY <1>3 DEF Resolve, IInv, TypeOK, LocalsTypeOK
  <2>2. pc' \in [Threads -> Phases] /\ seen' \in [Threads -> Revisions]
    BY DEF Resolve, IInv, TypeOK, LocalsTypeOK, ProcessTypeOK, Phases
  <2>3. attempt' \in [Threads -> 0..Attempts]
    BY FirstAttempt DEF Resolve, IInv, TypeOK, LocalsTypeOK
  <2>4. QED
    BY <1>1, <2>1, <2>2, <2>3 DEF IInv, TypeOK, LocalsTypeOK
<1>7. OperationsReadOnly'
  BY <1>1, <1>2, OperationsKept
<1>8. SnapshotsAreTruthful'
  BY <1>1, <1>2, <1>3, SnapshotsKept DEF process, IInv, SnapshotsAreTruthful, Truthful
<1>9. LoadsAreWhole'
  BY <1>1, <1>2, LoadsKept
<1>10. QED
  BY <1>4, <1>5, <1>6, <1>7, <1>8, <1>9 DEF IInv, TypeOK

\* The revision an attempt reads is one its thread sees.
LEMMA ReadRevisionKeeps ==
    ASSUME IInv, NEW t \in Threads, ReadRevision(t)
    PROVE  IInv'
<1>1. UNCHANGED database /\ UNCHANGED scopes
      /\ UNCHANGED <<loads, invalidation, seen, attempt, snap, startedAt>>
  BY DEF ReadRevision
<1>2. /\ pc[t] = "revision" /\ cached' \in {cached, None}
      /\ pc' = [pc EXCEPT ![t] = IF RevisionSeenBy(t) = 0 THEN "live" ELSE "lookup"]
      /\ wanted' = [wanted EXCEPT ![t] = RevisionSeenBy(t)]
      /\ next' = [next EXCEPT ![t] = 1] /\ got' = [got EXCEPT ![t] = Nothing]
  BY DEF ReadRevision
<1>3. \A u \in Threads :
          /\ u # t => pc'[u] = pc[u] /\ wanted'[u] = wanted[u] /\ next'[u] = next[u]
                      /\ got'[u] = got[u]
          /\ u = t => pc'[u] \in {"live", "lookup"} /\ wanted'[u] = RevisionSeenBy(u)
                      /\ next'[u] = 1
  BY <1>2 DEF IInv, TypeOK, LocalsTypeOK
<1>4. DatabaseTypeOK' /\ RevisionsNamePolicies'
  BY <1>1, DatabaseKept
<1>5. ProcessTypeOK' /\ ScopesTypeOK'
  BY <1>1, <1>2 DEF scopes, IInv, TypeOK, ProcessTypeOK, ScopesTypeOK
<1>6. LocalsTypeOK'
  <2>1. pc' \in [Threads -> Phases]
    BY <1>2 DEF IInv, TypeOK, LocalsTypeOK, Phases
  <2>2. wanted' \in [Threads -> Revisions] /\ next' \in [Threads -> 1..(NumParts + 1)]
        /\ got' \in [Threads -> [Parts -> Values \cup {None}]]
    BY <1>2, SeenType, FirstPart, NothingType DEF IInv, TypeOK, LocalsTypeOK
  <2>3. QED
    BY <1>1, <2>1, <2>2 DEF IInv, TypeOK, LocalsTypeOK
<1>7. OperationsReadOnly'
  BY <1>1, <1>2, <1>3, OperationsKept
<1>8. SnapshotsAreTruthful'
  BY <1>1, <1>2, <1>3, SnapshotsKept DEF scopes, IInv, SnapshotsAreTruthful, Truthful
<1>9. LoadsAreWhole'
  BY <1>1, <1>3, LoadsKept
<1>10. QED
  BY <1>4, <1>5, <1>6, <1>7, <1>8, <1>9 DEF IInv, TypeOK

\* Whatever the lookup finds, shared or delivered, was truthful already.
LEMMA LookupKeeps ==
    ASSUME IInv, NEW t \in Threads, Lookup(t)
    PROVE  IInv'
<1>1. UNCHANGED database /\ UNCHANGED scopes
      /\ UNCHANGED <<cached, invalidation, seen, wanted, attempt, next, got, startedAt>>
  BY DEF Lookup
<1>2. /\ pc[t] = "lookup" /\ wanted[t] \in Revisions
      /\ \A u \in Threads : u # t => pc'[u] = pc[u] /\ snap'[u] = snap[u]
  BY DEF Lookup, IInv, TypeOK, LocalsTypeOK
<1>3. /\ pc'[t] \in {"recheck", "load", "wait"} \cup Errors
      /\ pc' \in [Threads -> Phases]
  BY DEF Lookup, IInv, TypeOK, LocalsTypeOK, Phases, Raised
<1>4. /\ snap' \in [Threads -> Snapshots \cup {None}]
      /\ Truthful(snap'[t])
  <2>1. loads[wanted[t]] # None => loads[wanted[t]].snapshot \in Snapshots \cup {None}
                                   /\ Truthful(loads[wanted[t]].snapshot)
    BY <1>2 DEF IInv, TypeOK, ProcessTypeOK, Loads, SnapshotsAreTruthful
  <2>2. SharedHit(wanted[t]) => cached \in Snapshots /\ Truthful(cached)
    BY DEF SharedHit, IInv, TypeOK, ProcessTypeOK, SnapshotsAreTruthful
  <2>3. snap \in [Threads -> Snapshots \cup {None}] /\ Truthful(snap[t])
    BY DEF IInv, TypeOK, LocalsTypeOK, SnapshotsAreTruthful
  <2>4. QED
    BY <2>1, <2>2, <2>3 DEF Lookup
<1>5. /\ loads' \in [Revisions -> Loads \cup {None}]
      /\ \A r \in Revisions : loads'[r] # None => Truthful(loads'[r].snapshot)
  <2>1. CASE loads' = loads
    BY <2>1 DEF IInv, TypeOK, ProcessTypeOK, SnapshotsAreTruthful
  <2>2. CASE loads' = [loads EXCEPT ![wanted[t]] =
                         [owner |-> t, state |-> "pending", snapshot |-> None]]
    <3>1. [owner |-> t, state |-> "pending", snapshot |-> None] \in Loads
      BY DEF Loads
    <3>2. Truthful(None)
      BY DEF Truthful
    <3>3. QED
      BY <1>2, <2>2, <3>1, <3>2 DEF IInv, TypeOK, ProcessTypeOK, SnapshotsAreTruthful
  <2>3. QED
    BY <2>1, <2>2 DEF Lookup
<1>6. DatabaseTypeOK' /\ RevisionsNamePolicies'
  BY <1>1, DatabaseKept
<1>7. ProcessTypeOK' /\ ScopesTypeOK'
  BY <1>1, <1>5 DEF scopes, IInv, TypeOK, ProcessTypeOK, ScopesTypeOK
<1>8. LocalsTypeOK'
  BY <1>1, <1>3, <1>4 DEF IInv, TypeOK, LocalsTypeOK
<1>9. OperationsReadOnly'
  BY <1>1, <1>2, OperationsKept
<1>10. SnapshotsAreTruthful'
  BY <1>1, <1>2, <1>3, <1>4, <1>5, SnapshotsKept
     DEF scopes, Errors, IInv, SnapshotsAreTruthful
<1>11. LoadsAreWhole'
  BY <1>1, <1>2, <1>3, LoadsKept DEF Errors
<1>12. QED
  BY <1>6, <1>7, <1>8, <1>9, <1>10, <1>11 DEF IInv, TypeOK

\* A part read while the revision is the one wanted belongs to it.
LEMMA ReadPartKeeps ==
    ASSUME IInv, NEW t \in Threads, ReadPart(t)
    PROVE  IInv'
<1>1. UNCHANGED database /\ UNCHANGED process /\ UNCHANGED scopes
      /\ UNCHANGED <<pc, seen, wanted, attempt, snap, startedAt>>
  BY DEF ReadPart
<1>2. /\ pc[t] \in {"load", "live", "fallback"} /\ next[t] \in Parts
      /\ got' = [got EXCEPT ![t][next[t]] = PolicySeenBy(t)[next[t]]]
      /\ next' = [next EXCEPT ![t] = next[t] + 1]
  BY DEF ReadPart
<1>3. DatabaseTypeOK' /\ RevisionsNamePolicies'
  BY <1>1, DatabaseKept DEF process
<1>4. ProcessTypeOK' /\ ScopesTypeOK'
  BY <1>1 DEF process, scopes, IInv, TypeOK, ProcessTypeOK, ScopesTypeOK
<1>5. LocalsTypeOK'
  <2>1. PolicySeenBy(t)[next[t]] \in Values
    BY <1>2, SeenType DEF Policies
  <2>2. got' \in [Threads -> [Parts -> Values \cup {None}]]
    BY <1>2, <2>1 DEF IInv, TypeOK, LocalsTypeOK
  <2>3. next' \in [Threads -> 1..(NumParts + 1)]
    <3>1. next[t] + 1 \in 1..(NumParts + 1)
      BY <1>2, BoundAssumption DEF Parts
    <3>2. QED
      BY <1>2, <3>1 DEF IInv, TypeOK, LocalsTypeOK
  <2>4. QED
    BY <1>1, <2>2, <2>3 DEF IInv, TypeOK, LocalsTypeOK
<1>6. OperationsReadOnly'
  BY <1>1, OperationsKept DEF IInv, OperationsReadOnly
<1>7. SnapshotsAreTruthful'
  BY <1>1, SnapshotsKept DEF process, scopes, IInv, SnapshotsAreTruthful
<1>8. LoadsAreWhole'
  <2>1. SUFFICES ASSUME NEW u \in Threads
                 PROVE  /\ pc[u] \in {"lookup", "load", "live", "fallback"}
                              /\ RevisionSeenBy(u) = wanted[u] =>
                              \A p \in Parts :
                                 p < next'[u] => got'[u][p] = policyAt[wanted[u]][p]
                        /\ pc[u] = "publish" => got'[u] = policyAt[wanted[u]]
    BY <1>1, SightKept DEF LoadsAreWhole, database
  <2>2. CASE u # t
    BY <1>2, <2>2 DEF IInv, TypeOK, LocalsTypeOK, LoadsAreWhole
  <2>3. CASE u = t
    <3>1. ASSUME pc[t] \in {"load", "live", "fallback"}, RevisionSeenBy(t) = wanted[t],
                 NEW p \in Parts, p < next'[t]
          PROVE  got'[t][p] = policyAt[wanted[t]][p]
      <4>1. PolicySeenBy(t) = policyAt[wanted[t]]
        BY <3>1, SeenIsNamed
      <4>2. CASE p = next[t]
        BY <1>2, <4>1, <4>2 DEF IInv, TypeOK, LocalsTypeOK
      <4>3. CASE p # next[t]
        <5>1. next'[t] = next[t] + 1 /\ got'[t][p] = got[t][p]
          BY <1>2, <4>3 DEF IInv, TypeOK, LocalsTypeOK
        <5>2. p < next[t]
          BY <1>2, <3>1, <4>3, <5>1, BoundAssumption DEF Parts
        <5>3. QED
          BY <3>1, <5>1, <5>2 DEF IInv, LoadsAreWhole
      <4>4. QED
        BY <4>2, <4>3
    <3>2. QED
      BY <1>2, <2>3, <3>1
  <2>4. QED
    BY <2>2, <2>3
<1>9. QED
  BY <1>3, <1>4, <1>5, <1>6, <1>7, <1>8 DEF IInv, TypeOK

-----------------------------------------------------------------------------
(* The end of a load.                                                      *)

\* What delivering a load does: its owner and those who wait get the same
\* snapshot and leave the load; nobody else is touched.
LEMMA SettleDelivers ==
    ASSUME IInv, NEW t \in Threads, pc[t] \in {"load", "publish"},
           NEW state \in {"delivered"} \cup Errors,
           NEW s \in Snapshots \cup {None}, Truthful(s), Settle(t, state, s)
    PROVE  /\ loads' \in [Revisions -> Loads \cup {None}]
           /\ \A r \in Revisions : loads'[r] # None => Truthful(loads'[r].snapshot)
           /\ snap' \in [Threads -> Snapshots \cup {None}]
           /\ \A u \in Threads : Truthful(snap'[u])
           /\ pc' \in [Threads -> Phases]
           /\ \A u \in Threads :
                 \/ pc'[u] = pc[u] /\ u # t /\ snap'[u] = snap[u]
                 \/ pc'[u] \in {"settled", "recheck"} \cup Errors
                    /\ pc[u] \in {"load", "publish", "wait"}
           /\ \A u \in Threads : u # t => got'[u] = got[u] /\ next'[u] = next[u]
           /\ got' \in [Threads -> [Parts -> Values \cup {None}]]
           /\ next' \in [Threads -> 1..(NumParts + 1)]
<1> DEFINE waiting == {f \in Threads : pc[f] = "wait" /\ wanted[f] = wanted[t]}
<1>1. /\ loads' = [loads EXCEPT ![wanted[t]] =
                     [owner |-> t, state |-> state, snapshot |-> s]]
      /\ snap' = [u \in Threads |-> IF u = t \/ u \in waiting THEN s ELSE snap[u]]
      /\ pc' = [u \in Threads |->
                  IF u = t THEN "settled"
                  ELSE IF u \notin waiting THEN pc[u]
                  ELSE IF state \in Errors THEN state ELSE "recheck"]
      /\ got' = [got EXCEPT ![t] = Nothing]
      /\ next' = [next EXCEPT ![t] = 1]
  BY DEF Settle
<1>2. /\ loads' \in [Revisions -> Loads \cup {None}]
      /\ \A r \in Revisions : loads'[r] # None => Truthful(loads'[r].snapshot)
  <2>1. [owner |-> t, state |-> state, snapshot |-> s] \in Loads
    BY DEF Loads
  <2>2. wanted[t] \in Revisions
    BY DEF IInv, TypeOK, LocalsTypeOK
  <2>3. QED
    BY <1>1, <2>1, <2>2 DEF IInv, TypeOK, ProcessTypeOK, SnapshotsAreTruthful
<1>3. /\ snap' \in [Threads -> Snapshots \cup {None}]
      /\ \A u \in Threads : Truthful(snap'[u])
  BY <1>1 DEF IInv, TypeOK, LocalsTypeOK, SnapshotsAreTruthful
<1>4. pc' \in [Threads -> Phases]
  BY <1>1 DEF IInv, TypeOK, LocalsTypeOK, Phases, Raised, Errors
<1>5. \A u \in Threads :
         \/ pc'[u] = pc[u] /\ u # t /\ snap'[u] = snap[u]
         \/ pc'[u] \in {"settled", "recheck"} \cup Errors
            /\ pc[u] \in {"load", "publish", "wait"}
  BY <1>1
<1>6. /\ \A u \in Threads : u # t => got'[u] = got[u] /\ next'[u] = next[u]
      /\ got' \in [Threads -> [Parts -> Values \cup {None}]]
      /\ next' \in [Threads -> 1..(NumParts + 1)]
  BY <1>1, NothingType, FirstPart DEF IInv, TypeOK, LocalsTypeOK
<1>7. QED
  BY <1>2, <1>3, <1>4, <1>5, <1>6

\* So a step that delivers a load, and shares at most what it delivers, keeps
\* the invariant.
LEMMA SettleKeeps ==
    ASSUME IInv, NEW t \in Threads, pc[t] \in {"load", "publish"},
           NEW state \in {"delivered"} \cup Errors,
           NEW s \in Snapshots \cup {None}, Truthful(s), Settle(t, state, s),
           UNCHANGED database, UNCHANGED scopes,
           UNCHANGED <<invalidation, seen, wanted, attempt, startedAt>>,
           cached' \in {cached, s}
    PROVE  IInv'
<1>1. DatabaseTypeOK' /\ RevisionsNamePolicies'
  BY DatabaseKept
<1>2. ProcessTypeOK' /\ ScopesTypeOK'
  BY SettleDelivers DEF scopes, IInv, TypeOK, ProcessTypeOK, ScopesTypeOK
<1>3. LocalsTypeOK'
  BY SettleDelivers DEF IInv, TypeOK, LocalsTypeOK
<1>4. \A u \in Threads : pc'[u] # "idle" => pc[u] # "idle"
  BY SettleDelivers
<1>5. OperationsReadOnly'
  BY <1>4, OperationsKept
<1>6. SnapshotsAreTruthful'
  <2>1. Truthful(cached')
    BY DEF IInv, SnapshotsAreTruthful
  <2>2. \A u \in Threads : pc'[u] = "ready" => snap'[u] # None
    BY SettleDelivers DEF Errors, IInv, SnapshotsAreTruthful
  <2>3. QED
    BY <2>1, <2>2, SettleDelivers, SnapshotsKept DEF scopes, IInv, SnapshotsAreTruthful
<1>7. LoadsAreWhole'
  <2>1. \A u \in Threads :
           pc'[u] \in {"lookup", "load", "live", "fallback", "publish"} =>
              pc'[u] = pc[u] /\ got'[u] = got[u] /\ next'[u] = next[u]
    BY SettleDelivers DEF Errors
  <2>2. QED
    BY <2>1, LoadsKept
<1>8. QED
  BY <1>1, <1>2, <1>3, <1>5, <1>6, <1>7 DEF IInv, TypeOK

\* A load whose revision is still there at its end read that policy whole.
LEMMA ConfirmKeeps ==
    ASSUME IInv, NEW t \in Threads, Confirm(t)
    PROVE  IInv'
<1>1. pc[t] = "load" /\ Loaded(t) /\ UNCHANGED database /\ UNCHANGED scopes
      /\ UNCHANGED <<cached, invalidation, seen, wanted, attempt, startedAt>>
  BY DEF Confirm
<1>2. Truthful(None)
  BY DEF Truthful
<1>3. CASE Settle(t, "delivered", None) \/ Settle(t, "refused", None)
  BY <1>1, <1>2, <1>3, SettleKeeps DEF Errors
<1>4. CASE /\ RevisionSeenBy(t) = wanted[t] /\ got[t] \in SoundPolicies
           /\ pc' = [pc EXCEPT ![t] = "publish"]
           /\ UNCHANGED <<loads, snap, got, next>>
  <2>1. \A u \in Threads : pc'[u] = IF u = t THEN "publish" ELSE pc[u]
    BY <1>4 DEF IInv, TypeOK, LocalsTypeOK
  <2>2. got[t] = policyAt[wanted[t]]
    <3>1. got[t] \in [Parts -> Values]
      BY <1>4, SoundAssumption DEF Policies
    <3>2. policyAt[wanted[t]] \in [Parts -> Values]
      BY DEF IInv, TypeOK, DatabaseTypeOK, LocalsTypeOK, Policies
    <3>3. \A p \in Parts : p < next[t]
      BY <1>1, BoundAssumption DEF Loaded, Parts, IInv, TypeOK, LocalsTypeOK
    <3>4. \A p \in Parts : got[t][p] = policyAt[wanted[t]][p]
      BY <1>1, <1>4, <3>3 DEF IInv, LoadsAreWhole
    <3>5. QED
      BY <3>1, <3>2, <3>4
  <2>3. DatabaseTypeOK' /\ RevisionsNamePolicies'
    BY <1>1, DatabaseKept
  <2>4. ProcessTypeOK' /\ ScopesTypeOK' /\ LocalsTypeOK'
    BY <1>1, <1>4 DEF scopes, IInv, TypeOK, ProcessTypeOK, ScopesTypeOK, LocalsTypeOK, Phases
  <2>5. OperationsReadOnly'
    BY <1>1, <2>1, OperationsKept
  <2>6. SnapshotsAreTruthful'
    BY <1>1, <1>4, <2>1, SnapshotsKept DEF scopes, IInv, SnapshotsAreTruthful
  <2>7. LoadsAreWhole'
    BY <1>1, <1>4, <2>1, <2>2, SightKept DEF IInv, LoadsAreWhole, database
  <2>8. QED
    BY <2>3, <2>4, <2>5, <2>6, <2>7 DEF IInv, TypeOK
<1>5. Outcome(t) = "whole" => RevisionSeenBy(t) = wanted[t] /\ got[t] \in SoundPolicies
  BY DEF Outcome
<1>6. QED
  BY <1>3, <1>4, <1>5 DEF Confirm

\* So what is shared is the policy its revision names.
LEMMA PublishKeeps ==
    ASSUME IInv, NEW t \in Threads, Publish(t)
    PROVE  IInv'
<1>1. pc[t] = "publish" /\ UNCHANGED database /\ UNCHANGED scopes
      /\ UNCHANGED <<invalidation, seen, wanted, attempt, startedAt>>
  BY DEF Publish
<1>2. Found(t) \in Snapshots /\ Truthful(Found(t)) /\ Truthful(None)
  <2>1. got[t] = policyAt[wanted[t]] /\ got[t] \in Policies /\ wanted[t] \in Revisions
    BY <1>1 DEF IInv, LoadsAreWhole, TypeOK, DatabaseTypeOK, LocalsTypeOK
  <2>2. wanted[t] <= issued
    BY DEF IInv, OperationsReadOnly
  <2>3. QED
    BY <2>1, <2>2, SnapshotType DEF Found, Truthful
<1>3. CASE cached' = Found(t) /\ Settle(t, "delivered", Found(t))
  BY <1>1, <1>2, <1>3, SettleKeeps
<1>4. CASE Settle(t, "delivered", None) /\ UNCHANGED cached
  BY <1>1, <1>2, <1>4, SettleKeeps
<1>5. QED
  BY <1>3, <1>4 DEF Publish

\* An error delivers no snapshot.
LEMMA DatabaseErrorKeeps ==
    ASSUME IInv, NEW t \in Threads, DatabaseError(t)
    PROVE  IInv'
<1>1. UNCHANGED database /\ UNCHANGED scopes
      /\ UNCHANGED <<cached, invalidation, seen, wanted, attempt, startedAt>>
  BY DEF DatabaseError
<1>2. CASE pc[t] = "load" /\ Settle(t, "failed", None)
  <2>1. Truthful(None)
    BY DEF Truthful
  <2>2. QED
    BY <1>1, <1>2, <2>1, SettleKeeps DEF Errors
<1>3. CASE /\ pc[t] \in {"revision", "live", "before", "fallback"}
           /\ pc' = [pc EXCEPT ![t] = "failed"]
           /\ UNCHANGED <<loads, snap, got, next>>
  <2>1. \A u \in Threads : pc'[u] = IF u = t THEN "failed" ELSE pc[u]
    BY <1>3 DEF IInv, TypeOK, LocalsTypeOK
  <2>2. DatabaseTypeOK' /\ RevisionsNamePolicies'
    BY <1>1, DatabaseKept
  <2>3. ProcessTypeOK' /\ ScopesTypeOK' /\ LocalsTypeOK'
    BY <1>1, <1>3
       DEF scopes, IInv, TypeOK, ProcessTypeOK, ScopesTypeOK, LocalsTypeOK, Phases, Raised, Errors
  <2>4. OperationsReadOnly'
    BY <1>1, <1>3, <2>1, OperationsKept
  <2>5. SnapshotsAreTruthful'
    BY <1>1, <1>3, <2>1, SnapshotsKept DEF scopes, IInv, SnapshotsAreTruthful
  <2>6. LoadsAreWhole'
    BY <1>1, <1>3, <2>1, LoadsKept
  <2>7. QED
    BY <2>2, <2>3, <2>4, <2>5, <2>6 DEF IInv, TypeOK
<1>4. QED
  BY <1>2, <1>3 DEF DatabaseError

\* Nor does dropping a load from the table.
LEMMA ForgetKeeps ==
    ASSUME IInv, NEW t \in Threads, Forget(t)
    PROVE  IInv'
<1>1. UNCHANGED database /\ UNCHANGED scopes
      /\ UNCHANGED <<cached, invalidation, seen, wanted, attempt, next, got, snap, startedAt>>
  BY DEF Forget
<1>2. /\ pc[t] = "settled" /\ loads' = [loads EXCEPT ![wanted[t]] = None]
      /\ \A u \in Threads : u # t => pc'[u] = pc[u]
      /\ pc'[t] \in {"recheck"} \cup Errors
      /\ pc' \in [Threads -> Phases]
  BY DEF Forget, IInv, TypeOK, LocalsTypeOK, Phases, Raised
<1>3. DatabaseTypeOK' /\ RevisionsNamePolicies'
  BY <1>1, DatabaseKept
<1>4. ProcessTypeOK' /\ ScopesTypeOK' /\ LocalsTypeOK'
  BY <1>1, <1>2 DEF scopes, IInv, TypeOK, ProcessTypeOK, ScopesTypeOK, LocalsTypeOK
<1>5. OperationsReadOnly'
  BY <1>1, <1>2, OperationsKept
<1>6. SnapshotsAreTruthful'
  <2>1. \A r \in Revisions : loads'[r] \in {loads[r], None}
    BY <1>2 DEF IInv, TypeOK, ProcessTypeOK
  <2>2. QED
    BY <1>1, <1>2, <2>1, SnapshotsKept DEF scopes, Errors, IInv, SnapshotsAreTruthful
<1>7. LoadsAreWhole'
  BY <1>1, <1>2, LoadsKept DEF Errors
<1>8. QED
  BY <1>3, <1>4, <1>5, <1>6, <1>7 DEF IInv, TypeOK

-----------------------------------------------------------------------------
(* The end of the loader, and of the operation.                            *)

\* What is left of the locals of the loader when it returns.
LEMMA ForgetsType ==
    ASSUME IInv, NEW t \in Threads, Forgets(t)
    PROVE  /\ seen' \in [Threads -> Revisions] /\ wanted' \in [Threads -> Revisions]
           /\ attempt' \in [Threads -> 0..Attempts]
           /\ next' \in [Threads -> 1..(NumParts + 1)]
           /\ got' \in [Threads -> [Parts -> Values \cup {None}]]
           /\ \A u \in Threads : wanted'[u] \in {wanted[u], 0}
           /\ \A u \in Threads : u # t => wanted'[u] = wanted[u] /\ next'[u] = next[u]
                                          /\ got'[u] = got[u]
<1>1. seen' \in [Threads -> Revisions] /\ wanted' \in [Threads -> Revisions]
  BY RevisionsAreNaturals DEF Forgets, IInv, TypeOK, LocalsTypeOK
<1>2. attempt' \in [Threads -> 0..Attempts]
  BY FirstAttempt DEF Forgets, IInv, TypeOK, LocalsTypeOK
<1>3. /\ next' \in [Threads -> 1..(NumParts + 1)]
      /\ got' \in [Threads -> [Parts -> Values \cup {None}]]
  BY FirstPart, NothingType DEF Forgets, IInv, TypeOK, LocalsTypeOK
<1>4. /\ \A u \in Threads : wanted'[u] \in {wanted[u], 0}
      /\ \A u \in Threads : u # t => wanted'[u] = wanted[u] /\ next'[u] = next[u]
                                     /\ got'[u] = got[u]
  BY DEF Forgets, IInv, TypeOK, LocalsTypeOK
<1>5. QED
  BY <1>1, <1>2, <1>3, <1>4

\* A step in which thread t leaves the loader with what it found, or for its next
\* attempt, and takes no policy but a truthful one.
LEMMA LeavingKeeps ==
    ASSUME IInv, NEW t \in Threads, pc[t] # "idle",
           UNCHANGED database, UNCHANGED process, evaluator' = evaluator,
           LocalsTypeOK', ScopesTypeOK',
           \A u \in Threads : wanted'[u] \in {wanted[u], 0, RevisionSeenBy(u)},
           pc'[t] \notin {"lookup", "load", "publish"},
           pc'[t] \in {"live", "fallback"} => next'[t] = 1,
           pc'[t] = "ready" => snap'[t] # None,
           Truthful(snap'[t]), Truthful(pinned'[t]), Truthful(held'[t]),
           \A u \in Threads : u # t =>
               /\ pc'[u] = pc[u] /\ wanted'[u] = wanted[u] /\ next'[u] = next[u]
               /\ got'[u] = got[u] /\ snap'[u] = snap[u]
               /\ pinned'[u] = pinned[u] /\ held'[u] = held[u]
    PROVE  IInv'
<1>1. DatabaseTypeOK' /\ RevisionsNamePolicies'
  BY DatabaseKept DEF process
<1>2. ProcessTypeOK'
  BY DEF process, IInv, TypeOK, ProcessTypeOK
<1>3. OperationsReadOnly'
  BY OperationsKept
<1>4. SnapshotsAreTruthful'
  BY SnapshotsKept DEF process, IInv, SnapshotsAreTruthful
<1>5. LoadsAreWhole'
  BY LoadsKept
<1>6. QED
  BY <1>1, <1>2, <1>3, <1>4, <1>5 DEF IInv, TypeOK

\* The pin taken is the snapshot found.
LEMMA RecheckKeeps ==
    ASSUME IInv, NEW t \in Threads, Recheck(t)
    PROVE  IInv'
<1>1. /\ pc[t] = "recheck" /\ UNCHANGED database /\ UNCHANGED process
      /\ UNCHANGED <<evaluator, startedAt>>
  BY DEF Recheck
<1>2. CASE /\ seen[t] = invalidation /\ snap[t] # None
           /\ pc' = [pc EXCEPT ![t] = "ready"]
           /\ \/ pinned' = [pinned EXCEPT ![t] = PinOf(snap[t], seen[t])]
                 /\ UNCHANGED held
              \/ held' = [held EXCEPT ![t] = PinOf(snap[t], seen[t])]
                 /\ UNCHANGED pinned
           /\ Forgets(t) /\ UNCHANGED snap
  <2> DEFINE pin == PinOf(snap[t], seen[t])
  <2>1. snap[t] \in Snapshots /\ seen[t] \in Revisions /\ Truthful(snap[t])
    BY <1>2 DEF IInv, TypeOK, LocalsTypeOK, SnapshotsAreTruthful
  <2>2. pin \in Pins /\ Truthful(pin)
    BY <2>1, PinType, SnapshotParts DEF Truthful
  <2>3. /\ ScopesTypeOK'
        /\ Truthful(pinned'[t]) /\ Truthful(held'[t])
        /\ \A u \in Threads : u # t => pinned'[u] = pinned[u] /\ held'[u] = held[u]
    BY <1>1, <1>2, <2>2 DEF IInv, TypeOK, ScopesTypeOK, SnapshotsAreTruthful
  <2>4. LocalsTypeOK'
    BY <1>1, <1>2, ForgetsType DEF IInv, TypeOK, LocalsTypeOK, Phases
  <2>5. \A u \in Threads : pc'[u] = IF u = t THEN "ready" ELSE pc[u]
    BY <1>2 DEF IInv, TypeOK, LocalsTypeOK
  <2>6. QED
    BY <1>1, <1>2, <2>1, <2>3, <2>4, <2>5, ForgetsType, LeavingKeeps
<1>3. CASE /\ snap' = [snap EXCEPT ![t] = None]
           /\ seen' = [seen EXCEPT ![t] = invalidation]
           /\ \/ /\ attempt[t] < Attempts
                 /\ attempt' = [attempt EXCEPT ![t] = @ + 1]
                 /\ pc' = [pc EXCEPT ![t] = "revision"]
              \/ /\ pc' = [pc EXCEPT ![t] = "before"]
                 /\ UNCHANGED attempt
           /\ UNCHANGED <<pinned, held, wanted, next, got>>
  <2>1. attempt' \in [Threads -> 0..Attempts]
    <3>1. attempt[t] < Attempts => attempt[t] + 1 \in 0..Attempts
      BY BoundAssumption DEF IInv, TypeOK, LocalsTypeOK
    <3>2. QED
      BY <1>3, <3>1 DEF IInv, TypeOK, LocalsTypeOK
  <2>2. /\ pc' \in [Threads -> Phases] /\ pc'[t] \in {"revision", "before"}
        /\ \A u \in Threads : u # t => pc'[u] = pc[u] /\ snap'[u] = snap[u]
    BY <1>3 DEF IInv, TypeOK, LocalsTypeOK, Phases
  <2>3. /\ snap' \in [Threads -> Snapshots \cup {None}] /\ Truthful(snap'[t])
        /\ seen' \in [Threads -> Revisions]
    BY <1>3 DEF IInv, TypeOK, LocalsTypeOK, ProcessTypeOK, Truthful
  <2>4. LocalsTypeOK' /\ ScopesTypeOK'
    BY <1>1, <1>3, <2>1, <2>2, <2>3 DEF IInv, TypeOK, LocalsTypeOK, ScopesTypeOK
  <2>5. Truthful(pinned'[t]) /\ Truthful(held'[t])
    BY <1>3 DEF IInv, SnapshotsAreTruthful
  <2>6. QED
    BY <1>1, <1>3, <2>2, <2>3, <2>4, <2>5, LeavingKeeps
<1>4. CASE Pin(t)
  BY <1>2, <1>4 DEF Pin
<1>5. CASE Retry(t)
  BY <1>3, <1>5 DEF Retry, MayRetry
<1>6. QED
  BY <1>4, <1>5, <1>1 DEF Recheck

\* A live read is kept without a revision, so that it never passes the fence.
LEMMA FinishLiveKeeps ==
    ASSUME IInv, NEW t \in Threads, FinishLive(t)
    PROVE  IInv'
<1>1. /\ pc[t] = "live" /\ UNCHANGED database /\ UNCHANGED process /\ Forgets(t)
      /\ UNCHANGED <<evaluator, pinned, startedAt>>
  BY DEF FinishLive
<1> DEFINE found == Snapshot(got[t], 0)
<1>2. CASE /\ got[t] \in SoundPolicies
           /\ snap' = [snap EXCEPT ![t] = found]
           /\ held' = [held EXCEPT ![t] = PinOf(found, seen[t])]
           /\ pc' = [pc EXCEPT ![t] = "ready"]
  <2>1. found \in Snapshots /\ found # None /\ found.revision = 0
    BY <1>2, SoundAssumption, RevisionsAreNaturals, SnapshotType
  <2>2. PinOf(found, seen[t]) \in Pins /\ PinOf(found, seen[t]).revision = 0
    BY <2>1, PinType DEF IInv, TypeOK, LocalsTypeOK
  <2>3. /\ ScopesTypeOK'
        /\ Truthful(held'[t]) /\ Truthful(pinned'[t])
        /\ \A u \in Threads : u # t => held'[u] = held[u]
    BY <1>1, <1>2, <2>2 DEF IInv, TypeOK, ScopesTypeOK, SnapshotsAreTruthful, Truthful
  <2>4. /\ LocalsTypeOK'
    BY <1>1, <1>2, <2>1, ForgetsType DEF IInv, TypeOK, LocalsTypeOK, Phases
  <2>5. /\ Truthful(snap'[t]) /\ snap'[t] # None /\ pc'[t] = "ready"
        /\ \A u \in Threads : u # t => snap'[u] = snap[u] /\ pc'[u] = pc[u]
    BY <1>2, <2>1 DEF IInv, TypeOK, LocalsTypeOK, Truthful
  <2>6. QED
    BY <1>1, <2>3, <2>4, <2>5, ForgetsType, LeavingKeeps
<1>3. QED
  BY <1>2 DEF FinishLive

\* The fallback starts from a revision its thread sees.
LEMMA StartFallbackKeeps ==
    ASSUME IInv, NEW t \in Threads, StartFallback(t)
    PROVE  IInv'
<1>1. /\ pc[t] = "before" /\ UNCHANGED database /\ UNCHANGED process /\ UNCHANGED scopes
      /\ UNCHANGED <<seen, attempt, snap, startedAt>>
  BY DEF StartFallback
<1>2. /\ pc' \in [Threads -> Phases] /\ wanted' \in [Threads -> Revisions]
      /\ next' \in [Threads -> 1..(NumParts + 1)]
      /\ got' \in [Threads -> [Parts -> Values \cup {None}]]
  BY SeenType, FirstPart, NothingType DEF StartFallback, IInv, TypeOK, LocalsTypeOK, Phases
<1>3. /\ pc'[t] = "fallback" /\ wanted'[t] = RevisionSeenBy(t) /\ next'[t] = 1
      /\ \A u \in Threads : u # t =>
            pc'[u] = pc[u] /\ wanted'[u] = wanted[u] /\ next'[u] = next[u] /\ got'[u] = got[u]
  BY DEF StartFallback, IInv, TypeOK, LocalsTypeOK
<1>4. ScopesTypeOK' /\ LocalsTypeOK'
  BY <1>1, <1>2 DEF scopes, IInv, TypeOK, ScopesTypeOK, LocalsTypeOK
<1>5. Truthful(snap'[t]) /\ Truthful(pinned'[t]) /\ Truthful(held'[t])
  BY <1>1 DEF scopes, IInv, SnapshotsAreTruthful
<1>6. QED
  BY <1>1, <1>3, <1>4, <1>5, LeavingKeeps DEF scopes

\* It returns a policy only if that revision is still there.
LEMMA FinishFallbackKeeps ==
    ASSUME IInv, NEW t \in Threads, FinishFallback(t)
    PROVE  IInv'
<1>1. /\ pc[t] = "fallback" /\ Loaded(t) /\ got[t] \in SoundPolicies /\ Forgets(t)
      /\ UNCHANGED startedAt /\ UNCHANGED database /\ UNCHANGED process /\ UNCHANGED scopes
  BY DEF FinishFallback
<1>2. ScopesTypeOK' /\ Truthful(pinned'[t]) /\ Truthful(held'[t])
  BY <1>1 DEF scopes, IInv, TypeOK, ScopesTypeOK, SnapshotsAreTruthful
<1>3. CASE /\ RevisionSeenBy(t) = wanted[t]
           /\ snap' = [snap EXCEPT ![t] = Found(t)]
           /\ pc' = [pc EXCEPT ![t] = "ready"]
  <2>1. got[t] \in Policies /\ wanted[t] \in Revisions /\ wanted[t] <= issued
    BY <1>1, SoundAssumption DEF IInv, TypeOK, LocalsTypeOK, OperationsReadOnly
  <2>2. got[t] = policyAt[wanted[t]]
    <3>1. policyAt[wanted[t]] \in Policies
      BY <2>1 DEF IInv, TypeOK, DatabaseTypeOK
    <3>2. \A p \in Parts : p < next[t]
      BY <1>1, BoundAssumption DEF Loaded, Parts, IInv, TypeOK, LocalsTypeOK
    <3>3. \A p \in Parts : got[t][p] = policyAt[wanted[t]][p]
      BY <1>1, <1>3, <3>2 DEF IInv, LoadsAreWhole
    <3>4. QED
      BY <2>1, <3>1, <3>3 DEF Policies
  <2>3. Found(t) \in Snapshots /\ Found(t) # None /\ Truthful(Found(t))
    BY <2>1, <2>2, SnapshotType DEF Found, Truthful
  <2>4. LocalsTypeOK'
    BY <1>1, <1>3, <2>3, ForgetsType DEF IInv, TypeOK, LocalsTypeOK, Phases
  <2>5. /\ pc'[t] = "ready" /\ snap'[t] = Found(t)
        /\ \A u \in Threads : u # t => snap'[u] = snap[u] /\ pc'[u] = pc[u]
    BY <1>3 DEF IInv, TypeOK, LocalsTypeOK
  <2>6. QED
    BY <1>1, <1>2, <2>3, <2>4, <2>5, ForgetsType, LeavingKeeps DEF scopes
<1>4. CASE pc' = [pc EXCEPT ![t] = "closed"] /\ UNCHANGED snap
  <2>1. LocalsTypeOK'
    BY <1>1, <1>4, ForgetsType DEF IInv, TypeOK, LocalsTypeOK, Phases, Raised, Errors
  <2>2. /\ pc'[t] = "closed" /\ Truthful(snap'[t])
        /\ \A u \in Threads : u # t => pc'[u] = pc[u]
    BY <1>4 DEF IInv, TypeOK, LocalsTypeOK, SnapshotsAreTruthful
  <2>3. QED
    BY <1>1, <1>2, <1>4, <2>1, <2>2, ForgetsType, LeavingKeeps DEF scopes
<1>5. QED
  BY <1>3, <1>4 DEF FinishFallback

\* An uncached load that is refused leaves everything where it was.
LEMMA RefuseUncachedKeeps ==
    ASSUME IInv, NEW t \in Threads, RefuseUncached(t)
    PROVE  IInv'
<1>1. /\ pc[t] # "idle"
      /\ UNCHANGED database /\ UNCHANGED process /\ UNCHANGED scopes
      /\ UNCHANGED <<seen, wanted, attempt, next, got, snap, startedAt>>
  BY DEF RefuseUncached
<1>2. /\ LocalsTypeOK' /\ pc'[t] = "unconfirmed"
      /\ \A u \in Threads : u # t => pc'[u] = pc[u]
  BY DEF RefuseUncached, IInv, TypeOK, LocalsTypeOK, Phases, Raised
<1>3. ScopesTypeOK' /\ Truthful(snap'[t]) /\ Truthful(pinned'[t]) /\ Truthful(held'[t])
  BY <1>1 DEF scopes, IInv, TypeOK, ScopesTypeOK, SnapshotsAreTruthful
<1>4. QED
  BY <1>1, <1>2, <1>3, LeavingKeeps DEF scopes

\* Asking again drops the snapshot.
LEMMA ResolveAgainKeeps ==
    ASSUME IInv, NEW t \in Threads, ResolveAgain(t)
    PROVE  IInv'
<1>1. /\ pc[t] = "ready" /\ UNCHANGED database /\ UNCHANGED process /\ UNCHANGED scopes
      /\ UNCHANGED <<seen, wanted, attempt, next, got, startedAt>>
  BY DEF ResolveAgain
<1>2. /\ LocalsTypeOK' /\ pc'[t] = "resolve" /\ snap'[t] = None
      /\ \A u \in Threads : u # t => snap'[u] = snap[u] /\ pc'[u] = pc[u]
  BY DEF ResolveAgain, IInv, TypeOK, LocalsTypeOK, Phases
<1>3. ScopesTypeOK' /\ Truthful(snap'[t]) /\ Truthful(pinned'[t]) /\ Truthful(held'[t])
  BY <1>1, <1>2 DEF scopes, IInv, TypeOK, ScopesTypeOK, SnapshotsAreTruthful, Truthful
<1>4. QED
  BY <1>1, <1>2, <1>3, LeavingKeeps DEF scopes

\* The end of an operation drops its pin and its snapshot.
LEMMA EndOperationKeeps ==
    ASSUME IInv, NEW t \in Threads, EndOperation(t)
    PROVE  IInv'
<1>1. /\ pc[t] # "idle" /\ Forgets(t) /\ UNCHANGED database /\ UNCHANGED process
      /\ UNCHANGED <<evaluator, pinned>>
  BY DEF EndOperation, Raised, Errors
<1>2. /\ pc'[t] = "idle" /\ snap'[t] = None /\ held'[t] = None
      /\ \A u \in Threads : u # t =>
            snap'[u] = snap[u] /\ pc'[u] = pc[u] /\ held'[u] = held[u]
  BY DEF EndOperation, IInv, TypeOK, LocalsTypeOK, ScopesTypeOK
<1>3. pc' \in [Threads -> Phases] /\ snap' \in [Threads -> Snapshots \cup {None}]
      /\ startedAt' \in [Threads -> Revisions]
  BY RevisionsAreNaturals DEF EndOperation, IInv, TypeOK, LocalsTypeOK, Phases
<1>4. LocalsTypeOK'
  BY <1>1, <1>3, ForgetsType DEF LocalsTypeOK
<1>5. ScopesTypeOK' /\ Truthful(snap'[t]) /\ Truthful(pinned'[t]) /\ Truthful(held'[t])
  BY <1>1, <1>2
     DEF EndOperation, IInv, TypeOK, ScopesTypeOK, SnapshotsAreTruthful, Truthful
<1>6. QED
  BY <1>1, <1>2, <1>4, <1>5, ForgetsType, LeavingKeeps

-----------------------------------------------------------------------------
(* Policy writers.                                                         *)

\* What a policy write has to respect: it issues new revisions only, and lets no
\* thread see the revision it wanted unless it saw it before.
LEMMA WritingKeeps ==
    ASSUME IInv, DatabaseTypeOK', RevisionsNamePolicies', invalidation' \in Revisions,
           issued <= issued',
           \A r \in Revisions : r <= issued => policyAt'[r] = policyAt[r],
           cached' \in {cached, None}, UNCHANGED loads, UNCHANGED scopes, UNCHANGED locals,
           \A u \in Threads :
               /\ pc[u] # "idle" => ~(dirty' /\ holder' = u)
               /\ pc[u] # "idle" /\ RevisionSeenBy(u)' = wanted[u]
                     => RevisionSeenBy(u) = wanted[u]
               /\ holder' \notin {None, u} =>
                     draft'.revision = revision' \/ wanted[u] # draft'.revision
    PROVE  IInv'
<1>1. issued \in Nat /\ issued' \in Nat /\ \A u \in Threads : wanted[u] \in Revisions
  BY RevisionsAreNaturals DEF IInv, TypeOK, DatabaseTypeOK, LocalsTypeOK
<1>2. \A r \in Revisions : r <= issued => r <= issued'
  BY <1>1, RevisionsAreNaturals
<1>3. ProcessTypeOK' /\ ScopesTypeOK' /\ LocalsTypeOK'
  BY DEF scopes, locals, IInv, TypeOK, ProcessTypeOK, ScopesTypeOK, LocalsTypeOK
<1>4. OperationsReadOnly'
  BY <1>1, <1>2 DEF locals, IInv, OperationsReadOnly
<1>5. ASSUME NEW s \in Snapshots \cup Pins \cup {None}, Truthful(s)
      PROVE  s # None /\ s.revision # 0 =>
                 s.revision <= issued' /\ s.rows = policyAt'[s.revision]
  BY <1>2, <1>5, SnapshotParts, PinParts DEF Truthful
<1>6. SnapshotsAreTruthful'
  <2>1. Truthful(cached)'
    BY <1>5 DEF Truthful, IInv, TypeOK, ProcessTypeOK, SnapshotsAreTruthful
  <2>2. ASSUME NEW r \in Revisions, loads[r] # None
        PROVE  Truthful(loads[r].snapshot)'
    <3>1. loads[r].snapshot \in Snapshots \cup {None} /\ Truthful(loads[r].snapshot)
      BY <2>2 DEF IInv, TypeOK, ProcessTypeOK, Loads, SnapshotsAreTruthful
    <3>2. QED
      BY <1>5, <3>1 DEF Truthful
  <2>3. ASSUME NEW u \in Threads
        PROVE  Truthful(pinned[u])' /\ Truthful(held[u])' /\ Truthful(snap[u])'
    <3>1. /\ pinned[u] \in Pins \cup {None} /\ held[u] \in Pins \cup {None}
          /\ snap[u] \in Snapshots \cup {None}
          /\ Truthful(pinned[u]) /\ Truthful(held[u]) /\ Truthful(snap[u])
      BY DEF IInv, TypeOK, ScopesTypeOK, LocalsTypeOK, SnapshotsAreTruthful
    <3>2. QED
      BY <1>5, <3>1 DEF scopes, locals, Truthful
  <2>4. \A u \in Threads : pc'[u] = "ready" => snap'[u] # None
    BY DEF locals, IInv, SnapshotsAreTruthful
  <2>5. QED
    BY <2>1, <2>2, <2>3, <2>4 DEF SnapshotsAreTruthful
<1>7. LoadsAreWhole'
  <2>1. \A u \in Threads : policyAt'[wanted[u]] = policyAt[wanted[u]]
    BY <1>1 DEF IInv, OperationsReadOnly
  <2>2. QED
    BY <2>1 DEF locals, IInv, LoadsAreWhole
<1>8. QED
  BY <1>3, <1>4, <1>6, <1>7 DEF IInv, TypeOK

\* The transaction of the thread that holds the generation row.
LEMMA DraftType ==
    ASSUME IInv, holder # None
    PROVE  /\ draft \in Snapshots
           /\ draft.rows \in Policies
           /\ draft.revision \in Revisions /\ draft.revision \in Nat
           /\ revision <= draft.revision /\ draft.revision <= issued
BY SnapshotParts, RevisionsAreNaturals DEF IInv, TypeOK, DatabaseTypeOK, RevisionsNamePolicies

\* A fresh revision is none that was issued, and none that a thread wants.
LEMMA FreshRevision ==
    ASSUME IInv, issued < MaxRevision
    PROVE  /\ issued + 1 \in Revisions
           /\ revision < issued + 1 /\ invalidation + 1 <= issued + 1
           /\ invalidation + 1 \in Revisions /\ invalidation <= issued + 1
           /\ issued <= issued + 1
           /\ \A u \in Threads : wanted[u] # issued + 1
           /\ \A r \in Revisions : r <= issued => r # issued + 1
<1>1. issued \in Nat /\ revision \in Nat /\ invalidation \in Nat
      /\ \A u \in Threads : wanted[u] \in Nat
  BY RevisionsAreNaturals DEF IInv, TypeOK, DatabaseTypeOK, ProcessTypeOK, LocalsTypeOK
<1>2. revision <= issued /\ invalidation <= issued /\ \A u \in Threads : wanted[u] <= issued
  BY DEF IInv, RevisionsNamePolicies, OperationsReadOnly
<1>3. MaxRevision \in Nat
  BY BoundAssumption
<1>4. issued + 1 \in Revisions /\ invalidation + 1 \in Revisions
  BY <1>1, <1>2, <1>3, RevisionsAreNaturals
<1>5. QED
  BY <1>1, <1>2, <1>4, RevisionsAreNaturals

\* A transaction starts.
LEMMA BeginTransactionKeeps ==
    ASSUME IInv, NEW t \in Threads, BeginTransaction(t)
    PROVE  IInv'
<1>1. /\ UNCHANGED <<rows, revision, issued, holder, draft, dirty, published, own, policyAt>>
      /\ UNCHANGED process /\ UNCHANGED scopes /\ UNCHANGED locals
      /\ inTx' = [inTx EXCEPT ![t] = TRUE]
  BY DEF BeginTransaction
<1>2. DatabaseTypeOK' /\ RevisionsNamePolicies'
  BY <1>1 DEF process, IInv, TypeOK, DatabaseTypeOK, RevisionsNamePolicies
<1>3. \A u \in Threads : RevisionSeenBy(u)' = RevisionSeenBy(u)
  BY <1>1 DEF RevisionSeenBy
<1>4. issued <= issued' /\ invalidation' \in Revisions
  BY <1>1, RevisionsAreNaturals DEF process, IInv, TypeOK, DatabaseTypeOK, ProcessTypeOK
<1>5. QED
  BY <1>1, <1>2, <1>3, <1>4, WritingKeeps DEF process, IInv, OperationsReadOnly

\* A saved row is seen by its own transaction only, under the old revision.
LEMMA SaveRowKeeps ==
    ASSUME IInv, NEW t \in Threads, NEW p \in Parts, NEW v \in Values, SaveRow(t, p, v)
    PROVE  IInv'
<1> DEFINE policy == [PolicySeenBy(t) EXCEPT ![p] = v]
<1>1. /\ UNCHANGED <<rows, revision, issued, inTx, published, own, policyAt>>
      /\ UNCHANGED process /\ UNCHANGED scopes /\ UNCHANGED locals
      /\ pc[t] = "idle" /\ holder \in {None, t} /\ issued < MaxRevision
      /\ holder' = t /\ dirty' = TRUE /\ draft' = Snapshot(policy, RevisionSeenBy(t))
  BY DEF SaveRow
<1>2. t # None
  BY NoneAssumption
<1>3. policy \in Policies
  BY SeenType DEF Policies
<1>4. /\ draft' \in Snapshots /\ draft' # None
      /\ draft'.revision = RevisionSeenBy(t)
  BY <1>1, <1>3, SeenType, SnapshotType
<1>5. DatabaseTypeOK'
  BY <1>1, <1>4 DEF IInv, TypeOK, DatabaseTypeOK
<1>6. revision <= RevisionSeenBy(t) /\ RevisionSeenBy(t) <= issued
  BY <1>2, SeenType, DraftType, RevisionsAreNaturals
     DEF RevisionSeenBy, IInv, TypeOK, DatabaseTypeOK
<1>7. RevisionsNamePolicies'
  BY <1>1, <1>2, <1>4, <1>6 DEF process, IInv, RevisionsNamePolicies
<1>8. ASSUME NEW u \in Threads
      PROVE  /\ pc[u] # "idle" => ~(dirty' /\ holder' = u)
             /\ pc[u] # "idle" /\ RevisionSeenBy(u)' = wanted[u]
                   => RevisionSeenBy(u) = wanted[u]
             /\ holder' \notin {None, u} =>
                   draft'.revision = revision' \/ wanted[u] # draft'.revision
  <2>1. u # t => RevisionSeenBy(u)' = revision /\ RevisionSeenBy(u) = revision
    BY <1>1, NoneAssumption DEF RevisionSeenBy
  <2>2. ASSUME u # t, draft'.revision # revision
        PROVE  wanted[u] # draft'.revision
    <3>1. holder = t /\ draft'.revision = draft.revision
      BY <1>1, <1>4, <2>2 DEF RevisionSeenBy
    <3>2. QED
      BY <1>2, <2>2, <3>1 DEF IInv, OperationsReadOnly
  <2>3. QED
    BY <1>1, <2>1, <2>2
<1>9. issued <= issued' /\ invalidation' \in Revisions
  BY <1>1, RevisionsAreNaturals DEF process, IInv, TypeOK, DatabaseTypeOK, ProcessTypeOK
<1>10. QED
  BY <1>1, <1>5, <1>7, <1>8, <1>9, WritingKeeps DEF process

\* advance() issues a revision that no thread wants and no snapshot carries.
LEMMA AdvanceKeeps ==
    ASSUME IInv, NEW t \in Threads, Advance(t)
    PROVE  IInv'
<1>1. /\ UNCHANGED <<rows, revision, holder, inTx, published, own, loads>>
      /\ UNCHANGED scopes /\ UNCHANGED locals
      /\ pc[t] = "idle" /\ holder = t /\ dirty /\ holder # None
      /\ issued' = issued + 1 /\ dirty' = FALSE
      /\ draft' = [draft EXCEPT !.revision = issued + 1]
      /\ policyAt' = [policyAt EXCEPT ![issued + 1] = draft.rows]
      /\ invalidation' = invalidation + 1 /\ cached' = None
  BY NoneAssumption DEF Advance
<1>2. issued < MaxRevision
  BY <1>1 DEF IInv, RevisionsNamePolicies
<1>3. /\ draft' \in Snapshots /\ draft'.rows = draft.rows
      /\ draft'.revision = issued + 1 /\ draft' # None
  BY <1>1, <1>2, DraftType, FreshRevision, NoneAssumption DEF Snapshots
<1>4. DatabaseTypeOK'
  BY <1>1, <1>2, <1>3, DraftType, FreshRevision DEF IInv, TypeOK, DatabaseTypeOK
<1>5. /\ policyAt'[issued + 1] = draft.rows
      /\ \A r \in Revisions : r <= issued => policyAt'[r] = policyAt[r]
  BY <1>1, <1>2, FreshRevision DEF IInv, TypeOK, DatabaseTypeOK
<1>6. RevisionsNamePolicies'
  <2>1. revision \in Revisions /\ revision <= issued /\ revision \in Nat /\ issued \in Nat
    BY RevisionsAreNaturals DEF IInv, TypeOK, DatabaseTypeOK, RevisionsNamePolicies
  <2>2. rows = policyAt'[revision]
    BY <1>5, <2>1 DEF IInv, RevisionsNamePolicies
  <2>3. revision # issued + 1 /\ revision <= issued + 1
    BY <2>1
  <2>4. QED
    BY <1>1, <1>2, <1>3, <1>5, <2>1, <2>2, <2>3, FreshRevision DEF RevisionsNamePolicies
<1>7. ASSUME NEW u \in Threads
      PROVE  /\ pc[u] # "idle" => ~(dirty' /\ holder' = u)
             /\ pc[u] # "idle" /\ RevisionSeenBy(u)' = wanted[u]
                   => RevisionSeenBy(u) = wanted[u]
             /\ holder' \notin {None, u} =>
                   draft'.revision = revision' \/ wanted[u] # draft'.revision
  BY <1>1, <1>2, <1>3, FreshRevision DEF RevisionSeenBy
<1>8. QED
  BY <1>1, <1>2, <1>4, <1>5, <1>6, <1>7, FreshRevision, WritingKeeps

\* A committed revision is one that no other thread wanted.
LEMMA CommitKeeps ==
    ASSUME IInv, NEW t \in Threads, Commit(t)
    PROVE  IInv'
<1>1. /\ UNCHANGED <<issued, dirty, policyAt>> /\ pc[t] = "idle"
      /\ inTx' = [inTx EXCEPT ![t] = FALSE]
      /\ UNCHANGED process /\ UNCHANGED scopes /\ UNCHANGED locals
  BY DEF Commit
<1>2. issued <= issued' /\ invalidation' \in Revisions
  BY <1>1, RevisionsAreNaturals DEF process, IInv, TypeOK, DatabaseTypeOK, ProcessTypeOK
<1>3. CASE /\ holder = t /\ ~dirty
           /\ rows' = draft.rows /\ revision' = draft.revision
           /\ published' = published \cup {revision'}
           /\ own' = own \cup {revision'}
           /\ holder' = None /\ draft' = None
  <2>1. holder # None
    BY <1>3, NoneAssumption
  <2>2. DatabaseTypeOK'
    BY <1>1, <1>3, <2>1, DraftType DEF IInv, TypeOK, DatabaseTypeOK
  <2>3. RevisionsNamePolicies'
    BY <1>1, <1>3, <2>1, DraftType DEF process, IInv, RevisionsNamePolicies
  <2>4. ASSUME NEW u \in Threads, pc[u] # "idle", RevisionSeenBy(u)' = wanted[u]
        PROVE  RevisionSeenBy(u) = wanted[u]
    <3>1. u # t /\ RevisionSeenBy(u)' = draft.revision
      BY <1>1, <1>3, <2>4, NoneAssumption DEF RevisionSeenBy
    <3>2. draft.revision # revision
      BY <1>3, <2>1 DEF IInv, RevisionsNamePolicies
    <3>3. wanted[u] # draft.revision
      BY <1>3, <2>1, <3>1, <3>2 DEF IInv, OperationsReadOnly
    <3>4. QED
      BY <2>4, <3>1, <3>3
  <2>5. QED
    BY <1>1, <1>2, <1>3, <2>2, <2>3, <2>4, WritingKeeps DEF process
<1>4. CASE holder # t /\ UNCHANGED <<rows, revision, published, own, holder, draft>>
  <2>1. DatabaseTypeOK' /\ RevisionsNamePolicies'
    BY <1>1, <1>4 DEF process, IInv, TypeOK, DatabaseTypeOK, RevisionsNamePolicies
  <2>2. \A u \in Threads : RevisionSeenBy(u)' = RevisionSeenBy(u)
    BY <1>4 DEF RevisionSeenBy
  <2>3. QED
    BY <1>1, <1>2, <1>4, <2>1, <2>2, WritingKeeps DEF process, IInv, OperationsReadOnly
<1>5. QED
  BY <1>3, <1>4 DEF Commit

\* The transaction, or a savepoint around its policy writes, is rolled back.
LEMMA RollingBackKeeps ==
    ASSUME IInv, NEW t \in Threads, Rollback(t) \/ RollbackSavepoint(t)
    PROVE  IInv'
<1>1. /\ UNCHANGED <<rows, revision, issued, published, own, policyAt>>
      /\ UNCHANGED process /\ UNCHANGED scopes /\ UNCHANGED locals
      /\ pc[t] = "idle" /\ inTx' \in {inTx, [inTx EXCEPT ![t] = FALSE]}
      /\ \/ holder = t /\ holder' = None /\ draft' = None /\ dirty' = FALSE
         \/ UNCHANGED <<holder, draft, dirty>>
  BY DEF Rollback, RollbackSavepoint
<1>2. DatabaseTypeOK'
  <2>1. inTx' \in [Threads -> BOOLEAN]
    BY <1>1 DEF IInv, TypeOK, DatabaseTypeOK
  <2>2. QED
    BY <1>1, <2>1 DEF IInv, TypeOK, DatabaseTypeOK
<1>3. RevisionsNamePolicies'
  BY <1>1 DEF process, IInv, RevisionsNamePolicies
<1>4. \A u \in Threads : pc[u] # "idle" => RevisionSeenBy(u)' = RevisionSeenBy(u)
  BY <1>1, NoneAssumption DEF RevisionSeenBy
<1>5. issued <= issued' /\ invalidation' \in Revisions
  BY <1>1, RevisionsAreNaturals DEF process, IInv, TypeOK, DatabaseTypeOK, ProcessTypeOK
<1>6. QED
  BY <1>1, <1>2, <1>3, <1>4, <1>5, WritingKeeps DEF process, IInv, OperationsReadOnly

\* Nor is the revision of another process.
LEMMA RemoteCommitKeeps ==
    ASSUME IInv, NEW policy \in SoundPolicies, RemoteCommit(policy)
    PROVE  IInv'
<1>1. /\ UNCHANGED <<holder, draft, dirty, inTx, own>>
      /\ UNCHANGED process /\ UNCHANGED scopes /\ UNCHANGED locals
      /\ holder = None /\ issued < MaxRevision
      /\ issued' = issued + 1 /\ rows' = policy /\ revision' = issued + 1
      /\ published' = published \cup {issued + 1}
      /\ policyAt' = [policyAt EXCEPT ![issued + 1] = policy]
  BY DEF RemoteCommit
<1>2. policy \in Policies
  BY SoundAssumption
<1>3. DatabaseTypeOK'
  BY <1>1, <1>2, FreshRevision DEF IInv, TypeOK, DatabaseTypeOK
<1>4. /\ policyAt'[issued + 1] = policy
      /\ \A r \in Revisions : r <= issued => policyAt'[r] = policyAt[r]
  BY <1>1, FreshRevision DEF IInv, TypeOK, DatabaseTypeOK
<1>5. RevisionsNamePolicies'
  <2>1. issued + 1 <= issued + 1
    BY RevisionsAreNaturals DEF IInv, TypeOK, DatabaseTypeOK
  <2>2. QED
    BY <1>1, <1>4, <2>1, FreshRevision DEF process, IInv, RevisionsNamePolicies
<1>6. \A u \in Threads : RevisionSeenBy(u)' # wanted[u]
  BY <1>1, FreshRevision, NoneAssumption DEF RevisionSeenBy
<1>7. ~dirty
  BY <1>1 DEF IInv, RevisionsNamePolicies
<1>8. issued <= issued' /\ invalidation' \in Revisions
  BY <1>1, FreshRevision DEF process, IInv, TypeOK, ProcessTypeOK
<1>9. QED
  BY <1>1, <1>3, <1>4, <1>5, <1>6, <1>7, <1>8, WritingKeeps DEF process

-----------------------------------------------------------------------------
(* The theorems.                                                           *)

\* The initial states satisfy the invariant.
LEMMA InitIInv ==
    ASSUME Init
    PROVE  IInv
<1>1. revision \in Revisions /\ revision \in Nat /\ rows \in Policies
  BY SoundAssumption, RevisionsAreNaturals DEF Init
<1>2. DatabaseTypeOK
  BY <1>1 DEF Init, DatabaseTypeOK
<1>3. ProcessTypeOK /\ ScopesTypeOK
  BY RevisionsAreNaturals DEF Init, ProcessTypeOK, ScopesTypeOK
<1>4. LocalsTypeOK
  BY RevisionsAreNaturals, FirstPart, FirstAttempt, NothingType DEF Init, LocalsTypeOK, Phases
<1>5. RevisionsNamePolicies
  BY <1>1 DEF Init, RevisionsNamePolicies
<1>6. OperationsReadOnly
  <2>1. dirty = FALSE /\ holder = None /\ issued \in Nat /\ 0 <= issued
        /\ \A t \in Threads : wanted[t] = 0
    BY <1>1 DEF Init
  <2>2. QED
    BY <2>1 DEF OperationsReadOnly
<1>7. SnapshotsAreTruthful /\ LoadsAreWhole
  BY DEF Init, SnapshotsAreTruthful, Truthful, LoadsAreWhole
<1>8. QED
  BY <1>2, <1>3, <1>4, <1>5, <1>6, <1>7 DEF IInv, TypeOK

\* A stuttering step keeps it.
LEMMA StutterKeeps ==
    ASSUME IInv, UNCHANGED vars
    PROVE  IInv'
<1>1. UNCHANGED database /\ UNCHANGED process /\ UNCHANGED scopes /\ UNCHANGED locals
  BY DEF vars, database, process, scopes, locals
<1>2. DatabaseTypeOK' /\ RevisionsNamePolicies'
  BY <1>1, DatabaseKept DEF process
<1>3. ProcessTypeOK' /\ ScopesTypeOK' /\ LocalsTypeOK'
  BY <1>1 DEF process, scopes, locals, IInv, TypeOK, ProcessTypeOK, ScopesTypeOK, LocalsTypeOK
<1>4. OperationsReadOnly'
  BY <1>1, OperationsKept DEF locals, IInv, OperationsReadOnly
<1>5. SnapshotsAreTruthful' /\ LoadsAreWhole'
  BY <1>1, SnapshotsKept, LoadsKept DEF process, scopes, locals, IInv, SnapshotsAreTruthful
<1>6. QED
  BY <1>2, <1>3, <1>4, <1>5 DEF IInv, TypeOK

\* The invariant is inductive when no save handler checks a permission.
THEOREM Invariance ==
    ASSUME ~HandlersRead
    PROVE  Spec => []IInv
<1>1. Init => IInv
  BY InitIInv
<1>2. IInv /\ [Next]_vars => IInv'
  <2>1. SUFFICES ASSUME IInv, [Next]_vars PROVE IInv'
    OBVIOUS
  <2>2. ASSUME NEW t \in Threads, LoadStep(t) PROVE IInv'
    BY <2>1, <2>2, ResolveKeeps, ReadRevisionKeeps, LookupKeeps, ReadPartKeeps,
       ConfirmKeeps, PublishKeeps, ForgetKeeps, RecheckKeeps, FinishLiveKeeps,
       StartFallbackKeeps, FinishFallbackKeeps, RefuseUncachedKeeps DEF LoadStep
  <2>3. ASSUME NEW t \in Threads, WriteStep(t) PROVE IInv'
    BY <2>1, <2>3, BeginTransactionKeeps, SaveRowKeeps, AdvanceKeeps, CommitKeeps,
       RollingBackKeeps DEF WriteStep
  <2>4. ASSUME NEW t \in Threads, OperationStep(t) PROVE IInv'
    BY <2>1, <2>4, StartOperationKeeps, ResolveAgainKeeps, EndOperationKeeps,
       DatabaseErrorKeeps DEF OperationStep
  <2>5. QED
    BY <2>1, <2>2, <2>3, <2>4, ScopeStepKeeps, RemoteCommitKeeps, StutterKeeps
       DEF Next, ThreadStep
<1>3. QED
  BY <1>1, <1>2, PTL DEF Spec

\* Every variable keeps its type (TypeOK, the shapes _load_schema_snapshot works with).
THEOREM TypeCorrectness ==
    ASSUME ~HandlersRead
    PROVE  Spec => []TypeOK
<1>1. IInv => TypeOK
  BY DEF IInv
<1>2. QED
  BY <1>1, Invariance, PTL

\* A statement whose fence passes was compiled from exactly the policy visible to
\* it: _load_schema_snapshot never hands out a torn, stale or rolled back policy
\* under the revision that _fence compares.
THEOREM FenceIsSound ==
    ASSUME ~HandlersRead
    PROVE  Spec => []FencedByTheVisiblePolicy
<1>1. ASSUME IInv PROVE FencedByTheVisiblePolicy
  <2>1. SUFFICES ASSUME NEW t \in Threads, pc[t] = "ready", FencePasses(t)
                 PROVE  snap[t].rows = PolicySeenBy(t)
    BY DEF FencedByTheVisiblePolicy
  <2>2. snap[t].rows = policyAt[RevisionSeenBy(t)]
    BY <1>1, <2>1 DEF FencePasses, IInv, SnapshotsAreTruthful, Truthful
  <2>3. QED
    BY <1>1, <2>1, <2>2, SeenIsNamed
<1>2. QED
  BY <1>1, Invariance, PTL

-----------------------------------------------------------------------------
(* What the scopes of an operation hold (ScopeInv).                         *)

\* What holds of one thread.
GoesOn(t) == OperationGoesForward(t) /\ OperationFindsItsRevision(t)

-----------------------------------------------------------------------------
(* What steps leave alone.                                                 *)

\* The revisions that are compared are numbers.
LEMMA ComparedAreNumbers ==
    ASSUME IInv, NEW t \in Threads
    PROVE  /\ RevisionSeenBy(t) \in Nat /\ wanted[t] \in Nat /\ startedAt[t] \in Nat
           /\ wanted[t] \in Revisions /\ issued \in Nat /\ revision \in Nat
           /\ held[t] # None => held[t] \in Pins /\ held[t].revision \in Nat
           /\ pinned[t] # None => pinned[t] \in Pins /\ pinned[t].revision \in Revisions
           /\ snap[t] # None => snap[t] \in Snapshots /\ snap[t].revision \in Nat
<1>1. /\ RevisionSeenBy(t) \in Revisions /\ wanted[t] \in Revisions
      /\ startedAt[t] \in Revisions /\ issued \in Revisions /\ revision \in Revisions
  BY SeenType DEF IInv, TypeOK, DatabaseTypeOK, LocalsTypeOK
<1>2. /\ held[t] # None => held[t] \in Pins
      /\ pinned[t] # None => pinned[t] \in Pins
      /\ snap[t] # None => snap[t] \in Snapshots
  BY DEF IInv, TypeOK, ScopesTypeOK, LocalsTypeOK
<1> QED BY <1>1, <1>2, RevisionsAreNaturals, PinParts, SnapshotParts

\* A thread that does nothing goes on, if what it sees of the database only goes
\* forward; between operations scopes and transactions may come and go.
LEMMA OthersGoOn ==
    ASSUME IInv, ScopeInv, NEW t \in Threads,
           pc'[t] = pc[t], wanted'[t] = wanted[t], snap'[t] = snap[t],
           startedAt'[t] = startedAt[t], held'[t] = held[t],
           pinned'[t] \in {pinned[t], None},
           pc[t] = "idle" \/ (evaluator'[t] = evaluator[t] /\ inTx'[t] = inTx[t]),
           pc[t] # "idle" => RevisionSeenBy(t) <= RevisionSeenBy(t)',
           RevisionSeenBy(t)' \in Nat,
           published \subseteq published',
           \A r \in Revisions : r <= issued => policyAt'[r] = policyAt[r]
    PROVE  GoesOn(t)'
<1>1. GoesOn(t) BY DEF ScopeInv, GoesOn
<1>2. wanted[t] \in Revisions /\ wanted[t] <= issued
  BY ComparedAreNumbers DEF IInv, OperationsReadOnly
<1>3. OperationGoesForward(t)'
  BY <1>1, ComparedAreNumbers DEF GoesOn, OperationGoesForward, Seeking
<1>4. pc[t] = "unconfirmed" /\ RevisionSeenBy(t)' = wanted[t] => RevisionSeenBy(t) = wanted[t]
  BY <1>1, ComparedAreNumbers DEF GoesOn, OperationGoesForward
<1>5. OperationFindsItsRevision(t)'
  BY <1>1, <1>2, <1>4 DEF GoesOn, OperationFindsItsRevision
<1> QED BY <1>3, <1>5 DEF GoesOn

\* A step that leaves the database alone is right if the loads and its thread are.
LEMMA ThreadStepFits ==
    ASSUME IInv, ScopeInv, NEW t \in Threads, UNCHANGED database,
           \A u \in Threads \ {t} :
               /\ pc'[u] = pc[u] /\ wanted'[u] = wanted[u] /\ snap'[u] = snap[u]
               /\ startedAt'[u] = startedAt[u] /\ held'[u] = held[u]
               /\ pinned'[u] = pinned[u] /\ evaluator'[u] = evaluator[u],
           LoadsAnswerForTheirRevision', LoadsHaveTheirOwner', GoesOn(t)'
    PROVE  ScopeInv'
<1>1. CommitsArePublished' BY DEF ScopeInv, CommitsArePublished, database
<1>2. ASSUME NEW u \in Threads \ {t} PROVE GoesOn(u)'
  <2>1. RevisionSeenBy(u)' = RevisionSeenBy(u) BY SightKept
  <2>2. inTx' = inTx /\ published' = published /\ policyAt' = policyAt BY DEF database
  <2> QED BY <2>1, <2>2, OthersGoOn, ComparedAreNumbers
<1> QED BY <1>1, <1>2 DEF ScopeInv, GoesOn

\* Loads that are left alone answer as before.
LEMMA LoadsAnswerStill ==
    ASSUME IInv, ScopeInv, UNCHANGED database, UNCHANGED loads
    PROVE  LoadsAnswerForTheirRevision'
BY DEF ScopeInv, LoadsAnswerForTheirRevision, database

\* And they have the same owners, if nobody comes to own one.
LEMMA OwnersStay ==
    ASSUME IInv, ScopeInv, UNCHANGED loads,
           \A u \in Threads : pc'[u] \in Owning => pc[u] \in Owning /\ wanted'[u] = wanted[u]
    PROVE  LoadsHaveTheirOwner'
BY DEF ScopeInv, LoadsHaveTheirOwner

-----------------------------------------------------------------------------
(* The loader.                                                             *)

\* An operation starts with nothing held, from what it sees.
LEMMA StartOperationFits ==
    ASSUME IInv, ScopeInv, NEW t \in Threads, StartOperation(t)
    PROVE  ScopeInv'
<1>1. UNCHANGED database /\ UNCHANGED process /\ UNCHANGED scopes
      /\ UNCHANGED <<wanted, snap>> /\ pc[t] = "idle"
  BY DEF StartOperation
<1>2. /\ pc'[t] = "resolve" /\ startedAt'[t] = RevisionSeenBy(t)
      /\ \A u \in Threads \ {t} : pc'[u] = pc[u] /\ startedAt'[u] = startedAt[u]
  BY DEF StartOperation, IInv, TypeOK, LocalsTypeOK
<1>3. GoesOn(t)'
  <2>1. held[t] = None /\ (pinned[t] # None => pinned[t].revision \in published \ {0})
    BY <1>1 DEF ScopeInv, OperationGoesForward, OperationFindsItsRevision
  <2>2. RevisionSeenBy(t)' = RevisionSeenBy(t) /\ published' = published
    BY <1>1, SightKept DEF database
  <2> QED BY <1>1, <1>2, <2>1, <2>2, ComparedAreNumbers
      DEF GoesOn, OperationGoesForward, OperationFindsItsRevision, Seeking, scopes
<1>4. LoadsAnswerForTheirRevision' BY <1>1, LoadsAnswerStill DEF process
<1>5. LoadsHaveTheirOwner' BY <1>1, <1>2, OwnersStay DEF process, Owning
<1> QED BY <1>1, <1>2, <1>3, <1>4, <1>5, ThreadStepFits DEF scopes

\* A pin of the operation is honoured as it is; that of an evaluator promises
\* nothing about the start of the operation.
LEMMA ResolveFits ==
    ASSUME IInv, ScopeInv, NEW t \in Threads, Resolve(t)
    PROVE  ScopeInv'
<1>1. UNCHANGED database /\ UNCHANGED process /\ UNCHANGED <<evaluator, held, wanted, startedAt>>
      /\ pc[t] = "resolve"
  BY DEF Resolve
<1>2. /\ \A u \in Threads \ {t} : pc'[u] = pc[u] /\ snap'[u] = snap[u] /\ pinned'[u] = pinned[u]
      /\ pinned'[t] \in {pinned[t], None}
      /\ pc'[t] \in {"ready", "revision"}
  BY DEF Resolve, IInv, TypeOK, LocalsTypeOK, ScopesTypeOK
<1>3. ASSUME pc'[t] = "ready", ~evaluator[t] \/ inTx[t]
      PROVE  startedAt[t] <= snap'[t].revision
  <2>1. ScopePin(t) = held[t] BY <1>3 DEF ScopePin, Scoped
  <2>2. held[t] # None /\ snap'[t] = Snapshot(held[t].rows, held[t].revision)
    BY <1>3, <2>1 DEF Resolve, Honoured, IInv, TypeOK, LocalsTypeOK
  <2>3. snap'[t].revision = held[t].revision BY <2>2 DEF Snapshot
  <2> QED BY <2>2, <2>3 DEF ScopeInv, OperationGoesForward
<1>4. GoesOn(t)'
  <2>1. GoesOn(t) BY DEF ScopeInv, GoesOn
  <2>2. RevisionSeenBy(t)' = RevisionSeenBy(t) /\ published' = published /\ inTx' = inTx
    BY <1>1, SightKept DEF database
  <2> QED BY <1>1, <1>2, <1>3, <2>1, <2>2
      DEF GoesOn, OperationGoesForward, OperationFindsItsRevision, Seeking
<1>5. LoadsAnswerForTheirRevision' BY <1>1, LoadsAnswerStill DEF process
<1>6. LoadsHaveTheirOwner' BY <1>1, <1>2, OwnersStay DEF process, Owning
<1> QED BY <1>1, <1>2, <1>4, <1>5, <1>6, ThreadStepFits

\* The revision an attempt reads was published, or is that of one's own transaction.
LEMMA ReadRevisionFits ==
    ASSUME IInv, ScopeInv, NEW t \in Threads, ReadRevision(t)
    PROVE  ScopeInv'
<1>1. UNCHANGED database /\ UNCHANGED scopes /\ UNCHANGED <<loads, snap, startedAt>>
      /\ pc[t] = "revision"
  BY DEF ReadRevision
<1>2. /\ \A u \in Threads \ {t} : pc'[u] = pc[u] /\ wanted'[u] = wanted[u]
      /\ wanted'[t] = RevisionSeenBy(t)
      /\ pc'[t] = IF RevisionSeenBy(t) = 0 THEN "live" ELSE "lookup"
  BY DEF ReadRevision, IInv, TypeOK, LocalsTypeOK
<1>3. inTx[t] \/ RevisionSeenBy(t) \in published
  BY NoneAssumption DEF ScopeInv, CommitsArePublished, RevisionSeenBy
<1>4. GoesOn(t)'
  <2>1. GoesOn(t) BY DEF ScopeInv, GoesOn
  <2>2. RevisionSeenBy(t)' = RevisionSeenBy(t) /\ published' = published /\ inTx' = inTx
    BY <1>1, SightKept DEF database
  <2> QED BY <1>1, <1>2, <1>3, <2>1, <2>2, ComparedAreNumbers
      DEF GoesOn, OperationGoesForward, OperationFindsItsRevision, Seeking, scopes
<1>5. LoadsAnswerForTheirRevision' BY <1>1, LoadsAnswerStill
<1>6. LoadsHaveTheirOwner' BY <1>1, <1>2, OwnersStay DEF Owning
<1> QED BY <1>1, <1>2, <1>4, <1>5, <1>6, ThreadStepFits DEF scopes

\* What is shared or delivered under a revision is found under it.
LEMMA LookupFits ==
    ASSUME IInv, ScopeInv, NEW t \in Threads, Lookup(t)
    PROVE  ScopeInv'
<1>1. UNCHANGED database /\ UNCHANGED scopes /\ UNCHANGED <<wanted, startedAt>>
      /\ pc[t] = "lookup" /\ wanted[t] \in Revisions /\ wanted[t] <= issued
  BY ComparedAreNumbers DEF Lookup, IInv, OperationsReadOnly
<1>2. \A u \in Threads \ {t} : pc'[u] = pc[u] /\ snap'[u] = snap[u]
  BY DEF Lookup, IInv, TypeOK, LocalsTypeOK
<1>3. LoadsAnswerForTheirRevision' /\ LoadsHaveTheirOwner'
  <2>1. CASE loads' = loads /\ pc'[t] \notin Owning
    BY <1>1, <1>2, <2>1, LoadsAnswerStill, OwnersStay
  <2>2. CASE /\ loads[wanted[t]] = None
             /\ loads' = [loads EXCEPT ![wanted[t]] =
                            [owner |-> t, state |-> "pending", snapshot |-> None]]
    <3>1. \A r \in Revisions :
             loads'[r] = IF r = wanted[t]
                           THEN [owner |-> t, state |-> "pending", snapshot |-> None]
                           ELSE loads[r]
      BY <1>1, <2>2 DEF IInv, TypeOK, ProcessTypeOK
    <3>2. issued' = issued /\ policyAt' = policyAt BY <1>1 DEF database
    <3>3. LoadsAnswerForTheirRevision'
      BY <1>1, <3>1, <3>2 DEF ScopeInv, LoadsAnswerForTheirRevision
    <3>4. ASSUME NEW u \in Threads, pc'[u] \in Owning
          PROVE  loads'[wanted'[u]] # None /\ loads'[wanted'[u]].owner = u
      <4>1. wanted'[u] = wanted[u] /\ wanted[u] \in Revisions BY <1>1, ComparedAreNumbers
      <4>2. u # t => wanted[u] # wanted[t] /\ loads[wanted[u]] # None
                       /\ loads[wanted[u]].owner = u
        BY <1>2, <2>2, <3>4 DEF ScopeInv, LoadsHaveTheirOwner
      <4>3. [owner |-> t, state |-> "pending", snapshot |-> None] # None
        BY NoneAssumption DEF Loads
      <4> QED BY <1>1, <3>1, <4>1, <4>2, <4>3
    <3> QED BY <3>3, <3>4 DEF LoadsHaveTheirOwner
  <2>3. \/ loads' = loads /\ pc'[t] \notin Owning
        \/ /\ loads[wanted[t]] = None
           /\ loads' = [loads EXCEPT ![wanted[t]] =
                          [owner |-> t, state |-> "pending", snapshot |-> None]]
    BY DEF Lookup, Owning, Errors, IInv, TypeOK, LocalsTypeOK
  <2> QED BY <2>1, <2>2, <2>3
<1>4. /\ pc'[t] \in {"recheck", "load", "wait"} \cup Errors
      /\ pc'[t] = "recheck" /\ snap'[t] # None => snap'[t].revision = wanted[t]
      /\ pc'[t] = "refused" => policyAt[wanted[t]] \notin SoundPolicies
  <2>1. CASE SharedHit(wanted[t]) /\ snap' = [snap EXCEPT ![t] = cached]
             /\ pc' = [pc EXCEPT ![t] = "recheck"]
    BY <2>1 DEF SharedHit, IInv, TypeOK, LocalsTypeOK
  <2>2. CASE pc' = [pc EXCEPT ![t] = "load"] \/ pc' = [pc EXCEPT ![t] = "wait"]
    BY <2>2 DEF IInv, TypeOK, LocalsTypeOK
  <2>3. CASE /\ loads[wanted[t]] # None
             /\ snap' = [snap EXCEPT ![t] = loads[wanted[t]].snapshot]
             /\ pc' = [pc EXCEPT ![t] = IF loads[wanted[t]].state \in Errors
                                          THEN loads[wanted[t]].state ELSE "recheck"]
    BY <1>1, <2>3 DEF ScopeInv, LoadsAnswerForTheirRevision, Errors, IInv, TypeOK, LocalsTypeOK
  <2> QED BY <2>1, <2>2, <2>3 DEF Lookup
<1>5. GoesOn(t)'
  <2>1. GoesOn(t) BY DEF ScopeInv, GoesOn
  <2>2. RevisionSeenBy(t)' = RevisionSeenBy(t) /\ published' = published /\ inTx' = inTx
        /\ policyAt' = policyAt
    BY <1>1, SightKept DEF database
  <2> QED BY <1>1, <1>4, <2>1, <2>2
      DEF GoesOn, OperationGoesForward, OperationFindsItsRevision, Seeking, Errors, scopes
<1> QED BY <1>1, <1>2, <1>3, <1>5, ThreadStepFits DEF scopes

\* Delivering a load: all who wait for it are after its revision.
LEMMA SettleFits ==
    ASSUME IInv, ScopeInv, NEW t \in Threads, pc[t] \in {"load", "publish"},
           NEW state \in {"delivered"} \cup Errors, NEW s \in Snapshots \cup {None},
           s # None => s.revision = wanted[t],
           state = "refused" => policyAt[wanted[t]] \notin SoundPolicies,
           Settle(t, state, s), UNCHANGED database, UNCHANGED scopes,
           UNCHANGED <<wanted, startedAt>>
    PROVE  ScopeInv'
<1>1. wanted[t] \in Revisions /\ wanted[t] <= issued
  BY ComparedAreNumbers DEF IInv, OperationsReadOnly
<1>2. UNCHANGED <<inTx, published, policyAt, issued, pinned, held, evaluator>>
  BY DEF database, scopes
<1>3. LoadsAnswerForTheirRevision' /\ LoadsHaveTheirOwner'
  <2>1. \A r \in Revisions :
           loads'[r] = IF r = wanted[t]
                         THEN [owner |-> t, state |-> state, snapshot |-> s]
                         ELSE loads[r]
    BY <1>1 DEF Settle, IInv, TypeOK, ProcessTypeOK
  <2>2. LoadsAnswerForTheirRevision'
    BY <1>1, <1>2, <2>1 DEF ScopeInv, LoadsAnswerForTheirRevision
  <2>3. ASSUME NEW u \in Threads, pc'[u] \in Owning
        PROVE  loads'[wanted'[u]] # None /\ loads'[wanted'[u]].owner = u
    <3>1. wanted'[u] = wanted[u] /\ wanted[u] \in Revisions BY ComparedAreNumbers
    <3>2. pc[u] \in Owning BY <2>3 DEF Settle, Owning, Errors
    <3>3. loads[wanted[u]] # None /\ loads[wanted[u]].owner = u
      BY <3>2 DEF ScopeInv, LoadsHaveTheirOwner
    <3>4. wanted[u] = wanted[t] => u = t
      BY <3>3 DEF ScopeInv, LoadsHaveTheirOwner, Owning
    <3>5. [owner |-> t, state |-> state, snapshot |-> s] # None BY NoneAssumption DEF Loads
    <3> QED BY <2>1, <3>1, <3>3, <3>4, <3>5
  <2> QED BY <2>2, <2>3 DEF LoadsHaveTheirOwner
<1>4. CommitsArePublished' BY DEF ScopeInv, CommitsArePublished, database
<1>5. ASSUME NEW u \in Threads PROVE GoesOn(u)'
  <2>1. GoesOn(u) BY DEF ScopeInv, GoesOn
  <2>2. RevisionSeenBy(u)' = RevisionSeenBy(u) BY SightKept
  <2>3. CASE u = t
    <3>1. pc'[t] = "settled" /\ snap'[t] = s BY DEF Settle
    <3> QED BY <1>2, <2>1, <2>2, <2>3, <3>1
        DEF GoesOn, OperationGoesForward, OperationFindsItsRevision, Seeking
  <2>4. CASE u # t /\ pc[u] = "wait" /\ wanted[u] = wanted[t]
    <3>1. snap'[u] = s /\ pc'[u] = IF state \in Errors THEN state ELSE "recheck"
      BY <2>4 DEF Settle
    <3> QED BY <1>2, <2>1, <2>2, <2>4, <3>1
        DEF GoesOn, OperationGoesForward, OperationFindsItsRevision, Seeking, Errors
  <2>5. CASE u # t /\ ~(pc[u] = "wait" /\ wanted[u] = wanted[t])
    <3>1. snap'[u] = snap[u] /\ pc'[u] = pc[u] BY <2>5 DEF Settle
    <3> QED BY <1>2, <2>2, <3>1, OthersGoOn, ComparedAreNumbers
  <2> QED BY <2>3, <2>4, <2>5
<1> QED BY <1>3, <1>4, <1>5 DEF ScopeInv, GoesOn

\* A policy is refused only after it was read whole.
LEMMA ConfirmFits ==
    ASSUME IInv, ScopeInv, NEW t \in Threads, Confirm(t)
    PROVE  ScopeInv'
<1>1. UNCHANGED database /\ UNCHANGED scopes /\ UNCHANGED <<wanted, startedAt>>
      /\ pc[t] = "load" /\ Loaded(t)
  BY DEF Confirm
<1>2. CASE Settle(t, "delivered", None) BY <1>1, <1>2, SettleFits DEF Errors
<1>3. CASE Outcome(t) = "refused" /\ Settle(t, "refused", None)
  <2>1. RevisionSeenBy(t) = wanted[t] /\ got[t] \notin SoundPolicies BY <1>3 DEF Outcome
  <2>2. \A p \in Parts : got[t][p] = policyAt[wanted[t]][p]
    <3>1. \A p \in Parts : p < next[t]
      BY <1>1, BoundAssumption DEF Loaded, Parts, IInv, TypeOK, LocalsTypeOK
    <3> QED BY <1>1, <2>1, <3>1 DEF IInv, LoadsAreWhole
  <2>3. /\ got[t] \in [Parts -> Values \cup {None}]
        /\ policyAt[wanted[t]] \in [Parts -> Values]
    BY DEF IInv, TypeOK, DatabaseTypeOK, LocalsTypeOK, Policies
  <2>4. got[t] = policyAt[wanted[t]] BY <2>2, <2>3
  <2> QED BY <1>1, <1>3, <2>1, <2>4, SettleFits DEF Errors
<1>4. CASE pc' = [pc EXCEPT ![t] = "publish"] /\ UNCHANGED <<loads, snap>>
  <2>1. pc'[t] = "publish" /\ \A u \in Threads \ {t} : pc'[u] = pc[u]
    BY <1>4 DEF IInv, TypeOK, LocalsTypeOK
  <2>2. GoesOn(t)'
    <3>1. GoesOn(t) BY DEF ScopeInv, GoesOn
    <3>2. RevisionSeenBy(t)' = RevisionSeenBy(t) /\ published' = published /\ inTx' = inTx
      BY <1>1, SightKept DEF database
    <3> QED BY <1>1, <1>4, <2>1, <3>1, <3>2
        DEF GoesOn, OperationGoesForward, OperationFindsItsRevision, Seeking, scopes
  <2>3. LoadsHaveTheirOwner' BY <1>1, <1>4, <2>1, OwnersStay DEF Owning
  <2> QED BY <1>1, <1>4, <2>1, <2>2, <2>3, ThreadStepFits, LoadsAnswerStill DEF scopes
<1> QED BY <1>2, <1>3, <1>4 DEF Confirm

\* What is shared is of the revision that was wanted.
LEMMA PublishFits ==
    ASSUME IInv, ScopeInv, NEW t \in Threads, Publish(t)
    PROVE  ScopeInv'
<1>1. UNCHANGED database /\ UNCHANGED scopes /\ UNCHANGED <<wanted, startedAt>>
      /\ pc[t] = "publish"
  BY DEF Publish
<1>2. Found(t).revision = wanted[t] /\ Found(t) \in Snapshots
  BY <1>1, SnapshotType DEF Found, Snapshot, IInv, LoadsAreWhole, TypeOK,
     DatabaseTypeOK, LocalsTypeOK
<1>3. Settle(t, "delivered", Found(t)) \/ Settle(t, "delivered", None) BY DEF Publish
<1> QED BY <1>1, <1>2, <1>3, SettleFits

\* An error shares no snapshot and refuses nothing.
LEMMA DatabaseErrorFits ==
    ASSUME IInv, ScopeInv, NEW t \in Threads, DatabaseError(t)
    PROVE  ScopeInv'
<1>1. UNCHANGED database /\ UNCHANGED scopes /\ UNCHANGED <<wanted, startedAt>>
  BY DEF DatabaseError
<1>2. CASE pc[t] = "load" /\ Settle(t, "failed", None)
  BY <1>1, <1>2, SettleFits DEF Errors
<1>3. CASE /\ pc[t] \in {"revision", "live", "before", "fallback"}
           /\ pc' = [pc EXCEPT ![t] = "failed"] /\ UNCHANGED <<loads, snap>>
  <2>1. pc'[t] = "failed" /\ \A u \in Threads \ {t} : pc'[u] = pc[u]
    BY <1>3 DEF IInv, TypeOK, LocalsTypeOK
  <2>2. GoesOn(t)'
    <3>1. GoesOn(t) BY DEF ScopeInv, GoesOn
    <3>2. RevisionSeenBy(t)' = RevisionSeenBy(t) /\ published' = published
      BY <1>1, SightKept DEF database
    <3> QED BY <1>1, <1>3, <2>1, <3>1, <3>2
        DEF GoesOn, OperationGoesForward, OperationFindsItsRevision, Seeking, scopes
  <2>3. LoadsHaveTheirOwner' BY <1>1, <1>3, <2>1, OwnersStay DEF Owning
  <2> QED BY <1>1, <1>3, <2>1, <2>2, <2>3, ThreadStepFits, LoadsAnswerStill DEF scopes
<1> QED BY <1>2, <1>3 DEF DatabaseError

\* The owner takes what it delivered.
LEMMA ForgetFits ==
    ASSUME IInv, ScopeInv, NEW t \in Threads, Forget(t)
    PROVE  ScopeInv'
<1>1. UNCHANGED database /\ UNCHANGED scopes /\ UNCHANGED <<wanted, startedAt, snap>>
      /\ pc[t] = "settled" /\ wanted[t] \in Revisions
      /\ loads' = [loads EXCEPT ![wanted[t]] = None]
  BY ComparedAreNumbers DEF Forget
<1>2. /\ \A u \in Threads \ {t} : pc'[u] = pc[u]
      /\ pc'[t] = IF loads[wanted[t]].state \in Errors THEN loads[wanted[t]].state ELSE "recheck"
  BY DEF Forget, IInv, TypeOK, LocalsTypeOK
<1>3. LoadsAnswerForTheirRevision' /\ LoadsHaveTheirOwner'
  <2>1. \A r \in Revisions : loads'[r] = IF r = wanted[t] THEN None ELSE loads[r]
    BY <1>1 DEF IInv, TypeOK, ProcessTypeOK
  <2>2. LoadsAnswerForTheirRevision'
    BY <1>1, <2>1 DEF ScopeInv, LoadsAnswerForTheirRevision, database
  <2>3. ASSUME NEW u \in Threads, pc'[u] \in Owning
        PROVE  loads'[wanted'[u]] # None /\ loads'[wanted'[u]].owner = u
    <3>1. u # t /\ pc[u] \in Owning BY <1>2, <2>3 DEF Owning, Errors
    <3>2. wanted'[u] = wanted[u] /\ wanted[u] \in Revisions BY <1>1, ComparedAreNumbers
    <3> QED BY <1>1, <2>1, <3>1, <3>2 DEF ScopeInv, LoadsHaveTheirOwner, Owning
  <2> QED BY <2>2, <2>3 DEF LoadsHaveTheirOwner
<1>4. loads[wanted[t]].state = "refused" => policyAt[wanted[t]] \notin SoundPolicies
  BY <1>1 DEF ScopeInv, LoadsAnswerForTheirRevision, LoadsHaveTheirOwner, Owning
<1>5. GoesOn(t)'
  <2>1. GoesOn(t) BY DEF ScopeInv, GoesOn
  <2>2. RevisionSeenBy(t)' = RevisionSeenBy(t) /\ published' = published /\ inTx' = inTx
        /\ policyAt' = policyAt
    BY <1>1, SightKept DEF database
  <2> QED BY <1>1, <1>2, <1>4, <2>1, <2>2
      DEF GoesOn, OperationGoesForward, OperationFindsItsRevision, Seeking, Errors, scopes
<1> QED BY <1>1, <1>2, <1>3, <1>5, ThreadStepFits DEF scopes

-----------------------------------------------------------------------------
(* The end of the loader, and of the operation.                            *)

\* A statement of a load changes nothing that is compared.
LEMMA ReadPartFits ==
    ASSUME IInv, ScopeInv, NEW t \in Threads, ReadPart(t)
    PROVE  ScopeInv'
<1>1. UNCHANGED database /\ UNCHANGED process /\ UNCHANGED scopes
      /\ UNCHANGED <<pc, wanted, snap, startedAt>>
  BY DEF ReadPart
<1>2. GoesOn(t)'
  <2>1. GoesOn(t) BY DEF ScopeInv, GoesOn
  <2>2. RevisionSeenBy(t)' = RevisionSeenBy(t) BY <1>1, SightKept
  <2> QED BY <1>1, <2>1, <2>2
      DEF GoesOn, OperationGoesForward, OperationFindsItsRevision, scopes, database
<1> QED BY <1>1, <1>2, ThreadStepFits, LoadsAnswerStill, OwnersStay DEF scopes, process

\* A snapshot is pinned under the revision that was wanted, by an evaluator only
\* outside a transaction.
LEMMA RecheckFits ==
    ASSUME IInv, ScopeInv, NEW t \in Threads, Recheck(t)
    PROVE  ScopeInv'
<1>1. UNCHANGED database /\ UNCHANGED process /\ UNCHANGED <<evaluator, startedAt>>
      /\ pc[t] = "recheck"
  BY DEF Recheck
<1>2. \A u \in Threads \ {t} :
         /\ pc'[u] = pc[u] /\ wanted'[u] = wanted[u] /\ snap'[u] = snap[u]
         /\ held'[u] = held[u] /\ pinned'[u] = pinned[u]
  BY DEF Recheck, Pin, Retry, Forgets, IInv, TypeOK, LocalsTypeOK, ScopesTypeOK
<1>3. pc'[t] \notin Owning
  BY DEF Recheck, Pin, Retry, Owning, IInv, TypeOK, LocalsTypeOK
<1>4. GoesOn(t)'
  <2>1. GoesOn(t) BY DEF ScopeInv, GoesOn
  <2>2. RevisionSeenBy(t)' = RevisionSeenBy(t) /\ published' = published /\ inTx' = inTx
    BY <1>1, SightKept DEF database
  <2>3. CASE Pin(t)
    <3>1. pc'[t] = "ready" /\ snap'[t] = snap[t] /\ snap[t] \in Snapshots
      BY <2>3, ComparedAreNumbers DEF Pin, IInv, TypeOK, LocalsTypeOK
    <3>2. PinOf(snap[t], seen[t]).revision = wanted[t]
      BY <1>1, <2>1, <2>3 DEF Pin, PinOf, GoesOn, OperationFindsItsRevision
    <3>3. snap[t].revision = wanted[t] /\ startedAt[t] <= wanted[t] /\ wanted[t] # 0
          /\ (inTx[t] \/ wanted[t] \in published)
      BY <1>1, <2>1, <2>3
         DEF Pin, GoesOn, OperationGoesForward, OperationFindsItsRevision, Seeking
    <3>4. CASE evaluator[t] /\ ~inTx[t]
      <4>1. pinned'[t] = PinOf(snap[t], seen[t]) /\ held'[t] = held[t]
        BY <2>3, <3>4 DEF Pin, Scoped, IInv, TypeOK, ScopesTypeOK
      <4> QED BY <1>1, <2>1, <2>2, <3>1, <3>2, <3>3, <3>4, <4>1
          DEF GoesOn, OperationGoesForward, OperationFindsItsRevision, Seeking
    <3>5. CASE ~(evaluator[t] /\ ~inTx[t])
      <4>1. held'[t] = PinOf(snap[t], seen[t]) /\ pinned'[t] = pinned[t]
        BY <2>3, <3>5 DEF Pin, Scoped, IInv, TypeOK, ScopesTypeOK
      <4> QED BY <1>1, <2>1, <2>2, <3>1, <3>2, <3>3, <3>5, <4>1
          DEF GoesOn, OperationGoesForward, OperationFindsItsRevision, Seeking
    <3> QED BY <3>4, <3>5
  <2>4. CASE Retry(t)
    <3>1. pc'[t] \in {"revision", "before"} /\ held'[t] = held[t] /\ pinned'[t] = pinned[t]
      BY <2>4 DEF Retry, IInv, TypeOK, LocalsTypeOK
    <3> QED BY <1>1, <2>1, <2>2, <3>1
        DEF GoesOn, OperationGoesForward, OperationFindsItsRevision, Seeking
  <2> QED BY <2>3, <2>4 DEF Recheck
<1>5. LoadsAnswerForTheirRevision' BY <1>1, LoadsAnswerStill DEF process
<1>6. LoadsHaveTheirOwner'
  BY <1>1, <1>2, <1>3, OwnersStay DEF process
<1> QED BY <1>1, <1>2, <1>4, <1>5, <1>6, ThreadStepFits

\* A live read was started when nothing was published.
LEMMA FinishLiveFits ==
    ASSUME IInv, ScopeInv, NEW t \in Threads, FinishLive(t)
    PROVE  ScopeInv'
<1>1. UNCHANGED database /\ UNCHANGED process /\ UNCHANGED <<evaluator, pinned, startedAt>>
      /\ pc[t] = "live"
  BY DEF FinishLive
<1>2. \A u \in Threads \ {t} :
         pc'[u] = pc[u] /\ wanted'[u] = wanted[u] /\ snap'[u] = snap[u] /\ held'[u] = held[u]
  BY DEF FinishLive, Forgets, IInv, TypeOK, LocalsTypeOK, ScopesTypeOK
<1>3. /\ pc'[t] = "ready" /\ snap'[t] = Snapshot(got[t], 0)
      /\ held'[t] = PinOf(Snapshot(got[t], 0), seen[t])
  BY DEF FinishLive, IInv, TypeOK, LocalsTypeOK, ScopesTypeOK
<1>4. GoesOn(t)'
  <2>1. GoesOn(t) /\ startedAt[t] = 0 BY <1>1 DEF ScopeInv, GoesOn, OperationGoesForward
  <2>2. RevisionSeenBy(t)' = RevisionSeenBy(t) /\ published' = published /\ inTx' = inTx
    BY <1>1, SightKept DEF database
  <2> QED BY <1>1, <1>3, <2>1, <2>2
      DEF GoesOn, OperationGoesForward, OperationFindsItsRevision, Seeking, Snapshot, PinOf
<1>5. LoadsAnswerForTheirRevision' /\ LoadsHaveTheirOwner'
  BY <1>1, <1>2, <1>3, LoadsAnswerStill, OwnersStay DEF process, Owning
<1> QED BY <1>1, <1>2, <1>4, <1>5, ThreadStepFits

\* The fallback wants what is visible now.
LEMMA StartFallbackFits ==
    ASSUME IInv, ScopeInv, NEW t \in Threads, StartFallback(t)
    PROVE  ScopeInv'
<1>1. UNCHANGED database /\ UNCHANGED process /\ UNCHANGED scopes
      /\ UNCHANGED <<snap, startedAt>> /\ pc[t] = "before"
  BY DEF StartFallback
<1>2. /\ \A u \in Threads \ {t} : pc'[u] = pc[u] /\ wanted'[u] = wanted[u]
      /\ pc'[t] = "fallback" /\ wanted'[t] = RevisionSeenBy(t)
  BY DEF StartFallback, IInv, TypeOK, LocalsTypeOK
<1>3. GoesOn(t)'
  <2>1. GoesOn(t) BY DEF ScopeInv, GoesOn
  <2>2. RevisionSeenBy(t)' = RevisionSeenBy(t) /\ published' = published
    BY <1>1, SightKept DEF database
  <2> QED BY <1>1, <1>2, <2>1, <2>2, ComparedAreNumbers
      DEF GoesOn, OperationGoesForward, OperationFindsItsRevision, Seeking, scopes
<1>4. LoadsAnswerForTheirRevision' /\ LoadsHaveTheirOwner'
  BY <1>1, <1>2, LoadsAnswerStill, OwnersStay DEF process, Owning
<1> QED BY <1>1, <1>2, <1>3, <1>4, ThreadStepFits DEF scopes

\* And serves its operation with that.
LEMMA FinishFallbackFits ==
    ASSUME IInv, ScopeInv, NEW t \in Threads, FinishFallback(t)
    PROVE  ScopeInv'
<1>1. UNCHANGED database /\ UNCHANGED process /\ UNCHANGED scopes
      /\ UNCHANGED startedAt /\ pc[t] = "fallback"
  BY DEF FinishFallback
<1>2. /\ \A u \in Threads \ {t} : pc'[u] = pc[u] /\ wanted'[u] = wanted[u] /\ snap'[u] = snap[u]
      /\ \/ pc'[t] = "ready" /\ snap'[t] = Found(t)
         \/ pc'[t] = "closed"
  BY DEF FinishFallback, Forgets, IInv, TypeOK, LocalsTypeOK
<1>3. GoesOn(t)'
  <2>1. GoesOn(t) BY DEF ScopeInv, GoesOn
  <2>2. RevisionSeenBy(t)' = RevisionSeenBy(t) /\ published' = published
    BY <1>1, SightKept DEF database
  <2> QED BY <1>1, <1>2, <2>1, <2>2
      DEF GoesOn, OperationGoesForward, OperationFindsItsRevision, Seeking,
          scopes, Found, Snapshot
<1>4. LoadsAnswerForTheirRevision' /\ LoadsHaveTheirOwner'
  BY <1>1, <1>2, LoadsAnswerStill, OwnersStay DEF process, Owning
<1> QED BY <1>1, <1>2, <1>3, <1>4, ThreadStepFits DEF scopes

\* An uncached load whose revision is still there read that policy whole, so the
\* refusal is that policy's.
LEMMA RefuseUncachedFits ==
    ASSUME IInv, ScopeInv, NEW t \in Threads, RefuseUncached(t)
    PROVE  ScopeInv'
<1>1. UNCHANGED database /\ UNCHANGED process /\ UNCHANGED scopes
      /\ UNCHANGED <<wanted, snap, startedAt>> /\ pc[t] \in {"live", "fallback"}
      /\ Loaded(t) /\ got[t] \notin SoundPolicies
  BY DEF RefuseUncached
<1>2. /\ \A u \in Threads \ {t} : pc'[u] = pc[u]
      /\ pc'[t] = "unconfirmed"
  BY DEF RefuseUncached, IInv, TypeOK, LocalsTypeOK
<1>3. ASSUME RevisionSeenBy(t) = wanted[t] PROVE policyAt[wanted[t]] \notin SoundPolicies
  <2>1. \A p \in Parts : p < next[t]
    BY <1>1, BoundAssumption DEF Loaded, Parts, IInv, TypeOK, LocalsTypeOK
  <2>2. \A p \in Parts : got[t][p] = policyAt[wanted[t]][p]
    BY <1>1, <1>3, <2>1 DEF IInv, LoadsAreWhole
  <2>3. /\ got[t] \in [Parts -> Values \cup {None}]
        /\ policyAt[wanted[t]] \in [Parts -> Values]
    BY DEF IInv, TypeOK, DatabaseTypeOK, LocalsTypeOK, Policies
  <2>4. got[t] = policyAt[wanted[t]] BY <2>2, <2>3
  <2> QED BY <1>1, <2>4
<1>4. GoesOn(t)'
  <2>1. GoesOn(t) BY DEF ScopeInv, GoesOn
  <2>2. RevisionSeenBy(t)' = RevisionSeenBy(t) /\ published' = published
        /\ policyAt' = policyAt
    BY <1>1, SightKept DEF database
  <2> QED BY <1>1, <1>2, <1>3, <2>1, <2>2
      DEF GoesOn, OperationGoesForward, OperationFindsItsRevision, Seeking, scopes
<1>5. LoadsAnswerForTheirRevision' /\ LoadsHaveTheirOwner'
  BY <1>1, <1>2, LoadsAnswerStill, OwnersStay DEF process, Owning
<1> QED BY <1>1, <1>2, <1>4, <1>5, ThreadStepFits DEF scopes

\* A second question of the operation has the pins of the first.
LEMMA ResolveAgainFits ==
    ASSUME IInv, ScopeInv, NEW t \in Threads, ResolveAgain(t)
    PROVE  ScopeInv'
<1>1. UNCHANGED database /\ UNCHANGED process /\ UNCHANGED scopes
      /\ UNCHANGED <<wanted, startedAt>> /\ pc[t] = "ready"
  BY DEF ResolveAgain
<1>2. /\ \A u \in Threads \ {t} : pc'[u] = pc[u] /\ snap'[u] = snap[u]
      /\ pc'[t] = "resolve"
  BY DEF ResolveAgain, IInv, TypeOK, LocalsTypeOK
<1>3. GoesOn(t)'
  <2>1. GoesOn(t) BY DEF ScopeInv, GoesOn
  <2>2. RevisionSeenBy(t)' = RevisionSeenBy(t) /\ published' = published
    BY <1>1, SightKept DEF database
  <2> QED BY <1>1, <1>2, <2>1, <2>2
      DEF GoesOn, OperationGoesForward, OperationFindsItsRevision, Seeking, scopes
<1>4. LoadsAnswerForTheirRevision' /\ LoadsHaveTheirOwner'
  BY <1>1, <1>2, LoadsAnswerStill, OwnersStay DEF process, Owning
<1> QED BY <1>1, <1>2, <1>3, <1>4, ThreadStepFits DEF scopes

\* With the operation its pin is gone.
LEMMA EndOperationFits ==
    ASSUME IInv, ScopeInv, NEW t \in Threads, EndOperation(t)
    PROVE  ScopeInv'
<1>1. UNCHANGED database /\ UNCHANGED process /\ UNCHANGED <<evaluator, pinned>>
  BY DEF EndOperation
<1>2. /\ \A u \in Threads \ {t} :
            /\ pc'[u] = pc[u] /\ wanted'[u] = wanted[u] /\ snap'[u] = snap[u]
            /\ held'[u] = held[u] /\ startedAt'[u] = startedAt[u]
      /\ pc'[t] = "idle" /\ held'[t] = None
  BY DEF EndOperation, Forgets, IInv, TypeOK, LocalsTypeOK, ScopesTypeOK
<1>3. GoesOn(t)'
  <2>1. GoesOn(t) BY DEF ScopeInv, GoesOn
  <2>2. published' = published BY <1>1 DEF database
  <2> QED BY <1>1, <1>2, <2>1, <2>2
      DEF GoesOn, OperationGoesForward, OperationFindsItsRevision, Seeking
<1>4. LoadsAnswerForTheirRevision' /\ LoadsHaveTheirOwner'
  BY <1>1, <1>2, LoadsAnswerStill, OwnersStay DEF process, Owning
<1> QED BY <1>1, <1>2, <1>3, <1>4, ThreadStepFits

-----------------------------------------------------------------------------
(* Scopes and writers.                                                     *)

\* Scopes open and close, and pins are dropped, between operations.
LEMMA ScopeStepFits ==
    ASSUME IInv, ScopeInv, NEW t \in Threads, ScopeStep(t)
    PROVE  ScopeInv'
<1>1. UNCHANGED database /\ UNCHANGED process /\ UNCHANGED locals /\ UNCHANGED held
  BY DEF ScopeStep, OpenScope, CloseScope, InvalidateEvaluator
<1>2. ASSUME NEW u \in Threads
      PROVE  /\ pinned'[u] \in {pinned[u], None}
             /\ pc[u] = "idle" \/ evaluator'[u] = evaluator[u]
  BY DEF ScopeStep, OpenScope, CloseScope, InvalidateEvaluator, IInv, TypeOK, ScopesTypeOK
<1>3. ASSUME NEW u \in Threads PROVE GoesOn(u)'
  <2>1. RevisionSeenBy(u)' = RevisionSeenBy(u) BY <1>1, SightKept
  <2> QED BY <1>1, <1>2, <2>1, OthersGoOn, ComparedAreNumbers DEF locals, database
<1>4. CommitsArePublished' /\ LoadsAnswerForTheirRevision' /\ LoadsHaveTheirOwner'
  BY <1>1, LoadsAnswerStill, OwnersStay
     DEF ScopeInv, CommitsArePublished, database, process, locals
<1> QED BY <1>3, <1>4 DEF ScopeInv, GoesOn

\* A step of a writer, if the revisions that operations see go forward and what
\* revisions name stays.
LEMMA WritingFits ==
    ASSUME IInv, ScopeInv, NEW t, UNCHANGED loads, UNCHANGED scopes, UNCHANGED locals,
           \A u \in Threads :
               /\ pc[u] = "idle" \/ inTx'[u] = inTx[u]
               /\ pc[u] # "idle" => RevisionSeenBy(u) <= RevisionSeenBy(u)'
               /\ RevisionSeenBy(u)' \in Nat,
           published \subseteq published', issued' \in Nat, issued <= issued',
           \A r \in Revisions : r <= issued => policyAt'[r] = policyAt[r],
           CommitsArePublished'
    PROVE  ScopeInv'
<1>1. \A u \in Threads : GoesOn(u)' BY OthersGoOn DEF locals, scopes
<1>2. LoadsAnswerForTheirRevision'
  <2>1. issued \in Nat /\ \A r \in Revisions : r \in Nat
    BY RevisionsAreNaturals DEF IInv, TypeOK, DatabaseTypeOK
  <2> QED BY <2>1 DEF ScopeInv, LoadsAnswerForTheirRevision
<1>3. LoadsHaveTheirOwner' BY OwnersStay DEF locals
<1> QED BY <1>1, <1>2, <1>3 DEF ScopeInv, GoesOn

\* What everybody sees is a number afterwards too.
LEMMA SeenIsNumberAfter ==
    ASSUME IInv' PROVE \A t \in Threads : RevisionSeenBy(t)' \in Nat
<1> SUFFICES ASSUME NEW t \in Threads PROVE RevisionSeenBy(t)' \in Nat OBVIOUS
<1>1. revision' \in Revisions /\ (holder' = t => draft' \in Snapshots)
  BY NoneAssumption DEF IInv, TypeOK, DatabaseTypeOK, RevisionsNamePolicies
<1> QED BY <1>1, SnapshotParts, RevisionsAreNaturals DEF RevisionSeenBy

\* A transaction begins, a row is saved, a savepoint or the transaction is rolled
\* back: no revision is given, and only its own thread, which is in no operation,
\* sees another one.
LEMMA QuietWritesFit ==
    ASSUME IInv, IInv', ScopeInv, NEW t \in Threads,
           \/ BeginTransaction(t) \/ \E p \in Parts, v \in Values : SaveRow(t, p, v)
           \/ Rollback(t) \/ RollbackSavepoint(t)
    PROVE  ScopeInv'
<1>1. /\ UNCHANGED <<revision, issued, published, policyAt>>
      /\ UNCHANGED process /\ UNCHANGED scopes /\ UNCHANGED locals
      /\ pc[t] = "idle" /\ holder' \in {holder, t, None}
  BY DEF BeginTransaction, SaveRow, Rollback, RollbackSavepoint
<1>2. /\ \A u \in Threads \ {t} : inTx'[u] = inTx[u]
      /\ holder' = t => inTx'[t]
  BY NoneAssumption
     DEF BeginTransaction, SaveRow, Rollback, RollbackSavepoint, IInv, TypeOK,
         DatabaseTypeOK, ScopeInv, CommitsArePublished
<1>3. \A u \in Threads \ {t} : RevisionSeenBy(u)' = RevisionSeenBy(u)
  <2>1. revision' = revision
        /\ \/ holder' = holder /\ draft' = draft
           \/ holder \in {None, t} /\ holder' \in {None, t}
    BY DEF BeginTransaction, SaveRow, Rollback, RollbackSavepoint
  <2> QED BY <2>1, NoneAssumption DEF RevisionSeenBy
<1>4. holder' # None => inTx'[holder']
  BY <1>1, <1>2 DEF ScopeInv, CommitsArePublished, IInv, TypeOK, DatabaseTypeOK
<1>5. CommitsArePublished' BY <1>1, <1>4 DEF ScopeInv, CommitsArePublished
<1>6. issued \in Nat BY ComparedAreNumbers
<1> QED BY <1>1, <1>2, <1>3, <1>5, <1>6, WritingFits, SeenIsNumberAfter, ComparedAreNumbers
    DEF process

\* A fresh revision names what no older one named.
LEMMA AdvanceFits ==
    ASSUME IInv, IInv', ScopeInv, NEW t \in Threads, Advance(t)
    PROVE  ScopeInv'
<1>1. /\ UNCHANGED <<revision, holder, inTx, published, loads>>
      /\ UNCHANGED scopes /\ UNCHANGED locals
      /\ pc[t] = "idle" /\ holder = t /\ issued' = issued + 1
      /\ policyAt' = [policyAt EXCEPT ![issued + 1] = draft.rows]
  BY DEF Advance
<1>2. issued \in Nat /\ \A r \in Revisions : r \in Nat
  BY ComparedAreNumbers, RevisionsAreNaturals DEF IInv, TypeOK, DatabaseTypeOK
<1>3. \A r \in Revisions : r <= issued => policyAt'[r] = policyAt[r]
  BY <1>1, <1>2 DEF IInv, TypeOK, DatabaseTypeOK
<1>4. \A u \in Threads \ {t} : RevisionSeenBy(u)' = RevisionSeenBy(u)
  BY <1>1, NoneAssumption DEF RevisionSeenBy
<1>5. CommitsArePublished'
  <2>1. \A r \in published : r \in Nat BY <1>2 DEF IInv, TypeOK, DatabaseTypeOK
  <2> QED BY <1>1, <1>2, <2>1 DEF ScopeInv, CommitsArePublished
<1> QED BY <1>1, <1>2, <1>3, <1>4, <1>5, WritingFits, SeenIsNumberAfter, ComparedAreNumbers

\* A commit replaces the revision by a later one.
LEMMA CommitFits ==
    ASSUME IInv, IInv', ScopeInv, NEW t \in Threads, Commit(t)
    PROVE  ScopeInv'
<1>1. /\ UNCHANGED <<issued, policyAt>> /\ pc[t] = "idle"
      /\ UNCHANGED process /\ UNCHANGED scopes /\ UNCHANGED locals
      /\ \A u \in Threads \ {t} : inTx'[u] = inTx[u]
  BY DEF Commit, IInv, TypeOK, DatabaseTypeOK
<1>2. issued \in Nat BY ComparedAreNumbers
<1>3. CASE /\ holder = t /\ revision' = draft.revision
           /\ published' = published \cup {revision'} /\ holder' = None
  <2>1. revision <= draft.revision /\ draft.revision <= issued
    BY <1>3, NoneAssumption DEF IInv, RevisionsNamePolicies
  <2>2. \A u \in Threads \ {t} : RevisionSeenBy(u) <= RevisionSeenBy(u)'
    BY <1>3, <2>1, NoneAssumption DEF RevisionSeenBy
  <2>3. CommitsArePublished' BY <1>1, <1>3, <2>1 DEF ScopeInv, CommitsArePublished
  <2> QED BY <1>1, <1>2, <1>3, <2>2, <2>3, WritingFits, SeenIsNumberAfter DEF process
<1>4. CASE holder # t /\ UNCHANGED <<revision, published, holder, draft>>
  <2>1. \A u \in Threads : RevisionSeenBy(u)' = RevisionSeenBy(u)
    BY <1>4 DEF RevisionSeenBy
  <2>2. CommitsArePublished'
    BY <1>1, <1>4 DEF ScopeInv, CommitsArePublished, IInv, TypeOK, DatabaseTypeOK
  <2> QED BY <1>1, <1>2, <1>4, <2>1, <2>2, WritingFits, ComparedAreNumbers DEF process
<1> QED BY <1>3, <1>4 DEF Commit

\* So does a commit of another process.
LEMMA RemoteCommitFits ==
    ASSUME IInv, IInv', ScopeInv, NEW policy, RemoteCommit(policy)
    PROVE  ScopeInv'
<1>1. /\ UNCHANGED <<holder, draft, inTx>> /\ holder = None
      /\ UNCHANGED process /\ UNCHANGED scopes /\ UNCHANGED locals
      /\ issued' = issued + 1 /\ revision' = issued + 1
      /\ published' = published \cup {issued + 1}
      /\ policyAt' = [policyAt EXCEPT ![issued + 1] = policy]
  BY DEF RemoteCommit
<1>2. issued \in Nat /\ revision \in Nat /\ revision <= issued
      /\ (\A r \in Revisions : r \in Nat) /\ (\A r \in published : r \in Nat)
  BY RevisionsAreNaturals DEF IInv, TypeOK, DatabaseTypeOK, RevisionsNamePolicies
<1>3. \A r \in Revisions : r <= issued => policyAt'[r] = policyAt[r]
  BY <1>1, <1>2 DEF IInv, TypeOK, DatabaseTypeOK
<1>4. \A u \in Threads : RevisionSeenBy(u) = revision /\ RevisionSeenBy(u)' = issued + 1
  BY <1>1, NoneAssumption DEF RevisionSeenBy
<1>5. CommitsArePublished' BY <1>1, <1>2 DEF ScopeInv, CommitsArePublished
<1> QED BY <1>1, <1>2, <1>3, <1>4, <1>5, WritingFits DEF process

-----------------------------------------------------------------------------
(* The theorems.                                                           *)

\* Nothing is kept or looked for in the beginning.
LEMMA InitScopeInv ==
    ASSUME Init PROVE ScopeInv
<1>1. CommitsArePublished BY DEF Init, CommitsArePublished, Revisions
<1> QED BY <1>1 DEF Init, ScopeInv, LoadsAnswerForTheirRevision, LoadsHaveTheirOwner, Owning,
                    OperationGoesForward, OperationFindsItsRevision, Seeking

\* Every step keeps it.
LEMMA StepFits ==
    ASSUME IInv, IInv', ScopeInv, [Next]_vars
    PROVE  ScopeInv'
<1>1. ASSUME NEW t \in Threads, LoadStep(t) PROVE ScopeInv'
  BY <1>1, ResolveFits, ReadRevisionFits, LookupFits, ReadPartFits, ConfirmFits, PublishFits,
     ForgetFits, RecheckFits, FinishLiveFits, StartFallbackFits, FinishFallbackFits,
     RefuseUncachedFits DEF LoadStep
<1>2. ASSUME NEW t \in Threads, WriteStep(t) PROVE ScopeInv'
  BY <1>2, QuietWritesFit, AdvanceFits, CommitFits DEF WriteStep
<1>3. ASSUME NEW t \in Threads, OperationStep(t) PROVE ScopeInv'
  BY <1>3, StartOperationFits, ResolveAgainFits, EndOperationFits, DatabaseErrorFits
     DEF OperationStep
<1>4. CASE UNCHANGED vars
  BY <1>4 DEF vars, ScopeInv, CommitsArePublished, LoadsAnswerForTheirRevision,
              LoadsHaveTheirOwner, OperationGoesForward, OperationFindsItsRevision,
              RevisionSeenBy
<1> QED BY <1>1, <1>2, <1>3, <1>4, ScopeStepFits, RemoteCommitFits DEF Next, ThreadStep

\* What _load_schema_snapshot finds, shares and pins is of the revision it was asked
\* for, and never older than the start of its operation.
THEOREM OperationsGoForward ==
    ASSUME ~HandlersRead
    PROVE  Spec => []ScopeInv
<1>1. Init => ScopeInv BY InitScopeInv
<1>2. IInv /\ IInv' /\ ScopeInv /\ [Next]_vars => ScopeInv' BY StepFits
<1> QED BY <1>1, <1>2, Invariance, PTL DEF Spec

\* An evaluator scope pins only whole policies that were published, and an operation
\* that may not use such a pin works with nothing older than what it saw first.
THEOREM PinsAreHeld ==
    ASSUME ~HandlersRead
    PROVE  Spec => []PinsHoldTheirPolicy
<1>1. ASSUME IInv, ScopeInv PROVE PinsHoldTheirPolicy
  <2>1. ScopesKeepPublishedPolicies
    <3> SUFFICES ASSUME NEW t \in Threads, pinned[t] # None
                 PROVE  /\ pinned[t].revision \in published
                        /\ pinned[t].rows = policyAt[pinned[t].revision]
      BY DEF ScopesKeepPublishedPolicies
    <3>1. pinned[t].revision \in published \ {0}
      BY <1>1 DEF ScopeInv, OperationFindsItsRevision
    <3> QED BY <1>1, <3>1 DEF IInv, SnapshotsAreTruthful, Truthful
  <2>2. OperationsAreFresh
    <3> SUFFICES ASSUME NEW t \in Threads, pc[t] = "ready", ~evaluator[t] \/ inTx[t]
                 PROVE  snap[t].revision >= startedAt[t]
      BY DEF OperationsAreFresh
    <3>1. startedAt[t] <= snap[t].revision BY <1>1 DEF ScopeInv, OperationGoesForward
    <3>2. snap[t] # None BY <1>1 DEF IInv, SnapshotsAreTruthful
    <3> QED BY <1>1, <3>1, <3>2, ComparedAreNumbers
  <2> QED BY <2>1, <2>2 DEF PinsHoldTheirPolicy
<1> QED BY <1>1, Invariance, OperationsGoForward, PTL

\* No shared load refuses a policy, to its owner or to those who wait for it, unless
\* the policy of the revision it is shared under is unsound; and an uncached load
\* refuses none that is sound while its revision is still visible.
THEOREM RefusalsRestOnPolicies ==
    ASSUME ~HandlersRead
    PROVE  Spec => []RefusalsAreDeserved
<1>1. ScopeInv => RefusalsAreDeserved
  BY DEF ScopeInv, OperationFindsItsRevision, RefusalsAreDeserved
<1> QED BY <1>1, OperationsGoForward, PTL
=============================================================================
