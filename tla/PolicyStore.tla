---------------------------- MODULE PolicyStore ----------------------------
(***************************************************************************)
(* Writers of the stored policy (definitions, relations, permissions,      *)
(* caveats, overrides) on one database alias: models/schema_write.py and   *)
(* models/generation.py.  A writer owns the policy inside                  *)
(* schema_index_write(): it locks the SchemaGeneration row, remembers the  *)
(* revision and whether the policy was sound, lets the block write, and    *)
(* validates the composed policy when the OUTERMOST owner exits.  Each     *)
(* write of a row also advances the revision in the same savepoint.        *)
(*                                                                         *)
(* The database is read committed with row locks that last as long as the  *)
(* savepoint they were taken under (PostgreSQL): a transaction reads the   *)
(* committed rows under its own uncommitted ones.  A policy is a function  *)
(* from rows to values, an absent row being one of the values; whether it  *)
(* is sound (it loads, composes and its recursion compiles) is a property  *)
(* of the whole function, given by SoundPolicies.                          *)
(***************************************************************************)
EXTENDS Naturals, Sequences

CONSTANTS
    Writers,        \* transactions, each on a connection of its own
    Rows,           \* the rows of the five policy tables
    Values,         \* what a row may hold
    SoundPolicies,  \* the policies that _stored_policy_errors accepts
    Untouched,      \* a row that a transaction did not change
    NoWriter,       \* nobody holds the generation row
    MaxRevision,    \* bound on the identities issued
    MaxNesting      \* bound on nested owners

Policies == [Rows -> Values]

ASSUME SoundAssumption == SoundPolicies \subseteq Policies
ASSUME UntouchedAssumption == Untouched \notin Values
ASSUME NoWriterAssumption == NoWriter \notin Writers
ASSUME BoundAssumption == MaxRevision \in Nat /\ MaxNesting \in Nat \ {0}

VARIABLES
    stored,      \* the committed policy rows
    revision,    \* the committed revision; 0 before the first publication
    issued,      \* the last identity uuid4() gave: never given again
    lock,        \* the transaction that holds the generation row
    phase,       \* phase[w]: where w's transaction is
    ambient,     \* ambient[w]: the application opened the transaction itself
    point,       \* point[w]: what w's transaction wrote so far
    savepoints,  \* savepoints[w]: the points its open owners started from
    before,      \* before[w]: the revision the outermost owner started from
    sound,       \* sound[w]: whether the policy was sound at that moment
    published    \* every revision a reader may have seen (auxiliary)

vars == <<stored, revision, issued, lock, phase, ambient, point, savepoints,
          before, sound, published>>

Phases == {"idle", "open", "owning", "leaving"}
Changes == [Rows -> Values \cup {Untouched}]

\* What a transaction wrote: its rows, the revision it put in the generation
\* row (0 for none), and whether it held the generation row lock.
Points == [writes : Changes, advanced : 0..MaxRevision, locked : BOOLEAN]

Nothing == [writes |-> [r \in Rows |-> Untouched], advanced |-> 0, locked |-> FALSE]

TypeOK ==
    /\ stored \in Policies
    /\ revision \in 0..MaxRevision
    /\ issued \in 0..MaxRevision
    /\ lock \in Writers \cup {NoWriter}
    /\ phase \in [Writers -> Phases]
    /\ ambient \in [Writers -> BOOLEAN]
    /\ point \in [Writers -> Points]
    /\ savepoints \in [Writers -> Seq(Points)]
    /\ before \in [Writers -> 0..MaxRevision]
    /\ sound \in [Writers -> BOOLEAN]
    /\ published \subseteq 0..MaxRevision

-----------------------------------------------------------------------------
(* What a transaction reads.                                               *)

\* Mutant: what a transaction did not touch is lost.
LostBase(change, policy) == change

Overlay(change, policy) ==
    [r \in Rows |-> IF change[r] = Untouched THEN policy[r] ELSE change[r]]

PolicySeenBy(w) == Overlay(point[w].writes, stored)

RevisionSeenBy(w) ==
    IF point[w].advanced = 0 THEN revision ELSE point[w].advanced

Depth(w) == Len(savepoints[w])

\* Mutant: rolling back a savepoint always gives the lock away.
RestoreUnlocked(w, saved) ==
    /\ point' = [point EXCEPT ![w] = saved]
    /\ lock' = NoWriter

\* ROLLBACK TO SAVEPOINT: the rows, the generation row and a lock taken since.
Restore(w, saved) ==
    /\ point' = [point EXCEPT ![w] = saved]
    /\ lock' = IF saved.locked THEN w ELSE NoWriter

\* The whole transaction ends.
Release(w) ==
    /\ lock' = IF lock = w THEN NoWriter ELSE lock
    /\ phase' = [phase EXCEPT ![w] = "idle"]
    /\ ambient' = [ambient EXCEPT ![w] = FALSE]
    /\ point' = [point EXCEPT ![w] = Nothing]
    /\ savepoints' = [savepoints EXCEPT ![w] = << >>]

-----------------------------------------------------------------------------
Init ==
    /\ stored \in Policies
    /\ revision \in 0..1 /\ revision <= MaxRevision
    /\ issued = revision
    /\ lock = NoWriter
    /\ phase = [w \in Writers |-> "idle"]
    /\ ambient = [w \in Writers |-> FALSE]
    /\ point = [w \in Writers |-> Nothing]
    /\ savepoints = [w \in Writers |-> << >>]
    /\ before = [w \in Writers |-> 0]
    /\ sound = [w \in Writers |-> FALSE]
    /\ published = {revision}

\* The application opens its own transaction around the policy writes.
OpenTransaction(w) ==
    /\ phase[w] = "idle"
    /\ phase' = [phase EXCEPT ![w] = "open"]
    /\ ambient' = [ambient EXCEPT ![w] = TRUE]
    /\ UNCHANGED <<stored, revision, issued, lock, point, savepoints, before,
                   sound, published>>

\* Mutant: the lock is not awaited.
LockUnawaited(w) == TRUE

\* SELECT ... FOR UPDATE on the generation row.
MayLock(w) == lock \in {NoWriter, w}

\* The outermost owner starts: it waits for the generation row, then reads the
\* revision and judges the policy it starts from.
EnterOwner(w) ==
    /\ phase[w] \in {"idle", "open"}
    /\ MayLock(w)
    /\ lock' = w
    /\ phase' = [phase EXCEPT ![w] = "owning"]
    /\ savepoints' = [savepoints EXCEPT ![w] = <<point[w]>>]
    /\ point' = [point EXCEPT ![w].locked = TRUE]
    /\ before' = [before EXCEPT ![w] = RevisionSeenBy(w)]
    /\ sound' = [sound EXCEPT ![w] = PolicySeenBy(w) \in SoundPolicies]
    /\ UNCHANGED <<stored, revision, issued, ambient, published>>

\* An owner inside an owner is only a savepoint.
EnterNestedOwner(w) ==
    /\ phase[w] = "owning"
    /\ Depth(w) < MaxNesting
    /\ savepoints' = [savepoints EXCEPT ![w] = Append(@, point[w])]
    /\ UNCHANGED <<stored, revision, issued, lock, phase, ambient, point, before,
                   sound, published>>

ExitNestedOwner(w) ==
    /\ phase[w] = "owning"
    /\ Depth(w) > 1
    /\ savepoints' = [savepoints EXCEPT ![w] = SubSeq(@, 1, Len(@) - 1)]
    /\ UNCHANGED <<stored, revision, issued, lock, phase, ambient, point, before,
                   sound, published>>

\* An exception leaves a nested owner and the code around it handles it: a
\* refused override, a database error, a failed package of a sync.
FailNestedOwner(w) ==
    /\ phase[w] = "owning"
    /\ Depth(w) > 1
    /\ Restore(w, savepoints[w][Depth(w)])
    /\ savepoints' = [savepoints EXCEPT ![w] = SubSeq(@, 1, Len(@) - 1)]
    /\ UNCHANGED <<stored, revision, issued, phase, ambient, before, sound,
                   published>>

\* Mutant: a write under a nested owner leaves advance() to the outermost one.
WriteAdvancingOutermost(w, change) ==
    /\ phase[w] = "owning"
    /\ issued < MaxRevision
    /\ issued' = IF Depth(w) = 1 THEN issued + 1 ELSE issued
    /\ point' = [point EXCEPT ![w] =
         [writes |-> Overlay(change, @.writes),
          advanced |-> IF Depth(w) = 1 THEN issued + 1 ELSE @.advanced,
          locked |-> @.locked]]
    /\ UNCHANGED <<stored, revision, lock, phase, ambient, savepoints, before,
                   sound, published>>

\* One save, update, bulk create, delete or cascade of policy rows, with the
\* advance() that ends it.  A sync that finds nothing to change still advances:
\* the change that leaves every row untouched.
Write(w, change) ==
    /\ phase[w] = "owning"
    /\ issued < MaxRevision
    /\ issued' = issued + 1
    /\ point' = [point EXCEPT ![w] =
         [writes |-> Overlay(change, @.writes), advanced |-> issued + 1, locked |-> @.locked]]
    /\ UNCHANGED <<stored, revision, lock, phase, ambient, savepoints, before,
                   sound, published>>

\* Mutant: nothing is validated on the way out.
NeverRefused(w) == FALSE

\* The outermost owner's last check, under the lock.
Refused(w) ==
    /\ sound[w]
    /\ RevisionSeenBy(w) # before[w]
    /\ PolicySeenBy(w) \notin SoundPolicies

ExitOwner(w) ==
    /\ phase[w] = "owning"
    /\ Depth(w) = 1
    /\ ~Refused(w)
    /\ phase' = [phase EXCEPT ![w] = IF ambient[w] THEN "open" ELSE "leaving"]
    /\ savepoints' = [savepoints EXCEPT ![w] = << >>]
    /\ UNCHANGED <<stored, revision, issued, lock, ambient, point, before, sound,
                   published>>

\* SchemaError from the last check, or any exception out of the block.  Inside
\* an application transaction only the owner's savepoint goes; without one the
\* owner's own transaction does, which is Rollback.
FailOwner(w) ==
    /\ phase[w] = "owning"
    /\ Depth(w) = 1
    /\ ambient[w]
    /\ Restore(w, savepoints[w][1])
    /\ phase' = [phase EXCEPT ![w] = "open"]
    /\ savepoints' = [savepoints EXCEPT ![w] = << >>]
    /\ UNCHANGED <<stored, revision, issued, ambient, before, sound, published>>

Commit(w) ==
    /\ phase[w] \in {"open", "leaving"}
    /\ stored' = PolicySeenBy(w)
    /\ revision' = RevisionSeenBy(w)
    /\ published' = published \cup {revision'}
    /\ Release(w)
    /\ UNCHANGED <<issued, before, sound>>

\* An exception out of the outermost block, a lost connection, a dead process.
Rollback(w) ==
    /\ phase[w] # "idle"
    /\ Release(w)
    /\ UNCHANGED <<stored, revision, issued, before, sound, published>>

Step(w) ==
    \/ OpenTransaction(w)
    \/ EnterOwner(w)
    \/ EnterNestedOwner(w)
    \/ ExitNestedOwner(w)
    \/ FailNestedOwner(w)
    \/ \E change \in Changes : Write(w, change)
    \/ ExitOwner(w)
    \/ FailOwner(w)
    \/ Commit(w)
    \/ Rollback(w)

Next == \E w \in Writers : Step(w)

Spec == Init /\ [][Next]_vars

-----------------------------------------------------------------------------
(* Properties.                                                             *)

\* The policy an outermost owner examined is still the committed one when it
\* validates: nobody commits a policy write between the two, so the judgement
\* "sound before" and the final check are about the same base
\* (schema_index_write holds the generation row from one to the other).
OwnerKeepsItsBase ==
    \A w \in Writers :
        phase[w] = "owning" /\ savepoints[w][1].advanced = 0 => before[w] = revision

\* A revision names one content: wherever a transaction stands on a revision it
\* has stood on before (after savepoints were rolled back), its rows are the
\* rows of that moment.  The last check of an owner skips the validation when
\* the revision is the one it started from, which is right only because of this.
RevisionNamesWrites ==
    \A w \in Writers : \A i \in 1..Depth(w) :
        point[w].advanced = savepoints[w][i].advanced
            => point[w].writes = savepoints[w][i].writes

\* Two changes that are each valid never combine into a refused policy: once
\* the committed policy is sound, every later one is ("Policy writes",
\* docs/ARCHITECTURE.md, and the docstring of schema_index_write).
KeepsSoundness == stored \in SoundPolicies => stored' \in SoundPolicies

SoundnessPreserved == [][KeepsSoundness]_vars

\* The committed rows change only together with a revision nobody has seen, in
\* one step, and soundness is never lost: what a reader may rely on.
History == INSTANCE PolicyHistory WITH
    policy <- stored, Revisions <- 0..MaxRevision

PublishesHistory == History!Spec
-----------------------------------------------------------------------------
(* The inductive invariant: what the properties above rest on.             *)

\* A transaction that wrote anything holds the generation row.
WritesUnderLock ==
    \A w \in Writers :
        /\ point[w].locked <=> lock = w
        /\ point[w].advanced # 0 => point[w].locked
        /\ point[w].advanced = 0 => point[w].writes = Nothing.writes
        /\ phase[w] = "idle" => point[w] = Nothing
        /\ phase[w] \in {"owning", "leaving"} => lock = w
        /\ phase[w] = "owning" <=> Depth(w) > 0

\* So did its savepoints, each at a moment of its own.
SavepointsUnderLock ==
    \A w \in Writers : \A i \in 1..Depth(w) :
        /\ savepoints[w][i].advanced # 0 => savepoints[w][i].locked
        /\ savepoints[w][i].advanced = 0 => savepoints[w][i].writes = Nothing.writes
        /\ i > 1 => savepoints[w][i].locked
        /\ \A j \in 1..Depth(w) :
               savepoints[w][i].advanced = savepoints[w][j].advanced
                   => savepoints[w][i].writes = savepoints[w][j].writes

\* An uncommitted revision is newer than everything published.
RevisionsAreFresh ==
    /\ revision <= issued
    /\ \A r \in published : r <= revision
    /\ revision \in published
    /\ \A w \in Writers :
          /\ point[w].advanced <= issued
          /\ point[w].advanced # 0 => point[w].advanced > revision
          /\ \A i \in 1..Depth(w) :
                /\ savepoints[w][i].advanced <= issued
                /\ savepoints[w][i].advanced # 0 => savepoints[w][i].advanced > revision

\* The revision at a savepoint, as the owner that set it saw it.
RevisionAt(saved) == IF saved.advanced = 0 THEN revision ELSE saved.advanced

\* The writer that holds the lock can only commit a sound policy over a sound
\* one: outside its owners what it wrote is sound, inside them what it started
\* from is, and it remembers that.
HolderIsSound ==
    \A w \in Writers :
        /\ phase[w] = "owning" => before[w] = RevisionAt(savepoints[w][1])
        /\ stored \in SoundPolicies =>
              /\ phase[w] \in {"open", "leaving"} => PolicySeenBy(w) \in SoundPolicies
              /\ phase[w] = "owning" =>
                    /\ sound[w]
                    /\ Overlay(savepoints[w][1].writes, stored) \in SoundPolicies

IInv ==
    /\ TypeOK
    /\ WritesUnderLock
    /\ SavepointsUnderLock
    /\ RevisionsAreFresh
    /\ RevisionNamesWrites
    /\ HolderIsSound
=============================================================================
