------------------------ MODULE PolicyTables_proofs ------------------------
(***************************************************************************)
(* Proofs about the stored policy: PolicyStore, its writers, for any set   *)
(* of writers, any rows and values, any notion of soundness and any        *)
(* bounds; SchemaSync, the command that brings the files of packages into  *)
(* it, for any order of fragments and packages, any releases, edits and    *)
(* calls; and Overrides, the rows of it that change what a stored policy   *)
(* grants, for any permissions and expressions, any caveat, any rows and   *)
(* deadlines.  The three share no variable and nothing is said of them     *)
(* together.                                                               *)
(***************************************************************************)
EXTENDS PolicyStore, SchemaSync, Overrides, SequenceTheorems, FiniteSetTheorems,
        WellFoundedInduction, TLAPS

-----------------------------------------------------------------------------
(* PolicyStore.                                                            *)

\* A transaction that wrote nothing reads the committed policy.
LEMMA OverlayNothing ==
    ASSUME NEW p \in Policies
    PROVE  Overlay(Nothing.writes, p) = p
  BY DEF Overlay, Nothing, Policies

\* What a transaction reads is a policy.
LEMMA OverlayType ==
    ASSUME NEW p \in Policies, NEW c \in Changes
    PROVE  Overlay(c, p) \in Policies
  BY DEF Overlay, Policies, Changes

\* A transaction that wrote nothing is at a point like any other.
LEMMA NothingType == Nothing \in Points
  BY BoundAssumption DEF Nothing, Points, Changes

\* Dropping the last savepoint keeps the others.
LEMMA FrontOfSavepoints ==
    ASSUME NEW S, NEW s \in Seq(S), Len(s) > 0
    PROVE  /\ SubSeq(s, 1, Len(s) - 1) \in Seq(S)
           /\ Len(SubSeq(s, 1, Len(s) - 1)) = Len(s) - 1
           /\ \A i \in 1..(Len(s) - 1) : SubSeq(s, 1, Len(s) - 1)[i] = s[i]
<1>1. Len(s) \in Nat /\ \A i \in 1..(Len(s) - 1) : s[i] \in S
  OBVIOUS
<1>2. PICK n \in Nat : n = Len(s) - 1
  <2>1. Len(s) - 1 \in Nat BY <1>1
  <2> QED BY <2>1
<1>3. \A i \in 1..n : s[i] \in S
  BY <1>1, <1>2
<1>4. /\ SubSeq(s, 1, n) \in Seq(S)
      /\ Len(SubSeq(s, 1, n)) = IF 1 <= n THEN n - 1 + 1 ELSE 0
      /\ \A i \in 1..(n - 1 + 1) : SubSeq(s, 1, n)[i] = s[1 + i - 1]
  BY <1>3, SubSeqProperties
<1>5. Len(SubSeq(s, 1, n)) = n
  BY <1>4
<1>6. \A i \in 1..n : SubSeq(s, 1, n)[i] = s[i]
  BY <1>4
<1>7. QED
  BY <1>2, <1>4, <1>5, <1>6

\* A savepoint is a point, with a revision that is a number.
LEMMA SavepointType ==
    ASSUME TypeOK, NEW w \in Writers, NEW i \in 1..Depth(w)
    PROVE  savepoints[w][i] \in Points /\ savepoints[w][i].advanced \in Nat
<1>1. savepoints[w][i] \in Points
  BY ElementOfSeq DEF TypeOK, Depth
<1>2. QED
  BY <1>1, BoundAssumption DEF Points

\* Every step keeps the types.
LEMMA TypeCorrect == IInv /\ [Next]_vars => TypeOK'
<1> SUFFICES ASSUME IInv, [Next]_vars PROVE TypeOK'
  OBVIOUS
<1> USE BoundAssumption, NoWriterAssumption
<1>1. CASE UNCHANGED vars
  BY <1>1 DEF IInv, TypeOK, vars
<1>2. ASSUME NEW w \in Writers, OpenTransaction(w) PROVE TypeOK'
  BY <1>2 DEF IInv, TypeOK, OpenTransaction, Phases
<1>3. ASSUME NEW w \in Writers, EnterOwner(w) PROVE TypeOK'
  <2>1. point'[w] \in Points /\ point' \in [Writers -> Points]
    BY <1>3 DEF IInv, TypeOK, EnterOwner, MayLock, Points
  <2>2. savepoints' \in [Writers -> Seq(Points)]
    BY <1>3 DEF IInv, TypeOK, EnterOwner, MayLock
  <2>3. RevisionSeenBy(w) \in 0..MaxRevision
    BY DEF IInv, TypeOK, RevisionSeenBy, Points
  <2>4. QED
    BY <1>3, <2>1, <2>2, <2>3 DEF IInv, TypeOK, EnterOwner, MayLock, Phases
<1>4. ASSUME NEW w \in Writers, EnterNestedOwner(w) PROVE TypeOK'
  BY <1>4 DEF IInv, TypeOK, EnterNestedOwner
<1>5. ASSUME NEW w \in Writers, ExitNestedOwner(w) PROVE TypeOK'
  <2>1. SubSeq(savepoints[w], 1, Len(savepoints[w]) - 1) \in Seq(Points)
    BY <1>5, FrontOfSavepoints DEF IInv, TypeOK, ExitNestedOwner, Depth
  <2>2. QED
    BY <1>5, <2>1 DEF IInv, TypeOK, ExitNestedOwner
<1>6. ASSUME NEW w \in Writers, FailNestedOwner(w) PROVE TypeOK'
  <2>1. SubSeq(savepoints[w], 1, Len(savepoints[w]) - 1) \in Seq(Points)
    BY <1>6, FrontOfSavepoints DEF IInv, TypeOK, FailNestedOwner, Depth
  <2>2. savepoints[w][Depth(w)] \in Points
    BY <1>6 DEF IInv, TypeOK, FailNestedOwner, Depth
  <2>3. QED
    BY <1>6, <2>1, <2>2 DEF IInv, TypeOK, FailNestedOwner, Restore
<1>7. ASSUME NEW w \in Writers, NEW change \in Changes, Write(w, change) PROVE TypeOK'
  <2>1. Overlay(change, point[w].writes) \in Changes
    BY DEF IInv, TypeOK, Points, Changes, Overlay
  <2>2. point' \in [Writers -> Points]
    BY <1>7, <2>1 DEF IInv, TypeOK, Write, Points
  <2>3. QED
    BY <1>7, <2>2 DEF IInv, TypeOK, Write
<1>8. ASSUME NEW w \in Writers, ExitOwner(w) PROVE TypeOK'
  BY <1>8 DEF IInv, TypeOK, ExitOwner, Phases
<1>9. ASSUME NEW w \in Writers, FailOwner(w) PROVE TypeOK'
  <2>1. savepoints[w][1] \in Points
    <3>1. savepoints[w] \in Seq(Points) /\ Len(savepoints[w]) = 1
      BY <1>9 DEF IInv, TypeOK, FailOwner, Depth
    <3>2. QED
      BY <3>1, ElementOfSeq
  <2>2. QED
    BY <1>9, <2>1 DEF IInv, TypeOK, FailOwner, Restore, Phases
<1>10. ASSUME NEW w \in Writers, Commit(w) PROVE TypeOK'
  <2>1. PolicySeenBy(w) \in Policies
    BY OverlayType DEF IInv, TypeOK, PolicySeenBy, Points
  <2>2. RevisionSeenBy(w) \in 0..MaxRevision
    BY DEF IInv, TypeOK, RevisionSeenBy, Points
  <2>3. stored' \in Policies /\ revision' \in 0..MaxRevision /\ published' \subseteq 0..MaxRevision
    BY <1>10, <2>1, <2>2 DEF IInv, TypeOK, Commit
  <2>4. point' \in [Writers -> Points] /\ savepoints' \in [Writers -> Seq(Points)]
    BY <1>10, NothingType DEF IInv, TypeOK, Commit, Release
  <2>5. QED
    BY <1>10, <2>3, <2>4 DEF IInv, TypeOK, Commit, Release, Phases
<1>11. ASSUME NEW w \in Writers, Rollback(w) PROVE TypeOK'
  BY <1>11, NothingType DEF IInv, TypeOK, Rollback, Release, Phases
<1> QED
  BY <1>1, <1>2, <1>3, <1>4, <1>5, <1>6, <1>7, <1>8, <1>9, <1>10, <1>11 DEF Next, Step

\* Nobody writes without the generation row.
LEMMA LockKept == IInv /\ TypeOK' /\ [Next]_vars => WritesUnderLock'
<1> SUFFICES ASSUME IInv, TypeOK', [Next]_vars PROVE WritesUnderLock'
  OBVIOUS
<1> USE BoundAssumption, NoWriterAssumption
<1>1. CASE UNCHANGED vars
  BY <1>1 DEF IInv, TypeOK, WritesUnderLock, Depth, vars
<1>2. ASSUME NEW w \in Writers, OpenTransaction(w) PROVE WritesUnderLock'
  BY <1>2 DEF IInv, TypeOK, WritesUnderLock, SavepointsUnderLock, Depth, OpenTransaction
<1>3. ASSUME NEW w \in Writers, EnterOwner(w) PROVE WritesUnderLock'
  BY <1>3 DEF IInv, TypeOK, WritesUnderLock, SavepointsUnderLock, Depth, EnterOwner, MayLock
<1>4. ASSUME NEW w \in Writers, EnterNestedOwner(w) PROVE WritesUnderLock'
  BY <1>4 DEF IInv, TypeOK, WritesUnderLock, SavepointsUnderLock, Depth, EnterNestedOwner
<1>5. ASSUME NEW w \in Writers, ExitNestedOwner(w) PROVE WritesUnderLock'
  <2>1. Len(savepoints'[w]) = Len(savepoints[w]) - 1
    BY <1>5, FrontOfSavepoints DEF IInv, TypeOK, ExitNestedOwner, Depth
  <2>2. QED
    BY <1>5, <2>1 DEF IInv, TypeOK, WritesUnderLock, SavepointsUnderLock, Depth, ExitNestedOwner
<1>6. ASSUME NEW w \in Writers, FailNestedOwner(w) PROVE WritesUnderLock'
  <2>1. Len(savepoints'[w]) = Len(savepoints[w]) - 1
    BY <1>6, FrontOfSavepoints DEF IInv, TypeOK, FailNestedOwner, Depth
  <2>2. Depth(w) \in 1..Depth(w) /\ Depth(w) > 1
    BY <1>6 DEF IInv, TypeOK, FailNestedOwner, Depth
  <2>3. savepoints[w][Depth(w)].locked /\ point'[w] = savepoints[w][Depth(w)]
    BY <1>6, <2>2 DEF IInv, TypeOK, SavepointsUnderLock, FailNestedOwner, Restore
  <2>4. lock = w /\ lock' = w
    BY <1>6, <2>3 DEF IInv, WritesUnderLock, FailNestedOwner, Restore
  <2>5. QED
    BY <1>6, <2>1, <2>2, <2>3, <2>4 DEF IInv, TypeOK, WritesUnderLock, SavepointsUnderLock, Depth, FailNestedOwner, Restore
<1>7. ASSUME NEW w \in Writers, NEW change \in Changes, Write(w, change) PROVE WritesUnderLock'
  BY <1>7 DEF IInv, TypeOK, WritesUnderLock, SavepointsUnderLock, Depth, Write
<1>8. ASSUME NEW w \in Writers, ExitOwner(w) PROVE WritesUnderLock'
  BY <1>8 DEF IInv, TypeOK, WritesUnderLock, SavepointsUnderLock, Depth, ExitOwner
<1>9. ASSUME NEW w \in Writers, FailOwner(w) PROVE WritesUnderLock'
  <2>1. lock = w /\ 1 \in 1..Depth(w)
    BY <1>9 DEF IInv, TypeOK, WritesUnderLock, FailOwner, Depth
  <2>2. point'[w] = savepoints[w][1] /\ Depth(w)' = 0
    BY <1>9 DEF IInv, TypeOK, FailOwner, Restore, Depth
  <2>3. point'[w].locked \in BOOLEAN /\ (point'[w].locked <=> lock' = w)
    BY <1>9, <2>2 DEF TypeOK, Points, FailOwner, Restore
  <2>4. /\ point'[w].advanced # 0 => point'[w].locked
        /\ point'[w].advanced = 0 => point'[w].writes = Nothing.writes
    BY <2>1, <2>2 DEF IInv, SavepointsUnderLock
  <2>5. phase'[w] = "open"
    BY <1>9 DEF IInv, TypeOK, FailOwner
  <2>6. ASSUME NEW v \in Writers, v # w
        PROVE  /\ point'[v] = point[v] /\ phase'[v] = phase[v] /\ Depth(v)' = Depth(v)
               /\ lock # v /\ lock' # v
    BY <1>9, <2>1, <2>6 DEF IInv, TypeOK, FailOwner, Restore, Depth
  <2>7. ASSUME NEW v \in Writers
        PROVE  /\ point'[v].locked <=> lock' = v
               /\ point'[v].advanced # 0 => point'[v].locked
               /\ point'[v].advanced = 0 => point'[v].writes = Nothing.writes
               /\ phase'[v] = "idle" => point'[v] = Nothing
               /\ phase'[v] \in {"owning", "leaving"} => lock' = v
               /\ phase'[v] = "owning" <=> Depth(v)' > 0
    <3>1. CASE v = w
      BY <3>1, <2>2, <2>3, <2>4, <2>5
    <3>2. CASE v # w
      BY <3>2, <2>6 DEF IInv, WritesUnderLock
    <3>3. QED
      BY <3>1, <3>2
  <2>8. QED
    BY <2>7 DEF WritesUnderLock, Nothing
<1>10. ASSUME NEW w \in Writers, Commit(w) PROVE WritesUnderLock'
  BY <1>10 DEF IInv, TypeOK, WritesUnderLock, SavepointsUnderLock, Depth, Commit, Release, Nothing
<1>11. ASSUME NEW w \in Writers, Rollback(w) PROVE WritesUnderLock'
  BY <1>11 DEF IInv, TypeOK, WritesUnderLock, SavepointsUnderLock, Depth, Rollback, Release, Nothing
<1> QED
  BY <1>1, <1>2, <1>3, <1>4, <1>5, <1>6, <1>7, <1>8, <1>9, <1>10, <1>11 DEF Next, Step

\* A step of one writer leaves the transaction of every other one alone.
LEMMA OthersKept ==
    ASSUME IInv, NEW w \in Writers, Step(w), NEW v \in Writers, v # w
    PROVE  /\ point'[v] = point[v]
           /\ savepoints'[v] = savepoints[v]
           /\ phase'[v] = phase[v]
           /\ before'[v] = before[v]
           /\ sound'[v] = sound[v]
           /\ lock' = v <=> lock = v
<1> USE DEF IInv, TypeOK
<1>1. CASE OpenTransaction(w)
  BY <1>1 DEF OpenTransaction
<1>2. CASE EnterOwner(w)
  BY <1>2, NoWriterAssumption DEF EnterOwner, MayLock
<1>3. CASE EnterNestedOwner(w)
  BY <1>3 DEF EnterNestedOwner
<1>4. CASE ExitNestedOwner(w)
  BY <1>4 DEF ExitNestedOwner
<1>5. CASE FailNestedOwner(w)
  BY <1>5, NoWriterAssumption DEF FailNestedOwner, Restore, WritesUnderLock
<1>6. ASSUME NEW change \in Changes, Write(w, change) 
      PROVE  /\ point'[v] = point[v] /\ savepoints'[v] = savepoints[v]
             /\ phase'[v] = phase[v] /\ before'[v] = before[v]
             /\ sound'[v] = sound[v] /\ (lock' = v <=> lock = v)
  BY <1>6 DEF Write
<1>7. CASE ExitOwner(w)
  BY <1>7 DEF ExitOwner
<1>8. CASE FailOwner(w)
  BY <1>8, NoWriterAssumption DEF FailOwner, Restore, WritesUnderLock
<1>9. CASE Commit(w)
  BY <1>9, NoWriterAssumption DEF Commit, Release
<1>10. CASE Rollback(w)
  BY <1>10, NoWriterAssumption DEF Rollback, Release
<1> QED
  BY <1>1, <1>2, <1>3, <1>4, <1>5, <1>6, <1>7, <1>8, <1>9, <1>10 DEF Step

\* The savepoints of the writer that moves: none, one at its point, one more at
\* its point, one fewer, or the ones it had.
SavepointsMove(w) ==
    \/ savepoints'[w] = savepoints[w]
    \/ savepoints'[w] = << >>
    \/ phase[w] # "owning" /\ savepoints'[w] = <<point[w]>>
    \/ phase[w] = "owning" /\ savepoints'[w] = Append(savepoints[w], point[w])
    \/ /\ Depth(w) > 1
       /\ savepoints'[w] = SubSeq(savepoints[w], 1, Len(savepoints[w]) - 1)

\* How a step changes the savepoints of the writer that takes it.
LEMMA HowSavepointsMove ==
    ASSUME IInv, NEW w \in Writers, Step(w)
    PROVE  SavepointsMove(w)
<1> USE DEF IInv, TypeOK, SavepointsMove
<1>1. CASE OpenTransaction(w)
  BY <1>1 DEF OpenTransaction
<1>2. CASE EnterOwner(w)
  BY <1>2 DEF EnterOwner, MayLock
<1>3. CASE EnterNestedOwner(w)
  BY <1>3 DEF EnterNestedOwner
<1>4. CASE ExitNestedOwner(w)
  BY <1>4 DEF ExitNestedOwner
<1>5. CASE FailNestedOwner(w)
  BY <1>5 DEF FailNestedOwner
<1>6. ASSUME NEW change \in Changes, Write(w, change) PROVE SavepointsMove(w)
  BY <1>6 DEF Write
<1>7. CASE ExitOwner(w)
  BY <1>7 DEF ExitOwner
<1>8. CASE FailOwner(w)
  BY <1>8 DEF FailOwner
<1>9. CASE Commit(w)
  BY <1>9 DEF Commit, Release
<1>10. CASE Rollback(w)
  BY <1>10 DEF Rollback, Release
<1> QED
  BY <1>1, <1>2, <1>3, <1>4, <1>5, <1>6, <1>7, <1>8, <1>9, <1>10 DEF Step

\* Every savepoint after a step was a savepoint or the point before it.
LEMMA SavepointsComeFrom ==
    ASSUME IInv, NEW w \in Writers, SavepointsMove(w), NEW i \in 1..Len(savepoints'[w])
    PROVE  \/ i \in 1..Depth(w) /\ savepoints'[w][i] = savepoints[w][i]
           \/ /\ i = Depth(w) + 1
              /\ savepoints'[w][i] = point[w]
<1>1. savepoints[w] \in Seq(Points) /\ Len(savepoints[w]) \in Nat /\ point[w] \in Points
  BY DEF IInv, TypeOK
<1>2. CASE savepoints'[w] = savepoints[w]
  BY <1>2 DEF Depth
<1>3. CASE savepoints'[w] = << >>
  BY <1>3
<1>4. CASE phase[w] # "owning" /\ savepoints'[w] = <<point[w]>>
  <2>1. Len(savepoints[w]) = 0
    BY <1>1, <1>4 DEF IInv, WritesUnderLock, Depth
  <2>2. Len(<<point[w]>>) = 1 /\ <<point[w]>>[1] = point[w]
    OBVIOUS
  <2>3. QED
    BY <1>4, <2>1, <2>2 DEF Depth
<1>5. CASE phase[w] = "owning" /\ savepoints'[w] = Append(savepoints[w], point[w])
  BY <1>1, <1>5, AppendProperties DEF Depth
<1>6. CASE /\ Depth(w) > 1
           /\ savepoints'[w] = SubSeq(savepoints[w], 1, Len(savepoints[w]) - 1)
  BY <1>1, <1>6, FrontOfSavepoints DEF Depth
<1> QED
  BY <1>2, <1>3, <1>4, <1>5, <1>6 DEF SavepointsMove

\* Savepoints stay ordered and locked.
LEMMA SavepointsKept == IInv /\ TypeOK' /\ [Next]_vars => SavepointsUnderLock'
<1> SUFFICES ASSUME IInv, TypeOK', [Next]_vars PROVE SavepointsUnderLock'
  OBVIOUS
<1>1. CASE UNCHANGED vars
  BY <1>1 DEF IInv, SavepointsUnderLock, Depth, vars
<1>2. ASSUME NEW w \in Writers, Step(w) PROVE SavepointsUnderLock'
  <2>1. ASSUME NEW v \in Writers, v # w PROVE savepoints'[v] = savepoints[v]
    BY <1>2, <2>1, OthersKept
  <2>2. SavepointsMove(w)
    BY <1>2, HowSavepointsMove
  <2>3. Depth(w) \in Nat /\ Depth(w)' \in Nat
    BY DEF IInv, TypeOK, Depth
  <2>4. Depth(w) > 0 => point[w].locked
    BY DEF IInv, WritesUnderLock
  <2>5. ASSUME NEW i \in 1..Depth(w)'
        PROVE  /\ savepoints'[w][i].advanced # 0 => savepoints'[w][i].locked
               /\ savepoints'[w][i].advanced = 0
                     => savepoints'[w][i].writes = Nothing.writes
               /\ i > 1 => savepoints'[w][i].locked
    <3>1. \/ i \in 1..Depth(w) /\ savepoints'[w][i] = savepoints[w][i]
          \/ i = Depth(w) + 1 /\ savepoints'[w][i] = point[w]
      BY <2>2, SavepointsComeFrom DEF Depth
    <3>2. CASE i \in 1..Depth(w) /\ savepoints'[w][i] = savepoints[w][i]
      BY <3>2 DEF IInv, SavepointsUnderLock
    <3>3. CASE i = Depth(w) + 1 /\ savepoints'[w][i] = point[w]
      BY <3>3, <2>3, <2>4 DEF IInv, WritesUnderLock
    <3> QED
      BY <3>1, <3>2, <3>3
  <2>6. ASSUME NEW i \in 1..Depth(w)', NEW j \in 1..Depth(w)',
               savepoints'[w][i].advanced = savepoints'[w][j].advanced
        PROVE  savepoints'[w][i].writes = savepoints'[w][j].writes
    <3>1. \/ i \in 1..Depth(w) /\ savepoints'[w][i] = savepoints[w][i]
          \/ savepoints'[w][i] = point[w]
      BY <2>2, SavepointsComeFrom DEF Depth
    <3>2. \/ j \in 1..Depth(w) /\ savepoints'[w][j] = savepoints[w][j]
          \/ savepoints'[w][j] = point[w]
      BY <2>2, SavepointsComeFrom DEF Depth
    <3> QED
      BY <2>6, <3>1, <3>2 DEF IInv, SavepointsUnderLock, RevisionNamesWrites
  <2>7. Nothing' = Nothing
    BY DEF Nothing
  <2>8. ASSUME NEW v \in Writers, NEW i \in 1..Depth(v)'
        PROVE  /\ savepoints'[v][i].advanced # 0 => savepoints'[v][i].locked
               /\ savepoints'[v][i].advanced = 0 => savepoints'[v][i].writes = Nothing.writes
               /\ i > 1 => savepoints'[v][i].locked
               /\ \A j \in 1..Depth(v)' :
                     savepoints'[v][i].advanced = savepoints'[v][j].advanced
                        => savepoints'[v][i].writes = savepoints'[v][j].writes
    <3>1. CASE v = w
      BY <3>1, <2>5, <2>6
    <3>2. CASE v # w
      BY <3>2, <2>1 DEF IInv, SavepointsUnderLock, Depth
    <3> QED
      BY <3>1, <3>2
  <2> QED
    BY <2>7, <2>8 DEF SavepointsUnderLock
<1> QED
  BY <1>1, <1>2 DEF Next

\* Where the point of the writer that moves comes from.
LEMMA HowPointsMove ==
    ASSUME IInv, NEW w \in Writers, Step(w)
    PROVE  \/ /\ point'[w].writes = point[w].writes
              /\ point'[w].advanced = point[w].advanced
              /\ issued' = issued
           \/ /\ issued' = issued + 1 /\ point'[w].advanced = issued'
              /\ savepoints'[w] = savepoints[w]
           \/ /\ \E k \in 1..Depth(w) : point'[w] = savepoints[w][k]
              /\ SavepointsMove(w)
              /\ Len(savepoints'[w]) < Len(savepoints[w])
              /\ issued' = issued
           \/ point'[w] = Nothing /\ savepoints'[w] = << >> /\ issued' = issued
<1> USE DEF IInv, TypeOK
<1>1. CASE OpenTransaction(w)
  BY <1>1 DEF OpenTransaction
<1>2. CASE EnterOwner(w)
  BY <1>2 DEF EnterOwner, MayLock
<1>3. CASE EnterNestedOwner(w)
  BY <1>3 DEF EnterNestedOwner
<1>4. CASE ExitNestedOwner(w)
  BY <1>4 DEF ExitNestedOwner
<1>5. CASE FailNestedOwner(w)
  <2>1. Depth(w) \in 1..Depth(w) /\ point'[w] = savepoints[w][Depth(w)] /\ issued' = issued
    BY <1>5 DEF FailNestedOwner, Restore, Depth
  <2>2. Len(savepoints'[w]) < Len(savepoints[w])
    BY <1>5, FrontOfSavepoints DEF FailNestedOwner, Depth
  <2> QED
    BY <1>5, <2>1, <2>2 DEF SavepointsMove, FailNestedOwner
<1>6. ASSUME NEW change \in Changes, Write(w, change)
      PROVE  /\ issued' = issued + 1 /\ point'[w].advanced = issued'
             /\ savepoints'[w] = savepoints[w]
  BY <1>6 DEF Write
<1>7. CASE ExitOwner(w)
  BY <1>7 DEF ExitOwner
<1>8. CASE FailOwner(w)
  <2>1. 1 \in 1..Depth(w) /\ point'[w] = savepoints[w][1] /\ issued' = issued
    BY <1>8 DEF FailOwner, Restore, Depth
  <2>2. savepoints'[w] = << >> /\ Len(savepoints'[w]) < Len(savepoints[w])
    BY <1>8 DEF FailOwner, Depth
  <2> QED
    BY <2>1, <2>2 DEF SavepointsMove
<1>9. CASE Commit(w)
  BY <1>9 DEF Commit, Release
<1>10. CASE Rollback(w)
  BY <1>10 DEF Rollback, Release
<1> QED
  BY <1>1, <1>2, <1>3, <1>4, <1>5, <1>6, <1>7, <1>8, <1>9, <1>10 DEF Step

\* A savepoint with the current revision holds the current rows.
LEMMA RevisionNamesWritesKept == IInv /\ TypeOK' /\ [Next]_vars => RevisionNamesWrites'
<1> SUFFICES ASSUME IInv, TypeOK', [Next]_vars PROVE RevisionNamesWrites'
  OBVIOUS
<1>1. CASE UNCHANGED vars
  BY <1>1 DEF IInv, RevisionNamesWrites, Depth, vars
<1>2. ASSUME NEW w \in Writers, Step(w) PROVE RevisionNamesWrites'
  <2>1. ASSUME NEW v \in Writers, v # w
        PROVE  point'[v] = point[v] /\ savepoints'[v] = savepoints[v]
    BY <1>2, <2>1, OthersKept
  <2>2. ASSUME NEW i \in 1..Depth(w)', point'[w].advanced = savepoints'[w][i].advanced
        PROVE  point'[w].writes = savepoints'[w][i].writes
    <3>1. SavepointsMove(w)
      BY <1>2, HowSavepointsMove
    <3>2. \/ i \in 1..Depth(w) /\ savepoints'[w][i] = savepoints[w][i]
          \/ i = Depth(w) + 1 /\ savepoints'[w][i] = point[w]
      BY <3>1, SavepointsComeFrom DEF Depth
    <3>3. CASE /\ point'[w].writes = point[w].writes
               /\ point'[w].advanced = point[w].advanced
      BY <3>2, <3>3, <2>2 DEF IInv, RevisionNamesWrites
    <3>4. CASE /\ issued' = issued + 1 /\ point'[w].advanced = issued'
               /\ savepoints'[w] = savepoints[w]
      <4>1. i \in 1..Depth(w) /\ savepoints'[w][i] = savepoints[w][i]
        BY <3>4 DEF Depth
      <4>2. savepoints[w][i].advanced <= issued /\ issued \in Nat
            /\ savepoints[w][i].advanced \in Nat
        <5>1. TypeOK /\ RevisionsAreFresh BY DEF IInv
        <5>2. savepoints[w][i].advanced \in Nat BY <4>1, <5>1, SavepointType
        <5>3. savepoints[w][i].advanced <= issued BY <4>1, <5>1 DEF RevisionsAreFresh
        <5>4. issued \in Nat BY <5>1, BoundAssumption DEF TypeOK
        <5> QED BY <5>2, <5>3, <5>4
      <4> QED
        BY <4>1, <4>2, <3>4, <2>2
    <3>5. CASE /\ \E k \in 1..Depth(w) : point'[w] = savepoints[w][k]
               /\ Len(savepoints'[w]) < Len(savepoints[w])
      <4>1. i \in 1..Depth(w) /\ savepoints'[w][i] = savepoints[w][i]
        BY <3>2, <3>5 DEF IInv, TypeOK, Depth
      <4> QED
        BY <4>1, <3>5, <2>2 DEF IInv, SavepointsUnderLock
    <3>6. CASE savepoints'[w] = << >>
      BY <3>6 DEF Depth
    <3> QED
      BY <1>2, HowPointsMove, <3>3, <3>4, <3>5, <3>6
  <2> QED
    BY <2>1, <2>2 DEF IInv, RevisionNamesWrites, Depth
<1> QED
  BY <1>1, <1>2 DEF Next

\* A step either leaves the committed policy alone or is a commit.
LEMMA OnlyCommitsPublish ==
    ASSUME IInv, NEW w \in Writers, Step(w)
    PROVE  \/ stored' = stored /\ revision' = revision /\ published' = published
           \/ Commit(w)
<1>1. ASSUME NEW change \in Changes, Write(w, change)
      PROVE  stored' = stored /\ revision' = revision /\ published' = published
  BY <1>1 DEF Write
<1> QED
  BY <1>1 DEF Step, OpenTransaction, EnterOwner, MayLock, EnterNestedOwner, ExitNestedOwner,
              FailNestedOwner, ExitOwner, FailOwner, Rollback

\* A writer that does not hold the row has neither written nor set savepoints.
LEMMA OnlyTheHolderWrote ==
    ASSUME IInv, NEW v \in Writers, lock # v
    PROVE  /\ point[v].advanced = 0 /\ point[v].writes = Nothing.writes
           /\ Depth(v) = 0 /\ phase[v] \in {"idle", "open"}
           /\ PolicySeenBy(v) = stored /\ RevisionSeenBy(v) = revision
<1>1. point[v] \in Points /\ Depth(v) \in Nat
  BY DEF IInv, TypeOK, Depth
<1>2. point[v].advanced = 0 /\ point[v].writes = Nothing.writes /\ Depth(v) = 0
  BY <1>1 DEF IInv, WritesUnderLock
<1>3. phase[v] \in {"idle", "open"}
  BY DEF IInv, TypeOK, Phases, WritesUnderLock
<1>4. PolicySeenBy(v) = stored
  BY <1>2, OverlayNothing DEF IInv, TypeOK, PolicySeenBy
<1> QED
  BY <1>2, <1>3, <1>4 DEF RevisionSeenBy

\* A commit publishes what its writer saw: the committed policy again, or, by the
\* holder of the row, another one under a newer revision.
LEMMA CommitPublishes ==
    ASSUME IInv, NEW w \in Writers, Commit(w)
    PROVE  \/ /\ stored' = stored
              /\ revision' = revision
              /\ published' = published
           \/ /\ lock = w
              /\ revision' = point[w].advanced
              /\ revision' > revision
              /\ revision' <= issued
              /\ published' = published \cup {revision'}
              /\ stored' = PolicySeenBy(w)
<1>1. /\ stored' = PolicySeenBy(w) /\ revision' = RevisionSeenBy(w)
      /\ published' = published \cup {revision'}
  BY DEF Commit
<1>2. CASE point[w].advanced = 0
  <2>1. PolicySeenBy(w) = stored
    BY <1>2, OverlayNothing DEF IInv, TypeOK, WritesUnderLock, PolicySeenBy
  <2> QED
    BY <1>1, <1>2, <2>1 DEF RevisionSeenBy, IInv, RevisionsAreFresh
<1>3. CASE point[w].advanced # 0
  BY <1>1, <1>3 DEF RevisionSeenBy, IInv, RevisionsAreFresh, WritesUnderLock
<1> QED
  BY <1>2, <1>3

\* Revisions in transactions stay newer than the published ones.
LEMMA RevisionsKept == IInv /\ TypeOK' /\ [Next]_vars => RevisionsAreFresh'
<1> SUFFICES ASSUME IInv, TypeOK', [Next]_vars PROVE RevisionsAreFresh'
  OBVIOUS
<1>1. CASE UNCHANGED vars
  BY <1>1 DEF IInv, RevisionsAreFresh, Depth, vars
<1>2. ASSUME NEW w \in Writers, Step(w) PROVE RevisionsAreFresh'
  <2>1. /\ issued \in Nat /\ issued' \in Nat /\ revision \in Nat /\ revision' \in Nat
        /\ published \subseteq Nat
    BY BoundAssumption DEF IInv, TypeOK
  <2>2. issued' = issued \/ issued' = issued + 1
    BY <1>2, HowPointsMove
  <2>3. \/ /\ revision' = revision /\ published' = published
        \/ /\ Commit(w) /\ lock = w /\ revision' > revision /\ revision' <= issued
           /\ published' = published \cup {revision'}
    BY <1>2, OnlyCommitsPublish, CommitPublishes
  <2>4. revision' <= issued' /\ (\A r \in published' : r <= revision') /\ revision' \in published'
    <3>1. \A r \in published : r \in Nat /\ r <= revision
      BY <2>1 DEF IInv, RevisionsAreFresh
    <3>2. revision <= issued /\ revision \in published
      BY DEF IInv, RevisionsAreFresh
    <3>3. CASE revision' = revision /\ published' = published
      BY <2>1, <2>2, <3>1, <3>2, <3>3
    <3>4. CASE /\ revision' > revision /\ revision' <= issued
               /\ published' = published \cup {revision'}
      <4>1. \A r \in published' : r <= revision'
        BY <2>1, <3>1, <3>4
      <4> QED
        BY <4>1, <2>1, <2>2, <3>4
    <3> QED
      BY <2>3, <3>3, <3>4
  <2>5. ASSUME NEW v \in Writers, v # w
        PROVE  /\ point'[v].advanced <= issued'
               /\ point'[v].advanced # 0 => point'[v].advanced > revision'
               /\ \A i \in 1..Depth(v)' :
                    /\ savepoints'[v][i].advanced <= issued'
                    /\ savepoints'[v][i].advanced # 0 => savepoints'[v][i].advanced > revision'
    <3>1. point'[v] = point[v] /\ savepoints'[v] = savepoints[v] /\ Depth(v)' = Depth(v)
      BY <1>2, <2>5, OthersKept DEF Depth
    <3>2. CASE revision' = revision
      <4>1. point[v].advanced \in Nat
        BY BoundAssumption DEF IInv, TypeOK, Points
      <4>2. \A i \in 1..Depth(v) : savepoints[v][i].advanced \in Nat
        BY SavepointType DEF IInv
      <4> QED
        BY <3>1, <3>2, <4>1, <4>2, <2>1, <2>2 DEF IInv, RevisionsAreFresh
    <3>3. CASE lock = w
      <4>1. point[v].advanced = 0 /\ Depth(v) = 0
        BY <2>5, <3>3, OnlyTheHolderWrote
      <4> QED
        BY <3>1, <4>1, <2>1
    <3> QED
      BY <2>3, <3>2, <3>3
  <2>6. /\ point'[w].advanced <= issued'
        /\ point'[w].advanced # 0 => point'[w].advanced > revision'
    <3>1. point[w].advanced \in Nat /\ (\A i \in 1..Depth(w) : savepoints[w][i].advanced \in Nat)
      <4>1. point[w].advanced \in Nat
        BY BoundAssumption DEF IInv, TypeOK, Points
      <4> QED
        BY <4>1, SavepointType DEF IInv
    <3>2. CASE Commit(w)
      BY <3>2, <2>1 DEF Commit, Release, Nothing, IInv, TypeOK
    <3>3. CASE revision' = revision
      <4>1. CASE point'[w].advanced = point[w].advanced
        BY <4>1, <3>1, <3>3, <2>1, <2>2 DEF IInv, RevisionsAreFresh
      <4>2. CASE issued' = issued + 1 /\ point'[w].advanced = issued'
        BY <4>2, <3>3, <2>1 DEF IInv, RevisionsAreFresh
      <4>3. CASE \E k \in 1..Depth(w) : point'[w] = savepoints[w][k]
        BY <4>3, <3>1, <3>3, <2>1, <2>2 DEF IInv, RevisionsAreFresh
      <4>4. CASE point'[w] = Nothing
        BY <4>4, <2>1 DEF Nothing
      <4> QED
        BY <1>2, HowPointsMove, <4>1, <4>2, <4>3, <4>4
    <3> QED
      BY <2>3, <3>2, <3>3
  <2>7. ASSUME NEW i \in 1..Depth(w)'
        PROVE  /\ savepoints'[w][i].advanced <= issued'
               /\ savepoints'[w][i].advanced # 0 => savepoints'[w][i].advanced > revision'
    <3>1. CASE Commit(w)
      BY <3>1 DEF Commit, Release, Depth, IInv, TypeOK
    <3>2. CASE revision' = revision
      <4>1. SavepointsMove(w)
        BY <1>2, HowSavepointsMove
      <4>2. \/ i \in 1..Depth(w) /\ savepoints'[w][i] = savepoints[w][i]
            \/ savepoints'[w][i] = point[w]
        BY <4>1, SavepointsComeFrom DEF Depth
      <4>3. CASE i \in 1..Depth(w) /\ savepoints'[w][i] = savepoints[w][i]
        <5>1. savepoints[w][i].advanced \in Nat
          BY <4>3, SavepointType DEF IInv
        <5> QED
          BY <4>3, <5>1, <3>2, <2>1, <2>2 DEF IInv, RevisionsAreFresh
      <4>4. CASE savepoints'[w][i] = point[w]
        <5>1. point[w].advanced \in Nat
          BY BoundAssumption DEF IInv, TypeOK, Points
        <5> QED
          BY <4>4, <5>1, <3>2, <2>1, <2>2 DEF IInv, RevisionsAreFresh
      <4> QED
        BY <4>2, <4>3, <4>4
    <3> QED
      BY <2>3, <3>1, <3>2
  <2> QED
    BY <2>4, <2>5, <2>6, <2>7 DEF RevisionsAreFresh
<1> QED
  BY <1>1, <1>2 DEF Next

\* What an owner's exit may rely on: a policy that passes the last check, or that
\* is at the revision the owner started from, is sound if the start was.
LEMMA ExitIsSound ==
    ASSUME IInv, NEW w \in Writers, ExitOwner(w), stored \in SoundPolicies
    PROVE  PolicySeenBy(w) \in SoundPolicies
<1>1. phase[w] = "owning" /\ 1 \in 1..Depth(w) /\ ~Refused(w)
  BY DEF ExitOwner
<1>2. /\ sound[w] /\ before[w] = RevisionAt(savepoints[w][1])
      /\ Overlay(savepoints[w][1].writes, stored) \in SoundPolicies
  BY <1>1 DEF IInv, HolderIsSound
<1>3. CASE RevisionSeenBy(w) # before[w]
  BY <1>1, <1>2, <1>3 DEF Refused
<1>4. CASE RevisionSeenBy(w) = before[w]
  <2>1. /\ point[w].advanced \in Nat /\ revision \in Nat
        /\ savepoints[w][1].advanced \in Nat
    <3>1. point[w].advanced \in Nat /\ revision \in Nat
      BY BoundAssumption DEF IInv, TypeOK, Points
    <3> QED
      BY <1>1, <3>1, SavepointType DEF IInv
  <2>2. point[w].advanced = savepoints[w][1].advanced
    BY <1>1, <1>2, <1>4, <2>1 DEF RevisionSeenBy, RevisionAt, IInv, RevisionsAreFresh
  <2>3. point[w].writes = savepoints[w][1].writes
    BY <1>1, <2>2 DEF IInv, RevisionNamesWrites
  <2> QED
    BY <1>2, <2>3 DEF PolicySeenBy
<1> QED
  BY <1>3, <1>4

\* The two parts of HolderIsSound, for one writer.
BaseRemembered(v) ==
    phase[v] = "owning" => before[v] = RevisionAt(savepoints[v][1])
HolderSound(v) ==
    stored \in SoundPolicies =>
        /\ phase[v] \in {"open", "leaving"} => PolicySeenBy(v) \in SoundPolicies
        /\ phase[v] = "owning" =>
              sound[v] /\ Overlay(savepoints[v][1].writes, stored) \in SoundPolicies

\* The holder of the lock keeps what makes its commit sound.
LEMMA SoundnessKept == IInv /\ TypeOK' /\ [Next]_vars => HolderIsSound'
<1> SUFFICES ASSUME IInv, TypeOK', [Next]_vars PROVE HolderIsSound'
  OBVIOUS
<1>1. CASE UNCHANGED vars
  BY <1>1 DEF IInv, HolderIsSound, RevisionAt, PolicySeenBy, Overlay, vars
<1>2. ASSUME NEW w \in Writers, Step(w) PROVE HolderIsSound'
  <2>0. \A v \in Writers : BaseRemembered(v) /\ HolderSound(v)
    BY DEF IInv, HolderIsSound, BaseRemembered, HolderSound
  <2>1. ASSUME NEW v \in Writers, v # w PROVE BaseRemembered(v)' /\ HolderSound(v)'
    <3>1. /\ point'[v] = point[v] /\ savepoints'[v] = savepoints[v]
          /\ phase'[v] = phase[v] /\ before'[v] = before[v] /\ sound'[v] = sound[v]
      BY <1>2, <2>1, OthersKept
    <3>2. CASE stored' = stored /\ revision' = revision
      BY <2>0, <3>1, <3>2 DEF BaseRemembered, HolderSound, RevisionAt, PolicySeenBy, Overlay
    <3>3. CASE lock = w
      <4>1. phase[v] \in {"idle", "open"} /\ point[v].writes = Nothing.writes
        BY <2>1, <3>3, OnlyTheHolderWrote
      <4>2. phase'[v] # "owning" /\ phase'[v] # "leaving"
        BY <3>1, <4>1
      <4>3. stored' \in Policies /\ Overlay(Nothing.writes, stored') = stored'
        BY OverlayNothing DEF TypeOK
      <4>4. PolicySeenBy(v)' = Overlay(Nothing.writes, stored')
        BY <3>1, <4>1 DEF PolicySeenBy, Overlay
      <4> QED
        BY <4>2, <4>3, <4>4 DEF BaseRemembered, HolderSound
    <3> QED
      BY <1>2, OnlyCommitsPublish, CommitPublishes, <3>2, <3>3
  <2>2. BaseRemembered(w)' /\ HolderSound(w)'
    <3> USE DEF BaseRemembered, HolderSound
    <3>1. CASE OpenTransaction(w)
      <4>1. point[w] = Nothing /\ point' = point /\ stored' = stored /\ phase'[w] = "open"
        BY <3>1 DEF OpenTransaction, IInv, TypeOK, WritesUnderLock
      <4>2. PolicySeenBy(w)' = stored
        BY <4>1, OverlayNothing DEF PolicySeenBy, Overlay, IInv, TypeOK
      <4> QED
        BY <4>1, <4>2
    <3>2. CASE EnterOwner(w)
      <4>1. /\ savepoints'[w][1] = point[w] /\ stored' = stored /\ revision' = revision
            /\ phase'[w] = "owning" /\ before'[w] = RevisionSeenBy(w)
            /\ sound'[w] = (PolicySeenBy(w) \in SoundPolicies)
            /\ phase[w] \in {"idle", "open"}
        BY <3>2 DEF EnterOwner, MayLock, IInv, TypeOK
      <4>2. before'[w] = RevisionAt(savepoints[w][1])'
        BY <4>1 DEF RevisionAt, RevisionSeenBy
      <4>3. ASSUME stored \in SoundPolicies PROVE PolicySeenBy(w) \in SoundPolicies
        <5>1. CASE phase[w] = "open"
          BY <2>0, <4>3, <5>1
        <5>2. CASE phase[w] = "idle"
          BY <4>3, <5>2, OverlayNothing DEF IInv, TypeOK, WritesUnderLock, PolicySeenBy
        <5> QED
          BY <4>1, <5>1, <5>2
      <4>4. Overlay(savepoints[w][1].writes, stored)' = PolicySeenBy(w)
        BY <4>1 DEF PolicySeenBy, Overlay
      <4> QED
        BY <4>1, <4>2, <4>3, <4>4
    <3>3. ASSUME /\ phase'[w] = "owning" /\ phase[w] = "owning"
                 /\ savepoints'[w][1] = savepoints[w][1]
                 /\ stored' = stored /\ revision' = revision
                 /\ before'[w] = before[w] /\ sound'[w] = sound[w]
          PROVE  BaseRemembered(w)' /\ HolderSound(w)'
      BY <2>0, <3>3 DEF RevisionAt, Overlay
    <3>4. CASE EnterNestedOwner(w)
      BY <3>3, <3>4, AppendProperties DEF EnterNestedOwner, IInv, TypeOK, WritesUnderLock, Depth
    <3>5. CASE ExitNestedOwner(w)
      BY <3>3, <3>5, FrontOfSavepoints DEF ExitNestedOwner, IInv, TypeOK, Depth
    <3>6. CASE FailNestedOwner(w)
      BY <3>3, <3>6, FrontOfSavepoints DEF FailNestedOwner, IInv, TypeOK, Depth
    <3>7. ASSUME NEW change \in Changes, Write(w, change)
          PROVE  BaseRemembered(w)' /\ HolderSound(w)'
      BY <3>3, <3>7 DEF Write
    <3>8. CASE ExitOwner(w)
      <4>1. /\ stored' = stored /\ point' = point
            /\ phase'[w] \in {"open", "leaving"} /\ phase'[w] # "owning"
        BY <3>8 DEF ExitOwner, IInv, TypeOK
      <4>2. PolicySeenBy(w)' = PolicySeenBy(w)
        BY <4>1 DEF PolicySeenBy, Overlay
      <4> QED
        BY <3>8, <4>1, <4>2, ExitIsSound
    <3>9. CASE FailOwner(w)
      <4>1. /\ stored' = stored /\ point'[w] = savepoints[w][1]
            /\ phase[w] = "owning" /\ phase'[w] = "open"
        BY <3>9 DEF FailOwner, Restore, IInv, TypeOK
      <4>2. PolicySeenBy(w)' = Overlay(savepoints[w][1].writes, stored)
        BY <4>1 DEF PolicySeenBy, Overlay
      <4> QED
        BY <2>0, <4>1, <4>2
    <3>10. CASE Commit(w) \/ Rollback(w)
      BY <3>10 DEF Commit, Rollback, Release, IInv, TypeOK
    <3> QED
      BY <1>2, <3>1, <3>2, <3>4, <3>5, <3>6, <3>7, <3>8, <3>9, <3>10 DEF Step
  <2>3. \A v \in Writers : BaseRemembered(v)' /\ HolderSound(v)'
    BY <2>1, <2>2
  <2> QED
    BY <2>3 DEF HolderIsSound, BaseRemembered, HolderSound
<1> QED
  BY <1>1, <1>2 DEF Next

\* The initial states satisfy the invariant.
LEMMA InitIInv == Init => IInv
<1> SUFFICES ASSUME Init PROVE IInv
  OBVIOUS
<1>1. \A w \in Writers : /\ savepoints[w] = << >> /\ point[w] = Nothing
                          /\ phase[w] = "idle" /\ Depth(w) = 0
  BY DEF Init, Depth
<1>2. TypeOK
  BY NothingType, BoundAssumption DEF Init, TypeOK, Phases
<1>3. WritesUnderLock
  <2>1. Nothing.advanced = 0 /\ ~Nothing.locked
    BY DEF Nothing
  <2>2. \A w \in Writers : lock # w
    BY NoWriterAssumption DEF Init
  <2>3. ASSUME NEW w \in Writers
        PROVE  /\ point[w].locked <=> lock = w
               /\ point[w].advanced # 0 => point[w].locked
               /\ point[w].advanced = 0 => point[w].writes = Nothing.writes
               /\ phase[w] = "idle" => point[w] = Nothing
               /\ phase[w] \in {"owning", "leaving"} => lock = w
               /\ phase[w] = "owning" <=> Depth(w) > 0
    <3>1. point[w] = Nothing /\ phase[w] = "idle" /\ Depth(w) = 0 /\ lock # w
      BY <1>1, <2>2
    <3>2. point[w].locked <=> lock = w
      BY <3>1, <2>1
    <3>3. phase[w] = "owning" <=> Depth(w) > 0
      BY <3>1
    <3>4. phase[w] \notin {"owning", "leaving"}
      BY <3>1
    <3> QED
      BY <3>1, <3>2, <3>3, <3>4, <2>1
  <2> QED
    BY <2>3 DEF WritesUnderLock
<1>4. SavepointsUnderLock
  BY <1>1 DEF SavepointsUnderLock
<1>5. RevisionsAreFresh
  BY <1>1, BoundAssumption DEF Init, RevisionsAreFresh, Nothing
<1>6. RevisionNamesWrites /\ HolderIsSound
  BY <1>1 DEF RevisionNamesWrites, HolderIsSound
<1> QED
  BY <1>2, <1>3, <1>4, <1>5, <1>6 DEF IInv

\* The inductive invariant holds in every reachable state: policy rows are written
\* only under the generation row, every uncommitted revision is new, and the
\* holder can only publish a sound policy over a sound one.
THEOREM Invariance == Spec => []IInv
<1>1. IInv /\ [Next]_vars => IInv'
  BY TypeCorrect, LockKept, SavepointsKept, RevisionsKept, RevisionNamesWritesKept,
     SoundnessKept DEF IInv
<1> QED
  BY InitIInv, <1>1, PTL DEF Spec

\* Type correctness, for any writers, rows, values and bounds.
THEOREM TypeCorrectness == Spec => []TypeOK
<1>1. IInv => TypeOK
  BY DEF IInv
<1> QED
  BY <1>1, Invariance, PTL

\* A revision names one content inside a transaction, savepoint rollbacks
\* included: an owner may skip its last check when the revision did not move.
THEOREM RevisionIdentity == Spec => []RevisionNamesWrites
<1>1. IInv => RevisionNamesWrites
  BY DEF IInv
<1> QED
  BY <1>1, Invariance, PTL

\* The generation row serializes owners: what one examined when it started is
\* still the committed policy when it validates (schema_index_write).
THEOREM OwnersAreSerial == Spec => []OwnerKeepsItsBase
<1>1. IInv => OwnerKeepsItsBase
  BY DEF IInv, HolderIsSound, RevisionAt, OwnerKeepsItsBase
<1> QED
  BY <1>1, Invariance, PTL

\* What one step of one writer publishes.
LEMMA StepPublishes ==
    ASSUME IInv, TypeOK', NEW w \in Writers, Step(w)
    PROVE  \/ stored' = stored /\ revision' = revision /\ published' = published
           \/ /\ revision' \notin published
              /\ published' = published \cup {revision'}
              /\ stored \in SoundPolicies => stored' \in SoundPolicies
<1>1. CASE stored' = stored /\ revision' = revision /\ published' = published
  BY <1>1
<1>2. CASE /\ Commit(w) /\ revision' > revision
           /\ published' = published \cup {revision'} /\ stored' = PolicySeenBy(w)
  <2>1. phase[w] \in {"open", "leaving"}
    BY <1>2 DEF Commit
  <2>2. stored \in SoundPolicies => stored' \in SoundPolicies
    BY <1>2, <2>1 DEF IInv, HolderIsSound
  <2>3. revision' \notin published
    <3>1. revision \in Nat /\ revision' \in Nat /\ published \subseteq Nat
      BY BoundAssumption DEF IInv, TypeOK
    <3> QED
      BY <1>2, <3>1 DEF IInv, RevisionsAreFresh
  <2> QED
    BY <1>2, <2>2, <2>3
<1> QED
  BY <1>1, <1>2, OnlyCommitsPublish, CommitPublishes

\* Two changes that are each valid cannot combine into a refused policy: a sound
\* stored policy is only ever replaced by a sound one.
THEOREM SoundnessIsPreserved == Spec => SoundnessPreserved
<1>1. IInv /\ IInv' /\ [Next]_vars => [KeepsSoundness]_vars
  <2> SUFFICES ASSUME IInv, IInv', Next PROVE KeepsSoundness
    BY DEF KeepsSoundness
  <2>1. PICK w \in Writers : Step(w)
    BY DEF Next
  <2> QED
    BY <2>1, StepPublishes DEF IInv, KeepsSoundness
<1> QED
  BY <1>1, Invariance, PTL DEF Spec, SoundnessPreserved

\* The store implements the abstract history: every step is a stutter or one
\* publication of a whole policy under an identity never used before.
THEOREM ImplementsHistory == Spec => PublishesHistory
<1>1. Init => History!Init
  BY DEF Init, History!Init
<1>2. IInv /\ IInv' /\ [Next]_vars => [History!Next]_(History!vars)
  <2> SUFFICES ASSUME IInv, IInv', [Next]_vars PROVE [History!Next]_(History!vars)
    OBVIOUS
  <2>1. CASE UNCHANGED vars
    BY <2>1 DEF vars, History!vars
  <2>2. ASSUME NEW w \in Writers, Step(w) PROVE [History!Next]_(History!vars)
    <3>1. CASE stored' = stored /\ revision' = revision /\ published' = published
      BY <3>1 DEF History!vars
    <3>2. CASE /\ revision' \notin published
               /\ published' = published \cup {revision'}
               /\ stored \in SoundPolicies => stored' \in SoundPolicies
      <4>1. stored' \in Policies /\ revision' \in 0..MaxRevision
        BY DEF IInv, TypeOK
      <4>2. History!Publish(stored', revision')
        BY <3>2 DEF History!Publish
      <4> QED
        BY <4>1, <4>2 DEF History!Next
    <3> QED
      BY <2>2, <3>1, <3>2, StepPublishes DEF IInv
  <2> QED
    BY <2>1, <2>2 DEF Next
<1> QED
  BY <1>1, <1>2, Invariance, PTL DEF Spec, PublishesHistory, History!Spec

-----------------------------------------------------------------------------
(* Folds: what holds at the start and is kept by each step holds at the end. *)

\* A set of numbers that has zero and with each the next has them all.
LEMMA LastNumber ==
    ASSUME NEW n \in Nat, NEW T, 0 \in T, \A m \in 1..n : m - 1 \in T => m \in T
    PROVE n \in T
<1> SUFFICES ASSUME n \notin T PROVE FALSE OBVIOUS
<1> DEFINE Left == {m \in 0..n : m \notin T}
           R == {p \in Nat \X Nat : p[1] < p[2]}
<1>1. R = OpToRel(<, Nat) BY DEF OpToRel
<1>2. IsWellFoundedOn(R, Nat) BY <1>1, NatLessThanWellFounded
<1>3. Left \in SUBSET Nat /\ Left # {} OBVIOUS
<1>4. PICK m \in Left : \A k \in Left : ~(<<k, m>> \in R) BY <1>2, <1>3, WFMin
<1>5. m # 0 /\ m \in 0..n /\ m \notin T BY <1>4
<1>6. m - 1 \in 0..n /\ m \in 1..n /\ <<m - 1, m>> \in R BY <1>5
<1>7. m - 1 \in T BY <1>4, <1>6
<1> QED BY <1>5, <1>6, <1>7

\* The steps of the four folds of a sync.
StepAt(kind, d, p, mode, i) ==
    CASE kind = "rows" -> IF ~Declares(p, Order[i]) THEN d ELSE SyncRow(d, p, Order[i], mode)
      [] kind = "definitions" ->
           IF ~Declares(p, Order[i]) \/ KindOf[Order[i]] # "definition" THEN d
           ELSE PruneChildren(d, Order[i], p, mode)
      [] kind = "packages" ->
           IF AppOrder[i] \notin DOMAIN files \/ ~Chosen(mode, AppOrder[i]) THEN d
           ELSE SyncPackage(d, AppOrder[i], mode)
      [] kind = "records" ->
           IF ~Chosen(mode, ByName[i]) THEN d ELSE PruneRecords(d, ByName[i], mode)

FoldOf(g, kind, d, p, mode, n) ==
    g = [i \in 0..n |-> IF i = 0 THEN d ELSE StepAt(kind, g[i - 1], p, mode, i)]

Unfolds(g, kind, d, p, mode, n) ==
    g[0] = d /\ \A i \in 1..n : i - 1 \in 0..n /\ g[i] = StepAt(kind, g[i - 1], p, mode, i)

\* A fold begins with its draft and goes on by its steps.
LEMMA FoldsByStep ==
    ASSUME NEW kind, NEW d, NEW p, NEW mode, NEW n \in Nat, NEW g, FoldOf(g, kind, d, p, mode, n)
    PROVE Unfolds(g, kind, d, p, mode, n)
<1> DEFINE step(i) == IF i = 0 THEN d ELSE StepAt(kind, g[i - 1], p, mode, i)
<1>1. g = [i \in 0..n |-> step(i)] BY DEF FoldOf
<1> HIDE DEF step
<1>2. \A i \in 0..n : g[i] = step(i) BY <1>1
<1> QED BY <1>2 DEF step, Unfolds

\* A fold over 0..n exists, by induction over its length.
LEMMA FoldsExist ==
    ASSUME NEW kind, NEW d, NEW p, NEW mode, NEW n \in Nat
    PROVE \E g : FoldOf(g, kind, d, p, mode, n)
<1> DEFINE T == {m \in Nat : \E g : FoldOf(g, kind, d, p, mode, m)}
<1>1. 0 \in T
  <2>1. FoldOf([i \in 0..0 |-> d], kind, d, p, mode, 0) BY DEF FoldOf
  <2> QED BY <2>1
<1>2. ASSUME NEW m \in 1..n, m - 1 \in T PROVE m \in T
  <2>1. m - 1 \in Nat /\ m \in Nat BY <1>2
  <2>2. PICK g : FoldOf(g, kind, d, p, mode, m - 1) BY <1>2
  <2>3. g[0] = d /\ \A i \in 1..(m - 1) : g[i] = StepAt(kind, g[i - 1], p, mode, i)
    <3>1. Unfolds(g, kind, d, p, mode, m - 1) BY <2>1, <2>2, FoldsByStep
    <3> QED BY <3>1 DEF Unfolds
  <2> DEFINE step(h, i) == IF i = 0 THEN d ELSE StepAt(kind, h[i - 1], p, mode, i)
             h == [i \in 0..m |-> step(g, i)]
  <2>4. \A i \in 0..(m - 1) : g[i] = step(g, i) BY <2>1, <2>3
  <2> HIDE DEF step
  <2>5. \A i \in 0..m : h[i] = step(g, i) OBVIOUS
  <2> HIDE DEF h
  <2>6. \A i \in 0..(m - 1) : i \in 0..m BY <2>1
  <2>7. \A i \in 0..(m - 1) : h[i] = g[i] BY <2>4, <2>5, <2>6
  <2>8. \A i \in 0..m : i # 0 => i - 1 \in 0..(m - 1) BY <2>1
  <2>9. \A i \in 0..m : step(g, i) = step(h, i) BY <2>7, <2>8 DEF step
  <2>10. h = [i \in 0..m |-> step(h, i)] BY <2>9 DEF h
  <2>11. FoldOf(h, kind, d, p, mode, m) BY <2>10 DEF FoldOf, step
  <2> QED BY <2>1, <2>11
<1> HIDE DEF T
<1>3. n \in T BY <1>1, <1>2, LastNumber
<1> QED BY <1>3 DEF T

\* The orders run through all fragments, and through all packages.
LEMMA LengthsAreNumbers ==
    /\ Len(Order) \in Nat /\ DOMAIN Order = 1..Len(Order)
    /\ Len(AppOrder) \in Nat /\ DOMAIN AppOrder = 1..Len(AppOrder)
    /\ Len(ByName) \in Nat /\ DOMAIN ByName = 1..Len(ByName)
    /\ \A i \in 1..Len(Order) : Order[i] \in Fragments
    /\ \A i \in 1..Len(AppOrder) : AppOrder[i] \in Packages
    /\ \A i \in 1..Len(ByName) : ByName[i] \in Packages
    /\ \A f \in Fragments : \E i \in 1..Len(Order) : Order[i] = f
    /\ \A p \in Packages : \E i \in 1..Len(AppOrder) : AppOrder[i] = p
    /\ \A p \in Packages : \E i \in 1..Len(ByName) : ByName[i] = p
<1>1. Len(Order) \in Nat /\ DOMAIN Order = 1..Len(Order)
      /\ \A i \in 1..Len(Order) : Order[i] \in Fragments
  BY OrderAssumption
<1>2. \A f \in Fragments : \E i \in 1..Len(Order) : Order[i] = f BY <1>1 DEF Fragments, Range
<1>3. Len(AppOrder) \in Nat /\ DOMAIN AppOrder = 1..Len(AppOrder)
      /\ \A i \in 1..Len(AppOrder) : AppOrder[i] \in Packages
  BY PackagesAssumption
<1>4. \A p \in Packages : \E i \in 1..Len(AppOrder) : AppOrder[i] = p BY <1>3 DEF Packages, Range
<1>5. Len(ByName) \in Nat /\ DOMAIN ByName = 1..Len(ByName)
      /\ \A i \in 1..Len(ByName) : ByName[i] \in Packages
  BY PackagesAssumption
<1>6. \A p \in Packages : \E i \in 1..Len(ByName) : ByName[i] = p
  BY <1>5, PackagesAssumption DEF Range
<1> QED BY <1>1, <1>2, <1>3, <1>4, <1>5, <1>6

\* A fold is the last of its drafts.
LEMMA SyncRowsFolds ==
    ASSUME NEW d, NEW p, NEW mode
    PROVE \E g : Unfolds(g, "rows", d, p, mode, Len(Order)) /\ SyncRows(d, p, mode) = g[Len(Order)]
<1> DEFINE synced[i \in 0..Len(Order)] ==
            IF i = 0 THEN d
            ELSE IF ~Declares(p, Order[i]) THEN synced[i - 1]
            ELSE SyncRow(synced[i - 1], p, Order[i], mode)
<1>1. \E g : FoldOf(g, "rows", d, p, mode, Len(Order)) BY LengthsAreNumbers, FoldsExist
<1>2. \E g : g = [i \in 0..Len(Order) |->
                     IF i = 0 THEN d
                     ELSE IF ~Declares(p, Order[i]) THEN g[i - 1]
                     ELSE SyncRow(g[i - 1], p, Order[i], mode)]
  BY <1>1 DEF FoldOf, StepAt
<1>3. FoldOf(synced, "rows", d, p, mode, Len(Order)) BY <1>2 DEF FoldOf, StepAt
<1>4. SyncRows(d, p, mode) = synced[Len(Order)] BY DEF SyncRows
<1> HIDE DEF synced
<1>5. Len(Order) \in Nat BY LengthsAreNumbers
<1>6. Unfolds(synced, "rows", d, p, mode, Len(Order)) BY <1>3, <1>5, FoldsByStep
<1> QED BY <1>4, <1>6

LEMMA PruneDefinitionsFolds ==
    ASSUME NEW d, NEW p, NEW mode
    PROVE \E g : Unfolds(g, "definitions", d, p, mode, Len(Order))
                 /\ PruneDefinitions(d, p, mode) = g[Len(Order)]
<1> DEFINE pruned[i \in 0..Len(Order)] ==
            IF i = 0 THEN d
            ELSE IF ~Declares(p, Order[i]) \/ KindOf[Order[i]] # "definition" THEN pruned[i - 1]
            ELSE PruneChildren(pruned[i - 1], Order[i], p, mode)
<1>1. \E g : FoldOf(g, "definitions", d, p, mode, Len(Order)) BY LengthsAreNumbers, FoldsExist
<1>2. \E g : g = [i \in 0..Len(Order) |->
                     IF i = 0 THEN d
                     ELSE IF ~Declares(p, Order[i]) \/ KindOf[Order[i]] # "definition" THEN g[i - 1]
                     ELSE PruneChildren(g[i - 1], Order[i], p, mode)]
  BY <1>1 DEF FoldOf, StepAt
<1>3. FoldOf(pruned, "definitions", d, p, mode, Len(Order)) BY <1>2 DEF FoldOf, StepAt
<1>4. PruneDefinitions(d, p, mode) = pruned[Len(Order)] BY DEF PruneDefinitions
<1> HIDE DEF pruned
<1>5. Len(Order) \in Nat BY LengthsAreNumbers
<1>6. Unfolds(pruned, "definitions", d, p, mode, Len(Order)) BY <1>3, <1>5, FoldsByStep
<1> QED BY <1>4, <1>6

LEMMA SyncPackagesFolds ==
    ASSUME NEW d, NEW mode
    PROVE \E g : Unfolds(g, "packages", d, None, mode, Len(AppOrder))
                 /\ SyncPackages(d, mode) = g[Len(AppOrder)]
<1> DEFINE synced[i \in 0..Len(AppOrder)] ==
            IF i = 0 THEN d
            ELSE IF AppOrder[i] \notin DOMAIN files \/ ~Chosen(mode, AppOrder[i]) THEN synced[i - 1]
            ELSE SyncPackage(synced[i - 1], AppOrder[i], mode)
<1>1. \E g : FoldOf(g, "packages", d, None, mode, Len(AppOrder)) BY LengthsAreNumbers, FoldsExist
<1>2. \E g : g = [i \in 0..Len(AppOrder) |->
                     IF i = 0 THEN d
                     ELSE IF AppOrder[i] \notin DOMAIN files \/ ~Chosen(mode, AppOrder[i]) THEN g[i - 1]
                     ELSE SyncPackage(g[i - 1], AppOrder[i], mode)]
  BY <1>1 DEF FoldOf, StepAt
<1>3. FoldOf(synced, "packages", d, None, mode, Len(AppOrder)) BY <1>2 DEF FoldOf, StepAt
<1>4. SyncPackages(d, mode) = synced[Len(AppOrder)] BY DEF SyncPackages
<1> HIDE DEF synced
<1>5. Len(AppOrder) \in Nat BY LengthsAreNumbers
<1>6. Unfolds(synced, "packages", d, None, mode, Len(AppOrder)) BY <1>3, <1>5, FoldsByStep
<1> QED BY <1>4, <1>6

LEMMA RetireRecordsFolds ==
    ASSUME NEW d, NEW mode
    PROVE \E g : Unfolds(g, "records", d, None, mode, Len(ByName))
                 /\ RetireRecords(d, mode) = g[Len(ByName)]
<1> DEFINE retired[i \in 0..Len(ByName)] ==
            IF i = 0 THEN d
            ELSE IF ~Chosen(mode, ByName[i]) THEN retired[i - 1]
            ELSE PruneRecords(retired[i - 1], ByName[i], mode)
<1>1. \E g : FoldOf(g, "records", d, None, mode, Len(ByName)) BY LengthsAreNumbers, FoldsExist
<1>2. \E g : g = [i \in 0..Len(ByName) |->
                     IF i = 0 THEN d
                     ELSE IF ~Chosen(mode, ByName[i]) THEN g[i - 1]
                     ELSE PruneRecords(g[i - 1], ByName[i], mode)]
  BY <1>1 DEF FoldOf, StepAt
<1>3. FoldOf(retired, "records", d, None, mode, Len(ByName)) BY <1>2 DEF FoldOf, StepAt
<1>4. RetireRecords(d, mode) = retired[Len(ByName)] BY DEF RetireRecords
<1> HIDE DEF retired
<1>5. Len(ByName) \in Nat BY LengthsAreNumbers
<1>6. Unfolds(retired, "records", d, None, mode, Len(ByName)) BY <1>3, <1>5, FoldsByStep
<1> QED BY <1>4, <1>6

-----------------------------------------------------------------------------
(* The operations on a draft, one field at a time.                         *)

KeyedRows == [pk : Nat, text : Texts]
Records == [package : Packages, fragment : Fragments, pk : Nat, hash : Texts]
Drafts == [rows : [Fragments -> KeyedRows \cup {None}], records : SUBSET Records,
           tuples : SUBSET Tuples, serial : Nat, drift : BOOLEAN, failed : BOOLEAN]

\* The files are those of a release, and valid.
Valid == files \in Releases /\ FilesAreValid

\* Of valid files only one declares a fragment, with a text and with its
\* definition.
LEMMA DeclaredTypes ==
    ASSUME Valid, NEW p \in Packages, NEW f \in Fragments, Declares(p, f)
    PROVE /\ files[p][f] \in Texts
          /\ ParentOf[f] \in Fragments /\ Declares(p, ParentOf[f])
          /\ \A q \in Packages : Declares(q, f) => q = p
          /\ p \in Owners(f)
<1>1. files[p][f] \in Texts BY PackagesAssumption DEF Valid, Declares
<1>2. p \in DOMAIN files /\ f \in DOMAIN files[p] BY DEF Declares
<1>3. Declares(p, ParentOf[f]) BY <1>2 DEF Valid, FilesAreValid
<1> QED BY <1>1, <1>3, OrderAssumption DEF Valid, FilesAreValid, Owners

\* The result of each operation, one field at a time.
LEMMA DriftFields ==
    ASSUME NEW d \in Drafts
    PROVE /\ Drift(d) \in Drafts
          /\ Drift(d).rows = d.rows /\ Drift(d).records = d.records /\ Drift(d).tuples = d.tuples
          /\ Drift(d).serial = d.serial /\ Drift(d).failed = d.failed /\ Drift(d).drift = TRUE
  BY DEF Drafts, Drift

LEMMA FailedFields ==
    ASSUME NEW d \in Drafts
    PROVE LET e == [d EXCEPT !.failed = TRUE]
          IN /\ e \in Drafts
             /\ e.rows = d.rows /\ e.records = d.records /\ e.tuples = d.tuples
             /\ e.serial = d.serial /\ e.failed = TRUE /\ e.drift = d.drift
  BY DEF Drafts

LEMMA RecordsOfOwn ==
    ASSUME NEW d \in Drafts, NEW p, NEW f
    PROVE Own(d, p, f) \subseteq d.records /\ d.records \subseteq Records
          /\ \A r \in Own(d, p, f) : r.package = p /\ r.fragment = f
  BY DEF Drafts, Own

LEMMA CreateFields ==
    ASSUME Valid, NEW d \in Drafts, NEW p \in Packages, NEW f \in Fragments, Declares(p, f)
    PROVE LET e == Create(d, p, f)
              new == [package |-> p, fragment |-> f, pk |-> d.serial + 1, hash |-> files[p][f]]
          IN /\ e \in Drafts
             /\ e.rows = [d.rows EXCEPT ![f] = [pk |-> d.serial + 1, text |-> files[p][f]]]
             /\ e.records = (d.records \ Own(d, p, f)) \cup {new}
             /\ e.tuples = d.tuples /\ e.serial = d.serial + 1
             /\ e.failed = d.failed /\ e.drift = d.drift
<1> DEFINE row == [pk |-> d.serial + 1, text |-> files[p][f]]
           new == [package |-> p, fragment |-> f, pk |-> d.serial + 1, hash |-> files[p][f]]
           rs == [d.rows EXCEPT ![f] = row]
           ms == (d.records \ Own(d, p, f)) \cup {new}
<1>1. d.serial + 1 \in Nat /\ files[p][f] \in Texts BY DeclaredTypes DEF Drafts
<1>2. row \in KeyedRows /\ new \in Records BY <1>1 DEF KeyedRows, Records
<1>3. rs \in [Fragments -> KeyedRows \cup {None}] BY <1>2 DEF Drafts
<1>4. ms \in SUBSET Records BY <1>2, RecordsOfOwn
<1>5. Create(d, p, f) = [d EXCEPT !.serial = d.serial + 1, !.rows = rs, !.records = ms]
  BY DEF Create, RecordOf, Drafts
<1> HIDE DEF rs, ms
<1>6. Create(d, p, f) \in Drafts BY <1>1, <1>3, <1>4, <1>5 DEF Drafts
<1>7. /\ Create(d, p, f).rows = rs /\ Create(d, p, f).records = ms
      /\ Create(d, p, f).tuples = d.tuples /\ Create(d, p, f).serial = d.serial + 1
      /\ Create(d, p, f).failed = d.failed /\ Create(d, p, f).drift = d.drift
  BY <1>5 DEF Drafts
<1> QED BY <1>6, <1>7 DEF rs, ms

LEMMA AdoptFields ==
    ASSUME Valid, NEW d \in Drafts, NEW p \in Packages, NEW f \in Fragments, Declares(p, f),
           d.rows[f] # None
    PROVE LET e == Adopt(d, p, f)
              new == [package |-> p, fragment |-> f, pk |-> d.rows[f].pk, hash |-> files[p][f]]
          IN /\ e \in Drafts
             /\ e.rows = [d.rows EXCEPT ![f] = [pk |-> d.rows[f].pk, text |-> files[p][f]]]
             /\ e.records = d.records \cup {new}
             /\ e.tuples = d.tuples /\ e.serial = d.serial
             /\ e.failed = d.failed /\ e.drift = d.drift
<1> DEFINE row == [pk |-> d.rows[f].pk, text |-> files[p][f]]
           new == [package |-> p, fragment |-> f, pk |-> d.rows[f].pk, hash |-> files[p][f]]
           rs == [d.rows EXCEPT ![f] = row]
           ms == d.records \cup {new}
<1>1. d.rows[f] \in KeyedRows /\ files[p][f] \in Texts BY DeclaredTypes DEF Drafts
<1>2. row \in KeyedRows /\ new \in Records BY <1>1 DEF KeyedRows, Records
<1>3. rs \in [Fragments -> KeyedRows \cup {None}] BY <1>2 DEF Drafts
<1>4. ms \in SUBSET Records BY <1>2 DEF Drafts
<1>5. [d.rows[f] EXCEPT !.text = files[p][f]] = row BY <1>1 DEF KeyedRows
<1>6. Adopt(d, p, f) = [d EXCEPT !.rows = rs, !.records = ms]
  BY <1>5 DEF Adopt, RecordOf, Drafts
<1> HIDE DEF rs, ms
<1>7. Adopt(d, p, f) \in Drafts BY <1>3, <1>4, <1>6 DEF Drafts
<1>8. /\ Adopt(d, p, f).rows = rs /\ Adopt(d, p, f).records = ms
      /\ Adopt(d, p, f).tuples = d.tuples /\ Adopt(d, p, f).serial = d.serial
      /\ Adopt(d, p, f).failed = d.failed /\ Adopt(d, p, f).drift = d.drift
  BY <1>6 DEF Drafts
<1> QED BY <1>7, <1>8 DEF rs, ms

LEMMA TransferFields ==
    ASSUME NEW d \in Drafts, NEW p \in Packages, NEW f \in Fragments
    PROVE LET e == Transfer(d, p, f)
          IN /\ e \in Drafts
             /\ e.rows = d.rows /\ e.tuples = d.tuples /\ e.serial = d.serial
             /\ e.records = (d.records \ Claims(d, f))
                              \cup {[r EXCEPT !.package = p] : r \in Claims(d, f)}
             /\ e.failed = d.failed /\ e.drift = d.drift
<1> DEFINE ms == (d.records \ Claims(d, f)) \cup {[r EXCEPT !.package = p] : r \in Claims(d, f)}
<1>1. \A r \in Claims(d, f) : r \in Records BY DEF Claims, Drafts
<1>2. \A r \in Records : [r EXCEPT !.package = p] \in Records BY DEF Records
<1>3. ms \in SUBSET Records BY <1>1, <1>2 DEF Drafts
<1>4. Transfer(d, p, f) = [d EXCEPT !.records = ms] BY DEF Transfer, Drafts
<1> HIDE DEF ms
<1>5. Transfer(d, p, f) \in Drafts BY <1>3, <1>4 DEF Drafts
<1>6. /\ Transfer(d, p, f).rows = d.rows /\ Transfer(d, p, f).records = ms
      /\ Transfer(d, p, f).tuples = d.tuples /\ Transfer(d, p, f).serial = d.serial
      /\ Transfer(d, p, f).failed = d.failed /\ Transfer(d, p, f).drift = d.drift
  BY <1>4 DEF Drafts
<1> QED BY <1>5, <1>6 DEF ms

LEMMA RenewedFields ==
    ASSUME Valid, NEW d \in Drafts, NEW p \in Packages, NEW f \in Fragments, Declares(p, f)
    PROVE LET e == Renewed(d, p, f)
          IN /\ e \in Drafts
             /\ e.rows = d.rows /\ e.tuples = d.tuples /\ e.serial = d.serial
             /\ e.records = (d.records \ Own(d, p, f))
                              \cup {[r EXCEPT !.hash = files[p][f]] : r \in Own(d, p, f)}
             /\ e.failed = d.failed /\ e.drift = d.drift
<1> DEFINE ms == (d.records \ Own(d, p, f))
                   \cup {[r EXCEPT !.hash = files[p][f]] : r \in Own(d, p, f)}
<1>1. \A r \in Own(d, p, f) : r \in Records BY RecordsOfOwn
<1>2. \A r \in Records : [r EXCEPT !.hash = files[p][f]] \in Records
  BY DeclaredTypes DEF Records
<1>3. ms \in SUBSET Records BY <1>1, <1>2 DEF Drafts
<1>4. Renewed(d, p, f) = [d EXCEPT !.records = ms] BY DEF Renewed, Drafts
<1> HIDE DEF ms
<1>5. Renewed(d, p, f) \in Drafts BY <1>3, <1>4 DEF Drafts
<1>6. /\ Renewed(d, p, f).rows = d.rows /\ Renewed(d, p, f).records = ms
      /\ Renewed(d, p, f).tuples = d.tuples /\ Renewed(d, p, f).serial = d.serial
      /\ Renewed(d, p, f).failed = d.failed /\ Renewed(d, p, f).drift = d.drift
  BY <1>4 DEF Drafts
<1> QED BY <1>5, <1>6 DEF ms

\* Writing the text of the file in a row that is there.
LEMMA OverwrittenFields ==
    ASSUME Valid, NEW d \in Drafts, NEW p \in Packages, NEW f \in Fragments, Declares(p, f),
           d.rows[f] # None
    PROVE LET e == [d EXCEPT !.rows = [@ EXCEPT ![f].text = files[p][f]]]
          IN /\ e \in Drafts
             /\ e.rows = [d.rows EXCEPT ![f] = [pk |-> d.rows[f].pk, text |-> files[p][f]]]
             /\ e.records = d.records /\ e.tuples = d.tuples /\ e.serial = d.serial
             /\ e.failed = d.failed /\ e.drift = d.drift
<1> DEFINE row == [pk |-> d.rows[f].pk, text |-> files[p][f]]
           rs == [d.rows EXCEPT ![f] = row]
           e == [d EXCEPT !.rows = [@ EXCEPT ![f].text = files[p][f]]]
<1>1. d.rows[f] \in KeyedRows /\ files[p][f] \in Texts BY DeclaredTypes DEF Drafts
<1>2. row \in KeyedRows BY <1>1 DEF KeyedRows
<1>3. rs \in [Fragments -> KeyedRows \cup {None}] BY <1>2 DEF Drafts
<1>4. [d.rows[f] EXCEPT !.text = files[p][f]] = row BY <1>1 DEF KeyedRows
<1>5. e = [d EXCEPT !.rows = rs] BY <1>4 DEF Drafts
<1> HIDE DEF rs, e
<1>6. e \in Drafts BY <1>3, <1>5 DEF Drafts
<1>7. e.rows = rs /\ e.records = d.records /\ e.tuples = d.tuples /\ e.serial = d.serial
      /\ e.failed = d.failed /\ e.drift = d.drift
  BY <1>5 DEF Drafts
<1> QED BY <1>6, <1>7 DEF rs, e

-----------------------------------------------------------------------------
(* One fragment.                                                           *)

\* What Compare comes to: nothing, a new hash, drift, or the text of the file.
LEMMA CompareCases ==
    ASSUME NEW d, NEW p, NEW f, NEW mode
    PROVE LET e == Compare(d, p, f, mode)
              same == d.rows[f].text = files[p][f]
          IN \/ same /\ mode.check /\ e = d
             \/ same /\ ~mode.check /\ e = Renewed(d, p, f)
             \/ ~same /\ (mode.check \/ ~mode.force) /\ e = Drift(d)
             \/ /\ ~same /\ ~mode.check /\ mode.force
                /\ e = [Renewed(d, p, f) EXCEPT !.rows = [@ EXCEPT ![f].text = files[p][f]]]
  BY DEF Compare

\* What SyncRow comes to.
LEMMA SyncRowCases ==
    ASSUME NEW d, NEW p, NEW f, NEW mode
    PROVE LET e == SyncRow(d, p, f, mode)
              there == d.rows[f] # None
              own == Own(d, p, f) # {}
              claims == IF mode.prune THEN Claims(d, f) ELSE {}
          IN \/ ~there /\ mode.check /\ e = Drift(d)
             \/ ~there /\ ~mode.check /\ e = Create(d, p, f)
             \/ there /\ own /\ e = Compare(d, p, f, mode)
             \/ there /\ ~own /\ e = [d EXCEPT !.failed = TRUE]
             \/ there /\ ~own /\ mode.check /\ e = Drift(d)
             \/ /\ there /\ ~own /\ ~mode.check /\ mode.prune /\ Claims(d, f) # {}
                /\ \A r, s \in Claims(d, f) : r = s
                /\ e = Compare(Transfer(d, p, f), p, f, mode)
             \/ there /\ ~own /\ ~mode.check /\ claims = {} /\ e = Adopt(d, p, f)
  BY DEF SyncRow

\* A step that concerns one fragment only, and deletes nothing.
ChangesOnly(d, e, f) ==
    /\ d \in Drafts /\ e \in Drafts /\ e.tuples = d.tuples /\ d.serial <= e.serial
    /\ \A g \in Fragments : g # f => e.rows[g] = d.rows[g]
    /\ \A r : r.fragment # f => (r \in e.records <=> r \in d.records)
    /\ d.rows[f] # None => e.rows[f] # None /\ e.rows[f].pk = d.rows[f].pk
    /\ e.drift = FALSE => d.drift = FALSE
    /\ e.failed = FALSE => d.failed = FALSE

\* Two steps that concern a fragment concern it together.
LEMMA ChangesCompose ==
    ASSUME NEW d, NEW c, NEW e, NEW f \in Fragments, ChangesOnly(d, c, f), ChangesOnly(c, e, f)
    PROVE ChangesOnly(d, e, f)
<1>1. d.serial \in Nat /\ c.serial \in Nat /\ e.serial \in Nat BY DEF ChangesOnly, Drafts
<1>2. d.serial <= e.serial BY <1>1 DEF ChangesOnly
<1> QED BY <1>2 DEF ChangesOnly

\* Reporting something concerns no fragment.
LEMMA NoChange ==
    ASSUME NEW d \in Drafts, NEW f \in Fragments
    PROVE ChangesOnly(d, d, f) /\ ChangesOnly(d, Drift(d), f)
          /\ ChangesOnly(d, [d EXCEPT !.failed = TRUE], f)
<1>1. d.serial <= d.serial BY DEF Drafts
<1>2. ChangesOnly(d, d, f) BY <1>1 DEF ChangesOnly
<1>3. ChangesOnly(d, Drift(d), f) BY <1>1, DriftFields DEF ChangesOnly
<1>4. ChangesOnly(d, [d EXCEPT !.failed = TRUE], f) BY <1>1, FailedFields DEF ChangesOnly
<1> QED BY <1>2, <1>3, <1>4

\* Each operation on a row concerns the fragment it is called for.
LEMMA ElementsChangeOne ==
    ASSUME Valid, NEW d \in Drafts, NEW p \in Packages, NEW f \in Fragments, Declares(p, f)
    PROVE /\ d.rows[f] = None => ChangesOnly(d, Create(d, p, f), f)
          /\ d.rows[f] # None => ChangesOnly(d, Adopt(d, p, f), f)
          /\ ChangesOnly(d, Transfer(d, p, f), f)
          /\ ChangesOnly(d, Renewed(d, p, f), f)
          /\ d.rows[f] # None =>
                ChangesOnly(d, [d EXCEPT !.rows = [@ EXCEPT ![f].text = files[p][f]]], f)
<1>0. d.serial \in Nat /\ d.rows \in [Fragments -> KeyedRows \cup {None}] BY DEF Drafts
<1>1. ASSUME d.rows[f] = None PROVE ChangesOnly(d, Create(d, p, f), f)
  <2> DEFINE e == Create(d, p, f)
  <2>1. /\ e \in Drafts /\ e.tuples = d.tuples /\ e.serial = d.serial + 1
        /\ e.rows = [d.rows EXCEPT ![f] = [pk |-> d.serial + 1, text |-> files[p][f]]]
        /\ e.records = (d.records \ Own(d, p, f))
             \cup {[package |-> p, fragment |-> f, pk |-> d.serial + 1, hash |-> files[p][f]]}
        /\ e.failed = d.failed /\ e.drift = d.drift
    BY CreateFields
  <2> HIDE DEF e
  <2>2. \A r : r.fragment # f => (r \in e.records <=> r \in d.records)
    BY <2>1, RecordsOfOwn
  <2>3. \A g \in Fragments : g # f => e.rows[g] = d.rows[g] BY <1>0, <2>1
  <2> QED BY <1>0, <1>1, <2>1, <2>2, <2>3 DEF ChangesOnly, e
<1>2. ASSUME d.rows[f] # None PROVE ChangesOnly(d, Adopt(d, p, f), f)
  <2> DEFINE e == Adopt(d, p, f)
  <2>1. /\ e \in Drafts /\ e.tuples = d.tuples /\ e.serial = d.serial
        /\ e.rows = [d.rows EXCEPT ![f] = [pk |-> d.rows[f].pk, text |-> files[p][f]]]
        /\ e.records = d.records
             \cup {[package |-> p, fragment |-> f, pk |-> d.rows[f].pk, hash |-> files[p][f]]}
        /\ e.failed = d.failed /\ e.drift = d.drift
    BY <1>2, AdoptFields
  <2> HIDE DEF e
  <2>2. \A r : r.fragment # f => (r \in e.records <=> r \in d.records)
    BY <2>1
  <2>3. \A g \in Fragments : g # f => e.rows[g] = d.rows[g] BY <1>0, <2>1
  <2>4. e.rows[f] = [pk |-> d.rows[f].pk, text |-> files[p][f]] BY <1>0, <2>1
  <2>5. e.rows[f] \in KeyedRows BY <2>4, <1>0, <1>2, DeclaredTypes DEF KeyedRows
  <2>6. e.rows[f] # None BY <2>5, SentinelsAssumption DEF KeyedRows
  <2>7. e.rows[f].pk = d.rows[f].pk BY <2>4
  <2> QED BY <1>0, <1>2, <2>1, <2>2, <2>3, <2>6, <2>7 DEF ChangesOnly, e
<1>3. ChangesOnly(d, Transfer(d, p, f), f)
  <2> DEFINE e == Transfer(d, p, f)
  <2>1. /\ e \in Drafts /\ e.rows = d.rows /\ e.tuples = d.tuples /\ e.serial = d.serial
        /\ e.records = (d.records \ Claims(d, f))
             \cup {[r EXCEPT !.package = p] : r \in Claims(d, f)}
        /\ e.failed = d.failed /\ e.drift = d.drift
    BY TransferFields
  <2> HIDE DEF e
  <2>2. \A r \in Claims(d, f) : r \in Records /\ r.fragment = f BY DEF Claims, Drafts
  <2>3. \A r \in Records : [r EXCEPT !.package = p].fragment = r.fragment BY DEF Records
  <2>4. \A r : r.fragment # f => (r \in e.records <=> r \in d.records) BY <2>1, <2>2, <2>3
  <2> QED BY <1>0, <2>1, <2>4 DEF ChangesOnly, e
<1>4. ChangesOnly(d, Renewed(d, p, f), f)
  <2> DEFINE e == Renewed(d, p, f)
  <2>1. /\ e \in Drafts /\ e.rows = d.rows /\ e.tuples = d.tuples /\ e.serial = d.serial
        /\ e.records = (d.records \ Own(d, p, f))
             \cup {[r EXCEPT !.hash = files[p][f]] : r \in Own(d, p, f)}
        /\ e.failed = d.failed /\ e.drift = d.drift
    BY RenewedFields
  <2> HIDE DEF e
  <2>2. \A r \in Own(d, p, f) : r \in Records /\ r.fragment = f BY RecordsOfOwn
  <2>3. \A r \in Records : [r EXCEPT !.hash = files[p][f]].fragment = r.fragment BY DEF Records
  <2>4. \A r : r.fragment # f => (r \in e.records <=> r \in d.records) BY <2>1, <2>2, <2>3
  <2> QED BY <1>0, <2>1, <2>4 DEF ChangesOnly, e
<1>5. ASSUME d.rows[f] # None
      PROVE ChangesOnly(d, [d EXCEPT !.rows = [@ EXCEPT ![f].text = files[p][f]]], f)
  <2> DEFINE e == [d EXCEPT !.rows = [@ EXCEPT ![f].text = files[p][f]]]
  <2>1. /\ e \in Drafts /\ e.tuples = d.tuples /\ e.serial = d.serial /\ e.records = d.records
        /\ e.rows = [d.rows EXCEPT ![f] = [pk |-> d.rows[f].pk, text |-> files[p][f]]]
        /\ e.failed = d.failed /\ e.drift = d.drift
    BY <1>5, OverwrittenFields
  <2> HIDE DEF e
  <2>3. \A g \in Fragments : g # f => e.rows[g] = d.rows[g] BY <1>0, <2>1
  <2>4. e.rows[f] = [pk |-> d.rows[f].pk, text |-> files[p][f]] BY <1>0, <2>1
  <2>5. e.rows[f] \in KeyedRows BY <2>4, <1>0, <1>5, DeclaredTypes DEF KeyedRows
  <2>6. e.rows[f] # None BY <2>5, SentinelsAssumption DEF KeyedRows
  <2>7. e.rows[f].pk = d.rows[f].pk BY <2>4
  <2> QED BY <1>0, <1>5, <2>1, <2>3, <2>6, <2>7 DEF ChangesOnly, e
<1> QED BY <1>1, <1>2, <1>3, <1>4, <1>5

LEMMA CompareChangesOne ==
    ASSUME Valid, NEW d \in Drafts, NEW p \in Packages, NEW f \in Fragments, Declares(p, f),
           d.rows[f] # None, NEW mode
    PROVE ChangesOnly(d, Compare(d, p, f, mode), f)
<1> DEFINE c == Renewed(d, p, f)
<1>0. ChangesOnly(d, c, f) BY ElementsChangeOne
<1>1. c \in Drafts /\ c.rows[f] # None BY <1>0 DEF ChangesOnly
<1>2. ChangesOnly(c, [c EXCEPT !.rows = [@ EXCEPT ![f].text = files[p][f]]], f)
  BY <1>1, ElementsChangeOne
<1>3. ChangesOnly(d, [c EXCEPT !.rows = [@ EXCEPT ![f].text = files[p][f]]], f)
  BY <1>0, <1>2, ChangesCompose
<1>4. ChangesOnly(d, d, f) /\ ChangesOnly(d, Drift(d), f) BY NoChange
<1>5. \/ Compare(d, p, f, mode) = d \/ Compare(d, p, f, mode) = Drift(d)
      \/ Compare(d, p, f, mode) = c
      \/ Compare(d, p, f, mode) = [c EXCEPT !.rows = [@ EXCEPT ![f].text = files[p][f]]]
  BY CompareCases
<1> HIDE DEF c
<1> QED BY <1>0, <1>3, <1>4, <1>5

\* So does all that _sync_row does.
LEMMA SyncRowChangesOne ==
    ASSUME Valid, NEW d \in Drafts, NEW p \in Packages, NEW f \in Fragments, Declares(p, f), NEW mode
    PROVE ChangesOnly(d, SyncRow(d, p, f, mode), f)
<1> DEFINE c == Transfer(d, p, f)
<1>1. ChangesOnly(d, c, f) BY ElementsChangeOne
<1>2. ASSUME d.rows[f] # None PROVE ChangesOnly(d, Compare(c, p, f, mode), f)
  <2>1. c \in Drafts /\ c.rows[f] # None BY <1>1, <1>2 DEF ChangesOnly
  <2>2. ChangesOnly(c, Compare(c, p, f, mode), f) BY <2>1, CompareChangesOne
  <2> QED BY <1>1, <2>2, ChangesCompose
<1>3. d.rows[f] # None => ChangesOnly(d, Compare(d, p, f, mode), f) BY CompareChangesOne
<1>4. ChangesOnly(d, Drift(d), f) /\ ChangesOnly(d, [d EXCEPT !.failed = TRUE], f) BY NoChange
<1>5. /\ d.rows[f] = None => ChangesOnly(d, Create(d, p, f), f)
      /\ d.rows[f] # None => ChangesOnly(d, Adopt(d, p, f), f)
  BY ElementsChangeOne
<1>6. LET e == SyncRow(d, p, f, mode)
      IN \/ d.rows[f] = None /\ e = Create(d, p, f)
         \/ d.rows[f] # None /\ e = Adopt(d, p, f)
         \/ d.rows[f] # None /\ e = Compare(d, p, f, mode)
         \/ d.rows[f] # None /\ e = Compare(c, p, f, mode)
         \/ e = Drift(d) \/ e = [d EXCEPT !.failed = TRUE]
  BY SyncRowCases
<1> HIDE DEF c
<1> QED BY <1>2, <1>3, <1>4, <1>5, <1>6

\* The keys are those given so far, and no package has two records of a
\* fragment.
Sane(d) ==
    /\ d \in Drafts
    /\ \A f \in Fragments : d.rows[f] # None => d.rows[f].pk \in 1..d.serial
    /\ \A r \in d.records : r.pk \in 1..d.serial
    /\ \A r, s \in d.records : r.package = s.package /\ r.fragment = s.fragment => r = s

\* Each operation on a row leaves a sane draft.
LEMMA CreateIsSane ==
    ASSUME Valid, NEW d, Sane(d), NEW p \in Packages, NEW f \in Fragments, Declares(p, f)
    PROVE Sane(Create(d, p, f))
<1> DEFINE e == Create(d, p, f)
           new == [package |-> p, fragment |-> f, pk |-> d.serial + 1, hash |-> files[p][f]]
<1>0. d \in Drafts /\ d.serial \in Nat /\ d.rows \in [Fragments -> KeyedRows \cup {None}]
  BY DEF Sane, Drafts
<1>1. /\ e \in Drafts /\ e.serial = d.serial + 1
      /\ e.rows = [d.rows EXCEPT ![f] = [pk |-> d.serial + 1, text |-> files[p][f]]]
      /\ e.records = (d.records \ Own(d, p, f)) \cup {new}
  BY <1>0, CreateFields
<1>2. new.package = p /\ new.fragment = f /\ new.pk = d.serial + 1 OBVIOUS
<1> HIDE DEF e, new
<1>3. ASSUME NEW g \in Fragments, e.rows[g] # None PROVE e.rows[g].pk \in 1..e.serial
  <2>1. CASE g = f
    <3>1. e.rows[g].pk = d.serial + 1 BY <1>0, <1>1, <2>1
    <3> QED BY <1>0, <1>1, <3>1
  <2>2. CASE g # f
    <3>1. e.rows[g] = d.rows[g] BY <1>0, <1>1, <2>2
    <3>2. d.rows[g].pk \in 1..d.serial BY <1>3, <3>1 DEF Sane
    <3> QED BY <1>0, <1>1, <3>1, <3>2
  <2> QED BY <2>1, <2>2
<1>4. ASSUME NEW r \in e.records PROVE r.pk \in 1..e.serial
  <2>1. CASE r = new BY <1>0, <1>1, <1>2, <2>1
  <2>2. CASE r \in d.records
    <3>1. r.pk \in 1..d.serial BY <2>2 DEF Sane
    <3> QED BY <1>0, <1>1, <3>1
  <2> QED BY <1>1, <2>1, <2>2
<1>5. ASSUME NEW r \in e.records, NEW s \in e.records, r.package = s.package, r.fragment = s.fragment
      PROVE r = s
  <2>1. \A t \in e.records : t # new => t \in d.records /\ ~(t.package = p /\ t.fragment = f)
    BY <1>1 DEF Own
  <2> QED BY <1>2, <1>5, <2>1 DEF Sane
<1> QED BY <1>1, <1>3, <1>4, <1>5 DEF Sane, e

LEMMA AdoptIsSane ==
    ASSUME Valid, NEW d, Sane(d), NEW p \in Packages, NEW f \in Fragments, Declares(p, f),
           d.rows[f] # None, Own(d, p, f) = {}
    PROVE Sane(Adopt(d, p, f))
<1> DEFINE e == Adopt(d, p, f)
           new == [package |-> p, fragment |-> f, pk |-> d.rows[f].pk, hash |-> files[p][f]]
<1>0. d \in Drafts /\ d.serial \in Nat /\ d.rows \in [Fragments -> KeyedRows \cup {None}]
  BY DEF Sane, Drafts
<1>1. /\ e \in Drafts /\ e.serial = d.serial
      /\ e.rows = [d.rows EXCEPT ![f] = [pk |-> d.rows[f].pk, text |-> files[p][f]]]
      /\ e.records = d.records \cup {new}
  BY <1>0, AdoptFields
<1>2. new.package = p /\ new.fragment = f /\ new.pk = d.rows[f].pk OBVIOUS
<1> HIDE DEF e, new
<1>3. ASSUME NEW g \in Fragments, e.rows[g] # None PROVE e.rows[g].pk \in 1..e.serial
  <2>1. CASE g = f
    <3>1. e.rows[g].pk = d.rows[f].pk BY <1>0, <1>1, <2>1
    <3> QED BY <1>1, <3>1 DEF Sane
  <2>2. CASE g # f
    <3>1. e.rows[g] = d.rows[g] BY <1>0, <1>1, <2>2
    <3> QED BY <1>1, <1>3, <3>1 DEF Sane
  <2> QED BY <2>1, <2>2
<1>4. ASSUME NEW r \in e.records PROVE r.pk \in 1..e.serial
  BY <1>1, <1>2 DEF Sane
<1>5. ASSUME NEW r \in e.records, NEW s \in e.records, r.package = s.package, r.fragment = s.fragment
      PROVE r = s
  <2>1. \A t \in d.records : ~(t.package = p /\ t.fragment = f) BY DEF Own
  <2> QED BY <1>1, <1>2, <1>5, <2>1 DEF Sane
<1> QED BY <1>1, <1>3, <1>4, <1>5 DEF Sane, e

LEMMA TransferIsSane ==
    ASSUME NEW d, Sane(d), NEW p \in Packages, NEW f \in Fragments,
           Own(d, p, f) = {}, \A r, s \in Claims(d, f) : r = s
    PROVE Sane(Transfer(d, p, f))
<1> DEFINE e == Transfer(d, p, f)
<1>0. d \in Drafts BY DEF Sane
<1>1. /\ e \in Drafts /\ e.serial = d.serial /\ e.rows = d.rows
      /\ e.records = (d.records \ Claims(d, f)) \cup {[r EXCEPT !.package = p] : r \in Claims(d, f)}
  BY <1>0, TransferFields
<1> HIDE DEF e
<1>2. \A r \in Claims(d, f) : r \in d.records /\ r \in Records /\ r.fragment = f
  BY <1>0 DEF Claims, Drafts
<1>3. \A r \in Records : LET m == [r EXCEPT !.package = p]
                         IN m.package = p /\ m.fragment = r.fragment /\ m.pk = r.pk
  BY DEF Records
<1>4. \A m \in e.records : m \in d.records
        \/ \E r \in Claims(d, f) : m = [r EXCEPT !.package = p]
                                   /\ m.package = p /\ m.fragment = f /\ m.pk = r.pk
  <2>1. \A r \in Claims(d, f) : LET m == [r EXCEPT !.package = p]
                                IN m.package = p /\ m.fragment = f /\ m.pk = r.pk
    BY <1>2, <1>3
  <2> SUFFICES ASSUME NEW m \in e.records, m \notin d.records
               PROVE \E r \in Claims(d, f) : m = [r EXCEPT !.package = p]
                        /\ m.package = p /\ m.fragment = f /\ m.pk = r.pk
    OBVIOUS
  <2>2. m \in {[r EXCEPT !.package = p] : r \in Claims(d, f)} BY <1>1
  <2>3. PICK r \in Claims(d, f) : m = [r EXCEPT !.package = p] BY <2>2
  <2>4. m.package = p /\ m.fragment = f /\ m.pk = r.pk BY <2>1, <2>3
  <2> QED BY <2>3, <2>4
<1>5. \A r \in e.records : r.pk \in 1..e.serial BY <1>1, <1>2, <1>4 DEF Sane
<1>6. \A t \in d.records : ~(t.package = p /\ t.fragment = f) BY DEF Own
<1>7. ASSUME NEW r \in e.records, NEW s \in e.records, r.package = s.package, r.fragment = s.fragment
      PROVE r = s
  <2>1. CASE r \in d.records /\ s \in d.records BY <1>7, <2>1 DEF Sane
  <2>2. CASE r \notin d.records
    <3>1. r.package = p /\ r.fragment = f BY <1>4, <2>2
    <3>2. s \notin d.records BY <1>6, <1>7, <3>1
    <3> QED BY <1>4, <2>2, <3>2
  <2>3. CASE s \notin d.records
    <3>1. s.package = p /\ s.fragment = f BY <1>4, <2>3
    <3>2. r \notin d.records BY <1>6, <1>7, <3>1
    <3> QED BY <1>4, <2>3, <3>2
  <2> QED BY <2>1, <2>2, <2>3
<1> QED BY <1>1, <1>5, <1>7 DEF Sane, e

LEMMA RenewedIsSane ==
    ASSUME Valid, NEW d, Sane(d), NEW p \in Packages, NEW f \in Fragments, Declares(p, f)
    PROVE Sane(Renewed(d, p, f))
<1> DEFINE e == Renewed(d, p, f)
<1>0. d \in Drafts BY DEF Sane
<1>1. /\ e \in Drafts /\ e.serial = d.serial /\ e.rows = d.rows
      /\ e.records = (d.records \ Own(d, p, f))
                       \cup {[r EXCEPT !.hash = files[p][f]] : r \in Own(d, p, f)}
  BY <1>0, RenewedFields
<1> HIDE DEF e
<1>2. \A r \in Own(d, p, f) : r \in d.records /\ r \in Records /\ r.package = p /\ r.fragment = f
  BY <1>0, RecordsOfOwn
<1>3. \A r \in Records : LET m == [r EXCEPT !.hash = files[p][f]]
                         IN m.package = r.package /\ m.fragment = r.fragment /\ m.pk = r.pk
  BY DEF Records
<1>8. \A m \in d.records : m \notin Own(d, p, f) => ~(m.package = p /\ m.fragment = f) BY DEF Own
<1>9. \A r \in Own(d, p, f) :
         LET m == [r EXCEPT !.hash = files[p][f]]
         IN m.package = p /\ m.fragment = f /\ m.pk = r.pk
  BY <1>2, <1>3
<1>4. \A m \in e.records :
        \/ m \in d.records /\ ~(m.package = p /\ m.fragment = f)
        \/ \E r \in Own(d, p, f) : m = [r EXCEPT !.hash = files[p][f]]
                                   /\ m.package = p /\ m.fragment = f /\ m.pk = r.pk
  BY <1>1, <1>8, <1>9
<1>5. \A r \in e.records : r.pk \in 1..e.serial BY <1>1, <1>2, <1>4 DEF Sane
<1>6. \A r, s \in Own(d, p, f) : r = s BY <1>2 DEF Sane
<1>7. ASSUME NEW r \in e.records, NEW s \in e.records, r.package = s.package, r.fragment = s.fragment
      PROVE r = s
  <2>1. CASE r.package = p /\ r.fragment = f
    <3>1. PICK o \in Own(d, p, f) : r = [o EXCEPT !.hash = files[p][f]] BY <1>4, <2>1
    <3>3. s.package = p /\ s.fragment = f BY <1>7, <2>1
    <3>2. PICK u \in Own(d, p, f) : s = [u EXCEPT !.hash = files[p][f]] BY <1>4, <3>3
    <3> QED BY <1>6, <3>1, <3>2
  <2>2. CASE ~(r.package = p /\ r.fragment = f)
    <3>1. r \in d.records /\ s \in d.records BY <1>4, <1>7, <2>2
    <3> QED BY <1>7, <3>1 DEF Sane
  <2> QED BY <2>1, <2>2
<1> QED BY <1>1, <1>5, <1>7 DEF Sane, e

LEMMA OverwrittenIsSane ==
    ASSUME Valid, NEW d, Sane(d), NEW p \in Packages, NEW f \in Fragments, Declares(p, f),
           d.rows[f] # None
    PROVE Sane([d EXCEPT !.rows = [@ EXCEPT ![f].text = files[p][f]]])
<1> DEFINE e == [d EXCEPT !.rows = [@ EXCEPT ![f].text = files[p][f]]]
<1>0. d \in Drafts /\ d.rows \in [Fragments -> KeyedRows \cup {None}] BY DEF Sane, Drafts
<1>1. /\ e \in Drafts /\ e.serial = d.serial /\ e.records = d.records
      /\ e.rows = [d.rows EXCEPT ![f] = [pk |-> d.rows[f].pk, text |-> files[p][f]]]
  BY <1>0, OverwrittenFields
<1> HIDE DEF e
<1>2. ASSUME NEW g \in Fragments, e.rows[g] # None PROVE e.rows[g].pk \in 1..e.serial
  <2>1. CASE g = f
    <3>1. e.rows[g].pk = d.rows[f].pk BY <1>0, <1>1, <2>1
    <3> QED BY <1>1, <3>1 DEF Sane
  <2>2. CASE g # f
    <3>1. e.rows[g] = d.rows[g] BY <1>0, <1>1, <2>2
    <3> QED BY <1>1, <1>2, <3>1 DEF Sane
  <2> QED BY <2>1, <2>2
<1> QED BY <1>1, <1>2 DEF Sane, e

LEMMA FlagsAreSane ==
    ASSUME NEW d, Sane(d)
    PROVE Sane(Drift(d)) /\ Sane([d EXCEPT !.failed = TRUE])
<1>1. d \in Drafts BY DEF Sane
<1>2. Sane(Drift(d)) BY <1>1, DriftFields DEF Sane
<1>3. Sane([d EXCEPT !.failed = TRUE]) BY <1>1, FailedFields DEF Sane
<1> QED BY <1>2, <1>3

LEMMA CompareIsSane ==
    ASSUME Valid, NEW d, Sane(d), NEW p \in Packages, NEW f \in Fragments, Declares(p, f),
           d.rows[f] # None, NEW mode
    PROVE Sane(Compare(d, p, f, mode))
<1> DEFINE c == Renewed(d, p, f)
<1>1. Sane(c) BY RenewedIsSane
<1>2. c.rows[f] # None
  <2>1. d \in Drafts BY DEF Sane
  <2> QED BY <2>1, RenewedFields
<1>3. \/ Compare(d, p, f, mode) = d \/ Compare(d, p, f, mode) = Drift(d)
      \/ Compare(d, p, f, mode) = c
      \/ Compare(d, p, f, mode) = [c EXCEPT !.rows = [@ EXCEPT ![f].text = files[p][f]]]
  BY CompareCases
<1> HIDE DEF c
<1>4. Sane([c EXCEPT !.rows = [@ EXCEPT ![f].text = files[p][f]]])
  BY <1>1, <1>2, OverwrittenIsSane
<1>5. Sane(Drift(d)) BY FlagsAreSane
<1> QED BY <1>1, <1>3, <1>4, <1>5

\* So does _sync_row.
LEMMA SyncRowIsSane ==
    ASSUME Valid, NEW d, Sane(d), NEW p \in Packages, NEW f \in Fragments, Declares(p, f), NEW mode
    PROVE Sane(SyncRow(d, p, f, mode))
<1> DEFINE c == Transfer(d, p, f)
<1>1. d \in Drafts BY DEF Sane
<1>2. d.rows[f] # None => c.rows[f] # None BY <1>1, TransferFields
<1>3. Own(d, p, f) = {} /\ (\A r, s \in Claims(d, f) : r = s) => Sane(c) BY TransferIsSane
<1>4. LET e == SyncRow(d, p, f, mode)
      IN \/ e = Create(d, p, f)
         \/ d.rows[f] # None /\ Own(d, p, f) = {} /\ e = Adopt(d, p, f)
         \/ d.rows[f] # None /\ e = Compare(d, p, f, mode)
         \/ /\ d.rows[f] # None /\ Own(d, p, f) = {} /\ \A r, s \in Claims(d, f) : r = s
            /\ e = Compare(c, p, f, mode)
         \/ e = Drift(d) \/ e = [d EXCEPT !.failed = TRUE]
  BY SyncRowCases
<1> HIDE DEF c
<1> QED BY <1>2, <1>3, <1>4, CreateIsSane, AdoptIsSane, CompareIsSane, FlagsAreSane

-----------------------------------------------------------------------------
(* What every part of an applied sync does to the draft.                   *)

\* p has written f: the row is there, p manages it, and if --force-overwrite
\* said so it holds the text of the file.
Done(d, p, f, mode) ==
    /\ d.rows[f] # None /\ Own(d, p, f) # {}
    /\ mode.force => d.rows[f].text = files[p][f]

\* What UpgradesKeepEdits protects.
Kept(d, p, f, mode) ==
    d.rows[f] # None /\ (Own(d, p, f) # {} \/ (mode.prune /\ Claims(d, f) # {}))

KeepsRows(d, e, mode) ==
    ~mode.force => \A p \in Packages : \A f \in Fragments :
        Declares(p, f) /\ Kept(d, p, f, mode) => Kept(e, p, f, mode) /\ e.rows[f] = d.rows[f]

\* A row that goes takes its tuples.
LosesTuples(d, e, mode) ==
    /\ e.tuples \subseteq d.tuples
    /\ mode.prune => \A f \in Fragments :
            d.rows[f] # None /\ e.rows[f] = None /\ ~(mode.force /\ KindOf[f] = "permission") =>
                \A t \in e.tuples : f \notin NamedBy[t]

StaysDone(d, e, mode) ==
    e.failed = FALSE => /\ d.failed = FALSE
                        /\ (mode.prune \/ ~mode.force) =>
                              \A p \in Packages : \A f \in Fragments :
                                Declares(p, f) /\ Done(d, p, f, mode) => Done(e, p, f, mode)

\* No undeclared child comes back, and no record of what is not declared.
StaysClean(d, e) ==
    /\ \A p \in Packages : \A g \in Fragments :
            Declares(p, g) /\ StaleChildren(d, g, p) = {} => StaleChildren(e, g, p) = {}
    /\ \A p \in Packages : StaleRecords(d, p) = {} => StaleRecords(e, p) = {}

Steps(d, e, mode) ==
    Sane(e) /\ KeepsRows(d, e, mode) /\ LosesTuples(d, e, mode)
    /\ StaysDone(d, e, mode) /\ StaysClean(d, e)

\* What every part of a sync promises, the parts promise together.
LEMMA StepsCompose ==
    ASSUME NEW d, NEW c, NEW e, NEW mode, Steps(d, c, mode), Steps(c, e, mode)
    PROVE Steps(d, e, mode)
<1>1. KeepsRows(d, e, mode) BY DEF Steps, KeepsRows
<1>2. LosesTuples(d, e, mode) BY DEF Steps, LosesTuples
<1>3. StaysDone(d, e, mode) BY DEF Steps, StaysDone
<1>4. StaysClean(d, e) BY DEF Steps, StaysClean
<1> QED BY <1>1, <1>2, <1>3, <1>4 DEF Steps

LEMMA NoStep ==
    ASSUME NEW d, Sane(d), NEW mode
    PROVE Steps(d, d, mode) /\ Steps(d, Drift(d), mode)
<1>1. Steps(d, d, mode) BY DEF Steps, KeepsRows, LosesTuples, StaysDone, StaysClean
<1>2. d \in Drafts BY DEF Sane
<1> DEFINE e == Drift(d)
<1>3. /\ e.rows = d.rows /\ e.records = d.records /\ e.tuples = d.tuples /\ e.failed = d.failed
      /\ Sane(e)
  BY <1>2, DriftFields, FlagsAreSane
<1> HIDE DEF e
<1>4. KeepsRows(d, e, mode) BY <1>3 DEF KeepsRows, Kept, Own, Claims
<1>5. LosesTuples(d, e, mode) BY <1>3 DEF LosesTuples
<1>6. StaysDone(d, e, mode) BY <1>3 DEF StaysDone, Done, Own
<1>7. StaysClean(d, e) BY <1>3 DEF StaysClean, StaleChildren, StaleRecords
<1> QED BY <1>1, <1>3, <1>4, <1>5, <1>6, <1>7 DEF Steps, e

\* Comparing a row of its own, a package is done with it.
LEMMA CompareOwn ==
    ASSUME Valid, NEW d, d \in Drafts, NEW p \in Packages, NEW f \in Fragments, Declares(p, f),
           d.rows[f] # None, Own(d, p, f) # {}, NEW mode, ~mode.check
    PROVE LET e == Compare(d, p, f, mode)
          IN /\ Done(e, p, f, mode)
             /\ ~mode.force => e.rows[f] = d.rows[f]
             /\ \A r \in e.records : r \in d.records \/ (r.package = p /\ r.fragment = f)
<1> DEFINE c == Renewed(d, p, f)
           over == [c EXCEPT !.rows = [@ EXCEPT ![f].text = files[p][f]]]
<1>0. d.rows \in [Fragments -> KeyedRows \cup {None}] BY DEF Drafts
<1>1. /\ c \in Drafts /\ c.rows = d.rows
      /\ c.records = (d.records \ Own(d, p, f))
                       \cup {[r EXCEPT !.hash = files[p][f]] : r \in Own(d, p, f)}
  BY RenewedFields
<1>2. c.rows[f] # None BY <1>1
<1> HIDE DEF c
<1>3. \A r \in Own(d, p, f) : LET m == [r EXCEPT !.hash = files[p][f]]
                              IN m.package = p /\ m.fragment = f /\ m \in c.records
  <2>1. \A r \in Own(d, p, f) : r \in Records /\ r.package = p /\ r.fragment = f BY RecordsOfOwn
  <2> QED BY <1>1, <2>1 DEF Records
<1>4. Own(c, p, f) # {} BY <1>3 DEF Own
<1>5. \A r \in c.records : r \in d.records \/ (r.package = p /\ r.fragment = f) BY <1>1, <1>3
<1>6. /\ over.rows = [c.rows EXCEPT ![f] = [pk |-> c.rows[f].pk, text |-> files[p][f]]]
      /\ over.records = c.records
  <2>1. c \in Drafts BY <1>1
  <2> QED BY <1>2, <2>1, OverwrittenFields
<1>7. LET e == Compare(d, p, f, mode)
      IN \/ d.rows[f].text = files[p][f] /\ e = c
         \/ ~mode.force /\ e = Drift(d)
         \/ mode.force /\ e = over
  BY CompareCases DEF c
<1> HIDE DEF over
<1> DEFINE e == Compare(d, p, f, mode)
<1>8. CASE d.rows[f].text = files[p][f] /\ e = c
  BY <1>1, <1>4, <1>5, <1>8 DEF Done
<1>9. CASE ~mode.force /\ e = Drift(d)
  <2>1. e.rows = d.rows /\ e.records = d.records BY <1>9, DriftFields
  <2> QED BY <1>9, <2>1 DEF Done, Own
<1>10. CASE mode.force /\ e = over
  <2>1. e.rows[f] = [pk |-> c.rows[f].pk, text |-> files[p][f]] BY <1>0, <1>1, <1>6, <1>10
  <2>2. e.rows[f].text = files[p][f] BY <2>1
  <2>3. e.rows[f] # None
    <3>1. e.rows[f] \in KeyedRows BY <1>0, <1>1, <1>2, <2>1, DeclaredTypes DEF KeyedRows
    <3> QED BY <3>1, SentinelsAssumption DEF KeyedRows
  <2>4. e.records = c.records BY <1>6, <1>10
  <2> QED BY <1>4, <1>5, <1>10, <2>2, <2>3, <2>4 DEF Done, Own
<1> QED BY <1>7, <1>8, <1>9, <1>10

\* What it does to that fragment.
Writes(d, e, p, f, mode) ==
    /\ e.rows[f] # None
    /\ e.failed = FALSE => Done(e, p, f, mode)
    /\ ~mode.force /\ Kept(d, p, f, mode) => Kept(e, p, f, mode) /\ e.rows[f] = d.rows[f]
    /\ \A r \in e.records : r \in d.records \/ (r.package = p /\ r.fragment = f)

\* A row that was synced without a refusal is done, and its package has its
\* record.
LEMMA SyncRowWrites ==
    ASSUME Valid, NEW d, Sane(d), NEW p \in Packages, NEW f \in Fragments, Declares(p, f),
           NEW mode \in Mode, ~mode.check
    PROVE Writes(d, SyncRow(d, p, f, mode), p, f, mode)
<1> DEFINE c == Transfer(d, p, f)
           e == SyncRow(d, p, f, mode)
<1>0. d \in Drafts /\ d.rows \in [Fragments -> KeyedRows \cup {None}] /\ d.serial \in Nat
  BY DEF Sane, Drafts
<1>1. /\ c \in Drafts /\ c.rows = d.rows
      /\ c.records = (d.records \ Claims(d, f)) \cup {[r EXCEPT !.package = p] : r \in Claims(d, f)}
  BY <1>0, TransferFields
<1> HIDE DEF c
<1>2. \A r \in Claims(d, f) : LET m == [r EXCEPT !.package = p]
                              IN m.package = p /\ m.fragment = f /\ m \in c.records
  <2>1. \A r \in Claims(d, f) : r \in Records /\ r.fragment = f BY <1>0 DEF Claims, Drafts
  <2> QED BY <1>1, <2>1 DEF Records
<1>3. Claims(d, f) # {} => Own(c, p, f) # {} BY <1>2 DEF Own
<1>4. \A r \in c.records : r \in d.records \/ (r.package = p /\ r.fragment = f) BY <1>1, <1>2
<1>5. mode.force \in BOOLEAN /\ mode.prune \in BOOLEAN /\ mode.check = FALSE BY DEF Mode
<1>6. \/ d.rows[f] = None /\ e = Create(d, p, f)
      \/ d.rows[f] # None /\ Own(d, p, f) # {} /\ e = Compare(d, p, f, mode)
      \/ d.rows[f] # None /\ e = [d EXCEPT !.failed = TRUE]
      \/ d.rows[f] # None /\ Claims(d, f) # {} /\ e = Compare(c, p, f, mode)
      \/ /\ d.rows[f] # None /\ Own(d, p, f) = {} /\ (mode.prune => Claims(d, f) = {})
         /\ e = Adopt(d, p, f)
  BY <1>5, SyncRowCases DEF c
<1>7. CASE d.rows[f] = None /\ e = Create(d, p, f)
  <2> DEFINE new == [package |-> p, fragment |-> f, pk |-> d.serial + 1, hash |-> files[p][f]]
  <2>1. /\ e.rows = [d.rows EXCEPT ![f] = [pk |-> d.serial + 1, text |-> files[p][f]]]
        /\ e.records = (d.records \ Own(d, p, f)) \cup {new}
    BY <1>0, <1>7, CreateFields
  <2>2. new.package = p /\ new.fragment = f OBVIOUS
  <2> HIDE DEF new, e
  <2>3. e.rows[f] = [pk |-> d.serial + 1, text |-> files[p][f]] BY <1>0, <2>1
  <2>4. e.rows[f] \in KeyedRows BY <1>0, <2>3, DeclaredTypes DEF KeyedRows
  <2>5. e.rows[f] # None /\ e.rows[f].text = files[p][f]
    BY <2>3, <2>4, SentinelsAssumption DEF KeyedRows
  <2>6. Own(e, p, f) # {} BY <2>1, <2>2 DEF Own
  <2> QED BY <1>7, <2>1, <2>2, <2>5, <2>6 DEF Writes, Done, Kept, e
<1>8. CASE d.rows[f] # None /\ Own(d, p, f) # {} /\ e = Compare(d, p, f, mode)
  <2>1. /\ Done(e, p, f, mode) /\ (~mode.force => e.rows[f] = d.rows[f])
        /\ \A r \in e.records : r \in d.records \/ (r.package = p /\ r.fragment = f)
    BY <1>0, <1>8, CompareOwn
  <2> HIDE DEF e
  <2> QED BY <2>1 DEF Writes, Done, Kept, e
<1>9. CASE d.rows[f] # None /\ e = [d EXCEPT !.failed = TRUE]
  <2>1. e.rows = d.rows /\ e.records = d.records /\ e.failed = TRUE BY <1>0, <1>9, FailedFields
  <2> HIDE DEF e
  <2> QED BY <1>9, <2>1 DEF Writes, Kept, Own, Claims, e
<1>10. CASE d.rows[f] # None /\ Claims(d, f) # {} /\ e = Compare(c, p, f, mode)
  <2>1. /\ Done(e, p, f, mode) /\ (~mode.force => e.rows[f] = c.rows[f])
        /\ \A r \in e.records : r \in c.records \/ (r.package = p /\ r.fragment = f)
    BY <1>1, <1>3, <1>10, CompareOwn
  <2> HIDE DEF e
  <2> QED BY <1>1, <1>4, <2>1 DEF Writes, Done, Kept, e
<1>11. CASE /\ d.rows[f] # None /\ Own(d, p, f) = {} /\ (mode.prune => Claims(d, f) = {})
            /\ e = Adopt(d, p, f)
  <2> DEFINE new == [package |-> p, fragment |-> f, pk |-> d.rows[f].pk, hash |-> files[p][f]]
  <2>1. /\ e.rows = [d.rows EXCEPT ![f] = [pk |-> d.rows[f].pk, text |-> files[p][f]]]
        /\ e.records = d.records \cup {new}
    BY <1>0, <1>11, AdoptFields
  <2>2. new.package = p /\ new.fragment = f OBVIOUS
  <2> HIDE DEF new, e
  <2>3. e.rows[f] = [pk |-> d.rows[f].pk, text |-> files[p][f]] BY <1>0, <2>1
  <2>4. e.rows[f] \in KeyedRows BY <1>0, <1>11, <2>3, DeclaredTypes DEF KeyedRows
  <2>5. e.rows[f] # None /\ e.rows[f].text = files[p][f]
    BY <2>3, <2>4, SentinelsAssumption DEF KeyedRows
  <2>6. Own(e, p, f) # {} BY <2>1, <2>2 DEF Own
  <2> QED BY <1>11, <2>1, <2>2, <2>5, <2>6 DEF Writes, Done, Kept, e
<1> QED BY <1>6, <1>7, <1>8, <1>9, <1>10, <1>11

\* What does not concern f leaves what p has of it.
LEMMA OthersStay ==
    ASSUME NEW d, NEW e, NEW g \in Fragments, ChangesOnly(d, e, g),
           NEW p, NEW f \in Fragments, f # g, NEW mode
    PROVE /\ e.rows[f] = d.rows[f] /\ Own(e, p, f) = Own(d, p, f)
          /\ Done(d, p, f, mode) <=> Done(e, p, f, mode)
          /\ Kept(d, p, f, mode) <=> Kept(e, p, f, mode)
<1>1. e.rows[f] = d.rows[f] BY DEF ChangesOnly
<1>2. \A r : r.fragment = f => (r \in e.records <=> r \in d.records) BY DEF ChangesOnly
<1>3. Own(e, p, f) = Own(d, p, f) BY <1>2 DEF Own
<1>4. Claims(e, f) = Claims(d, f) BY <1>1, <1>2 DEF Claims
<1> QED BY <1>1, <1>3, <1>4 DEF Done, Kept

\* Writing one fragment keeps rows, tuples and what is done.
LEMMA SyncRowSteps ==
    ASSUME Valid, NEW d, Sane(d), NEW p \in Packages, NEW f \in Fragments, Declares(p, f),
           NEW mode \in Mode, ~mode.check
    PROVE Steps(d, SyncRow(d, p, f, mode), mode)
<1> DEFINE e == SyncRow(d, p, f, mode)
<1>1. ChangesOnly(d, e, f)
  <2>1. d \in Drafts BY DEF Sane
  <2> QED BY <2>1, SyncRowChangesOne
<1>2. Writes(d, e, p, f, mode) BY SyncRowWrites
<1>3. Sane(e) BY SyncRowIsSane
<1> HIDE DEF e
<1>4. \A q \in Packages : Declares(q, f) => q = p BY DeclaredTypes
<1>5. KeepsRows(d, e, mode)
  <2> SUFFICES ASSUME ~mode.force, NEW q \in Packages, NEW g \in Fragments,
                      Declares(q, g), Kept(d, q, g, mode)
               PROVE Kept(e, q, g, mode) /\ e.rows[g] = d.rows[g]
    BY DEF KeepsRows
  <2>1. CASE g = f BY <1>2, <1>4, <2>1 DEF Writes
  <2>2. CASE g # f BY <1>1, <2>2, OthersStay
  <2> QED BY <2>1, <2>2
<1>6. LosesTuples(d, e, mode)
  <2>1. \A g \in Fragments : d.rows[g] # None => e.rows[g] # None BY <1>1, <1>2 DEF ChangesOnly, Writes
  <2> QED BY <1>1, <2>1 DEF LosesTuples, ChangesOnly
<1>7. StaysDone(d, e, mode)
  <2> SUFFICES ASSUME e.failed = FALSE, NEW q \in Packages, NEW g \in Fragments,
                      Declares(q, g), Done(d, q, g, mode)
               PROVE Done(e, q, g, mode)
    BY <1>1 DEF StaysDone, ChangesOnly
  <2>1. CASE g = f BY <1>2, <1>4, <2>1 DEF Writes
  <2>2. CASE g # f BY <1>1, <2>2, OthersStay
  <2> QED BY <2>1, <2>2
<1>8. StaysClean(d, e)
  <2>1. ASSUME NEW q \in Packages, NEW g \in Fragments, Declares(q, g), StaleChildren(d, g, q) = {},
               NEW h \in StaleChildren(e, g, q)
        PROVE FALSE
    <3>1. h \in Fragments /\ ParentOf[h] = g /\ h # g /\ e.rows[h] # None /\ ~Declares(q, h)
      BY <2>1 DEF StaleChildren
    <3>2. d.rows[h] = None BY <2>1, <3>1 DEF StaleChildren
    <3>3. h = f BY <1>1, <3>1, <3>2 DEF ChangesOnly
    <3>4. Declares(p, g) BY <3>1, <3>3, DeclaredTypes
    <3>5. p = q BY <2>1, <3>4, DeclaredTypes
    <3> QED BY <3>1, <3>3, <3>5
  <2>2. ASSUME NEW q \in Packages, StaleRecords(d, q) = {}, NEW r \in StaleRecords(e, q)
        PROVE FALSE
    BY <1>2, <2>2 DEF StaleRecords, Writes
  <2>3. \A q \in Packages : \A g \in Fragments :
            Declares(q, g) /\ StaleChildren(d, g, q) = {} => StaleChildren(e, g, q) = {}
    BY <2>1
  <2> QED BY <2>2, <2>3 DEF StaysClean
<1> QED BY <1>3, <1>5, <1>6, <1>7, <1>8 DEF Steps, e

-----------------------------------------------------------------------------
(* What is deleted.                                                        *)

Nested(d) == \A f \in Fragments : d.rows[f] # None => d.rows[ParentOf[f]] # None

\* The rows that a cascade deletes.
LEMMA RowsThatGo ==
    ASSUME NEW stock \in [Fragments -> KeyedRows \cup {None}], NEW F
    PROVE LET left == WithoutRows(stock, F)
          IN /\ left \in [Fragments -> KeyedRows \cup {None}]
             /\ \A f \in Fragments :
                   /\ f \in F \/ ParentOf[f] \in F => left[f] = None
                   /\ f \notin F /\ ParentOf[f] \notin F => left[f] = stock[f]
                   /\ left[f] # None => left[f] = stock[f]
             /\ (\A f \in Fragments : stock[f] # None => stock[ParentOf[f]] # None) =>
                   \A f \in Fragments : left[f] # None => left[ParentOf[f]] # None
<1> DEFINE left == WithoutRows(stock, F)
<1>1. \A f \in Fragments :
         /\ f \in F \/ ParentOf[f] \in F => left[f] = None
         /\ f \notin F /\ ParentOf[f] \notin F => left[f] = stock[f]
  BY DEF WithoutRows
<1>2. left \in [Fragments -> KeyedRows \cup {None}] BY DEF WithoutRows
<1> HIDE DEF left
<1>3. ASSUME \A f \in Fragments : stock[f] # None => stock[ParentOf[f]] # None,
             NEW f \in Fragments, left[f] # None
      PROVE left[ParentOf[f]] # None
  <2>1. ParentOf[f] \in Fragments /\ ParentOf[ParentOf[f]] = ParentOf[f] BY OrderAssumption
  <2>2. ParentOf[f] \notin F /\ f \notin F BY <1>1, <1>3
  <2>3. left[f] = stock[f] /\ left[ParentOf[f]] = stock[ParentOf[f]] BY <1>1, <2>1, <2>2
  <2> QED BY <1>3, <2>3
<1> QED BY <1>1, <1>2, <1>3 DEF left

\* e is d without the rows of F and without some tuples.
Deletes(d, e, F) ==
    /\ e \in Drafts /\ e.rows = WithoutRows(d.rows, F) /\ e.tuples \subseteq d.tuples
    /\ e.serial = d.serial /\ e.failed = d.failed

LEMMA StaleChildrenTypes ==
    ASSUME NEW d, NEW g \in Fragments, NEW p
    PROVE \A f \in StaleChildren(d, g, p) :
             /\ f \in Fragments /\ ParentOf[f] = g /\ f # g /\ d.rows[f] # None /\ ~Declares(p, f)
             /\ KindOf[f] \in {"relation", "permission"}
  BY OrderAssumption DEF StaleChildren

\* What _prune_schema_children comes to.
LEMMA PruneChildrenCases ==
    ASSUME NEW d \in Drafts, NEW g \in Fragments, NEW p, NEW mode \in Mode, ~mode.check
    PROVE LET e == PruneChildren(d, g, p, mode)
              stale == StaleChildren(d, g, p)
          IN \/ stale = {} /\ e = d
             \/ ~mode.force /\ e = Drift(d)
             \/ /\ mode.force /\ Deletes(d, e, stale) /\ e.records \subseteq d.records
                /\ \A r \in d.records : r.fragment \notin stale => r \in e.records
                /\ mode.prune => \A t \in e.tuples : \A f \in stale :
                                    KindOf[f] = "relation" => f \notin NamedBy[t]
<1> DEFINE e == PruneChildren(d, g, p, mode)
           stale == StaleChildren(d, g, p)
           gone == {f \in stale : KindOf[f] = "relation"}
           clean == IF mode.prune THEN WithoutTuplesOf(d, gone) ELSE d
           ts == IF mode.prune THEN {t \in d.tuples : NamedBy[t] \cap gone = {}} ELSE d.tuples
           ms == {r \in d.records : ~(r.fragment \in stale /\ r.pk = d.rows[r.fragment].pk)}
           rs == WithoutRows(d.rows, stale)
           without == WithoutManaged(clean, stale)
<1>1. \/ stale = {} /\ e = d
      \/ ~mode.force /\ e = Drift(d)
      \/ mode.force /\ e = Drift(without)
  BY DEF PruneChildren, Mode
<1>2. clean = [d EXCEPT !.tuples = ts] BY DEF WithoutTuplesOf, Drafts
<1>3. clean.rows = d.rows /\ clean.records = d.records /\ clean.tuples = ts
      /\ clean.serial = d.serial /\ clean.failed = d.failed /\ clean.drift = d.drift
  BY <1>2 DEF Drafts
<1>4. ts \subseteq d.tuples OBVIOUS
<1>5. clean \in Drafts BY <1>2, <1>4 DEF Drafts
<1> HIDE DEF clean, ts
<1>6. without = [clean EXCEPT !.records = ms, !.rows = rs]
  BY <1>3, <1>5 DEF WithoutManaged, Drafts
<1>7. rs \in [Fragments -> KeyedRows \cup {None}] BY RowsThatGo DEF Drafts
<1>8. ms \subseteq d.records OBVIOUS
<1>9. \A r \in d.records : r.fragment \notin stale => r \in ms OBVIOUS
<1> HIDE DEF ms, rs, without
<1>10. without \in Drafts BY <1>5, <1>6, <1>7, <1>8 DEF Drafts
<1>11. without.rows = rs /\ without.records = ms /\ without.tuples = ts
       /\ without.serial = d.serial /\ without.failed = d.failed
  BY <1>3, <1>5, <1>6 DEF Drafts
<1> DEFINE o == Drift(without)
<1>12. /\ o \in Drafts /\ o.rows = rs /\ o.records = ms /\ o.tuples = ts
       /\ o.serial = d.serial /\ o.failed = d.failed
  BY <1>10, <1>11, DriftFields
<1> HIDE DEF o
<1>13. Deletes(d, o, stale) BY <1>4, <1>8, <1>12 DEF Deletes, rs
<1>14. mode.prune => \A t \in ts : \A f \in stale : KindOf[f] = "relation" => f \notin NamedBy[t]
  BY DEF ts
<1>15. e = o => /\ Deletes(d, e, stale) /\ e.records \subseteq d.records
                /\ \A r \in d.records : r.fragment \notin stale => r \in e.records
                /\ mode.prune => \A t \in e.tuples : \A f \in stale :
                                    KindOf[f] = "relation" => f \notin NamedBy[t]
  BY <1>8, <1>9, <1>12, <1>13, <1>14
<1>16. \/ stale = {} /\ e = d
       \/ ~mode.force /\ e = Drift(d)
       \/ mode.force /\ e = o
  BY <1>1 DEF o
<1> HIDE DEF e, stale
<1> QED BY <1>15, <1>16 DEF e, stale

\* A deletion leaves a sane draft, if the records are.
LEMMA DeletesIsSane ==
    ASSUME NEW d, Sane(d), NEW e, NEW F, Deletes(d, e, F),
           \A r \in e.records : r.pk \in 1..d.serial,
           \A r, s \in e.records : r.package = s.package /\ r.fragment = s.fragment => r = s
    PROVE Sane(e) /\ (Nested(d) => Nested(e))
<1>1. d.rows \in [Fragments -> KeyedRows \cup {None}] BY DEF Sane, Drafts
<1>2. \A f \in Fragments : e.rows[f] # None => e.rows[f] = d.rows[f]
  BY <1>1, RowsThatGo DEF Deletes
<1>3. Sane(e) BY <1>2 DEF Sane, Deletes
<1>4. Nested(d) => Nested(e) BY <1>1, RowsThatGo DEF Deletes, Nested
<1> QED BY <1>3, <1>4

\* A deletion that spares what p declares and its records.
LEMMA SparedStays ==
    ASSUME NEW d \in Drafts, NEW e, NEW F, Deletes(d, e, F),
           NEW p, NEW f \in Fragments, f \notin F, ParentOf[f] \notin F,
           Own(d, p, f) \subseteq e.records, NEW mode
    PROVE e.rows[f] = d.rows[f] /\ (Done(d, p, f, mode) => Done(e, p, f, mode))
<1>1. d.rows \in [Fragments -> KeyedRows \cup {None}] BY DEF Drafts
<1>2. e.rows[f] = d.rows[f] BY <1>1, RowsThatGo DEF Deletes
<1>3. Own(d, p, f) # {} => Own(e, p, f) # {} BY DEF Own
<1> QED BY <1>2, <1>3 DEF Done

\* A deletion adds no child.
LEMMA DeletesIsClean ==
    ASSUME NEW d \in Drafts, NEW e, NEW F, Deletes(d, e, F)
    PROVE \A p, g : StaleChildren(e, g, p) \subseteq StaleChildren(d, g, p)
<1>1. d.rows \in [Fragments -> KeyedRows \cup {None}] BY DEF Drafts
<1>2. \A f \in Fragments : e.rows[f] # None => d.rows[f] # None
  BY <1>1, RowsThatGo DEF Deletes
<1> QED BY <1>2 DEF StaleChildren

\* Pruning the children of a definition takes only what its package does not
\* declare.
LEMMA PruneChildrenSteps ==
    ASSUME Valid, NEW d, Sane(d), NEW p \in Packages, NEW g \in Fragments, Declares(p, g),
           NEW mode \in Mode, ~mode.check
    PROVE LET e == PruneChildren(d, g, p, mode)
          IN /\ Steps(d, e, mode) /\ (Nested(d) => Nested(e))
             /\ mode.force => StaleChildren(e, g, p) = {}
<1> DEFINE e == PruneChildren(d, g, p, mode)
           F == StaleChildren(d, g, p)
<1>0. d \in Drafts /\ d.rows \in [Fragments -> KeyedRows \cup {None}] BY DEF Sane, Drafts
<1>1. \/ F = {} /\ e = d
      \/ ~mode.force /\ e = Drift(d)
      \/ /\ mode.force /\ Deletes(d, e, F) /\ e.records \subseteq d.records
         /\ \A r \in d.records : r.fragment \notin F => r \in e.records
         /\ mode.prune => \A t \in e.tuples : \A f \in F :
                              KindOf[f] = "relation" => f \notin NamedBy[t]
  BY <1>0, PruneChildrenCases
<1>2. \A f \in F : /\ f \in Fragments /\ ParentOf[f] = g /\ f # g /\ ~Declares(p, f)
                   /\ KindOf[f] \in {"relation", "permission"}
  <2>1. \A f \in StaleChildren(d, g, p) :
             /\ f \in Fragments /\ ParentOf[f] = g /\ f # g /\ d.rows[f] # None /\ ~Declares(p, f)
             /\ KindOf[f] \in {"relation", "permission"}
    BY StaleChildrenTypes
  <2> QED BY <2>1
<1> HIDE DEF e
<1>3. CASE F = {} /\ e = d BY <1>3, NoStep DEF e
<1>4. CASE ~mode.force /\ e = Drift(d)
  <2>1. Steps(d, e, mode) BY <1>4, NoStep
  <2>2. Nested(d) => Nested(e) BY <1>0, <1>4, DriftFields DEF Nested
  <2> QED BY <1>4, <2>1, <2>2 DEF e
<1>5. CASE /\ mode.force /\ Deletes(d, e, F) /\ e.records \subseteq d.records
           /\ \A r \in d.records : r.fragment \notin F => r \in e.records
           /\ mode.prune => \A t \in e.tuples : \A f \in F :
                                KindOf[f] = "relation" => f \notin NamedBy[t]
  <2>1. \A f \in Fragments : ParentOf[f] \notin F
    <3>1. \A f \in Fragments : ParentOf[ParentOf[f]] = ParentOf[f] BY OrderAssumption
    <3> QED BY <1>2, <3>1
  <2>2. \A f \in Fragments : /\ f \in F => e.rows[f] = None
                             /\ f \notin F => e.rows[f] = d.rows[f]
    BY <1>0, <1>5, <2>1, RowsThatGo DEF Deletes
  <2> HIDE DEF F
  <2>3. Sane(e) /\ (Nested(d) => Nested(e))
    <3>1. /\ \A r \in e.records : r.pk \in 1..d.serial
          /\ \A r, s \in e.records : r.package = s.package /\ r.fragment = s.fragment => r = s
      BY <1>5 DEF Sane
    <3> QED BY <1>5, <3>1, DeletesIsSane
  <2>4. KeepsRows(d, e, mode) BY <1>5 DEF KeepsRows
  <2>5. LosesTuples(d, e, mode) BY <1>2, <1>5, <2>2 DEF LosesTuples, Deletes
  <2>6. StaysDone(d, e, mode)
    <3>1. ASSUME NEW q \in Packages, NEW f \in Fragments, Declares(q, f), Done(d, q, f, mode)
          PROVE Done(e, q, f, mode)
      <4>1. f \notin F
        <5>1. ASSUME f \in F PROVE FALSE
          <6>1. Declares(q, ParentOf[f]) BY <3>1, DeclaredTypes
          <6>2. ParentOf[f] = g BY <1>2, <5>1
          <6>3. q = p BY <6>1, <6>2, DeclaredTypes
          <6> QED BY <1>2, <3>1, <5>1, <6>3
        <5> QED BY <5>1
      <4>2. Own(d, q, f) \subseteq e.records BY <1>5, <4>1 DEF Own
      <4> QED BY <1>0, <1>5, <2>1, <3>1, <4>1, <4>2, SparedStays
    <3> QED BY <1>5, <3>1 DEF StaysDone, Deletes
  <2>7. StaysClean(d, e)
    <3>1. \A q, h : StaleChildren(e, h, q) \subseteq StaleChildren(d, h, q)
      BY <1>0, <1>5, DeletesIsClean
    <3>2. \A q : StaleRecords(e, q) \subseteq StaleRecords(d, q) BY <1>5 DEF StaleRecords
    <3> QED BY <3>1, <3>2 DEF StaysClean
  <2>8. StaleChildren(e, g, p) = {}
    <3>1. StaleChildren(e, g, p) \subseteq F BY <1>0, <1>5, DeletesIsClean DEF F
    <3>2. \A f \in StaleChildren(e, g, p) : f \in Fragments /\ e.rows[f] # None BY DEF StaleChildren
    <3> QED BY <2>2, <3>1, <3>2
  <2> QED BY <2>3, <2>4, <2>5, <2>6, <2>7, <2>8 DEF Steps, e
<1> QED BY <1>1, <1>3, <1>4, <1>5 DEF e

\* The parts of PruneRecords: what changes hands, who gets it, what remains to
\* be deleted, and the fragments whose rows go.
Heir(f) == CHOOSE o \in Owners(f) : TRUE
Moved(d, p, mode) == {r \in StaleRecords(d, p) : mode.prune /\ Owners(r.fragment) # {}}
Free(d, p, mode) ==
    {r \in Moved(d, p, mode) : \A o \in Owners(r.fragment) : Own(d, o, r.fragment) = {}}
Inherited(d, p, mode) == {[r EXCEPT !.package = Heir(r.fragment)] : r \in Free(d, p, mode)}
Unclaimed(d, p, mode) == StaleRecords(d, p) \ Moved(d, p, mode)
Retired(d, p, mode) == {r.fragment : r \in Present(d, Unclaimed(d, p, mode))}

\* The heir of a fragment declares it.
LEMMA HeirOwns ==
    ASSUME NEW f, Owners(f) # {}
    PROVE Heir(f) \in Owners(f) /\ Heir(f) \in Packages /\ Declares(Heir(f), f)
<1>1. Heir(f) \in Owners(f) BY DEF Heir
<1> QED BY <1>1 DEF Owners

\* What _prune_package_records comes to.
LEMMA PruneRecordsCases ==
    ASSUME NEW d \in Drafts, NEW p, NEW mode \in Mode, ~mode.check
    PROVE LET e == PruneRecords(d, p, mode)
              stale == StaleRecords(d, p)
          IN \/ stale = {} /\ e = d
             \/ ~mode.force /\ ~mode.prune /\ e = Drift(d)
             \/ /\ mode.force \/ mode.prune
                /\ Deletes(d, e, Retired(d, p, mode))
                /\ e.records = (d.records \ stale) \cup Inherited(d, p, mode)
                /\ mode.prune => \A t \in e.tuples : \A f \in Retired(d, p, mode) : f \notin NamedBy[t]
<1> DEFINE e == PruneRecords(d, p, mode)
           stale == StaleRecords(d, p)
           named == {r.fragment : r \in Unclaimed(d, p, mode)}
           clean == IF mode.prune THEN WithoutTuplesOf(d, named) ELSE d
           ts == IF mode.prune THEN {t \in d.tuples : NamedBy[t] \cap named = {}} ELSE d.tuples
           F == Retired(d, p, mode)
           ms == (d.records \ stale) \cup Inherited(d, p, mode)
           rs == WithoutRows(d.rows, F)
           c == Drift(clean)
           o == [c EXCEPT !.rows = WithoutRows(c.rows, F),
                          !.records = (c.records \ stale) \cup Inherited(d, p, mode)]
<1>1. \/ stale = {} /\ e = d
      \/ ~mode.force /\ ~mode.prune /\ e = Drift(d)
      \/ (mode.force \/ mode.prune) /\ e = o
  BY DEF PruneRecords, Moved, Free, Inherited, Heir, Unclaimed, Retired, Mode
<1>2. clean = [d EXCEPT !.tuples = ts] BY DEF WithoutTuplesOf, Drafts
<1>3. clean.rows = d.rows /\ clean.records = d.records /\ clean.tuples = ts
      /\ clean.serial = d.serial /\ clean.failed = d.failed
  BY <1>2 DEF Drafts
<1>4. ts \subseteq d.tuples OBVIOUS
<1>5. clean \in Drafts BY <1>2, <1>4 DEF Drafts
<1> HIDE DEF clean, ts
<1>6. /\ c \in Drafts /\ c.rows = d.rows /\ c.records = d.records /\ c.tuples = ts
      /\ c.serial = d.serial /\ c.failed = d.failed
  BY <1>3, <1>5, DriftFields
<1> HIDE DEF c
<1>7. rs \in [Fragments -> KeyedRows \cup {None}] BY RowsThatGo DEF Drafts
<1>8. ms \in SUBSET Records
  <2>1. \A r \in Free(d, p, mode) : /\ r \in d.records /\ r \in Records
                                    /\ Heir(r.fragment) \in Packages
    BY HeirOwns DEF Free, Moved, StaleRecords, Drafts
  <2>2. \A r \in Records : \A q \in Packages : [r EXCEPT !.package = q] \in Records BY DEF Records
  <2>3. Inherited(d, p, mode) \subseteq Records BY <2>1, <2>2 DEF Inherited
  <2> QED BY <2>3 DEF Drafts
<1>9. o = [c EXCEPT !.rows = rs, !.records = ms] BY <1>6
<1> HIDE DEF ms, rs, o, e, stale
<1>10. o \in Drafts BY <1>6, <1>7, <1>8, <1>9 DEF Drafts
<1>11. o.rows = rs /\ o.records = ms /\ o.tuples = ts /\ o.serial = d.serial /\ o.failed = d.failed
  BY <1>6, <1>9 DEF Drafts
<1>12. Deletes(d, o, F) BY <1>4, <1>10, <1>11 DEF Deletes, rs
<1>13. mode.prune => \A t \in ts : \A f \in F : f \notin NamedBy[t]
  BY DEF ts, Retired, Present
<1>14. e = o => /\ Deletes(d, e, F) /\ e.records = ms
                /\ mode.prune => \A t \in e.tuples : \A f \in F : f \notin NamedBy[t]
  BY <1>11, <1>12, <1>13
<1> HIDE DEF F
<1> QED BY <1>1, <1>14 DEF e, stale, F, ms

\* What is left of the records, and what came of those that changed hands.
MovesRecords(d, e, p, mode) ==
    /\ \A m \in e.records :
          \/ m \in d.records /\ m \notin StaleRecords(d, p)
          \/ \E r \in Free(d, p, mode) :
                /\ m = [r EXCEPT !.package = Heir(r.fragment)]
                /\ m.package = Heir(r.fragment) /\ m.fragment = r.fragment /\ m.pk = r.pk
                /\ m.package \in Owners(m.fragment)
    /\ \A r \in Free(d, p, mode) :
          /\ r \in d.records /\ r.package = p
          /\ \A o \in Owners(r.fragment) : Own(d, o, r.fragment) = {}
          /\ \E m \in e.records : m.fragment = r.fragment /\ m.pk = r.pk
    /\ \A r \in e.records : r.pk \in 1..d.serial
    /\ \A r, s \in e.records : r.package = s.package /\ r.fragment = s.fragment => r = s

\* The records after it: those that stay and those that were inherited.
LEMMA RecordsMove ==
    ASSUME NEW d, Sane(d), NEW p \in Packages, NEW mode, NEW e,
           e.records = (d.records \ StaleRecords(d, p)) \cup Inherited(d, p, mode)
    PROVE MovesRecords(d, e, p, mode)
<1>1. \A r \in Free(d, p, mode) :
         /\ r \in d.records /\ r \in Records /\ r.package = p /\ Owners(r.fragment) # {}
         /\ \A o \in Owners(r.fragment) : Own(d, o, r.fragment) = {}
  BY DEF Free, Moved, StaleRecords, Sane, Drafts
<1>2. \A r \in Free(d, p, mode) : LET m == [r EXCEPT !.package = Heir(r.fragment)]
         IN /\ m \in e.records
            /\ m.package = Heir(r.fragment) /\ m.fragment = r.fragment /\ m.pk = r.pk
            /\ m.package \in Owners(m.fragment)
  <2>1. \A r \in Records : LET m == [r EXCEPT !.package = Heir(r.fragment)]
                           IN m.package = Heir(r.fragment) /\ m.fragment = r.fragment /\ m.pk = r.pk
    BY DEF Records
  <2>2. \A r \in Free(d, p, mode) : Heir(r.fragment) \in Owners(r.fragment) BY <1>1, HeirOwns
  <2>3. \A r \in Free(d, p, mode) : [r EXCEPT !.package = Heir(r.fragment)] \in e.records
    BY DEF Inherited
  <2>4. ASSUME NEW r \in Free(d, p, mode)
        PROVE LET m == [r EXCEPT !.package = Heir(r.fragment)]
              IN /\ m \in e.records
                 /\ m.package = Heir(r.fragment) /\ m.fragment = r.fragment /\ m.pk = r.pk
                 /\ m.package \in Owners(m.fragment)
    <3> DEFINE m == [r EXCEPT !.package = Heir(r.fragment)]
    <3>1. m.package = Heir(r.fragment) /\ m.fragment = r.fragment /\ m.pk = r.pk BY <1>1, <2>1
    <3>2. m \in e.records BY <2>3
    <3> HIDE DEF m
    <3>3. m.package \in Owners(m.fragment) BY <2>2, <3>1
    <3> QED BY <3>1, <3>2, <3>3 DEF m
  <2> QED BY <2>4
<1>3. \A m \in e.records :
         \/ m \in d.records /\ m \notin StaleRecords(d, p)
         \/ \E r \in Free(d, p, mode) :
               /\ m = [r EXCEPT !.package = Heir(r.fragment)]
               /\ m.package = Heir(r.fragment) /\ m.fragment = r.fragment /\ m.pk = r.pk
               /\ m.package \in Owners(m.fragment)
  BY <1>2 DEF Inherited
<1>4. \A r \in Free(d, p, mode) : \E m \in e.records : m.fragment = r.fragment /\ m.pk = r.pk
  BY <1>2
<1>5. \A m \in e.records : m.pk \in 1..d.serial BY <1>1, <1>3 DEF Sane
<1>6. ASSUME NEW a \in e.records, NEW b \in e.records, a.package = b.package, a.fragment = b.fragment,
             NEW r \in Free(d, p, mode),
             a.package = Heir(r.fragment), a.fragment = r.fragment, a.package \in Owners(a.fragment)
      PROVE b \notin d.records
  BY <1>1, <1>6 DEF Own
<1>7. ASSUME NEW a \in e.records, NEW b \in e.records, a.package = b.package, a.fragment = b.fragment
      PROVE a = b
  <2>1. CASE a \in d.records /\ b \in d.records BY <1>7, <2>1 DEF Sane
  <2>2. CASE ~(a \in d.records /\ b \in d.records)
    <3>1. (a \notin d.records \/ b \notin d.records) /\ b.package = a.package /\ b.fragment = a.fragment
      BY <1>7, <2>2
    <3>2. a \notin d.records /\ b \notin d.records BY <1>3, <1>6, <1>7, <3>1
    <3>3. PICK r \in Free(d, p, mode) : a = [r EXCEPT !.package = Heir(r.fragment)]
                                        /\ a.fragment = r.fragment
      BY <1>3, <3>2
    <3>4. PICK s \in Free(d, p, mode) : b = [s EXCEPT !.package = Heir(s.fragment)]
                                        /\ b.fragment = s.fragment
      BY <1>3, <3>2
    <3>5. r = s BY <1>1, <1>7, <3>3, <3>4 DEF Sane
    <3> QED BY <3>3, <3>4, <3>5
  <2> QED BY <2>1, <2>2
<1> QED BY <1>1, <1>3, <1>4, <1>5, <1>7 DEF MovesRecords

\* Pruning records takes no row that a package declares, unless it was forced,
\* and with --prune-stale every tuple of what it takes.
LEMMA PruneRecordsSteps ==
    ASSUME Valid, NEW d, Sane(d), NEW p \in Packages, NEW mode \in Mode, ~mode.check
    PROVE LET e == PruneRecords(d, p, mode)
          IN /\ Steps(d, e, mode) /\ (Nested(d) => Nested(e))
             /\ mode.prune => StaleRecords(e, p) = {}
<1> DEFINE e == PruneRecords(d, p, mode)
           stale == StaleRecords(d, p)
           F == Retired(d, p, mode)
           free == Free(d, p, mode)
<1>0. d \in Drafts /\ d.rows \in [Fragments -> KeyedRows \cup {None}] BY DEF Sane, Drafts
<1>1. \/ stale = {} /\ e = d
      \/ ~mode.force /\ ~mode.prune /\ e = Drift(d)
      \/ /\ mode.force \/ mode.prune
         /\ Deletes(d, e, F)
         /\ e.records = (d.records \ stale) \cup Inherited(d, p, mode)
         /\ mode.prune => \A t \in e.tuples : \A f \in F : f \notin NamedBy[t]
  BY <1>0, PruneRecordsCases
<1> HIDE DEF e
<1>2. CASE stale = {} /\ e = d
  <2>1. Steps(d, e, mode) BY <1>2, NoStep
  <2>2. Nested(d) => Nested(e) BY <1>2
  <2>3. StaleRecords(e, p) = {} BY <1>2
  <2> QED BY <2>1, <2>2, <2>3 DEF e
<1>3. CASE ~mode.force /\ ~mode.prune /\ e = Drift(d)
  <2>1. Steps(d, e, mode) BY <1>3, NoStep
  <2>2. Nested(d) => Nested(e) BY <1>0, <1>3, DriftFields DEF Nested
  <2> QED BY <1>3, <2>1, <2>2 DEF e
<1>4. CASE /\ mode.force \/ mode.prune
           /\ Deletes(d, e, F)
           /\ e.records = (d.records \ stale) \cup Inherited(d, p, mode)
           /\ mode.prune => \A t \in e.tuples : \A f \in F : f \notin NamedBy[t]
  <2>1. MovesRecords(d, e, p, mode) BY <1>4, RecordsMove
  <2>2. Sane(e) /\ (Nested(d) => Nested(e)) BY <1>4, <2>1, DeletesIsSane DEF MovesRecords
  <2>3. /\ stale = {r \in d.records : r.package = p /\ ~Declares(p, r.fragment)}
        /\ mode.prune => \A r \in stale : Owners(r.fragment) # {} /\ r \notin free =>
              \E o \in Owners(r.fragment) : Own(d, o, r.fragment) # {}
        /\ mode.prune => \A f \in F : Owners(f) = {}
    BY DEF StaleRecords, Free, Moved, Retired, Present, Unclaimed
  <2>4. \A f \in Fragments : /\ f \in F \/ ParentOf[f] \in F => e.rows[f] = None
                             /\ f \notin F /\ ParentOf[f] \notin F => e.rows[f] = d.rows[f]
    BY <1>0, <1>4, RowsThatGo DEF Deletes
  <2> HIDE DEF F, free, stale
  <2>5. ASSUME NEW q \in Packages, NEW f \in Fragments, Declares(q, f), mode.prune
        PROVE /\ f \notin F /\ ParentOf[f] \notin F /\ e.rows[f] = d.rows[f]
              /\ Own(d, q, f) \subseteq e.records
              /\ Done(d, q, f, mode) => Done(e, q, f, mode)
              /\ Kept(d, q, f, mode) => Kept(e, q, f, mode)
    <3>1. q \in Owners(f) /\ q \in Owners(ParentOf[f]) BY <2>5, DeclaredTypes DEF Owners
    <3>2. f \notin F /\ ParentOf[f] \notin F BY <2>3, <2>5, <3>1
    <3>3. Own(d, q, f) \subseteq e.records BY <1>4, <2>3, <2>5 DEF Own
    <3>4. e.rows[f] = d.rows[f] /\ (Done(d, q, f, mode) => Done(e, q, f, mode))
      BY <1>0, <1>4, <3>2, <3>3, SparedStays
    <3>5. ASSUME Kept(d, q, f, mode) PROVE Kept(e, q, f, mode)
      <4>1. CASE Own(d, q, f) # {}
        <5>1. Own(e, q, f) # {} BY <3>3, <4>1 DEF Own
        <5> QED BY <3>4, <3>5, <5>1 DEF Kept
      <4>2. CASE Own(d, q, f) = {}
        <5>1. PICK r \in Claims(d, f) : TRUE BY <3>5, <4>2 DEF Kept
        <5>2. r \in d.records /\ r.fragment = f /\ r.pk = d.rows[f].pk BY DEF Claims
        <5>3. \A o \in Owners(f) : o = q BY <2>5, DeclaredTypes DEF Owners
        <5>4. CASE r \in stale
          <6>1. r \in free BY <2>3, <2>5, <3>1, <4>2, <5>2, <5>3, <5>4
          <6>2. \E m \in e.records : m.fragment = f /\ m.pk = r.pk BY <2>1, <5>2, <6>1 DEF MovesRecords, free
          <6>3. Claims(e, f) # {} BY <3>4, <5>2, <6>2 DEF Claims
          <6> QED BY <2>5, <3>4, <3>5, <6>3 DEF Kept
        <5>5. CASE r \notin stale
          <6>1. r \in e.records BY <1>4, <5>2, <5>5
          <6>2. Claims(e, f) # {} BY <3>4, <5>2, <6>1 DEF Claims
          <6> QED BY <2>5, <3>4, <3>5, <6>2 DEF Kept
        <5> QED BY <5>4, <5>5
      <4> QED BY <4>1, <4>2
    <3> QED BY <3>2, <3>3, <3>4, <3>5
  <2>6. KeepsRows(d, e, mode)
    <3>1. ~mode.force => mode.prune BY <1>4
    <3> QED BY <2>5, <3>1 DEF KeepsRows
  <2>7. LosesTuples(d, e, mode)
    <3> SUFFICES ASSUME mode.prune, NEW f \in Fragments, d.rows[f] # None, e.rows[f] = None,
                        NEW t \in e.tuples, f \in NamedBy[t]
                 PROVE FALSE
      BY <1>4 DEF LosesTuples, Deletes
    <3>1. f \in F \/ ParentOf[f] \in F BY <2>4
    <3>2. t \in Tuples BY <1>4 DEF Deletes, Drafts
    <3>3. ParentOf[f] \in NamedBy[t] BY <3>2, TuplesAssumption
    <3> QED BY <1>4, <3>1, <3>3
  <2>8. e.failed = FALSE => d.failed = FALSE BY <1>4 DEF Deletes
  <2>9. StaysDone(d, e, mode)
    <3>1. mode.prune \/ ~mode.force => mode.prune BY <1>4
    <3> QED BY <2>5, <2>8, <3>1 DEF StaysDone
  <2>10. \A m \in e.records : \/ m \in d.records /\ m \notin stale
                              \/ Declares(m.package, m.fragment)
    BY <2>1 DEF Owners, MovesRecords, stale
  <2>11. StaysClean(d, e)
    <3>1. \A q, h : StaleChildren(e, h, q) \subseteq StaleChildren(d, h, q)
      BY <1>0, <1>4, DeletesIsClean
    <3>2. \A q : StaleRecords(e, q) \subseteq StaleRecords(d, q) BY <2>10 DEF StaleRecords
    <3> QED BY <3>1, <3>2 DEF StaysClean
  <2>12. StaleRecords(e, p) = {} BY <2>10 DEF StaleRecords, stale
  <2> QED BY <2>2, <2>6, <2>7, <2>9, <2>11, <2>12 DEF e, Steps
<1> QED BY <1>1, <1>2, <1>3, <1>4 DEF e

-----------------------------------------------------------------------------
(* The folds of an applied sync.                                           *)

\* A child is written after its definition.
LEMMA SyncRowNested ==
    ASSUME Valid, NEW d, Sane(d), NEW p \in Packages, NEW f \in Fragments, Declares(p, f),
           NEW mode \in Mode, ~mode.check,
           Nested(d), ParentOf[f] = f \/ d.rows[ParentOf[f]] # None
    PROVE LET e == SyncRow(d, p, f, mode)
          IN Nested(e) /\ \A h \in Fragments : d.rows[h] # None => e.rows[h] # None
<1> DEFINE e == SyncRow(d, p, f, mode)
<1>1. ChangesOnly(d, e, f)
  <2>1. d \in Drafts BY DEF Sane
  <2> QED BY <2>1, SyncRowChangesOne
<1>2. Writes(d, e, p, f, mode) BY SyncRowWrites
<1> HIDE DEF e
<1>3. e.rows[f] # None /\ \A h \in Fragments : h # f => e.rows[h] = d.rows[h]
  BY <1>1, <1>2 DEF ChangesOnly, Writes
<1>4. \A h \in Fragments : ParentOf[h] \in Fragments BY OrderAssumption
<1>5. Nested(e) BY <1>3, <1>4 DEF Nested
<1> QED BY <1>3, <1>5 DEF e

\* Everything that p declares is done.
AllDone(d, p, mode) ==
    (mode.prune \/ ~mode.force) /\ d.failed = FALSE =>
        \A f \in Fragments : Declares(p, f) => Done(d, p, f, mode)

\* All that a package declares is done when its file was synced.
LEMMA SyncRowsSteps ==
    ASSUME Valid, NEW d, Sane(d), Nested(d), NEW p \in Packages, NEW mode \in Mode, ~mode.check
    PROVE LET e == SyncRows(d, p, mode)
          IN Steps(d, e, mode) /\ Nested(e) /\ AllDone(e, p, mode)
<1> DEFINE n == Len(Order)
<1>0. n \in Nat /\ \A i \in 1..n : Order[i] \in Fragments BY LengthsAreNumbers
<1>1. PICK g : Unfolds(g, "rows", d, p, mode, n) /\ SyncRows(d, p, mode) = g[n] BY SyncRowsFolds
<1> HIDE DEF n
<1>2. g[0] = d /\ \A i \in 1..n : i - 1 \in 0..n /\ g[i] = StepAt("rows", g[i - 1], p, mode, i)
  BY <1>1 DEF Unfolds
<1> DEFINE good(i, j) ==
               Declares(p, Order[j]) =>
                   /\ g[i].rows[Order[j]] # None
                   /\ (mode.prune \/ ~mode.force) /\ g[i].failed = FALSE =>
                         Done(g[i], p, Order[j], mode)
           T == {i \in 0..n : /\ Steps(d, g[i], mode) /\ Nested(g[i])
                              /\ \A j \in 1..i : good(i, j)}
<1>3. 0 \in T BY <1>0, <1>2, NoStep
<1>4. ASSUME NEW m \in 1..n, m - 1 \in T PROVE m \in T
  <2> DEFINE c == g[m - 1]
             e == g[m]
             f == Order[m]
  <2>0. /\ m \in Nat /\ m # 0 /\ f \in Fragments
        /\ \A j \in 1..m : j \in 1..(m - 1) \/ j = m
        /\ \A j \in 1..m : Order[j] \in Fragments
    BY <1>0
  <2>1. Steps(d, c, mode) /\ Nested(c) /\ Sane(c) BY <1>4 DEF Steps
  <2>2. \A j \in 1..(m - 1) : good(m - 1, j) BY <1>4
  <2>3. IF ~Declares(p, f) THEN e = c ELSE e = SyncRow(c, p, f, mode) BY <1>2 DEF StepAt
  <2>4. CASE ~Declares(p, f)
    <3>1. e = c BY <2>3, <2>4
    <3>2. \A j \in 1..m : good(m, j) BY <2>0, <2>2, <2>4, <3>1
    <3> QED BY <2>1, <3>1, <3>2
  <2>5. CASE Declares(p, f)
    <3>1. e = SyncRow(c, p, f, mode) BY <2>3, <2>5
    <3>2. PICK j \in 1..m : Order[j] = ParentOf[f] BY OrderAssumption, LengthsAreNumbers DEF n
    <3>3. ParentOf[f] = f \/ c.rows[ParentOf[f]] # None
      <4>1. Declares(p, ParentOf[f]) BY <2>0, <2>5, DeclaredTypes
      <4>2. CASE j = m BY <3>2, <4>2
      <4>3. CASE j \in 1..(m - 1) BY <2>2, <3>2, <4>1, <4>3
      <4> QED BY <2>0, <4>2, <4>3
    <3> HIDE DEF c, e, f
    <3>4. Nested(e) /\ \A h \in Fragments : c.rows[h] # None => e.rows[h] # None
      BY <2>0, <2>1, <2>5, <3>1, <3>3, SyncRowNested
    <3>5. Steps(c, e, mode) BY <2>0, <2>1, <2>5, <3>1, SyncRowSteps
    <3>6. Writes(c, e, p, f, mode) BY <2>0, <2>1, <2>5, <3>1, SyncRowWrites
    <3>7. Steps(d, e, mode) BY <2>1, <3>5, StepsCompose
    <3>8. ASSUME NEW k \in 1..m PROVE good(m, k)
      <4>1. CASE k = m BY <3>6, <4>1 DEF Writes, e, f
      <4>2. CASE k \in 1..(m - 1)
        <5>1. good(m - 1, k) BY <2>2, <4>2
        <5>2. Order[k] \in Fragments BY <2>0
        <5>3. StaysDone(c, e, mode) BY <3>5 DEF Steps
        <5>4. ASSUME Declares(p, Order[k]) PROVE e.rows[Order[k]] # None
          BY <3>4, <5>1, <5>2, <5>4 DEF c
        <5>5. ASSUME Declares(p, Order[k]), mode.prune \/ ~mode.force, e.failed = FALSE
              PROVE Done(e, p, Order[k], mode)
          <6>1. c.failed = FALSE BY <5>3, <5>5 DEF StaysDone
          <6>2. Done(c, p, Order[k], mode) BY <5>1, <5>5, <6>1 DEF c
          <6> QED BY <5>2, <5>3, <5>5, <6>2 DEF StaysDone
        <5> QED BY <5>4, <5>5 DEF e
      <4> QED BY <2>0, <4>1, <4>2
    <3> HIDE DEF good
    <3> QED BY <2>0, <3>4, <3>7, <3>8 DEF e
  <2> QED BY <2>4, <2>5
<1> HIDE DEF T
<1>5. n \in T BY <1>0, <1>3, <1>4, LastNumber
<1>6. Steps(d, g[n], mode) /\ Nested(g[n]) /\ \A j \in 1..n : good(n, j) BY <1>5 DEF T
<1>7. AllDone(g[n], p, mode)
  <2>1. \A f \in Fragments : \E j \in 1..n : Order[j] = f BY LengthsAreNumbers DEF n
  <2> QED BY <1>6, <2>1 DEF AllDone
<1> QED BY <1>1, <1>6, <1>7 DEF n

\* None of its definitions has a child that it does not declare.
NoStrays(d, p, mode) ==
    mode.force => \A f \in Fragments :
        Declares(p, f) /\ KindOf[f] = "definition" => StaleChildren(d, f, p) = {}

\* What one package has achieved, the later parts keep.
LEMMA PostsStay ==
    ASSUME NEW d, NEW e, NEW mode, Steps(d, e, mode), NEW p \in Packages
    PROVE /\ AllDone(d, p, mode) => AllDone(e, p, mode)
          /\ NoStrays(d, p, mode) => NoStrays(e, p, mode)
          /\ StaleRecords(d, p) = {} => StaleRecords(e, p) = {}
<1>1. AllDone(d, p, mode) => AllDone(e, p, mode) BY DEF AllDone, Steps, StaysDone
<1>2. NoStrays(d, p, mode) => NoStrays(e, p, mode) BY DEF NoStrays, Steps, StaysClean
<1> QED BY <1>1, <1>2 DEF Steps, StaysClean

\* Forced, the pruning of children leaves none of those undeclared.
LEMMA PruneDefinitionsSteps ==
    ASSUME Valid, NEW d, Sane(d), Nested(d), NEW p \in Packages, NEW mode \in Mode, ~mode.check
    PROVE LET e == PruneDefinitions(d, p, mode)
          IN Steps(d, e, mode) /\ Nested(e) /\ NoStrays(e, p, mode)
<1> DEFINE n == Len(Order)
<1>0. n \in Nat /\ \A i \in 1..n : Order[i] \in Fragments BY LengthsAreNumbers
<1>1. PICK g : Unfolds(g, "definitions", d, p, mode, n) /\ PruneDefinitions(d, p, mode) = g[n]
  BY PruneDefinitionsFolds
<1> HIDE DEF n
<1>2. /\ g[0] = d
      /\ \A i \in 1..n : i - 1 \in 0..n /\ g[i] = StepAt("definitions", g[i - 1], p, mode, i)
  BY <1>1 DEF Unfolds
<1> DEFINE due(f) == mode.force /\ Declares(p, f) /\ KindOf[f] = "definition"
           T == {i \in 0..n : /\ Steps(d, g[i], mode) /\ Nested(g[i])
                              /\ \A j \in 1..i : due(Order[j]) => StaleChildren(g[i], Order[j], p) = {}}
<1>3. 0 \in T BY <1>0, <1>2, NoStep
<1>4. ASSUME NEW m \in 1..n, m - 1 \in T PROVE m \in T
  <2> DEFINE c == g[m - 1]
             e == g[m]
             f == Order[m]
  <2>0. /\ m \in Nat /\ m # 0 /\ f \in Fragments /\ m \in 0..n
        /\ \A j \in 1..m : j \in 1..(m - 1) \/ j = m
        /\ \A j \in 1..m : Order[j] \in Fragments
    BY <1>0
  <2>1. Steps(d, c, mode) /\ Nested(c) /\ Sane(c) BY <1>4 DEF Steps
  <2>2. \A j \in 1..(m - 1) : due(Order[j]) => StaleChildren(c, Order[j], p) = {} BY <1>4
  <2>3. IF ~Declares(p, f) \/ KindOf[f] # "definition" THEN e = c
        ELSE e = PruneChildren(c, f, p, mode)
    BY <1>2 DEF StepAt
  <2>4. CASE ~Declares(p, f) \/ KindOf[f] # "definition"
    <3>1. e = c BY <2>3, <2>4
    <3> QED BY <2>0, <2>1, <2>2, <2>4, <3>1
  <2>5. CASE Declares(p, f) /\ KindOf[f] = "definition"
    <3>1. e = PruneChildren(c, f, p, mode) BY <2>3, <2>5
    <3> HIDE DEF c, e, f
    <3>2. /\ Steps(c, e, mode) /\ Nested(e)
          /\ mode.force => StaleChildren(e, f, p) = {}
      BY <2>0, <2>1, <2>5, <3>1, PruneChildrenSteps
    <3>3. Steps(d, e, mode) BY <2>1, <3>2, StepsCompose
    <3>4. ASSUME NEW k \in 1..m, due(Order[k]) PROVE StaleChildren(e, Order[k], p) = {}
      <4>1. CASE k = m BY <3>2, <3>4, <4>1 DEF f
      <4>2. CASE k \in 1..(m - 1)
        <5>1. StaleChildren(c, Order[k], p) = {} BY <2>2, <3>4, <4>2
        <5> QED BY <2>0, <3>2, <3>4, <5>1 DEF Steps, StaysClean
      <4> QED BY <2>0, <4>1, <4>2
    <3> HIDE DEF due
    <3> QED BY <2>0, <3>2, <3>3, <3>4 DEF e
  <2> QED BY <2>4, <2>5
<1> HIDE DEF T
<1>5. n \in T BY <1>0, <1>3, <1>4, LastNumber
<1>6. /\ Steps(d, g[n], mode) /\ Nested(g[n])
      /\ \A j \in 1..n : due(Order[j]) => StaleChildren(g[n], Order[j], p) = {}
  BY <1>5 DEF T
<1>7. NoStrays(g[n], p, mode)
  <2>1. \A f \in Fragments : \E j \in 1..n : Order[j] = f BY LengthsAreNumbers DEF n
  <2> QED BY <1>6, <2>1 DEF NoStrays
<1> QED BY <1>1, <1>6, <1>7 DEF n

\* One package.
LEMMA SyncPackageSteps ==
    ASSUME Valid, NEW d, Sane(d), Nested(d), NEW p \in Packages, NEW mode \in Mode, ~mode.check
    PROVE LET e == SyncPackage(d, p, mode)
          IN Steps(d, e, mode) /\ Nested(e) /\ AllDone(e, p, mode) /\ NoStrays(e, p, mode)
<1> DEFINE c == SyncRows(d, p, mode)
           w == PruneDefinitions(c, p, mode)
           e == PruneRecords(w, p, mode)
<1>1. SyncPackage(d, p, mode) = IF mode.prune THEN w ELSE e BY DEF SyncPackage
<1>2. Steps(d, c, mode) /\ Nested(c) /\ AllDone(c, p, mode) BY SyncRowsSteps
<1> HIDE DEF c
<1>3. Sane(c) BY <1>2 DEF Steps
<1>4. Steps(c, w, mode) /\ Nested(w) /\ NoStrays(w, p, mode) BY <1>2, <1>3, PruneDefinitionsSteps
<1> HIDE DEF w
<1>5. Sane(w) BY <1>4 DEF Steps
<1>6. Steps(w, e, mode) /\ Nested(e) BY <1>4, <1>5, PruneRecordsSteps
<1> HIDE DEF e
<1>7. Steps(d, w, mode) /\ AllDone(w, p, mode) BY <1>2, <1>4, StepsCompose, PostsStay
<1>8. Steps(d, e, mode) BY <1>6, <1>7, StepsCompose
<1>9. AllDone(e, p, mode) /\ NoStrays(e, p, mode) BY <1>4, <1>6, <1>7, PostsStay
<1> QED BY <1>1, <1>4, <1>6, <1>7, <1>8, <1>9

\* All packages that are synced.
LEMMA SyncPackagesSteps ==
    ASSUME Valid, NEW d, Sane(d), Nested(d), NEW mode \in Mode, ~mode.check
    PROVE LET e == SyncPackages(d, mode)
          IN /\ Steps(d, e, mode) /\ Nested(e)
             /\ \A p \in Packages : p \in DOMAIN files /\ Chosen(mode, p) =>
                    AllDone(e, p, mode) /\ NoStrays(e, p, mode)
<1> DEFINE n == Len(AppOrder)
<1>0. n \in Nat /\ \A i \in 1..n : AppOrder[i] \in Packages BY LengthsAreNumbers
<1>1. PICK g : Unfolds(g, "packages", d, None, mode, n) /\ SyncPackages(d, mode) = g[n]
  BY SyncPackagesFolds
<1> HIDE DEF n
<1>2. /\ g[0] = d
      /\ \A i \in 1..n : i - 1 \in 0..n /\ g[i] = StepAt("packages", g[i - 1], None, mode, i)
  BY <1>1 DEF Unfolds
<1> DEFINE due(p) == p \in DOMAIN files /\ Chosen(mode, p)
           met(d0, p) == AllDone(d0, p, mode) /\ NoStrays(d0, p, mode)
           T == {i \in 0..n : /\ Steps(d, g[i], mode) /\ Nested(g[i])
                              /\ \A j \in 1..i : due(AppOrder[j]) => met(g[i], AppOrder[j])}
<1>3. 0 \in T BY <1>0, <1>2, NoStep
<1>4. ASSUME NEW m \in 1..n, m - 1 \in T PROVE m \in T
  <2> DEFINE c == g[m - 1]
             e == g[m]
             p == AppOrder[m]
  <2>0. /\ m \in Nat /\ m # 0 /\ p \in Packages /\ m \in 0..n
        /\ \A j \in 1..m : j \in 1..(m - 1) \/ j = m
        /\ \A j \in 1..m : AppOrder[j] \in Packages
    BY <1>0
  <2>1. Steps(d, c, mode) /\ Nested(c) /\ Sane(c) BY <1>4 DEF Steps
  <2>2. \A j \in 1..(m - 1) : due(AppOrder[j]) => met(c, AppOrder[j]) BY <1>4
  <2>3. IF ~due(p) THEN e = c ELSE e = SyncPackage(c, p, mode) BY <1>2 DEF StepAt
  <2> HIDE DEF due
  <2>4. CASE ~due(p)
    <3>1. e = c BY <2>3, <2>4
    <3> QED BY <2>0, <2>1, <2>2, <2>4, <3>1
  <2>5. CASE due(p)
    <3>1. e = SyncPackage(c, p, mode) BY <2>3, <2>5
    <3> HIDE DEF c, e, p
    <3>2. Steps(c, e, mode) /\ Nested(e) /\ met(e, p) BY <2>0, <2>1, <3>1, SyncPackageSteps
    <3>3. Steps(d, e, mode) BY <2>1, <3>2, StepsCompose
    <3>4. ASSUME NEW k \in 1..m, due(AppOrder[k]) PROVE met(e, AppOrder[k])
      <4>1. CASE k = m BY <3>2, <4>1 DEF p
      <4>2. CASE k \in 1..(m - 1)
        <5>1. met(c, AppOrder[k]) BY <2>2, <3>4, <4>2
        <5> QED BY <2>0, <3>2, <5>1, PostsStay
      <4> QED BY <2>0, <4>1, <4>2
    <3> HIDE DEF met
    <3> QED BY <2>0, <3>2, <3>3, <3>4 DEF e
  <2> QED BY <2>4, <2>5
<1> HIDE DEF T
<1>5. n \in T BY <1>0, <1>3, <1>4, LastNumber
<1>6. /\ Steps(d, g[n], mode) /\ Nested(g[n])
      /\ \A j \in 1..n : due(AppOrder[j]) => met(g[n], AppOrder[j])
  BY <1>5 DEF T
<1>7. \A p \in Packages : \E j \in 1..n : AppOrder[j] = p BY LengthsAreNumbers DEF n
<1>8. \A p \in Packages : due(p) => met(g[n], p) BY <1>6, <1>7
<1> QED BY <1>1, <1>6, <1>8 DEF n

\* With --prune-stale no record is left of what its package does not declare.
LEMMA RetireRecordsSteps ==
    ASSUME Valid, NEW d, Sane(d), Nested(d), NEW mode \in Mode, ~mode.check, mode.prune
    PROVE LET e == RetireRecords(d, mode)
          IN /\ Steps(d, e, mode) /\ Nested(e)
             /\ \A p \in Packages : Chosen(mode, p) => StaleRecords(e, p) = {}
<1> DEFINE n == Len(ByName)
<1>0. n \in Nat /\ \A i \in 1..n : ByName[i] \in Packages BY LengthsAreNumbers
<1>1. PICK g : Unfolds(g, "records", d, None, mode, n) /\ RetireRecords(d, mode) = g[n]
  BY RetireRecordsFolds
<1> HIDE DEF n
<1>2. /\ g[0] = d
      /\ \A i \in 1..n : i - 1 \in 0..n /\ g[i] = StepAt("records", g[i - 1], None, mode, i)
  BY <1>1 DEF Unfolds
<1> DEFINE T == {i \in 0..n : /\ Steps(d, g[i], mode) /\ Nested(g[i])
                              /\ \A j \in 1..i : Chosen(mode, ByName[j]) =>
                                                    StaleRecords(g[i], ByName[j]) = {}}
<1>3. 0 \in T BY <1>0, <1>2, NoStep
<1>4. ASSUME NEW m \in 1..n, m - 1 \in T PROVE m \in T
  <2> DEFINE c == g[m - 1]
             e == g[m]
             p == ByName[m]
  <2>0. /\ m \in Nat /\ m # 0 /\ p \in Packages /\ m \in 0..n
        /\ \A j \in 1..m : j \in 1..(m - 1) \/ j = m
        /\ \A j \in 1..m : ByName[j] \in Packages
    BY <1>0
  <2>1. Steps(d, c, mode) /\ Nested(c) /\ Sane(c) BY <1>4 DEF Steps
  <2>2. \A j \in 1..(m - 1) : Chosen(mode, ByName[j]) => StaleRecords(c, ByName[j]) = {} BY <1>4
  <2>3. IF ~Chosen(mode, p) THEN e = c ELSE e = PruneRecords(c, p, mode) BY <1>2 DEF StepAt
  <2>4. CASE ~Chosen(mode, p)
    <3>1. e = c BY <2>3, <2>4
    <3> QED BY <2>0, <2>1, <2>2, <2>4, <3>1
  <2>5. CASE Chosen(mode, p)
    <3>1. e = PruneRecords(c, p, mode) BY <2>3, <2>5
    <3> HIDE DEF c, e, p
    <3>2. Steps(c, e, mode) /\ Nested(e) /\ StaleRecords(e, p) = {}
      BY <2>0, <2>1, <3>1, PruneRecordsSteps
    <3>3. Steps(d, e, mode) BY <2>1, <3>2, StepsCompose
    <3>4. ASSUME NEW k \in 1..m, Chosen(mode, ByName[k]) PROVE StaleRecords(e, ByName[k]) = {}
      <4>1. CASE k = m BY <3>2, <4>1 DEF p
      <4>2. CASE k \in 1..(m - 1)
        <5>1. StaleRecords(c, ByName[k]) = {} BY <2>2, <3>4, <4>2
        <5> QED BY <2>0, <3>2, <5>1, PostsStay
      <4> QED BY <2>0, <4>1, <4>2
    <3> QED BY <2>0, <3>2, <3>3, <3>4 DEF e
  <2> QED BY <2>4, <2>5
<1> HIDE DEF T
<1>5. n \in T BY <1>0, <1>3, <1>4, LastNumber
<1>6. /\ Steps(d, g[n], mode) /\ Nested(g[n])
      /\ \A j \in 1..n : Chosen(mode, ByName[j]) => StaleRecords(g[n], ByName[j]) = {}
  BY <1>5 DEF T
<1>7. \A p \in Packages : \E j \in 1..n : ByName[j] = p BY LengthsAreNumbers DEF n
<1>8. \A p \in Packages : Chosen(mode, p) => StaleRecords(g[n], p) = {} BY <1>6, <1>7
<1> QED BY <1>1, <1>6, <1>8 DEF n

\* There is nothing left that a sync in this mode would do.
Settled(d, mode) ==
    /\ \A p \in Packages : p \in DOMAIN files /\ Chosen(mode, p) =>
          /\ \A f \in Fragments : Declares(p, f) => Done(d, p, f, mode)
          /\ NoStrays(d, p, mode)
    /\ \A p \in Packages :
          Chosen(mode, p) /\ (mode.prune \/ (mode.force /\ p \in DOMAIN files)) =>
            StaleRecords(d, p) = {}

\* The whole command keeps what every part keeps, and has then nothing left to
\* do.
LEMMA DraftSteps ==
    ASSUME Valid, Sane(Start), Nested(Start), NEW mode \in Mode, ~mode.check
    PROVE LET e == Draft(mode)
          IN /\ Steps(Start, e, mode) /\ Nested(e)
             /\ mode.prune => \A p \in Packages : Chosen(mode, p) => StaleRecords(e, p) = {}
             /\ (mode.prune \/ ~mode.force) /\ e.failed = FALSE => Settled(e, mode)
<1> DEFINE c == SyncPackages(Start, mode)
           r == RetireRecords(c, mode)
           e == Draft(mode)
<1>1. e = IF mode.prune THEN r ELSE c BY DEF Draft
<1>2. /\ Steps(Start, c, mode) /\ Nested(c)
      /\ \A p \in Packages : p \in DOMAIN files /\ Chosen(mode, p) =>
            AllDone(c, p, mode) /\ NoStrays(c, p, mode)
  BY SyncPackagesSteps
<1> HIDE DEF c
<1>3. Sane(c) BY <1>2 DEF Steps
<1>4. mode.prune => /\ Steps(c, r, mode) /\ Nested(r)
                    /\ \A p \in Packages : Chosen(mode, p) => StaleRecords(r, p) = {}
  BY <1>2, <1>3, RetireRecordsSteps
<1> HIDE DEF r, e
<1>5. /\ Steps(Start, e, mode) /\ Nested(e)
      /\ \A p \in Packages : p \in DOMAIN files /\ Chosen(mode, p) =>
            AllDone(e, p, mode) /\ NoStrays(e, p, mode)
      /\ mode.prune => \A p \in Packages : Chosen(mode, p) => StaleRecords(e, p) = {}
  <2>1. CASE mode.prune
    <3>1. Steps(Start, r, mode) BY <1>2, <1>4, <2>1, StepsCompose
    <3>2. \A p \in Packages : p \in DOMAIN files /\ Chosen(mode, p) =>
             AllDone(r, p, mode) /\ NoStrays(r, p, mode)
      BY <1>2, <1>4, <2>1, PostsStay
    <3> QED BY <1>1, <1>4, <2>1, <3>1, <3>2
  <2>2. CASE ~mode.prune BY <1>1, <1>2, <2>2
  <2> QED BY <2>1, <2>2
<1>6. (mode.prune \/ ~mode.force) /\ e.failed = FALSE => Settled(e, mode)
  BY <1>5 DEF Settled, AllDone
<1> QED BY <1>5, <1>6 DEF e

-----------------------------------------------------------------------------
(* A sync that has nothing left to do.                                     *)

\* The same rows, and records that differ in their hashes at most.
Still(d, e) == Sane(e) /\ e.rows = d.rows /\ Claimed(e.records) = Claimed(d.records)

\* Records that differ in hashes at most come in pairs.
LEMMA ClaimedTwins ==
    ASSUME NEW R \in SUBSET Records, NEW S \in SUBSET Records, Claimed(R) = Claimed(S), NEW r \in R
    PROVE \E s \in S : s.package = r.package /\ s.fragment = r.fragment /\ s.pk = r.pk
<1>1. [r EXCEPT !.hash = None] \in Claimed(S) BY DEF Claimed
<1>2. PICK s \in S : [s EXCEPT !.hash = None] = [r EXCEPT !.hash = None] BY <1>1 DEF Claimed
<1>3. \A q \in Records : LET m == [q EXCEPT !.hash = None]
                         IN m.package = q.package /\ m.fragment = q.fragment /\ m.pk = q.pk
  BY DEF Records
<1>4. r \in Records /\ s \in Records OBVIOUS
<1> QED BY <1>2, <1>3, <1>4

\* Hashes do not decide whether there is something left to do.
LEMMA SettledStill ==
    ASSUME NEW d, Sane(d), NEW e, Still(d, e), NEW mode, Settled(d, mode)
    PROVE Settled(e, mode)
<1>1. d.records \in SUBSET Records /\ e.records \in SUBSET Records
      /\ e.rows = d.rows /\ Claimed(e.records) = Claimed(d.records)
  BY DEF Sane, Drafts, Still
<1>2. ASSUME NEW p, NEW f, Own(d, p, f) # {} PROVE Own(e, p, f) # {}
  <2>1. PICK r \in d.records : r.package = p /\ r.fragment = f BY <1>2 DEF Own
  <2>2. PICK s \in e.records : s.package = p /\ s.fragment = f BY <1>1, <2>1, ClaimedTwins
  <2> QED BY <2>2 DEF Own
<1>3. ASSUME NEW p, StaleRecords(d, p) = {}, NEW r \in StaleRecords(e, p) PROVE FALSE
  <2>1. r \in e.records /\ r.package = p /\ ~Declares(p, r.fragment) BY DEF StaleRecords
  <2>2. PICK s \in d.records : s.package = p /\ s.fragment = r.fragment
    BY <1>1, <2>1, ClaimedTwins
  <2> QED BY <1>3, <2>1, <2>2 DEF StaleRecords
<1>4. \A p, f : Done(d, p, f, mode) => Done(e, p, f, mode) BY <1>1, <1>2 DEF Done
<1>5. \A p : NoStrays(d, p, mode) => NoStrays(e, p, mode) BY <1>1 DEF NoStrays, StaleChildren
<1> QED BY <1>3, <1>4, <1>5 DEF Settled

LEMMA StillCompose ==
    ASSUME NEW d, NEW c, NEW e, Still(d, c), Still(c, e)
    PROVE Still(d, e)
  BY DEF Still

LEMMA NothingIsStill ==
    ASSUME NEW d, Sane(d)
    PROVE Still(d, d) /\ Still(d, Drift(d))
<1>1. d \in Drafts BY DEF Sane
<1> QED BY <1>1, DriftFields, FlagsAreSane DEF Still

\* Renewing a record changes its hash at most.
LEMMA RenewedIsStill ==
    ASSUME Valid, NEW d, Sane(d), NEW p \in Packages, NEW f \in Fragments, Declares(p, f)
    PROVE Still(d, Renewed(d, p, f))
<1> DEFINE e == Renewed(d, p, f)
           own == Own(d, p, f)
           new(r) == [r EXCEPT !.hash = files[p][f]]
           bare(r) == [r EXCEPT !.hash = None]
<1>0. d \in Drafts /\ d.records \subseteq Records BY DEF Sane, Drafts
<1>1. Sane(e) BY RenewedIsSane
<1>2. e.rows = d.rows /\ e.records = (d.records \ own) \cup {new(r) : r \in own}
  BY <1>0, RenewedFields
<1>3. own \subseteq d.records BY DEF Own
<1>4. \A r \in Records : bare(new(r)) = bare(r) BY DEF Records
<1> HIDE DEF e, own, new, bare
<1>5. {bare(r) : r \in e.records} = {bare(r) : r \in d.records}
  <2>1. ASSUME NEW r \in e.records PROVE bare(r) \in {bare(s) : s \in d.records}
    <3>1. CASE r \in d.records BY <3>1
    <3>2. CASE r \in {new(s) : s \in own}
      <4>1. PICK s \in own : r = new(s) BY <3>2
      <4> QED BY <1>0, <1>3, <1>4, <4>1
    <3> QED BY <1>2, <3>1, <3>2
  <2>2. ASSUME NEW r \in d.records PROVE bare(r) \in {bare(s) : s \in e.records}
    <3>1. CASE r \in own BY <1>0, <1>2, <1>4, <3>1
    <3>2. CASE r \notin own BY <1>2, <3>2
    <3> QED BY <3>1, <3>2
  <2> QED BY <2>1, <2>2
<1>6. Claimed(e.records) = Claimed(d.records) BY <1>5 DEF Claimed, bare
<1> QED BY <1>1, <1>2, <1>6 DEF Still, e

\* Where a package is done with a fragment, syncing it again changes nothing.
LEMMA SyncRowStill ==
    ASSUME Valid, NEW d, Sane(d), NEW p \in Packages, NEW f \in Fragments, Declares(p, f),
           NEW mode \in Mode, ~mode.check, Done(d, p, f, mode)
    PROVE Still(d, SyncRow(d, p, f, mode))
<1>1. d.rows[f] # None /\ Own(d, p, f) # {} /\ (mode.force => d.rows[f].text = files[p][f])
  BY DEF Done
<1>2. SyncRow(d, p, f, mode) = Compare(d, p, f, mode) BY <1>1 DEF SyncRow
<1>3. Compare(d, p, f, mode) \in {d, Drift(d), Renewed(d, p, f)} BY <1>1 DEF Compare
<1> QED BY <1>2, <1>3, NothingIsStill, RenewedIsStill

\* The same for the parts of a sync that has nothing left to do.
LEMMA SyncRowsStill ==
    ASSUME Valid, NEW d, Sane(d), NEW mode \in Mode, ~mode.check, Settled(d, mode),
           NEW p \in Packages, p \in DOMAIN files, Chosen(mode, p)
    PROVE Still(d, SyncRows(d, p, mode))
<1> DEFINE n == Len(Order)
<1>0. n \in Nat /\ \A i \in 1..n : Order[i] \in Fragments BY LengthsAreNumbers
<1>1. PICK g : Unfolds(g, "rows", d, p, mode, n) /\ SyncRows(d, p, mode) = g[n] BY SyncRowsFolds
<1> HIDE DEF n
<1>2. g[0] = d /\ \A i \in 1..n : i - 1 \in 0..n /\ g[i] = StepAt("rows", g[i - 1], p, mode, i)
  BY <1>1 DEF Unfolds
<1> DEFINE T == {i \in 0..n : Still(d, g[i])}
<1>3. 0 \in T BY <1>0, <1>2, NothingIsStill
<1>4. ASSUME NEW m \in 1..n, m - 1 \in T PROVE m \in T
  <2> DEFINE c == g[m - 1]
             e == g[m]
             f == Order[m]
  <2>0. f \in Fragments /\ m \in 0..n BY <1>0
  <2>1. Still(d, c) /\ Sane(c) BY <1>4 DEF Still
  <2>2. IF ~Declares(p, f) THEN e = c ELSE e = SyncRow(c, p, f, mode) BY <1>2 DEF StepAt
  <2> HIDE DEF c, e, f
  <2>3. Settled(c, mode) BY <2>1, SettledStill
  <2>4. Declares(p, f) => Done(c, p, f, mode) BY <2>0, <2>3 DEF Settled
  <2>5. Declares(p, f) => Still(c, e) BY <2>0, <2>1, <2>2, <2>4, SyncRowStill
  <2>6. Still(d, e) BY <2>1, <2>2, <2>5, StillCompose
  <2> QED BY <2>0, <2>6 DEF e
<1> HIDE DEF T
<1>5. n \in T BY <1>0, <1>3, <1>4, LastNumber
<1> QED BY <1>1, <1>5 DEF T, n

LEMMA PruneDefinitionsStill ==
    ASSUME Valid, NEW d, Sane(d), NEW mode \in Mode, ~mode.check, Settled(d, mode),
           NEW p \in Packages, p \in DOMAIN files, Chosen(mode, p)
    PROVE Still(d, PruneDefinitions(d, p, mode))
<1> DEFINE n == Len(Order)
<1>0. n \in Nat /\ \A i \in 1..n : Order[i] \in Fragments BY LengthsAreNumbers
<1>1. PICK g : Unfolds(g, "definitions", d, p, mode, n) /\ PruneDefinitions(d, p, mode) = g[n]
  BY PruneDefinitionsFolds
<1> HIDE DEF n
<1>2. /\ g[0] = d
      /\ \A i \in 1..n : i - 1 \in 0..n /\ g[i] = StepAt("definitions", g[i - 1], p, mode, i)
  BY <1>1 DEF Unfolds
<1> DEFINE T == {i \in 0..n : Still(d, g[i])}
<1>3. 0 \in T BY <1>0, <1>2, NothingIsStill
<1>4. ASSUME NEW m \in 1..n, m - 1 \in T PROVE m \in T
  <2> DEFINE c == g[m - 1]
             e == g[m]
             f == Order[m]
  <2>0. f \in Fragments /\ m \in 0..n BY <1>0
  <2>1. Still(d, c) /\ Sane(c) BY <1>4 DEF Still
  <2>2. IF ~Declares(p, f) \/ KindOf[f] # "definition" THEN e = c
        ELSE e = PruneChildren(c, f, p, mode)
    BY <1>2 DEF StepAt
  <2> HIDE DEF c, e, f
  <2>3. Settled(c, mode) BY <2>1, SettledStill
  <2>4. mode.force /\ Declares(p, f) /\ KindOf[f] = "definition" => StaleChildren(c, f, p) = {}
    BY <2>0, <2>3 DEF Settled, NoStrays
  <2>5. e = c \/ e = Drift(c) BY <2>2, <2>4 DEF PruneChildren
  <2>6. Still(d, e) BY <2>1, <2>5, NothingIsStill, StillCompose
  <2> QED BY <2>0, <2>6 DEF e
<1> HIDE DEF T
<1>5. n \in T BY <1>0, <1>3, <1>4, LastNumber
<1> QED BY <1>1, <1>5 DEF T, n

LEMMA PruneRecordsStill ==
    ASSUME NEW d, Sane(d), NEW p, NEW mode, ~mode.check,
           mode.prune \/ mode.force => StaleRecords(d, p) = {}
    PROVE Still(d, PruneRecords(d, p, mode))
<1>1. PruneRecords(d, p, mode) \in {d, Drift(d)} BY DEF PruneRecords
<1> QED BY <1>1, NothingIsStill

LEMMA SyncPackageStill ==
    ASSUME Valid, NEW d, Sane(d), NEW mode \in Mode, ~mode.check, Settled(d, mode),
           NEW p \in Packages, p \in DOMAIN files, Chosen(mode, p)
    PROVE Still(d, SyncPackage(d, p, mode))
<1> DEFINE c == SyncRows(d, p, mode)
           w == PruneDefinitions(c, p, mode)
           e == PruneRecords(w, p, mode)
<1>1. SyncPackage(d, p, mode) = IF mode.prune THEN w ELSE e BY DEF SyncPackage
<1>2. Still(d, c) BY SyncRowsStill
<1> HIDE DEF c
<1>3. Sane(c) /\ Settled(c, mode) BY <1>2, SettledStill DEF Still
<1>4. Still(c, w) BY <1>3, PruneDefinitionsStill
<1> HIDE DEF w
<1>5. Sane(w) /\ Settled(w, mode) BY <1>3, <1>4, SettledStill DEF Still
<1>6. mode.prune \/ mode.force => StaleRecords(w, p) = {} BY <1>5 DEF Settled
<1>7. Still(w, e) BY <1>5, <1>6, PruneRecordsStill
<1> HIDE DEF e
<1>8. Still(d, w) BY <1>2, <1>4, StillCompose
<1>9. Still(d, e) BY <1>7, <1>8, StillCompose
<1> QED BY <1>1, <1>8, <1>9

LEMMA SyncPackagesStill ==
    ASSUME Valid, NEW d, Sane(d), NEW mode \in Mode, ~mode.check, Settled(d, mode)
    PROVE Still(d, SyncPackages(d, mode))
<1> DEFINE n == Len(AppOrder)
<1>0. n \in Nat /\ \A i \in 1..n : AppOrder[i] \in Packages BY LengthsAreNumbers
<1>1. PICK g : Unfolds(g, "packages", d, None, mode, n) /\ SyncPackages(d, mode) = g[n]
  BY SyncPackagesFolds
<1> HIDE DEF n
<1>2. /\ g[0] = d
      /\ \A i \in 1..n : i - 1 \in 0..n /\ g[i] = StepAt("packages", g[i - 1], None, mode, i)
  BY <1>1 DEF Unfolds
<1> DEFINE T == {i \in 0..n : Still(d, g[i])}
<1>3. 0 \in T BY <1>0, <1>2, NothingIsStill
<1>4. ASSUME NEW m \in 1..n, m - 1 \in T PROVE m \in T
  <2> DEFINE c == g[m - 1]
             e == g[m]
             p == AppOrder[m]
  <2>0. p \in Packages /\ m \in 0..n BY <1>0
  <2>1. Still(d, c) /\ Sane(c) BY <1>4 DEF Still
  <2>2. IF p \notin DOMAIN files \/ ~Chosen(mode, p) THEN e = c ELSE e = SyncPackage(c, p, mode)
    BY <1>2 DEF StepAt
  <2> HIDE DEF c, e, p
  <2>3. Settled(c, mode) BY <2>1, SettledStill
  <2>4. e = c \/ Still(c, e) BY <2>0, <2>1, <2>2, <2>3, SyncPackageStill
  <2>5. Still(d, e) BY <2>1, <2>4, StillCompose
  <2> QED BY <2>0, <2>5 DEF e
<1> HIDE DEF T
<1>5. n \in T BY <1>0, <1>3, <1>4, LastNumber
<1> QED BY <1>1, <1>5 DEF T, n

LEMMA RetireRecordsStill ==
    ASSUME NEW d, Sane(d), NEW mode \in Mode, ~mode.check, mode.prune, Settled(d, mode)
    PROVE Still(d, RetireRecords(d, mode))
<1> DEFINE n == Len(ByName)
<1>0. n \in Nat /\ \A i \in 1..n : ByName[i] \in Packages BY LengthsAreNumbers
<1>1. PICK g : Unfolds(g, "records", d, None, mode, n) /\ RetireRecords(d, mode) = g[n]
  BY RetireRecordsFolds
<1> HIDE DEF n
<1>2. /\ g[0] = d
      /\ \A i \in 1..n : i - 1 \in 0..n /\ g[i] = StepAt("records", g[i - 1], None, mode, i)
  BY <1>1 DEF Unfolds
<1> DEFINE T == {i \in 0..n : Still(d, g[i])}
<1>3. 0 \in T BY <1>0, <1>2, NothingIsStill
<1>4. ASSUME NEW m \in 1..n, m - 1 \in T PROVE m \in T
  <2> DEFINE c == g[m - 1]
             e == g[m]
             p == ByName[m]
  <2>0. p \in Packages /\ m \in 0..n BY <1>0
  <2>1. Still(d, c) /\ Sane(c) BY <1>4 DEF Still
  <2>2. IF ~Chosen(mode, p) THEN e = c ELSE e = PruneRecords(c, p, mode) BY <1>2 DEF StepAt
  <2> HIDE DEF c, e, p
  <2>3. Settled(c, mode) BY <2>1, SettledStill
  <2>4. Chosen(mode, p) => StaleRecords(c, p) = {} BY <2>0, <2>3 DEF Settled
  <2>5. e = c \/ Still(c, e) BY <2>1, <2>2, <2>4, PruneRecordsStill
  <2>6. Still(d, e) BY <2>1, <2>5, StillCompose
  <2> QED BY <2>0, <2>6 DEF e
<1> HIDE DEF T
<1>5. n \in T BY <1>0, <1>3, <1>4, LastNumber
<1> QED BY <1>1, <1>5 DEF T, n

LEMMA DraftStill ==
    ASSUME Valid, Sane(Start), NEW mode \in Mode, ~mode.check, Settled(Start, mode)
    PROVE Still(Start, Draft(mode))
<1> DEFINE c == SyncPackages(Start, mode)
           r == RetireRecords(c, mode)
<1>1. Draft(mode) = IF mode.prune THEN r ELSE c BY DEF Draft
<1>2. Still(Start, c) BY SyncPackagesStill
<1> HIDE DEF c
<1>3. Sane(c) /\ Settled(c, mode) BY <1>2, SettledStill DEF Still
<1>4. mode.prune => Still(c, r) BY <1>3, RetireRecordsStill
<1> HIDE DEF r
<1>5. mode.prune => Still(Start, r) BY <1>2, <1>4, StillCompose
<1> QED BY <1>1, <1>2, <1>5

-----------------------------------------------------------------------------
(* A --check: it leaves the draft alone, or reports.                       *)

Quiet(d) == d.drift = FALSE /\ d.failed = FALSE
Looks(d, e) == e \in Drafts /\ (Quiet(e) => e = d)

\* Looks compose.
LEMMA LooksCompose ==
    ASSUME NEW d, NEW c, NEW e, Looks(d, c), Looks(c, e)
    PROVE Looks(d, e)
  BY DEF Looks

\* Reports only look.
LEMMA ReportsLook ==
    ASSUME NEW d \in Drafts
    PROVE /\ Looks(d, d)
          /\ Looks(d, Drift(d)) /\ ~Quiet(Drift(d))
          /\ Looks(d, [d EXCEPT !.failed = TRUE]) /\ ~Quiet([d EXCEPT !.failed = TRUE])
<1>1. Drift(d) \in Drafts /\ ~Quiet(Drift(d)) BY DriftFields DEF Quiet
<1>2. [d EXCEPT !.failed = TRUE] \in Drafts /\ ~Quiet([d EXCEPT !.failed = TRUE])
  BY FailedFields DEF Quiet
<1> QED BY <1>1, <1>2 DEF Looks

\* The row is there, p manages it, and it holds the text of the file.
Exact(d, p, f) == d.rows[f] # None /\ Own(d, p, f) # {} /\ d.rows[f].text = files[p][f]

\* A --check that reports nothing for a fragment found it done.
LEMMA SyncRowLooks ==
    ASSUME NEW d \in Drafts, NEW p, NEW f, NEW mode \in Mode, mode.check
    PROVE LET e == SyncRow(d, p, f, mode)
          IN Looks(d, e) /\ (Quiet(e) => Exact(d, p, f))
<1>1. LET e == SyncRow(d, p, f, mode)
      IN \/ e = d /\ Exact(d, p, f)
         \/ e = Drift(d)
         \/ e = [d EXCEPT !.failed = TRUE]
  BY DEF SyncRow, Compare, Exact
<1> QED BY <1>1, ReportsLook

\* The same for the parts of a --check.
LEMMA SyncRowsLook ==
    ASSUME NEW d \in Drafts, NEW p, NEW mode \in Mode, mode.check
    PROVE LET e == SyncRows(d, p, mode)
          IN Looks(d, e) /\ (Quiet(e) => \A f \in Fragments : Declares(p, f) => Exact(d, p, f))
<1> DEFINE n == Len(Order)
<1>0. n \in Nat /\ \A i \in 1..n : Order[i] \in Fragments BY LengthsAreNumbers
<1>1. PICK g : Unfolds(g, "rows", d, p, mode, n) /\ SyncRows(d, p, mode) = g[n] BY SyncRowsFolds
<1> HIDE DEF n
<1>2. g[0] = d /\ \A i \in 1..n : i - 1 \in 0..n /\ g[i] = StepAt("rows", g[i - 1], p, mode, i)
  BY <1>1 DEF Unfolds
<1> DEFINE met(f) == Declares(p, f) => Exact(d, p, f)
           T == {i \in 0..n : Looks(d, g[i]) /\ (Quiet(g[i]) => \A j \in 1..i : met(Order[j]))}
<1>3. 0 \in T
  <2>1. Looks(d, g[0]) BY <1>2, ReportsLook
  <2> HIDE DEF met
  <2> QED BY <1>0, <2>1
<1>4. ASSUME NEW m \in 1..n, m - 1 \in T PROVE m \in T
  <2> DEFINE c == g[m - 1]
             e == g[m]
             f == Order[m]
  <2>0. f \in Fragments /\ m \in 0..n /\ \A j \in 1..m : j \in 1..(m - 1) \/ j = m BY <1>0
  <2>1. Looks(d, c) /\ c \in Drafts /\ (Quiet(c) => \A j \in 1..(m - 1) : met(Order[j]))
    BY <1>4 DEF Looks
  <2>2. IF ~Declares(p, f) THEN e = c ELSE e = SyncRow(c, p, f, mode) BY <1>2 DEF StepAt
  <2> HIDE DEF c, e, f
  <2>3. Looks(c, e) /\ (Quiet(e) /\ Declares(p, f) => Exact(c, p, f))
    <3>1. c \in Drafts BY <2>1
    <3>2. Looks(c, c) BY <3>1, ReportsLook
    <3> DEFINE r == SyncRow(c, p, f, mode)
    <3>3. Looks(c, r) /\ (Quiet(r) => Exact(c, p, f)) BY <3>1, SyncRowLooks
    <3>4. IF ~Declares(p, f) THEN e = c ELSE e = r BY <2>2
    <3> HIDE DEF r
    <3> QED BY <3>2, <3>3, <3>4
  <2>4. Looks(d, e) BY <2>1, <2>3, LooksCompose
  <2>5. Quiet(e) => Quiet(c) /\ c = d BY <2>1, <2>3 DEF Looks
  <2>6. Quiet(e) => met(f) BY <2>3, <2>5
  <2>7. Quiet(e) => \A j \in 1..m : met(Order[j]) BY <2>0, <2>1, <2>5, <2>6 DEF f
  <2> QED BY <2>0, <2>4, <2>7 DEF e
<1> HIDE DEF T
<1>5. n \in T BY <1>0, <1>3, <1>4, LastNumber
<1>6. Looks(d, g[n]) /\ (Quiet(g[n]) => \A j \in 1..n : met(Order[j])) BY <1>5 DEF T
<1>7. \A f \in Fragments : \E j \in 1..n : Order[j] = f BY LengthsAreNumbers DEF n
<1>8. Quiet(g[n]) => \A f \in Fragments : met(f) BY <1>6, <1>7
<1> QED BY <1>1, <1>6, <1>8 DEF n

LEMMA PruneDefinitionsLook ==
    ASSUME NEW d \in Drafts, NEW p, NEW mode \in Mode, mode.check
    PROVE LET e == PruneDefinitions(d, p, mode)
          IN Looks(d, e) /\ (Quiet(e) => NoStrays(d, p, mode))
<1> DEFINE n == Len(Order)
<1>0. n \in Nat /\ \A i \in 1..n : Order[i] \in Fragments BY LengthsAreNumbers
<1>1. PICK g : Unfolds(g, "definitions", d, p, mode, n) /\ PruneDefinitions(d, p, mode) = g[n]
  BY PruneDefinitionsFolds
<1> HIDE DEF n
<1>2. /\ g[0] = d
      /\ \A i \in 1..n : i - 1 \in 0..n /\ g[i] = StepAt("definitions", g[i - 1], p, mode, i)
  BY <1>1 DEF Unfolds
<1> DEFINE met(f) == Declares(p, f) /\ KindOf[f] = "definition" => StaleChildren(d, f, p) = {}
           T == {i \in 0..n : Looks(d, g[i]) /\ (Quiet(g[i]) => \A j \in 1..i : met(Order[j]))}
<1>3. 0 \in T
  <2>1. Looks(d, g[0]) BY <1>2, ReportsLook
  <2> HIDE DEF met
  <2> QED BY <1>0, <2>1
<1>4. ASSUME NEW m \in 1..n, m - 1 \in T PROVE m \in T
  <2> DEFINE c == g[m - 1]
             e == g[m]
             f == Order[m]
  <2>0. f \in Fragments /\ m \in 0..n /\ \A j \in 1..m : j \in 1..(m - 1) \/ j = m BY <1>0
  <2>1. Looks(d, c) /\ c \in Drafts /\ (Quiet(c) => \A j \in 1..(m - 1) : met(Order[j]))
    BY <1>4 DEF Looks
  <2>2. IF ~Declares(p, f) \/ KindOf[f] # "definition" THEN e = c
        ELSE e = PruneChildren(c, f, p, mode)
    BY <1>2 DEF StepAt
  <2> HIDE DEF c, e, f
  <2>3. \/ ~(Declares(p, f) /\ KindOf[f] = "definition") /\ e = c
        \/ StaleChildren(c, f, p) = {} /\ e = c
        \/ e = Drift(c)
    BY <2>2 DEF PruneChildren
  <2>4. Looks(c, e) /\ (Quiet(e) /\ Declares(p, f) /\ KindOf[f] = "definition" =>
                            StaleChildren(c, f, p) = {})
    BY <2>1, <2>3, ReportsLook
  <2>5. Looks(d, e) BY <2>1, <2>4, LooksCompose
  <2>6. Quiet(e) => Quiet(c) /\ c = d BY <2>1, <2>4 DEF Looks
  <2>7. Quiet(e) => met(f) BY <2>4, <2>6
  <2>8. Quiet(e) => \A j \in 1..m : met(Order[j]) BY <2>0, <2>1, <2>6, <2>7 DEF f
  <2> QED BY <2>0, <2>5, <2>8 DEF e
<1> HIDE DEF T
<1>5. n \in T BY <1>0, <1>3, <1>4, LastNumber
<1>6. Looks(d, g[n]) /\ (Quiet(g[n]) => \A j \in 1..n : met(Order[j])) BY <1>5 DEF T
<1>7. \A f \in Fragments : \E j \in 1..n : Order[j] = f BY LengthsAreNumbers DEF n
<1>8. Quiet(g[n]) => \A f \in Fragments : met(f) BY <1>6, <1>7
<1>9. Quiet(g[n]) => NoStrays(d, p, mode) BY <1>8 DEF NoStrays
<1> QED BY <1>1, <1>6, <1>9 DEF n

LEMMA PruneRecordsLook ==
    ASSUME NEW d \in Drafts, NEW p, NEW mode \in Mode, mode.check
    PROVE LET e == PruneRecords(d, p, mode)
          IN Looks(d, e) /\ (Quiet(e) => StaleRecords(d, p) = {})
<1>1. LET e == PruneRecords(d, p, mode)
      IN \/ e = d /\ StaleRecords(d, p) = {}
         \/ e = Drift(d)
  BY DEF PruneRecords
<1> QED BY <1>1, ReportsLook

\* What a quiet --check of p says.
Matches(d, p, mode) ==
    /\ \A f \in Fragments : Declares(p, f) => Exact(d, p, f)
    /\ NoStrays(d, p, mode)
    /\ ~mode.prune => StaleRecords(d, p) = {}

LEMMA SyncPackageLooks ==
    ASSUME NEW d \in Drafts, NEW p, NEW mode \in Mode, mode.check
    PROVE LET e == SyncPackage(d, p, mode)
          IN Looks(d, e) /\ (Quiet(e) => Matches(d, p, mode))
<1> DEFINE c == SyncRows(d, p, mode)
           w == PruneDefinitions(c, p, mode)
           e == PruneRecords(w, p, mode)
<1>1. SyncPackage(d, p, mode) = IF mode.prune THEN w ELSE e BY DEF SyncPackage
<1>2. Looks(d, c) /\ (Quiet(c) => \A f \in Fragments : Declares(p, f) => Exact(d, p, f))
  BY SyncRowsLook
<1> HIDE DEF c
<1>3. Looks(c, w) /\ (Quiet(w) => NoStrays(c, p, mode))
  BY <1>2, PruneDefinitionsLook DEF Looks
<1> HIDE DEF w
<1>4. Looks(w, e) /\ (Quiet(e) => StaleRecords(w, p) = {})
  BY <1>3, PruneRecordsLook DEF Looks
<1> HIDE DEF e
<1>5. Looks(d, w) BY <1>2, <1>3, LooksCompose
<1>6. Looks(d, e) BY <1>4, <1>5, LooksCompose
<1>7. Quiet(w) => /\ \A f \in Fragments : Declares(p, f) => Exact(d, p, f)
                  /\ NoStrays(d, p, mode)
  BY <1>2, <1>3 DEF Looks
<1>8. Quiet(e) => Quiet(w) /\ StaleRecords(d, p) = {} BY <1>4, <1>5 DEF Looks
<1> QED BY <1>1, <1>5, <1>6, <1>7, <1>8 DEF Matches

LEMMA SyncPackagesLook ==
    ASSUME NEW d \in Drafts, NEW mode \in Mode, mode.check
    PROVE LET e == SyncPackages(d, mode)
          IN Looks(d, e) /\ (Quiet(e) => \A p \in Packages :
                                p \in DOMAIN files /\ Chosen(mode, p) => Matches(d, p, mode))
<1> DEFINE n == Len(AppOrder)
<1>0. n \in Nat /\ \A i \in 1..n : AppOrder[i] \in Packages BY LengthsAreNumbers
<1>1. PICK g : Unfolds(g, "packages", d, None, mode, n) /\ SyncPackages(d, mode) = g[n]
  BY SyncPackagesFolds
<1> HIDE DEF n
<1>2. /\ g[0] = d
      /\ \A i \in 1..n : i - 1 \in 0..n /\ g[i] = StepAt("packages", g[i - 1], None, mode, i)
  BY <1>1 DEF Unfolds
<1> DEFINE due(p) == p \in DOMAIN files /\ Chosen(mode, p)
           met(p) == due(p) => Matches(d, p, mode)
           T == {i \in 0..n : Looks(d, g[i]) /\ (Quiet(g[i]) => \A j \in 1..i : met(AppOrder[j]))}
<1>3. 0 \in T
  <2>1. Looks(d, g[0]) BY <1>2, ReportsLook
  <2> HIDE DEF met
  <2> QED BY <1>0, <2>1
<1>4. ASSUME NEW m \in 1..n, m - 1 \in T PROVE m \in T
  <2> DEFINE c == g[m - 1]
             e == g[m]
             p == AppOrder[m]
  <2>0. p \in Packages /\ m \in 0..n /\ \A j \in 1..m : j \in 1..(m - 1) \/ j = m BY <1>0
  <2>1. Looks(d, c) /\ c \in Drafts /\ (Quiet(c) => \A j \in 1..(m - 1) : met(AppOrder[j]))
    BY <1>4 DEF Looks
  <2>2. IF ~due(p) THEN e = c ELSE e = SyncPackage(c, p, mode) BY <1>2 DEF StepAt
  <2> HIDE DEF c, e, p, due
  <2>3. Looks(c, e) /\ (Quiet(e) /\ due(p) => Matches(c, p, mode))
    BY <2>1, <2>2, SyncPackageLooks, ReportsLook
  <2>4. Looks(d, e) BY <2>1, <2>3, LooksCompose
  <2>5. Quiet(e) => Quiet(c) /\ c = d BY <2>1, <2>3 DEF Looks
  <2>6. Quiet(e) => met(p) BY <2>3, <2>5
  <2>7. Quiet(e) => \A j \in 1..m : met(AppOrder[j]) BY <2>0, <2>1, <2>5, <2>6 DEF p
  <2> HIDE DEF met
  <2> QED BY <2>0, <2>4, <2>7 DEF e
<1> HIDE DEF T
<1>5. n \in T BY <1>0, <1>3, <1>4, LastNumber
<1>6. Looks(d, g[n]) /\ (Quiet(g[n]) => \A j \in 1..n : met(AppOrder[j])) BY <1>5 DEF T
<1>7. \A p \in Packages : \E j \in 1..n : AppOrder[j] = p BY LengthsAreNumbers DEF n
<1>8. Quiet(g[n]) => \A p \in Packages : met(p) BY <1>6, <1>7
<1> QED BY <1>1, <1>6, <1>8 DEF n

LEMMA RetireRecordsLook ==
    ASSUME NEW d \in Drafts, NEW mode \in Mode, mode.check
    PROVE LET e == RetireRecords(d, mode)
          IN Looks(d, e) /\ (Quiet(e) => \A p \in Packages :
                                Chosen(mode, p) => StaleRecords(d, p) = {})
<1> DEFINE n == Len(ByName)
<1>0. n \in Nat /\ \A i \in 1..n : ByName[i] \in Packages BY LengthsAreNumbers
<1>1. PICK g : Unfolds(g, "records", d, None, mode, n) /\ RetireRecords(d, mode) = g[n]
  BY RetireRecordsFolds
<1> HIDE DEF n
<1>2. /\ g[0] = d
      /\ \A i \in 1..n : i - 1 \in 0..n /\ g[i] = StepAt("records", g[i - 1], None, mode, i)
  BY <1>1 DEF Unfolds
<1> DEFINE met(p) == Chosen(mode, p) => StaleRecords(d, p) = {}
           T == {i \in 0..n : Looks(d, g[i]) /\ (Quiet(g[i]) => \A j \in 1..i : met(ByName[j]))}
<1>3. 0 \in T
  <2>1. Looks(d, g[0]) BY <1>2, ReportsLook
  <2> HIDE DEF met
  <2> QED BY <1>0, <2>1
<1>4. ASSUME NEW m \in 1..n, m - 1 \in T PROVE m \in T
  <2> DEFINE c == g[m - 1]
             e == g[m]
             p == ByName[m]
  <2>0. p \in Packages /\ m \in 0..n /\ \A j \in 1..m : j \in 1..(m - 1) \/ j = m BY <1>0
  <2>1. Looks(d, c) /\ c \in Drafts /\ (Quiet(c) => \A j \in 1..(m - 1) : met(ByName[j]))
    BY <1>4 DEF Looks
  <2>2. IF ~Chosen(mode, p) THEN e = c ELSE e = PruneRecords(c, p, mode) BY <1>2 DEF StepAt
  <2> HIDE DEF c, e, p
  <2>3. Looks(c, e) /\ (Quiet(e) /\ Chosen(mode, p) => StaleRecords(c, p) = {})
    BY <2>1, <2>2, PruneRecordsLook, ReportsLook
  <2>4. Looks(d, e) BY <2>1, <2>3, LooksCompose
  <2>5. Quiet(e) => Quiet(c) /\ c = d BY <2>1, <2>3 DEF Looks
  <2>6. Quiet(e) => met(p) BY <2>3, <2>5
  <2>7. Quiet(e) => \A j \in 1..m : met(ByName[j]) BY <2>0, <2>1, <2>5, <2>6 DEF p
  <2> QED BY <2>0, <2>4, <2>7 DEF e
<1> HIDE DEF T
<1>5. n \in T BY <1>0, <1>3, <1>4, LastNumber
<1>6. Looks(d, g[n]) /\ (Quiet(g[n]) => \A j \in 1..n : met(ByName[j])) BY <1>5 DEF T
<1>7. \A p \in Packages : \E j \in 1..n : ByName[j] = p BY LengthsAreNumbers DEF n
<1>8. Quiet(g[n]) => \A p \in Packages : met(p) BY <1>6, <1>7
<1> QED BY <1>1, <1>6, <1>8 DEF n

\* The call that a --check stands for.
Applied(mode) == [mode EXCEPT !.check = FALSE]

\* A --check stands for the same call that writes.
LEMMA AppliedMode ==
    ASSUME NEW mode \in Mode
    PROVE /\ Applied(mode) \in Mode /\ ~Applied(mode).check
          /\ Applied(mode).force = mode.force /\ Applied(mode).prune = mode.prune
          /\ Applied(mode).only = mode.only
          /\ \A p : Chosen(Applied(mode), p) <=> Chosen(mode, p)
  BY DEF Applied, Mode, Chosen

\* A --check that reports nothing found nothing that the sync would do.
LEMMA DraftLooks ==
    ASSUME Start \in Drafts, NEW mode \in Mode, mode.check
    PROVE Draft(mode) \in Drafts /\ (Quiet(Draft(mode)) => Settled(Start, Applied(mode)))
<1> DEFINE c == SyncPackages(Start, mode)
           r == RetireRecords(c, mode)
<1>1. Draft(mode) = IF mode.prune THEN r ELSE c BY DEF Draft
<1>2. Looks(Start, c) /\ (Quiet(c) => \A p \in Packages :
                              p \in DOMAIN files /\ Chosen(mode, p) => Matches(Start, p, mode))
  BY SyncPackagesLook
<1> HIDE DEF c
<1>3. Looks(c, r) /\ (Quiet(r) => \A p \in Packages :
                              Chosen(mode, p) => StaleRecords(c, p) = {})
  BY <1>2, RetireRecordsLook DEF Looks
<1> HIDE DEF r
<1>0. Draft(mode) \in Drafts BY <1>1, <1>2, <1>3 DEF Looks
<1> SUFFICES ASSUME Quiet(Draft(mode)) PROVE Settled(Start, Applied(mode)) BY <1>0
<1>4. Quiet(c) BY <1>1, <1>3 DEF Looks
<1>5. c = Start BY <1>2, <1>4 DEF Looks
<1>6. mode.prune => \A p \in Packages : Chosen(mode, p) => StaleRecords(Start, p) = {}
  BY <1>1, <1>3, <1>5
<1>7. \A p \in Packages : p \in DOMAIN files /\ Chosen(mode, p) => Matches(Start, p, mode)
  BY <1>2, <1>4
<1> DEFINE m == Applied(mode)
<1>8. m.force = mode.force /\ m.prune = mode.prune
      /\ \A p : Chosen(m, p) <=> Chosen(mode, p)
  BY AppliedMode
<1> HIDE DEF m
<1>9. \A p \in Packages : p \in DOMAIN files /\ Chosen(m, p) =>
         /\ \A f \in Fragments : Declares(p, f) => Done(Start, p, f, m)
         /\ NoStrays(Start, p, m)
  BY <1>7, <1>8 DEF Matches, Exact, Done, NoStrays
<1>10. \A p \in Packages :
          Chosen(m, p) /\ (m.prune \/ (m.force /\ p \in DOMAIN files)) => StaleRecords(Start, p) = {}
  BY <1>6, <1>7, <1>8 DEF Matches
<1> QED BY <1>9, <1>10 DEF Settled, m

-----------------------------------------------------------------------------
(* The states of the specification.                                        *)

\* The outcomes after which there is nothing left to do: a --check that reports
\* nothing, and a sync that was applied.  An overwriting one without
\* --prune-stale is not among them: what a package no longer declares it
\* deletes, though a package that was synced before may declare it now.
Concluded ==
    /\ last # NoSync /\ ~last.refused
    /\ IF last.mode.check THEN ~last.drift ELSE last.mode.prune \/ ~last.mode.force

\* The inductive invariant: the stored policy is sane, and after such an outcome
\* the same call has nothing left to do.
SyncInv ==
    /\ files \in Releases
    /\ Sane(Start) /\ Nested(Start) /\ serial <= MaxPk
    /\ overrides \subseteq Override /\ pending \subseteq Tuples
    /\ last # NoSync => last.mode \in Modes
    /\ Concluded => FilesAreValid /\ Settled(Start, Applied(last.mode))

\* What a sync starts from are the variables.
LEMMA StartFields ==
    /\ Start.rows = rows /\ Start.records = records /\ Start.tuples = tuples
    /\ Start.serial = serial /\ Start.drift = FALSE /\ Start.failed = FALSE
    /\ Start \in Drafts <=> /\ rows \in [Fragments -> KeyedRows \cup {None}]
                            /\ records \subseteq Records /\ tuples \subseteq Tuples
                            /\ serial \in Nat
  BY DEF Start, Drafts

\* What sanity says of the variables.
SaneState ==
    /\ rows \in [Fragments -> KeyedRows \cup {None}] /\ records \subseteq Records
    /\ tuples \subseteq Tuples /\ serial \in Nat
    /\ \A f \in Fragments : rows[f] # None => rows[f].pk \in 1..serial /\ rows[ParentOf[f]] # None
    /\ \A r \in records : r.pk \in 1..serial
    /\ \A r, s \in records : r.package = s.package /\ r.fragment = s.fragment => r = s

LEMMA SaneStates == Sane(Start) /\ Nested(Start) <=> SaneState
<1>1. Sane(Start) <=> /\ Start \in Drafts
                      /\ \A f \in Fragments : rows[f] # None => rows[f].pk \in 1..serial
                      /\ \A r \in records : r.pk \in 1..serial
                      /\ \A r, s \in records : r.package = s.package /\ r.fragment = s.fragment => r = s
  BY StartFields DEF Sane
<1>2. Nested(Start) <=> \A f \in Fragments : rows[f] # None => rows[ParentOf[f]] # None
  BY StartFields DEF Nested
<1> QED BY <1>1, <1>2, StartFields DEF SaneState

\* An empty policy is sane.
LEMMA InitSyncInv == SyncInit => SyncInv
<1> SUFFICES ASSUME SyncInit PROVE SyncInv OBVIOUS
<1>1. SaneState BY OrderAssumption DEF SaneState, SyncInit
<1>2. serial <= MaxPk BY BoundsAssumption DEF SyncInit
<1> QED BY <1>1, <1>2, SaneStates DEF SyncInv, SyncInit, Concluded

\* The types are part of the invariant.
LEMMA InvIsType == SyncInv => SyncTypeOK
<1> SUFFICES ASSUME SyncInv PROVE SyncTypeOK OBVIOUS
<1>1. SaneState /\ serial <= MaxPk /\ MaxPk \in Nat BY SaneStates, BoundsAssumption DEF SyncInv
<1>2. \A k \in 1..serial : k \in 1..MaxPk BY <1>1 DEF SaneState
<1>3. rows \in [Fragments -> Row \cup {None}]
  <2>1. ASSUME NEW f \in Fragments, rows[f] # None PROVE rows[f] \in Row
    BY <1>1, <1>2, <2>1 DEF SaneState, KeyedRows, Row
  <2> QED BY <1>1, <2>1 DEF SaneState
<1>4. records \subseteq Record BY <1>1, <1>2 DEF SaneState, Records, Record
<1>5. serial \in 0..MaxPk BY <1>1 DEF SaneState
<1> QED BY <1>1, <1>3, <1>4, <1>5 DEF SaneState, SyncInv, SyncTypeOK

\* What a sync comes to: nothing is written, or the draft of valid files.
Refuses(mode) == ~FilesAreValid \/ Draft(mode).failed \/ ~Publishes(Draft(mode).rows, overrides)

LEMMA SyncCases ==
    ASSUME NEW mode, Sync(mode)
    PROVE /\ UNCHANGED <<files, overrides, pending>> /\ Draft(mode).serial <= MaxPk
          /\ last'.mode = mode /\ last'.drift = Draft(mode).drift
          /\ \/ /\ mode.check \/ Refuses(mode)
                /\ UNCHANGED <<rows, records, tuples, serial>>
                /\ last'.refused = Refuses(mode)
             \/ /\ ~mode.check /\ ~Refuses(mode) /\ last'.refused = FALSE
                /\ rows' = Draft(mode).rows /\ records' = Draft(mode).records
                /\ tuples' = Draft(mode).tuples /\ serial' = Draft(mode).serial
<1>1. CASE mode.check \/ Refuses(mode)
  <2>1. /\ UNCHANGED <<rows, records, tuples, serial>>
        /\ last' = [mode |-> mode, drift |-> Draft(mode).drift, refused |-> Refuses(mode)]
    BY <1>1 DEF Sync, Refuses
  <2>2. last'.mode = mode /\ last'.drift = Draft(mode).drift /\ last'.refused = Refuses(mode)
    BY <2>1
  <2> QED BY <1>1, <2>1, <2>2 DEF Sync
<1>2. CASE ~(mode.check \/ Refuses(mode)) BY <1>2 DEF Sync, Refuses
<1> QED BY <1>1, <1>2

\* An applied sync, with what its draft is known to satisfy.
LEMMA AppliedSync ==
    ASSUME SyncInv, NEW mode \in Modes, ~mode.check, ~Refuses(mode)
    PROVE /\ Valid /\ mode \in Mode /\ Applied(mode).force = mode.force
          /\ Steps(Start, Draft(mode), mode) /\ Nested(Draft(mode))
          /\ mode.prune => \A p \in Packages : Chosen(mode, p) => StaleRecords(Draft(mode), p) = {}
          /\ mode.prune \/ ~mode.force => Settled(Draft(mode), mode)
<1>1. Valid /\ Sane(Start) /\ Nested(Start) /\ mode \in Mode
  BY BoundsAssumption DEF SyncInv, Valid, Refuses
<1>2. /\ Steps(Start, Draft(mode), mode) /\ Nested(Draft(mode))
      /\ mode.prune => \A p \in Packages : Chosen(mode, p) => StaleRecords(Draft(mode), p) = {}
      /\ (mode.prune \/ ~mode.force) /\ Draft(mode).failed = FALSE => Settled(Draft(mode), mode)
  BY <1>1, DraftSteps
<1>3. Draft(mode).failed = FALSE BY <1>2 DEF Refuses, Steps, Sane, Drafts
<1> QED BY <1>1, <1>2, <1>3, AppliedMode

\* Whether there is something left to do does not depend on --check.
LEMMA SettledApplied ==
    ASSUME NEW d, NEW mode \in Mode
    PROVE Settled(d, mode) <=> Settled(d, Applied(mode))
<1> DEFINE m == Applied(mode)
<1>1. m.force = mode.force /\ m.prune = mode.prune /\ \A p : Chosen(m, p) <=> Chosen(mode, p)
  BY AppliedMode
<1> HIDE DEF m
<1>2. \A p, f : Done(d, p, f, mode) <=> Done(d, p, f, m) BY <1>1 DEF Done
<1>3. \A p : NoStrays(d, p, mode) <=> NoStrays(d, p, m) BY <1>1 DEF NoStrays
<1> QED BY <1>1, <1>2, <1>3 DEF Settled, m

\* A sync, checked, refused or applied, preserves the invariant.
LEMMA SyncKeepsInv ==
    ASSUME SyncInv, NEW mode \in Modes, Sync(mode)
    PROVE SyncInv'
<1> DEFINE e == Draft(mode)
<1>0. mode \in Mode /\ Start \in Drafts BY BoundsAssumption DEF SyncInv, Sane
<1>1. /\ UNCHANGED <<files, overrides, pending>> /\ e.serial <= MaxPk
      /\ last'.mode = mode /\ last'.drift = e.drift
      /\ \/ /\ mode.check \/ Refuses(mode)
            /\ UNCHANGED <<rows, records, tuples, serial>>
            /\ last'.refused = Refuses(mode)
         \/ /\ ~mode.check /\ ~Refuses(mode) /\ last'.refused = FALSE
            /\ rows' = e.rows /\ records' = e.records
            /\ tuples' = e.tuples /\ serial' = e.serial
  BY SyncCases
<1>2. mode.check => e \in Drafts /\ (Quiet(e) => Settled(Start, Applied(mode)))
  BY <1>0, DraftLooks
<1>3. ~mode.check /\ ~Refuses(mode) =>
        /\ Sane(e) /\ Nested(e) /\ FilesAreValid
        /\ mode.prune \/ ~mode.force => Settled(e, Applied(mode))
  BY <1>0, AppliedSync, SettledApplied DEF Steps, Valid
<1>4. FilesAreValid' <=> FilesAreValid BY <1>1 DEF FilesAreValid, Owners, Declares
<1> HIDE DEF e
<1>5. CASE /\ mode.check \/ Refuses(mode)
           /\ UNCHANGED <<rows, records, tuples, serial>>
           /\ last'.refused = Refuses(mode)
  <2>1. Start' = Start BY <1>5 DEF Start
  <2>2. ASSUME Concluded' PROVE FilesAreValid' /\ Settled(Start, Applied(last.mode))'
    <3>1. ~Refuses(mode) /\ mode.check BY <1>1, <1>5, <2>2 DEF Concluded
    <3>2. ~e.drift BY <1>1, <2>2, <3>1 DEF Concluded
    <3>3. Quiet(e) BY <1>2, <3>1, <3>2 DEF Quiet, Drafts, Refuses, e
    <3>4. Settled(Start, Applied(mode)) /\ FilesAreValid BY <1>2, <3>1, <3>3 DEF Refuses
    <3>5. Settled(Start, Applied(last.mode))'
      BY <1>1, <2>1, <3>4 DEF Settled, Done, Own, NoStrays, StaleChildren, StaleRecords, Declares
    <3> QED BY <1>4, <3>4, <3>5
  <2>3. Sane(Start)' /\ Nested(Start)' BY <2>1 DEF SyncInv
  <2> QED BY <1>1, <1>5, <2>2, <2>3 DEF SyncInv
<1>6. CASE /\ ~mode.check /\ ~Refuses(mode) /\ last'.refused = FALSE
           /\ rows' = e.rows /\ records' = e.records
           /\ tuples' = e.tuples /\ serial' = e.serial
  <2>1. Sane(e) /\ Nested(e) /\ e \in Drafts BY <1>3, <1>6 DEF Sane
  <2>2. /\ Start'.rows = e.rows /\ Start'.records = e.records /\ Start'.tuples = e.tuples
        /\ Start'.serial = e.serial /\ Start' \in Drafts
    BY <1>6, <2>1 DEF Start, Drafts
  <2>3. Sane(Start)' /\ Nested(Start)' BY <2>1, <2>2 DEF Sane, Nested
  <2>4. ASSUME Concluded' PROVE FilesAreValid' /\ Settled(Start, Applied(last.mode))'
    <3>1. mode.prune \/ ~mode.force BY <1>1, <1>6, <2>4 DEF Concluded
    <3>2. Settled(e, Applied(mode)) /\ FilesAreValid BY <1>3, <1>6, <3>1
    <3>3. Settled(Start, Applied(last.mode))'
      BY <1>1, <2>2, <3>2 DEF Settled, Done, Own, NoStrays, StaleChildren, StaleRecords, Declares
    <3> QED BY <1>4, <3>2, <3>3
  <2> QED BY <1>1, <1>6, <2>3, <2>4 DEF SyncInv
<1> QED BY <1>1, <1>5, <1>6

\* The other actions forget the last outcome.
LEMMA OtherStepsKeepInv ==
    ASSUME SyncInv, last' = NoSync, files' \in Releases, SaneState', serial' <= MaxPk,
           overrides' \subseteq Override, pending' \subseteq Tuples
    PROVE SyncInv'
<1>1. Sane(Start)' /\ Nested(Start)'
  <2>1. (Sane(Start) /\ Nested(Start) <=> SaneState)' BY SaneStates, PTL
  <2> QED BY <2>1
<1> QED BY <1>1 DEF SyncInv, Concluded

\* Every step preserves the invariant.
LEMMA StepKeepsInv == SyncInv /\ [SyncNext]_syncVars => SyncInv'
<1> SUFFICES ASSUME SyncInv, [SyncNext]_syncVars PROVE SyncInv' OBVIOUS
<1>0. /\ SaneState /\ serial \in Nat /\ serial <= MaxPk /\ MaxPk \in Nat /\ files \in Releases
      /\ overrides \subseteq Override /\ pending \subseteq Tuples
  BY SaneStates, BoundsAssumption DEF SyncInv, SaneState
<1>1. CASE UNCHANGED syncVars
  <2>1. UNCHANGED <<files, rows, records, overrides, tuples, pending, serial, last>>
    BY <1>1 DEF syncVars
  <2>2. Start' = Start /\ (Concluded' <=> Concluded) BY <2>1 DEF Start, Concluded
  <2>3. FilesAreValid' <=> FilesAreValid BY <2>1 DEF FilesAreValid, Owners, Declares
  <2>4. Settled(Start, Applied(last.mode)) => Settled(Start, Applied(last.mode))'
    BY <2>1, <2>2 DEF Settled, Done, Own, NoStrays, StaleChildren, StaleRecords, Declares
  <2>5. Sane(Start)' /\ Nested(Start)' BY <2>2 DEF SyncInv
  <2> QED BY <2>1, <2>2, <2>3, <2>4, <2>5 DEF SyncInv
<1>2. ASSUME NEW mode \in Modes, Sync(mode) PROVE SyncInv' BY <1>2, SyncKeepsInv
<1>3. ASSUME NEW release \in Releases, Deploy(release) PROVE SyncInv'
  <2>1. SaneState' BY <1>0, <1>3 DEF Deploy, SaneState
  <2> QED BY <1>0, <1>3, <2>1, OtherStepsKeepInv DEF Deploy
<1>4. ASSUME NEW e \in Edits PROVE e[1] \in Fragments /\ e[2] \in Texts BY EditsAssumption
<1>5. ASSUME NEW f \in Fragments, NEW text \in Texts, Edit(f, text) PROVE SyncInv'
  <2>1. /\ rows[f] # None /\ rows' = [rows EXCEPT ![f].text = text] /\ records' = records
        /\ tuples' = tuples /\ serial' = serial /\ overrides' = overrides /\ pending' = pending
        /\ files' = files /\ last' = NoSync
    BY <1>5 DEF Edit, Administer
  <2>2. rows \in [Fragments -> KeyedRows \cup {None}] /\ rows[f] \in KeyedRows
    BY <1>0, <2>1 DEF SaneState
  <2> DEFINE new == [rows[f] EXCEPT !.text = text]
  <2>3. new \in KeyedRows /\ new.pk = rows[f].pk BY <2>2 DEF KeyedRows
  <2>4. rows' = [rows EXCEPT ![f] = new] BY <2>1
  <2> HIDE DEF new
  <2>5. new # None BY <2>3, SentinelsAssumption DEF KeyedRows
  <2>6. /\ rows' \in [Fragments -> KeyedRows \cup {None}]
        /\ \A g \in Fragments : /\ rows'[g] # None => rows[g] # None /\ rows'[g].pk = rows[g].pk
                                /\ rows[g] # None => rows'[g] # None
    BY <2>1, <2>2, <2>3, <2>4, <2>5
  <2>7. \A g \in Fragments : ParentOf[g] \in Fragments BY OrderAssumption
  <2>8. SaneState' BY <1>0, <2>1, <2>6, <2>7 DEF SaneState
  <2> QED BY <1>0, <2>1, <2>8, OtherStepsKeepInv
<1>6. ASSUME NEW f \in Fragments, NEW text \in Texts, Add(f, text) PROVE SyncInv'
  <2> DEFINE new == [pk |-> serial + 1, text |-> text]
  <2>1. /\ rows[f] = None /\ serial < MaxPk /\ serial' = serial + 1
        /\ ParentOf[f] # f => rows[ParentOf[f]] # None
        /\ rows' = [rows EXCEPT ![f] = new] /\ records' = records
        /\ tuples' = tuples /\ overrides' = overrides /\ pending' = pending
        /\ files' = files /\ last' = NoSync
    BY <1>6 DEF Add, Administer
  <2>2. rows \in [Fragments -> KeyedRows \cup {None}] BY <1>0 DEF SaneState
  <2>3. new \in KeyedRows /\ new.pk = serial + 1 BY <1>0 DEF KeyedRows
  <2> HIDE DEF new
  <2>4. new # None BY <2>3, SentinelsAssumption DEF KeyedRows
  <2>5. /\ rows' \in [Fragments -> KeyedRows \cup {None}] /\ rows'[f] = new
        /\ \A g \in Fragments : g # f => rows'[g] = rows[g]
    BY <2>1, <2>2, <2>3
  <2>6. \A g \in Fragments : ParentOf[g] \in Fragments BY OrderAssumption
  <2>7. \A k \in 1..serial : k \in 1..serial' BY <1>0, <2>1
  <2>8. serial' \in Nat /\ serial' <= MaxPk /\ serial + 1 \in 1..serial' BY <1>0, <2>1
  <2>9. ASSUME NEW g \in Fragments, rows'[g] # None
        PROVE rows'[g].pk \in 1..serial' /\ rows'[ParentOf[g]] # None
    <3>1. CASE g = f
      <4>1. rows'[g].pk \in 1..serial' BY <2>3, <2>5, <2>8, <3>1
      <4> QED BY <2>1, <2>4, <2>5, <2>6, <3>1, <4>1
    <3>2. CASE g # f
      <4>1. rows'[g] = rows[g] /\ rows[g].pk \in 1..serial /\ rows[ParentOf[g]] # None
        BY <1>0, <2>5, <2>9, <3>2 DEF SaneState
      <4> QED BY <2>4, <2>5, <2>6, <2>7, <4>1
    <3> QED BY <3>1, <3>2
  <2>10. \A r \in records : r.pk \in 1..serial' BY <1>0, <2>7 DEF SaneState
  <2>11. SaneState' BY <1>0, <2>1, <2>5, <2>8, <2>9, <2>10 DEF SaneState
  <2> QED BY <1>0, <2>1, <2>8, <2>11, OtherStepsKeepInv
<1>7. ASSUME NEW f \in Fragments, Delete(f) PROVE SyncInv'
  <2>1. /\ rows' = WithoutRows(rows, {f}) /\ records' = records
        /\ tuples' = tuples /\ serial' = serial /\ overrides' = overrides /\ pending' = pending
        /\ files' = files /\ last' = NoSync
    BY <1>7 DEF Delete, Administer
  <2>2. /\ rows' \in [Fragments -> KeyedRows \cup {None}]
        /\ \A g \in Fragments : rows'[g] # None => rows'[g] = rows[g]
        /\ \A g \in Fragments : rows'[g] # None => rows'[ParentOf[g]] # None
    BY <1>0, <2>1, RowsThatGo DEF SaneState
  <2>3. SaneState' BY <1>0, <2>1, <2>2 DEF SaneState
  <2> QED BY <1>0, <2>1, <2>3, OtherStepsKeepInv
<1>8. ASSUME NEW f \in Fragments, NEW text \in Texts, Tighten(f, text) PROVE SyncInv'
  <2>1. /\ rows[f] # None /\ rows' = rows /\ records' = records
        /\ tuples' = tuples /\ serial' = serial /\ pending' = pending
        /\ overrides' = overrides \cup {[pk |-> rows[f].pk, text |-> text]}
        /\ files' = files /\ last' = NoSync
    BY <1>8 DEF Tighten, Administer
  <2>2. rows[f].pk \in 1..MaxPk BY <1>0, <2>1 DEF SaneState
  <2>3. overrides' \subseteq Override BY <1>0, <2>1, <2>2 DEF Override
  <2>4. SaneState' BY <1>0, <2>1 DEF SaneState
  <2> QED BY <1>0, <2>1, <2>3, <2>4, OtherStepsKeepInv
<1>9. ASSUME NEW t \in Tuples, Validate(t) \/ Store(t) PROVE SyncInv'
  <2>1. /\ rows' = rows /\ records' = records /\ serial' = serial /\ overrides' = overrides
        /\ files' = files /\ last' = NoSync
        /\ pending' \subseteq Tuples /\ tuples' \subseteq Tuples
    BY <1>0, <1>9 DEF Validate, Store, SaneState
  <2>2. SaneState' BY <1>0, <2>1 DEF SaneState
  <2> QED BY <1>0, <2>1, <2>2, OtherStepsKeepInv
<1>10. ASSUME NEW o \in Tightenings PROVE o[1] \in Fragments /\ o[2] \in Texts BY EditsAssumption
<1> QED BY <1>1, <1>2, <1>3, <1>4, <1>5, <1>6, <1>7, <1>8, <1>9, <1>10 DEF SyncNext

\* Whatever administrators, sessions and deployments do between the syncs: the
\* stored policy is sane, and a sync or --check that concluded has left nothing
\* for the same call to do.
THEOREM SyncInvariance == SyncSpec => []SyncInv
<1> QED BY InitSyncInv, StepKeepsInv, PTL DEF SyncSpec

\* The variables keep their types, no package has two records of a fragment and
\* no child is without its definition, for any order of fragments and packages,
\* any releases and any calls: every part of a sync keeps the draft sane, and a
\* fragment is created after the definition that its file declares too.
THEOREM SyncTypeCorrectness == SyncSpec => []SyncTypeOK
<1> QED BY SyncInvariance, InvIsType, PTL

\* A concluded call has nothing left to do, so each of its parts leaves the rows
\* and all of the records but their hashes as they are.
LEMMA InvConverges == SyncInv => SyncConverges
<1> SUFFICES ASSUME SyncInv PROVE SyncConverges OBVIOUS
<1> DEFINE m == Applied(last.mode)
           e == Draft(m)
<1>1. ASSUME Concluded PROVE e.rows = rows /\ Claimed(e.records) = Claimed(records)
  <2>1. /\ last.mode \in Mode /\ Valid /\ Sane(Start) /\ Settled(Start, m)
    BY <1>1, BoundsAssumption DEF SyncInv, Concluded, Valid
  <2>2. m \in Mode /\ ~m.check BY <2>1, AppliedMode
  <2> HIDE DEF m
  <2>3. Still(Start, e) BY <2>1, <2>2, DraftStill
  <2> QED BY <2>3, StartFields DEF Still
<1>2. last # NoSync /\ ~last.mode.check => m = last.mode
  <2>1. ASSUME last # NoSync, ~last.mode.check PROVE m = last.mode
    <3>1. last.mode \in Mode BY <2>1, BoundsAssumption DEF SyncInv
    <3> QED BY <2>1, <3>1 DEF Applied, Mode
  <2> QED BY <2>1
<1>3. ASSUME last # NoSync, ~last.refused, ~last.mode.check, last.mode.prune \/ ~last.mode.force
      PROVE LET again == Draft(last.mode)
            IN  again.rows = rows /\ Claimed(again.records) = Claimed(records)
  BY <1>1, <1>2, <1>3 DEF Concluded
<1>4. ASSUME last # NoSync, ~last.refused, last.mode.check, ~last.drift
      PROVE LET applied == Draft([last.mode EXCEPT !.check = FALSE])
            IN  applied.rows = rows /\ Claimed(applied.records) = Claimed(records)
  BY <1>1, <1>4 DEF Concluded, Applied
<1> QED BY <1>3, <1>4 DEF SyncConverges

\* A sync repeated changes nothing, and a --check that reports no drift is
\* right, whatever the packages declare and administrators did in between
\* releases: the hazard is that a part of the sync undoes another's work, or
\* that --check and the writing pass disagree.
THEOREM SyncsConverge == SyncSpec => []SyncConverges
<1> QED BY SyncInvariance, InvConverges, PTL

\* Without --force-overwrite no part of a sync writes or deletes a row that its
\* package manages, or that --prune-stale hands to it.
LEMMA StepKeepsRows == SyncInv /\ [SyncNext]_syncVars => [KeepsManagedRows]_syncVars
<1> SUFFICES ASSUME SyncInv, SyncNext PROVE KeepsManagedRows BY DEF syncVars
<1>1. ASSUME NEW mode \in Modes, Sync(mode) PROVE KeepsManagedRows
  <2> SUFFICES ASSUME NEW prune \in BOOLEAN, Synced(FALSE, prune),
                      NEW p \in DOMAIN files, NEW f \in DOMAIN files[p], rows[f] # None,
                      Managed(p, f) \/ (prune /\ \E q \in Packages : Managed(q, f)
                        /\ Claims([rows |-> rows, records |-> records], f) # {})
               PROVE rows'[f] = rows[f]
    BY DEF KeepsManagedRows
  <2>1. /\ last'.mode = mode
        /\ \/ rows' = rows
           \/ ~mode.check /\ ~Refuses(mode) /\ rows' = Draft(mode).rows
    BY <1>1, SyncCases
  <2>2. mode.force = FALSE /\ mode.prune = prune BY <2>1 DEF Synced
  <2>3. CASE ~mode.check /\ ~Refuses(mode) /\ rows' = Draft(mode).rows
    <3>1. p \in Packages /\ f \in Fragments /\ Declares(p, f)
      BY PackagesAssumption DEF SyncInv, Declares
    <3>2. KeepsRows(Start, Draft(mode), mode) BY <2>3, AppliedSync DEF Steps
    <3>3. Kept(Start, p, f, mode)
      BY <2>2, StartFields DEF Kept, Own, Claims, Managed
    <3>4. Draft(mode).rows[f] = Start.rows[f] BY <2>2, <3>1, <3>2, <3>3 DEF KeepsRows
    <3> QED BY <2>3, <3>4, StartFields
  <2> QED BY <2>1, <2>3
<1>2. (\E mode \in Modes : Sync(mode)) \/ last' = NoSync
  BY DEF SyncNext, Deploy, Edit, Add, Delete, Tighten, Administer, Validate, Store
<1>3. last' = NoSync => KeepsManagedRows BY DEF KeepsManagedRows, Synced
<1> QED BY <1>1, <1>2, <1>3

\* The edits of administrators, and the keys that their overrides name, survive
\* every sync without --force-overwrite, of any packages in any order.
THEOREM EditsSurviveUpgrades == SyncSpec => UpgradesKeepEdits
<1> QED BY SyncInvariance, StepKeepsRows, PTL DEF SyncSpec, UpgradesKeepEdits

\* The tuples of what a sync removed are gone when it commits.
LEMMA StepTakesTuples == SyncInv /\ [SyncNext]_syncVars => [RetiresWithTuples]_syncVars
<1> SUFFICES ASSUME SyncInv, SyncNext PROVE RetiresWithTuples BY DEF syncVars
<1>1. ASSUME NEW mode \in Modes, Sync(mode) PROVE RetiresWithTuples
  <2> SUFFICES ASSUME NEW force \in BOOLEAN, Synced(force, TRUE),
                      ~last'.mode.check, ~last'.refused
               PROVE /\ \A f \in Fragments : rows[f] # None /\ rows'[f] = None
                            /\ ~(force /\ KindOf[f] = "permission") =>
                              \A t \in tuples' : f \notin NamedBy[t]
                     /\ last'.mode.only = All => \A r \in records' : Declares(r.package, r.fragment)
    BY DEF RetiresWithTuples
  <2> DEFINE e == Draft(mode)
  <2>1. /\ last'.mode = mode /\ ~mode.check /\ ~Refuses(mode)
        /\ rows' = e.rows /\ records' = e.records /\ tuples' = e.tuples
    BY <1>1, SyncCases
  <2>2. mode.force = force /\ mode.prune = TRUE BY <2>1 DEF Synced
  <2>3. /\ LosesTuples(Start, e, mode) /\ Sane(e)
        /\ \A p \in Packages : Chosen(mode, p) => StaleRecords(e, p) = {}
    BY <2>1, <2>2, AppliedSync DEF Steps
  <2> HIDE DEF e
  <2>4. \A f \in Fragments : rows[f] # None /\ rows'[f] = None
            /\ ~(force /\ KindOf[f] = "permission") => \A t \in tuples' : f \notin NamedBy[t]
    BY <2>1, <2>2, <2>3, StartFields DEF LosesTuples
  <2>5. ASSUME mode.only = All, NEW r \in e.records PROVE Declares(r.package, r.fragment)
    <3>1. r.package \in Packages BY <2>3 DEF Sane, Drafts, Records
    <3>2. StaleRecords(e, r.package) = {} BY <2>3, <2>5, <3>1 DEF Chosen
    <3> QED BY <3>2 DEF StaleRecords
  <2> QED BY <2>1, <2>4, <2>5
<1>2. (\E mode \in Modes : Sync(mode)) \/ last' = NoSync
  BY DEF SyncNext, Deploy, Edit, Add, Delete, Tighten, Administer, Validate, Store
<1>3. last' = NoSync => RetiresWithTuples BY DEF RetiresWithTuples, Synced
<1> QED BY <1>1, <1>2, <1>3

\* No tuple outlives the row that it names when --prune-stale retires it, and
\* when all packages are synced every record that is left belongs to the package
\* that declares its fragment.
THEOREM RetirementTakesTuples == SyncSpec => RetirementIsComplete
<1> QED BY SyncInvariance, StepTakesTuples, PTL DEF SyncSpec, RetirementIsComplete

-----------------------------------------------------------------------------
(* Overrides: recursion over a domain whose elements have a rank.          *)

Ranks(rank, D, N) == rank \in [D -> 0..N]

\* What holds of an element when it holds of those of a lower rank holds of all.
LEMMA RankInduction ==
    ASSUME NEW D, NEW N \in Nat, NEW rank, Ranks(rank, D, N), NEW X,
           \A d \in D : (\A c \in D : rank[c] < rank[d] => c \in X) => d \in X
    PROVE \A d \in D : d \in X
<1> USE DEF Ranks
<1> DEFINE T == {m \in Nat : \A d \in D : rank[d] < m => d \in X}
<1>1. 0 \in T OBVIOUS
<1>2. ASSUME NEW m \in 1..N + 1, m - 1 \in T PROVE m \in T
  <2>1. m \in Nat /\ \A d \in D : rank[d] \in Nat OBVIOUS
  <2>2. ASSUME NEW d \in D, rank[d] < m PROVE d \in X
    <3>1. \A c \in D : rank[c] < rank[d] => rank[c] < m - 1 BY <2>1, <2>2
    <3> QED BY <1>2, <3>1
  <2> QED BY <2>1, <2>2
<1> HIDE DEF T
<1>3. N + 1 \in T BY <1>1, <1>2, LastNumber
<1> QED BY <1>3 DEF T

\* The steps of S, one for each element, look at lower ranks only.
LooksLower(S, D, V, rank) ==
    /\ S \in [D -> [[D -> V] -> V]]
    /\ \A d \in D : \A g, h \in [D -> V] :
         (\A c \in D : rank[c] < rank[d] => g[c] = h[c]) => S[d][g] = S[d][h]

FollowsSteps(g, S, D, V) == g \in [D -> V] /\ \A d \in D : g[d] = S[d][g]

\* Such steps are those of a recursive function.
LEMMA RecursionExists ==
    ASSUME NEW D, NEW V, NEW N \in Nat, NEW rank, Ranks(rank, D, N), V # {},
           NEW S, LooksLower(S, D, V, rank)
    PROVE \E g : FollowsSteps(g, S, D, V)
<1> USE DEF Ranks
<1> DEFINE T == {m \in Nat : \E g \in [D -> V] : \A d \in D : rank[d] < m => g[d] = S[d][g]}
<1>1. 0 \in T
  <2>1. PICK v \in V : TRUE OBVIOUS
  <2>2. [d \in D |-> v] \in [D -> V] OBVIOUS
  <2>3. \A d \in D : ~(rank[d] < 0) OBVIOUS
  <2> QED BY <2>2, <2>3
<1>2. ASSUME NEW m \in 1..N + 1, m - 1 \in T PROVE m \in T
  <2>1. m \in Nat /\ \A d \in D : rank[d] \in Nat OBVIOUS
  <2>2. PICK g \in [D -> V] : \A d \in D : rank[d] < m - 1 => g[d] = S[d][g] BY <1>2
  <2> DEFINE h == [d \in D |-> S[d][g]]
  <2>3. h \in [D -> V] BY DEF LooksLower
  <2>4. \A d \in D : h[d] = S[d][g] OBVIOUS
  <2> HIDE DEF h
  <2>5. ASSUME NEW d \in D, rank[d] < m PROVE h[d] = S[d][h]
    <3>1. \A c \in D : rank[c] < rank[d] => rank[c] < m - 1 BY <2>1, <2>5
    <3>2. \A c \in D : rank[c] < rank[d] => g[c] = h[c] BY <2>2, <2>4, <3>1
    <3>3. S[d][g] = S[d][h] BY <2>3, <3>2 DEF LooksLower
    <3> QED BY <2>4, <3>3
  <2> QED BY <2>1, <2>3, <2>5
<1> HIDE DEF T
<1>3. N + 1 \in T BY <1>1, <1>2, LastNumber
<1>4. PICK g \in [D -> V] : \A d \in D : rank[d] < N + 1 => g[d] = S[d][g] BY <1>3 DEF T
<1>5. \A d \in D : rank[d] < N + 1 OBVIOUS
<1> QED BY <1>4, <1>5 DEF FollowsSteps

-----------------------------------------------------------------------------
(* The ranks of expressions.                                               *)

Rank == [x \in Nodes |-> x[2] * (MaxDepth + 1) + DepthOf[x[1]]]
TopRank == Levels * (MaxDepth + 1) + MaxDepth
SidedRank == [x \in Nodes \X Bounds |-> Rank[x[1]]]

LEMMA LevelsAreNumbers == Levels \in Nat
  BY NamesAssumption, FS_CardinalityType DEF Levels

LEMMA Products ==
    ASSUME NEW n \in Nat, NEW m \in Nat, NEW k \in Nat, n <= m
    PROVE n * k \in Nat /\ n * k <= m * k /\ (n > 0 => n * k = (n - 1) * k + k)
  OBVIOUS

LEMMA RanksAreNumbers ==
    /\ TopRank \in Nat /\ Ranks(Rank, Nodes, TopRank)
    /\ Ranks(SidedRank, Nodes \X Bounds, TopRank)
<1>1. TopRank \in Nat BY LevelsAreNumbers, ExpressionsAssumption, Products DEF TopRank
<1>2. ASSUME NEW x \in Nodes PROVE Rank[x] \in 0..TopRank
  <2>1. x[2] \in Nat /\ x[2] <= Levels /\ DepthOf[x[1]] \in 0..MaxDepth
    BY LevelsAreNumbers, ExpressionsAssumption DEF Nodes
  <2>2. PICK a \in Nat : a = x[2] * (MaxDepth + 1) BY <2>1, ExpressionsAssumption, Products
  <2>3. PICK b \in Nat : b = Levels * (MaxDepth + 1)
    BY LevelsAreNumbers, ExpressionsAssumption, Products
  <2>4. a <= b BY <2>1, <2>2, <2>3, LevelsAreNumbers, ExpressionsAssumption, Products
  <2> QED BY <2>1, <2>2, <2>3, <2>4, ExpressionsAssumption DEF Rank, TopRank
<1>3. ASSUME NEW x \in Nodes \X Bounds PROVE SidedRank[x] \in 0..TopRank
  BY <1>2 DEF SidedRank
<1> QED BY <1>1, <1>2, <1>3 DEF Rank, SidedRank, Ranks

\* An operand is ranked lower than its operation, and whatever is written in a
\* permission lower than a reference to it.
LEMMA OperandsRankLower ==
    ASSUME NEW e \in Expressions, NEW n \in 0..Levels
    PROVE /\ <<e, n>> \in Nodes
          /\ e.op \in {"+", "&", "-"} =>
               /\ <<e.left, n>> \in Nodes /\ Rank[<<e.left, n>>] < Rank[<<e, n>>]
               /\ <<e.right, n>> \in Nodes /\ Rank[<<e.right, n>>] < Rank[<<e, n>>]
          /\ n > 0 => \A y \in Expressions :
                <<y, n - 1>> \in Nodes /\ Rank[<<y, n - 1>>] < Rank[<<e, n>>]
<1>1. n \in Nat /\ n <= Levels BY LevelsAreNumbers
<1>2. \A y \in Expressions : \A m \in 0..Levels :
         <<y, m>> \in Nodes /\ Rank[<<y, m>>] = m * (MaxDepth + 1) + DepthOf[y]
  BY DEF Nodes, Rank
<1>3. n * (MaxDepth + 1) \in Nat BY <1>1, ExpressionsAssumption, Products
<1>4. PICK a \in Nat : a = n * (MaxDepth + 1) BY <1>3
<1>5. MaxDepth \in Nat /\ \A y \in Expressions : DepthOf[y] \in Nat /\ DepthOf[y] <= MaxDepth
  BY ExpressionsAssumption
<1>6. ASSUME e.op \in {"+", "&", "-"}
      PROVE /\ <<e.left, n>> \in Nodes /\ Rank[<<e.left, n>>] < Rank[<<e, n>>]
            /\ <<e.right, n>> \in Nodes /\ Rank[<<e.right, n>>] < Rank[<<e, n>>]
  <2>1. /\ e.left \in Expressions /\ DepthOf[e.left] < DepthOf[e]
        /\ e.right \in Expressions /\ DepthOf[e.right] < DepthOf[e]
    BY <1>6, ExpressionsAssumption
  <2>2. /\ Rank[<<e.left, n>>] = a + DepthOf[e.left] /\ Rank[<<e, n>>] = a + DepthOf[e]
        /\ Rank[<<e.right, n>>] = a + DepthOf[e.right]
    BY <1>2, <1>4, <2>1
  <2> QED BY <1>2, <1>5, <2>1, <2>2
<1>7. ASSUME n > 0, NEW y \in Expressions
      PROVE <<y, n - 1>> \in Nodes /\ Rank[<<y, n - 1>>] < Rank[<<e, n>>]
  <2>1. n - 1 \in 0..Levels BY <1>1, <1>7, LevelsAreNumbers
  <2>2. PICK b \in Nat : b = (n - 1) * (MaxDepth + 1)
    BY <1>1, <1>5, <1>7, Products
  <2>3. a = b + (MaxDepth + 1) BY <1>1, <1>4, <1>5, <1>7, <2>2, Products
  <2>4. Rank[<<y, n - 1>>] = b + DepthOf[y] /\ Rank[<<e, n>>] = a + DepthOf[e]
    BY <1>2, <1>4, <2>1, <2>2
  <2> QED BY <1>2, <1>5, <2>1, <2>3, <2>4
<1> QED BY <1>2, <1>6, <1>7

-----------------------------------------------------------------------------
(* The override rows and the caveat they compose.                          *)

\* What a row consists of.
LEMMA RowsAreTyped ==
    ASSUME NEW row \in OverrideRows
    PROVE /\ row.expression \in Expressions /\ row.expires \in Nat
          /\ row.created \in 1..LastRevision /\ row.target \in Permissions \cup {Caveat}
          /\ row.kind \in {"extend", "loosen", "disable", "tighten", "recaveat"}
          /\ row.kind = "recaveat" => row.expression.name \in DOMAIN Decides
<1>1. PICK form \in Forms, n \in 1..LastRevision : row = Stamped(form, n) BY DEF OverrideRows
<1>2. form \in [target : Permissions \cup {Caveat}, expression : Expressions, expires : Nat,
                kind : {"extend", "loosen", "disable", "tighten", "recaveat"}]
  BY FormsAssumption
<1>3. form.kind = "recaveat" => form.expression.name \in DOMAIN Decides BY FormsAssumption
<1> QED BY <1>1, <1>2, <1>3 DEF Stamped

\* Of some rows one was created last.
LEMMA LastRowExists ==
    ASSUME NEW A \in SUBSET OverrideRows, A # {}
    PROVE \E row \in A : \A r \in A : r.created <= row.created
<1> SUFFICES ASSUME \A row \in A : \E r \in A : row.created < r.created PROVE FALSE
  <2>1. \A r \in A : r.created \in Nat BY RowsAreTyped, LimitsAssumption
  <2> QED BY <2>1
<1> DEFINE T == {m \in Nat : \E row \in A : m <= row.created}
<1>1. 0 \in T BY RowsAreTyped, LimitsAssumption
<1>2. ASSUME NEW m \in 1..LastRevision + 1, m - 1 \in T PROVE m \in T
  <2>1. m \in Nat BY LimitsAssumption
  <2>2. PICK row \in A : m - 1 <= row.created BY <1>2
  <2>3. PICK r \in A : row.created < r.created OBVIOUS
  <2>4. row.created \in Nat /\ r.created \in Nat BY RowsAreTyped, LimitsAssumption
  <2>5. m <= r.created BY <2>1, <2>2, <2>3, <2>4
  <2> QED BY <2>1, <2>5
<1> HIDE DEF T
<1>3. LastRevision + 1 \in T BY <1>1, <1>2, LimitsAssumption, LastNumber
<1>4. PICK row \in A : LastRevision + 1 <= row.created BY <1>3 DEF T
<1> QED BY <1>4, RowsAreTyped, LimitsAssumption

\* The caveat is composed as it is meant, and is one that can be decided.
LEMMA CaveatsCompose ==
    ASSUME NEW A \in SUBSET OverrideRows
    PROVE /\ ComposeCaveat(A) = InForceCaveat(A)
          /\ InForceCaveat(A) \in DOMAIN Decides /\ Decides[InForceCaveat(A)] \in Truths
<1> DEFINE in == {row \in A : row.kind = "recaveat" /\ row.target = Caveat}
           newest == {row \in in : ~\E r \in in : r.created > row.created}
           recaveats == Aimed(A, Caveat, {"recaveat"})
           winners == {row \in recaveats : \A r \in recaveats : r.created <= row.created}
<1>1. in = recaveats BY DEF Aimed
<1>2. \A r \in A : r.created \in Nat BY RowsAreTyped, LimitsAssumption
<1>3. newest = winners BY <1>1, <1>2
<1>4. ComposeCaveat(A) = IF recaveats = {} THEN StoredCaveat
                         ELSE (CHOOSE row \in winners : TRUE).expression.name
  BY DEF ComposeCaveat
<1>5. InForceCaveat(A) = IF in = {} THEN StoredCaveat
                         ELSE (CHOOSE row \in newest : TRUE).expression.name
  BY DEF InForceCaveat
<1>6. in \in SUBSET OverrideRows OBVIOUS
<1>7. in # {} => newest # {}
  <2> HIDE DEF in
  <2>1. ASSUME in # {} PROVE \E row \in in : \A r \in in : r.created <= row.created
    BY <1>6, <2>1, LastRowExists
  <2>2. \A r \in in : r.created \in Nat BY <1>6, RowsAreTyped, LimitsAssumption
  <2> QED BY <2>1, <2>2
<1>8. \A row \in in : row.expression.name \in DOMAIN Decides BY RowsAreTyped
<1> HIDE DEF in, recaveats, winners
<1>9. in # {} => (CHOOSE row \in newest : TRUE) \in in BY <1>7
<1>10. InForceCaveat(A) \in DOMAIN Decides BY <1>5, <1>8, <1>9, DecidesAssumption
<1>11. ComposeCaveat(A) = InForceCaveat(A) BY <1>1, <1>3, <1>4, <1>5
<1> QED BY <1>10, <1>11, DecidesAssumption

-----------------------------------------------------------------------------
(* What is meant by an expression, given what is meant by its parts.       *)

\* The values of the rows of some kinds that are aimed at a permission.
ValuesOf(value, A, p, kinds, n) ==
    {value[<<row.expression, n>>] : row \in {r \in A : r.target = p /\ r.kind \in kinds}}

LEMMA KleeneTypes ==
    /\ \A v : KNot(v) \in Truths
    /\ \A vs : KOr(vs) \in Truths /\ KAnd(vs) \in Truths
  BY DEF KNot, KOr, KAnd, Truths

LEMMA DenotedAtType ==
    ASSUME NEW A \in SUBSET OverrideRows, NEW f \in [Relations -> Presence], NEW x \in Nodes, NEW g
    PROVE DenotedAt(g, A, f, x) \in Truths
  BY KleeneTypes, CaveatsCompose DEF DenotedAt, Truths

LEMMA DenotedAtLooksLower ==
    ASSUME NEW A \in SUBSET OverrideRows, NEW f, NEW x \in Nodes, NEW g, NEW h,
           \A y \in Nodes : Rank[y] < Rank[x] => g[y] = h[y]
    PROVE DenotedAt(g, A, f, x) = DenotedAt(h, A, f, x)
<1>1. PICK e \in Expressions, n \in 0..Levels : x = <<e, n>> BY DEF Nodes
<1>2. CASE e.op \in {"+", "&", "-"}
  <2>1. g[<<e.left, n>>] = h[<<e.left, n>>] /\ g[<<e.right, n>>] = h[<<e.right, n>>]
    BY <1>1, <1>2, OperandsRankLower
  <2> QED BY <1>1, <1>2, <2>1 DEF DenotedAt
<1>3. CASE e.op = "ref" /\ e.name \in Permissions /\ n # 0
  <2>1. n > 0 BY <1>3, LevelsAreNumbers
  <2>2. \A y \in Expressions : g[<<y, n - 1>>] = h[<<y, n - 1>>]
    BY <1>1, <2>1, OperandsRankLower
  <2>3. ASSUME NEW p, NEW kinds PROVE ValuesOf(g, A, p, kinds, n - 1) = ValuesOf(h, A, p, kinds, n - 1)
    <3>1. \A r \in A : r.expression \in Expressions BY RowsAreTyped
    <3>2. \A r \in A : g[<<r.expression, n - 1>>] = h[<<r.expression, n - 1>>] BY <2>2, <3>1
    <3> QED BY <3>2 DEF ValuesOf
  <2>4. g[<<Baseline[e.name], n - 1>>] = h[<<Baseline[e.name], n - 1>>]
    BY <1>3, <2>2, ExpressionsAssumption
  <2>5. ASSUME NEW k
        PROVE DenotedAt(k, A, f, x) =
          KAnd({KOr({k[<<Baseline[e.name], n - 1>>]}
                      \cup ValuesOf(k, A, e.name, {"extend", "loosen"}, n - 1))}
               \cup {KNot(v) : v \in ValuesOf(k, A, e.name, {"disable"}, n - 1)}
               \cup ValuesOf(k, A, e.name, {"tighten"}, n - 1))
    BY <1>1, <1>3 DEF DenotedAt, ValuesOf
  <2> QED BY <2>3, <2>4, <2>5
<1>4. CASE ~(e.op \in {"+", "&", "-"}) /\ ~(e.op = "ref" /\ e.name \in Permissions /\ n # 0)
  BY <1>1, <1>4 DEF DenotedAt
<1> QED BY <1>2, <1>3, <1>4

\* The reference follows its step at every expression.
LEMMA DenotesUnfolds ==
    ASSUME NEW A \in SUBSET OverrideRows, NEW f \in [Relations -> Presence]
    PROVE /\ Denotes(A, f) \in [Nodes -> Truths]
          /\ \A x \in Nodes : Denotes(A, f)[x] = DenotedAt(Denotes(A, f), A, f, x)
<1> DEFINE S == [x \in Nodes |-> [g \in [Nodes -> Truths] |-> DenotedAt(g, A, f, x)]]
<1>1. S \in [Nodes -> [[Nodes -> Truths] -> Truths]] BY DenotedAtType
<1>2. \A x \in Nodes : \A g \in [Nodes -> Truths] : S[x][g] = DenotedAt(g, A, f, x) OBVIOUS
<1> HIDE DEF S
<1>3. LooksLower(S, Nodes, Truths, Rank)
  <2>1. ASSUME NEW x \in Nodes, NEW g \in [Nodes -> Truths], NEW h \in [Nodes -> Truths],
               \A y \in Nodes : Rank[y] < Rank[x] => g[y] = h[y]
        PROVE S[x][g] = S[x][h]
    <3>1. DenotedAt(g, A, f, x) = DenotedAt(h, A, f, x) BY <2>1, DenotedAtLooksLower
    <3> QED BY <1>2, <3>1
  <2> QED BY <1>1, <2>1 DEF LooksLower
<1>4. Truths # {} BY DEF Truths
<1>5. PICK g : FollowsSteps(g, S, Nodes, Truths)
  BY <1>3, <1>4, RanksAreNumbers, RecursionExists
<1>6. g = [x \in Nodes |-> DenotedAt(g, A, f, x)] BY <1>2, <1>5 DEF FollowsSteps
<1> DEFINE value[x \in Nodes] == DenotedAt(value, A, f, x)
<1>7. value = [x \in Nodes |-> DenotedAt(value, A, f, x)] BY <1>6
<1>8. Denotes(A, f) = value BY DEF Denotes
<1> HIDE DEF value
<1>9. \A x \in Nodes : value[x] = DenotedAt(value, A, f, x) BY <1>7
<1>10. value \in [Nodes -> Truths] BY <1>7, DenotedAtType
<1> QED BY <1>8, <1>9, <1>10

-----------------------------------------------------------------------------
(* The residual pass finds what is meant.                                  *)

\* What a composed permission consists of.
LEMMA BodiesAreComposed ==
    ASSUME NEW A \in SUBSET OverrideRows, NEW p \in Permissions
    PROVE LET body == ComposeTagged(A).permissions[p]
          IN /\ body.base = Baseline[p] /\ body.base \in Expressions
             /\ body.extends = {r \in A : r.target = p /\ r.kind \in {"extend", "loosen"}}
             /\ body.disables = {r \in A : r.target = p /\ r.kind \in {"disable"}}
             /\ body.tightens = {r \in A : r.target = p /\ r.kind \in {"tighten"}}
             /\ Operands(body) \subseteq Expressions
<1>1. ComposeTagged(A).permissions[p] = ComposePermission(A, p) BY DEF ComposeTagged
<1>2. \A r \in A : r.expression \in Expressions BY RowsAreTyped
<1>3. Baseline[p] \in Expressions BY ExpressionsAssumption
<1> QED BY <1>1, <1>2, <1>3 DEF ComposePermission, Aimed, Operands

LEMMA ValuesAreDenoted ==
    ASSUME NEW A \in SUBSET OverrideRows, NEW f \in [Relations -> Presence], NEW x \in Nodes, NEW g
    PROVE ValueAt(g, ComposeTagged(A), f, x) = DenotedAt(g, A, f, x)
<1>1. PICK e \in Expressions, n \in 0..Levels : x = <<e, n>> BY DEF Nodes
<1>2. CASE e.op = "ref" /\ e.name \in Permissions /\ n > 0
  <2> DEFINE p == e.name
             body == ComposeTagged(A).permissions[p]
  <2>1. p \in Permissions BY <1>2
  <2>2. /\ body.base = Baseline[p]
        /\ body.extends = {r \in A : r.target = p /\ r.kind \in {"extend", "loosen"}}
        /\ body.disables = {r \in A : r.target = p /\ r.kind \in {"disable"}}
        /\ body.tightens = {r \in A : r.target = p /\ r.kind \in {"tighten"}}
    BY <2>1, BodiesAreComposed
  <2>3. ValueAt(g, ComposeTagged(A), f, x) =
          KAnd({KOr({g[<<body.base, n - 1>>]}
                      \cup {g[<<row.expression, n - 1>>] : row \in body.extends})}
               \cup {KNot(v) : v \in {g[<<row.expression, n - 1>>] : row \in body.disables}}
               \cup {g[<<row.expression, n - 1>>] : row \in body.tightens})
    <3>1. e.name \notin Relations /\ e.op \notin {"+", "&", "-"} BY <1>2, NamesAssumption
    <3>2. x[1] = e /\ x[2] = n BY <1>1
    <3> HIDE DEF body
    <3> QED BY <1>2, <3>1, <3>2 DEF ValueAt, body
  <2>4. DenotedAt(g, A, f, x) =
          KAnd({KOr({g[<<Baseline[p], n - 1>>]}
                      \cup ValuesOf(g, A, p, {"extend", "loosen"}, n - 1))}
               \cup {KNot(v) : v \in ValuesOf(g, A, p, {"disable"}, n - 1)}
               \cup ValuesOf(g, A, p, {"tighten"}, n - 1))
    BY <1>1, <1>2, LevelsAreNumbers DEF DenotedAt, ValuesOf
  <2> HIDE DEF body
  <2> QED BY <2>2, <2>3, <2>4 DEF ValuesOf
<1>3. CASE e.op = "ref" /\ e.name \in Relations
  <2>1. e.name \notin Permissions BY <1>3, NamesAssumption
  <2>2. ComposeTagged(A).caveat = InForceCaveat(A) BY CaveatsCompose DEF ComposeTagged
  <2>3. f[e.name] \in {"none", "plain", "caveat"} BY <1>3 DEF Presence, Caveat
  <2> QED BY <1>1, <1>3, <2>1, <2>2, <2>3 DEF ValueAt, DenotedAt, Caveat, KOr
<1>4. CASE e.op # "ref" \/ (e.name \notin Relations /\ ~(e.name \in Permissions /\ n > 0))
  <2>1. n > 0 \/ n = 0 BY LevelsAreNumbers
  <2> QED BY <1>1, <1>4, <2>1 DEF ValueAt, DenotedAt, KOr
<1> QED BY <1>2, <1>3, <1>4

\* The residual pass over some rows computes the reference over the same rows.
LEMMA ResidualIsExact ==
    ASSUME NEW A \in SUBSET OverrideRows, NEW f \in [Relations -> Presence], NEW x \in Nodes
    PROVE ValueOf(ComposeTagged(A), f)[x] = Denotes(A, f)[x]
<1> DEFINE s == ComposeTagged(A)
           d == Denotes(A, f)
           value[y \in Nodes] == ValueAt(value, s, f, y)
           X == {y \in Nodes : value[y] = d[y]}
<1>1. d \in [Nodes -> Truths] /\ \A y \in Nodes : d[y] = DenotedAt(d, A, f, y) BY DenotesUnfolds
<1>2. \A g, y : y \in Nodes => ValueAt(g, s, f, y) = DenotedAt(g, A, f, y) BY ValuesAreDenoted
<1> HIDE DEF s, d
<1>3. \A y \in Nodes : d[y] = ValueAt(d, s, f, y) BY <1>1, <1>2
<1>4. d = [y \in Nodes |-> ValueAt(d, s, f, y)] BY <1>1, <1>3
<1>5. value = [y \in Nodes |-> ValueAt(value, s, f, y)] BY <1>4
<1>6. ValueOf(s, f) = value BY DEF ValueOf
<1> HIDE DEF value
<1>7. \A y \in Nodes : value[y] = DenotedAt(value, A, f, y) BY <1>2, <1>5
<1>8. ASSUME NEW y \in Nodes, \A c \in Nodes : Rank[c] < Rank[y] => c \in X PROVE y \in X
  <2>1. \A c \in Nodes : Rank[c] < Rank[y] => value[c] = d[c] BY <1>8
  <2>2. DenotedAt(value, A, f, y) = DenotedAt(d, A, f, y) BY <2>1, DenotedAtLooksLower
  <2> QED BY <1>1, <1>7, <2>2
<1> HIDE DEF X
<1>9. \A y \in Nodes : y \in X BY <1>8, RanksAreNumbers, RankInduction
<1>10. value[x] = d[x] BY <1>9 DEF X
<1> QED BY <1>6, <1>10 DEF s, d

-----------------------------------------------------------------------------
(* The bounds are exact: the lower one is "certainly", the upper one is    *)
(* "possibly".                                                             *)

Certainly(v) == v = "true"
Possibly(v) == v # "false"

LEMMA KleeneBounds ==
    ASSUME NEW u \in Truths, NEW v \in Truths
    PROVE /\ Certainly(KOr({u, v})) <=> Certainly(u) \/ Certainly(v)
          /\ Possibly(KOr({u, v})) <=> Possibly(u) \/ Possibly(v)
          /\ Certainly(KAnd({u, v})) <=> Certainly(u) /\ Certainly(v)
          /\ Possibly(KAnd({u, v})) <=> Possibly(u) /\ Possibly(v)
          /\ Certainly(KAnd({u, KNot(v)})) <=> Certainly(u) /\ ~Possibly(v)
          /\ Possibly(KAnd({u, KNot(v)})) <=> Possibly(u) /\ ~Certainly(v)
  BY DEF Truths, KOr, KAnd, KNot, Certainly, Possibly

\* A composed permission, from the values of its parts.
Granting(b, X, Y, Z) == KAnd({KOr({b} \cup X)} \cup {KNot(v) : v \in Y} \cup Z)

LEMMA GrantingBounds ==
    ASSUME NEW b \in Truths, NEW X \in SUBSET Truths, NEW Y \in SUBSET Truths,
           NEW Z \in SUBSET Truths
    PROVE /\ Certainly(Granting(b, X, Y, Z)) <=>
               /\ Certainly(b) \/ \E v \in X : Certainly(v)
               /\ \A v \in Y : ~Possibly(v)
               /\ \A v \in Z : Certainly(v)
          /\ Possibly(Granting(b, X, Y, Z)) <=>
               /\ Possibly(b) \/ \E v \in X : Possibly(v)
               /\ \A v \in Y : ~Certainly(v)
               /\ \A v \in Z : Possibly(v)
<1> DEFINE or == KOr({b} \cup X)
           nots == {KNot(v) : v \in Y}
           all == {or} \cup nots \cup Z
<1>1. or \in Truths BY KleeneTypes
<1>2. /\ or = "true" <=> b = "true" \/ "true" \in X
      /\ or = "unknown" => b = "unknown" \/ "unknown" \in X
      /\ or = "false" => b = "false" /\ X \subseteq {"false"}
  BY DEF KOr, Truths
<1>3. /\ "false" \in nots <=> "true" \in Y
      /\ "unknown" \in nots <=> "unknown" \in Y
  BY DEF KNot, Truths
<1> HIDE DEF or, nots
<1>4. /\ KAnd(all) = "true" <=> "false" \notin all /\ "unknown" \notin all
      /\ KAnd(all) # "false" <=> "false" \notin all
  BY DEF KAnd
<1>5. "false" \in all <=> or = "false" \/ "true" \in Y \/ "false" \in Z BY <1>3
<1>6. "unknown" \in all <=> or = "unknown" \/ "unknown" \in Y \/ "unknown" \in Z BY <1>3
<1> HIDE DEF all
<1>7. Granting(b, X, Y, Z) = KAnd(all) BY DEF Granting, all, or, nots
<1>8. KAnd(all) = "true" <=>
        /\ b = "true" \/ "true" \in X
        /\ \A v \in Y : v = "false"
        /\ \A v \in Z : v = "true"
  BY <1>1, <1>2, <1>4, <1>5, <1>6 DEF Truths
<1>9. KAnd(all) # "false" <=>
        /\ b # "false" \/ \E v \in X : v # "false"
        /\ \A v \in Y : v # "true"
        /\ \A v \in Z : v # "false"
  BY <1>1, <1>2, <1>4, <1>5 DEF Truths
<1> QED BY <1>7, <1>8, <1>9 DEF Certainly, Possibly

\* What a reference to a permission denotes, by the rows in force.
LEMMA DenotedPermission ==
    ASSUME NEW A \in SUBSET OverrideRows, NEW f, NEW e \in Expressions, NEW n \in 0..Levels, n > 0,
           e.op = "ref", e.name \in Permissions, NEW g
    PROVE DenotedAt(g, A, f, <<e, n>>) =
            Granting(g[<<Baseline[e.name], n - 1>>],
                     ValuesOf(g, A, e.name, {"extend", "loosen"}, n - 1),
                     ValuesOf(g, A, e.name, {"disable"}, n - 1),
                     ValuesOf(g, A, e.name, {"tighten"}, n - 1))
  BY LevelsAreNumbers DEF DenotedAt, ValuesOf, Granting

LEMMA ValuesOfType ==
    ASSUME NEW A \in SUBSET OverrideRows, NEW g \in [Nodes -> Truths], NEW p, NEW kinds,
           NEW n \in 0..Levels
    PROVE ValuesOf(g, A, p, kinds, n) \in SUBSET Truths
<1>1. \A r \in A : <<r.expression, n>> \in Nodes BY RowsAreTyped, OperandsRankLower
<1> QED BY <1>1 DEF ValuesOf

\* Of whatever a step looks at, the rank is lower.
LEMMA SidesRankLower ==
    ASSUME NEW x \in Nodes, NEW y \in Nodes, NEW b \in Bounds, NEW c \in Bounds,
           Rank[y] < Rank[x]
    PROVE <<y, c>> \in Nodes \X Bounds /\ SidedRank[<<y, c>>] < SidedRank[<<x, b>>]
  BY DEF SidedRank

LEMMA BoundsAreOpposite == \A b \in Bounds : Opposite(b) \in Bounds
  BY DEF Opposite, Bounds

LEMMA HoldsAtLooksLower ==
    ASSUME NEW R \in SUBSET OverrideRows, NEW f, NEW t, NEW x \in Nodes, NEW b \in Bounds, NEW g, NEW h,
           \A y \in Nodes \X Bounds : SidedRank[y] < SidedRank[<<x, b>>] => g[y] = h[y]
    PROVE HoldsAt(g, ComposeTagged(R), f, t, <<x, b>>) <=> HoldsAt(h, ComposeTagged(R), f, t, <<x, b>>)
<1>1. PICK e \in Expressions, n \in 0..Levels : x = <<e, n>> BY DEF Nodes
<1>2. \A y \in Nodes : \A c \in Bounds : Rank[y] < Rank[x] => g[<<y, c>>] = h[<<y, c>>]
  BY SidesRankLower
<1>3. CASE e.op \in {"+", "&", "-"}
  <2>1. \A c \in Bounds : /\ g[<<<<e.left, n>>, c>>] = h[<<<<e.left, n>>, c>>]
                          /\ g[<<<<e.right, n>>, c>>] = h[<<<<e.right, n>>, c>>]
    BY <1>1, <1>2, <1>3, OperandsRankLower
  <2> QED BY <1>1, <1>3, <2>1, BoundsAreOpposite DEF HoldsAt
<1>4. CASE e.op = "ref" /\ e.name \in Permissions /\ n > 0
  <2> DEFINE body == ComposeTagged(R).permissions[e.name]
  <2>1. \A y \in Expressions : \A c \in Bounds :
           g[<<<<y, n - 1>>, c>>] = h[<<<<y, n - 1>>, c>>]
    BY <1>1, <1>2, <1>4, OperandsRankLower
  <2>2. /\ body.base \in Expressions /\ body.extends \subseteq R /\ body.disables \subseteq R
        /\ body.tightens \subseteq R
    BY <1>4, BodiesAreComposed
  <2>3. \A r \in R : r.expression \in Expressions BY RowsAreTyped
  <2> HIDE DEF body
  <2>4. ASSUME NEW k
        PROVE HoldsAt(k, ComposeTagged(R), f, t, <<x, b>>) <=>
                \/ e.name = "authenticated"
                \/ e.name \in Relations /\ Admitted(f[e.name], Decides[ComposeTagged(R).caveat], b)
                \/ /\ \/ k[<<<<body.base, n - 1>>, b>>]
                      \/ \E row \in body.extends :
                            k[<<<<row.expression, n - 1>>, b>>] /\ Arm(row, t)
                   /\ \A row \in body.disables :
                         Site(row, t) => ~k[<<<<row.expression, n - 1>>, Opposite(b)>>]
                   /\ \A row \in body.tightens :
                         Site(row, t) => k[<<<<row.expression, n - 1>>, b>>]
    BY <1>1, <1>4 DEF HoldsAt, body
  <2>5. g[<<<<body.base, n - 1>>, b>>] = h[<<<<body.base, n - 1>>, b>>] BY <2>1, <2>2
  <2>6. \A r \in R : \A c \in Bounds :
           g[<<<<r.expression, n - 1>>, c>>] = h[<<<<r.expression, n - 1>>, c>>]
    BY <2>1, <2>3
  <2>7. \A r \in body.extends \cup body.disables \cup body.tightens :
           /\ g[<<<<r.expression, n - 1>>, b>>] = h[<<<<r.expression, n - 1>>, b>>]
           /\ g[<<<<r.expression, n - 1>>, Opposite(b)>>] = h[<<<<r.expression, n - 1>>, Opposite(b)>>]
    BY <2>2, <2>6, BoundsAreOpposite
  <2> QED BY <2>4, <2>5, <2>7
<1>5. CASE ~(e.op \in {"+", "&", "-"}) /\ ~(e.op = "ref" /\ e.name \in Permissions /\ n > 0)
  BY <1>1, <1>5 DEF HoldsAt
<1> QED BY <1>3, <1>4, <1>5

\* The predicate follows its step at every expression.
LEMMA CompiledUnfolds ==
    ASSUME NEW R \in SUBSET OverrideRows, NEW f, NEW t, NEW x \in Nodes, NEW b \in Bounds
    PROVE LET c == Compiled(ComposeTagged(R), f, t)
          IN c[<<x, b>>] <=> HoldsAt(c, ComposeTagged(R), f, t, <<x, b>>)
<1> DEFINE D == Nodes \X Bounds
           s == ComposeTagged(R)
           S == [y \in D |-> [g \in [D -> BOOLEAN] |-> IF HoldsAt(g, s, f, t, y) THEN TRUE ELSE FALSE]]
           holds[y \in D] == HoldsAt(holds, s, f, t, y)
<1>1. \A y \in D : \A g \in [D -> BOOLEAN] :
         S[y][g] = IF HoldsAt(g, s, f, t, y) THEN TRUE ELSE FALSE
  OBVIOUS
<1>2. S \in [D -> [[D -> BOOLEAN] -> BOOLEAN]] OBVIOUS
<1> HIDE DEF S
<1>3. LooksLower(S, D, BOOLEAN, SidedRank)
  <2>1. ASSUME NEW y \in D, NEW g \in [D -> BOOLEAN], NEW h \in [D -> BOOLEAN],
               \A z \in D : SidedRank[z] < SidedRank[y] => g[z] = h[z]
        PROVE S[y][g] = S[y][h]
    <3>1. PICK z \in Nodes, c \in Bounds : y = <<z, c>> OBVIOUS
    <3>2. HoldsAt(g, s, f, t, y) <=> HoldsAt(h, s, f, t, y) BY <2>1, <3>1, HoldsAtLooksLower
    <3> QED BY <1>1, <3>2
  <2> QED BY <1>2, <2>1 DEF LooksLower
<1>4. PICK g : FollowsSteps(g, S, D, BOOLEAN)
  BY <1>3, RanksAreNumbers, RecursionExists
<1> HIDE DEF s
<1>5. \A y \in D : g[y] = HoldsAt(g, s, f, t, y) BY <1>1, <1>4 DEF FollowsSteps, HoldsAt
<1>6. g = [y \in D |-> HoldsAt(g, s, f, t, y)] BY <1>4, <1>5 DEF FollowsSteps
<1>7. holds = [y \in D |-> HoldsAt(holds, s, f, t, y)] BY <1>6
<1>8. Compiled(s, f, t) = holds BY DEF Compiled
<1> HIDE DEF holds
<1>9. <<x, b>> \in D OBVIOUS
<1>10. holds[<<x, b>>] <=> HoldsAt(holds, s, f, t, <<x, b>>) BY <1>7, <1>9
<1> QED BY <1>8, <1>10 DEF s

\* The rows a statement is compiled from are, at an instant, those in force:
\* the same caveat, and of the rows of permissions those whose tags count.
Stands(R, B, t) ==
    /\ ComposeCaveat(R) = InForceCaveat(B)
    /\ \A r \in R : r.kind # "recaveat" /\ t < r.expires => r \in B
    /\ \A r \in B : r.kind # "recaveat" => r \in R /\ t < r.expires

\* The bounds of an expression, given those of the ones it rests on.
BoundsFit(c, d, x) ==
    /\ c[<<x, "lower">>] <=> Certainly(d[x])
    /\ c[<<x, "upper">>] <=> Possibly(d[x])

\* Bounds and values of some rows.
BoundTogether(aimed, vs, c, n, t) ==
    /\ (\E r \in aimed : c[<<<<r.expression, n>>, "lower">>] /\ Arm(r, t))
         <=> \E v \in vs : Certainly(v)
    /\ (\E r \in aimed : c[<<<<r.expression, n>>, "upper">>] /\ Arm(r, t))
         <=> \E v \in vs : Possibly(v)
    /\ (\A r \in aimed : Site(r, t) => ~c[<<<<r.expression, n>>, "lower">>])
         <=> \A v \in vs : ~Certainly(v)
    /\ (\A r \in aimed : Site(r, t) => ~c[<<<<r.expression, n>>, "upper">>])
         <=> \A v \in vs : ~Possibly(v)
    /\ (\A r \in aimed : Site(r, t) => c[<<<<r.expression, n>>, "lower">>])
         <=> \A v \in vs : Certainly(v)
    /\ (\A r \in aimed : Site(r, t) => c[<<<<r.expression, n>>, "upper">>])
         <=> \A v \in vs : Possibly(v)

LEMMA RowsAreExact ==
    ASSUME NEW R \in SUBSET OverrideRows, NEW B \in SUBSET OverrideRows, NEW t, Stands(R, B, t),
           NEW p, NEW kinds, "recaveat" \notin kinds, NEW n \in 0..Levels, NEW c,
           NEW d \in [Nodes -> Truths], \A y \in Expressions : BoundsFit(c, d, <<y, n>>)
    PROVE BoundTogether({r \in R : r.target = p /\ r.kind \in kinds},
                        ValuesOf(d, B, p, kinds, n), c, n, t)
<1> DEFINE aimed == {r \in R : r.target = p /\ r.kind \in kinds}
           bound == {r \in B : r.target = p /\ r.kind \in kinds}
           vs == ValuesOf(d, B, p, kinds, n)
<1>1. \A r \in R \cup B : BoundsFit(c, d, <<r.expression, n>>) BY RowsAreTyped
<1>2. \A r : r \in bound <=> r \in aimed /\ t < r.expires BY DEF Stands
<1>3. \A r \in aimed : r \in R OBVIOUS
<1>4. /\ \A r \in bound : d[<<r.expression, n>>] \in vs
      /\ \A v \in vs : \E r \in bound : v = d[<<r.expression, n>>]
  BY DEF ValuesOf
<1> HIDE DEF aimed, bound, vs
<1>5. \A r \in aimed : BoundsFit(c, d, <<r.expression, n>>) BY <1>1, <1>3
<1>6. /\ \A r \in aimed : (c[<<<<r.expression, n>>, "lower">>] <=> Certainly(d[<<r.expression, n>>]))
      /\ \A r \in aimed : (c[<<<<r.expression, n>>, "upper">>] <=> Possibly(d[<<r.expression, n>>]))
  BY <1>5 DEF BoundsFit
<1>7. \A r \in aimed : (Arm(r, t) <=> r \in bound) /\ (Site(r, t) <=> r \in bound)
  BY <1>2 DEF Arm, Site
<1>8. \A r \in bound : r \in aimed BY <1>2
<1>9. (\E r \in aimed : c[<<<<r.expression, n>>, "lower">>] /\ Arm(r, t)) <=> \E v \in vs : Certainly(v)
  BY <1>4, <1>6, <1>7, <1>8
<1>10. (\E r \in aimed : c[<<<<r.expression, n>>, "upper">>] /\ Arm(r, t)) <=> \E v \in vs : Possibly(v)
  BY <1>4, <1>6, <1>7, <1>8
<1>11. (\A r \in aimed : Site(r, t) => ~c[<<<<r.expression, n>>, "lower">>])
          <=> \A v \in vs : ~Certainly(v)
  BY <1>4, <1>6, <1>7, <1>8
<1>12. (\A r \in aimed : Site(r, t) => ~c[<<<<r.expression, n>>, "upper">>])
          <=> \A v \in vs : ~Possibly(v)
  BY <1>4, <1>6, <1>7, <1>8
<1>13. (\A r \in aimed : Site(r, t) => c[<<<<r.expression, n>>, "lower">>])
          <=> \A v \in vs : Certainly(v)
  BY <1>4, <1>6, <1>7, <1>8
<1>14. (\A r \in aimed : Site(r, t) => c[<<<<r.expression, n>>, "upper">>])
          <=> \A v \in vs : Possibly(v)
  BY <1>4, <1>6, <1>7, <1>8
<1>15. BoundTogether(aimed, vs, c, n, t)
  BY <1>9, <1>10, <1>11, <1>12, <1>13, <1>14 DEF BoundTogether
<1> QED BY <1>15 DEF aimed, vs

\* A reference to a permission is bounded exactly when what is written in it is.
LEMMA PermissionsAreExact ==
    ASSUME NEW R \in SUBSET OverrideRows, NEW B \in SUBSET OverrideRows, NEW t, Stands(R, B, t),
           NEW f \in [Relations -> Presence], NEW e \in Expressions, NEW n \in 0..Levels,
           n > 0, e.op = "ref", e.name \in Permissions,
           NEW c, NEW d \in [Nodes -> Truths],
           d[<<e, n>>] = DenotedAt(d, B, f, <<e, n>>),
           \A b \in Bounds : c[<<<<e, n>>, b>>] <=> HoldsAt(c, ComposeTagged(R), f, t, <<<<e, n>>, b>>),
           \A y \in Expressions : BoundsFit(c, d, <<y, n - 1>>)
    PROVE BoundsFit(c, d, <<e, n>>)
<1> DEFINE p == e.name
           m == n - 1
           body == ComposeTagged(R).permissions[p]
           base == d[<<Baseline[p], m>>]
           X == ValuesOf(d, B, p, {"extend", "loosen"}, m)
           Y == ValuesOf(d, B, p, {"disable"}, m)
           Z == ValuesOf(d, B, p, {"tighten"}, m)
<1>1. m \in 0..Levels BY LevelsAreNumbers
<1>2. /\ body.base = Baseline[p] /\ body.base \in Expressions
      /\ body.extends = {r \in R : r.target = p /\ r.kind \in {"extend", "loosen"}}
      /\ body.disables = {r \in R : r.target = p /\ r.kind \in {"disable"}}
      /\ body.tightens = {r \in R : r.target = p /\ r.kind \in {"tighten"}}
  BY BodiesAreComposed
<1>3. base \in Truths /\ X \in SUBSET Truths /\ Y \in SUBSET Truths /\ Z \in SUBSET Truths
  BY <1>1, ValuesOfType, ExpressionsAssumption, OperandsRankLower
<1>4. d[<<e, n>>] = Granting(base, X, Y, Z) BY DenotedPermission
<1>5. e.name # "authenticated" /\ e.name \notin Relations BY NamesAssumption
<1>6. \A b \in Bounds : c[<<<<e, n>>, b>>] <=>
         /\ \/ c[<<<<body.base, m>>, b>>]
            \/ \E row \in body.extends : c[<<<<row.expression, m>>, b>>] /\ Arm(row, t)
         /\ \A row \in body.disables :
               Site(row, t) => ~c[<<<<row.expression, m>>, Opposite(b)>>]
         /\ \A row \in body.tightens : Site(row, t) => c[<<<<row.expression, m>>, b>>]
  BY <1>5 DEF HoldsAt
<1>7. Opposite("lower") = "upper" /\ Opposite("upper") = "lower" /\ Bounds = {"lower", "upper"}
  BY DEF Opposite, Bounds
<1>8. BoundsFit(c, d, <<body.base, m>>) BY <1>2
<1>9. /\ c[<<<<body.base, m>>, "lower">>] <=> Certainly(base)
      /\ c[<<<<body.base, m>>, "upper">>] <=> Possibly(base)
  BY <1>2, <1>8 DEF BoundsFit
<1>10. \A y \in Expressions : BoundsFit(c, d, <<y, m>>) OBVIOUS
<1> HIDE DEF m
<1>11. /\ BoundTogether(body.extends, X, c, m, t)
       /\ BoundTogether(body.disables, Y, c, m, t)
       /\ BoundTogether(body.tightens, Z, c, m, t)
  <2> DEFINE aimed(kinds) == {r \in R : r.target = p /\ r.kind \in kinds}
  <2>1. \A kinds : "recaveat" \notin kinds =>
           BoundTogether(aimed(kinds), ValuesOf(d, B, p, kinds, m), c, m, t)
    BY <1>1, <1>10, RowsAreExact
  <2>2. /\ body.extends = aimed({"extend", "loosen"}) /\ body.disables = aimed({"disable"})
        /\ body.tightens = aimed({"tighten"})
    BY <1>2
  <2> HIDE DEF aimed, body
  <2> QED BY <2>1, <2>2
<1> HIDE DEF body, X, Y, Z, base
<1>12. /\ Certainly(Granting(base, X, Y, Z)) <=>
            /\ Certainly(base) \/ \E v \in X : Certainly(v)
            /\ \A v \in Y : ~Possibly(v)
            /\ \A v \in Z : Certainly(v)
       /\ Possibly(Granting(base, X, Y, Z)) <=>
            /\ Possibly(base) \/ \E v \in X : Possibly(v)
            /\ \A v \in Y : ~Certainly(v)
            /\ \A v \in Z : Possibly(v)
  BY <1>3, GrantingBounds
<1>13. c[<<<<e, n>>, "lower">>] <=> Certainly(Granting(base, X, Y, Z))
  <2>1. c[<<<<e, n>>, "lower">>] <=>
         /\ \/ c[<<<<body.base, m>>, "lower">>]
            \/ \E row \in body.extends : c[<<<<row.expression, m>>, "lower">>] /\ Arm(row, t)
         /\ \A row \in body.disables : Site(row, t) => ~c[<<<<row.expression, m>>, "upper">>]
         /\ \A row \in body.tightens : Site(row, t) => c[<<<<row.expression, m>>, "lower">>]
    BY <1>6, <1>7
  <2> QED BY <1>9, <1>11, <1>12, <2>1 DEF BoundTogether
<1>14. c[<<<<e, n>>, "upper">>] <=> Possibly(Granting(base, X, Y, Z))
  <2>1. c[<<<<e, n>>, "upper">>] <=>
         /\ \/ c[<<<<body.base, m>>, "upper">>]
            \/ \E row \in body.extends : c[<<<<row.expression, m>>, "upper">>] /\ Arm(row, t)
         /\ \A row \in body.disables : Site(row, t) => ~c[<<<<row.expression, m>>, "lower">>]
         /\ \A row \in body.tightens : Site(row, t) => c[<<<<row.expression, m>>, "upper">>]
    BY <1>6, <1>7
  <2> QED BY <1>9, <1>11, <1>12, <2>1 DEF BoundTogether
<1> QED BY <1>4, <1>13, <1>14 DEF BoundsFit

\* What is compiled from rows that stand for those in force is exact in both
\* bounds, at every expression.
LEMMA BoundsAreExact ==
    ASSUME NEW R \in SUBSET OverrideRows, NEW B \in SUBSET OverrideRows, NEW t, Stands(R, B, t),
           NEW f \in [Relations -> Presence], NEW x \in Nodes
    PROVE BoundsFit(Compiled(ComposeTagged(R), f, t), Denotes(B, f), x)
<1> DEFINE s == ComposeTagged(R)
           c == Compiled(s, f, t)
           d == Denotes(B, f)
           X == {y \in Nodes : BoundsFit(c, d, y)}
<1>1. \A y \in Nodes : \A b \in Bounds : c[<<y, b>>] <=> HoldsAt(c, s, f, t, <<y, b>>)
  BY CompiledUnfolds
<1>2. d \in [Nodes -> Truths] /\ \A y \in Nodes : d[y] = DenotedAt(d, B, f, y) BY DenotesUnfolds
<1>3. s.caveat = InForceCaveat(B) BY DEF ComposeTagged, Stands
<1>4. "lower" \in Bounds /\ "upper" \in Bounds /\ Opposite("lower") = "upper"
      /\ Opposite("upper") = "lower"
  BY DEF Bounds, Opposite
<1> HIDE DEF c, d
<1>5. ASSUME NEW y \in Nodes, \A z \in Nodes : Rank[z] < Rank[y] => BoundsFit(c, d, z)
      PROVE BoundsFit(c, d, y)
  <2>1. PICK e \in Expressions, n \in 0..Levels : y = <<e, n>> BY DEF Nodes
  <2>2. /\ c[<<y, "lower">>] <=> HoldsAt(c, s, f, t, <<y, "lower">>)
        /\ c[<<y, "upper">>] <=> HoldsAt(c, s, f, t, <<y, "upper">>)
        /\ d[y] = DenotedAt(d, B, f, y)
    BY <1>1, <1>2, <1>4
  <2>3. CASE e.op \in {"+", "&", "-"}
    <3>1. /\ <<e.left, n>> \in Nodes /\ <<e.right, n>> \in Nodes
          /\ BoundsFit(c, d, <<e.left, n>>) /\ BoundsFit(c, d, <<e.right, n>>)
      BY <1>5, <2>1, <2>3, OperandsRankLower
    <3> DEFINE u == d[<<e.left, n>>]
               v == d[<<e.right, n>>]
    <3>2. u \in Truths /\ v \in Truths BY <1>2, <3>1
    <3>3. /\ c[<<<<e.left, n>>, "lower">>] <=> Certainly(u)
          /\ c[<<<<e.left, n>>, "upper">>] <=> Possibly(u)
          /\ c[<<<<e.right, n>>, "lower">>] <=> Certainly(v)
          /\ c[<<<<e.right, n>>, "upper">>] <=> Possibly(v)
      BY <3>1 DEF BoundsFit
    <3>4. /\ Certainly(KOr({u, v})) <=> Certainly(u) \/ Certainly(v)
          /\ Possibly(KOr({u, v})) <=> Possibly(u) \/ Possibly(v)
          /\ Certainly(KAnd({u, v})) <=> Certainly(u) /\ Certainly(v)
          /\ Possibly(KAnd({u, v})) <=> Possibly(u) /\ Possibly(v)
          /\ Certainly(KAnd({u, KNot(v)})) <=> Certainly(u) /\ ~Possibly(v)
          /\ Possibly(KAnd({u, KNot(v)})) <=> Possibly(u) /\ ~Certainly(v)
      BY <3>2, KleeneBounds
    <3>5. d[y] = IF e.op = "+" THEN KOr({u, v})
                 ELSE IF e.op = "-" THEN KAnd({u, KNot(v)}) ELSE KAnd({u, v})
      BY <2>1, <2>2, <2>3 DEF DenotedAt
    <3>6. \A b \in Bounds : HoldsAt(c, s, f, t, <<y, b>>) <=>
             \/ e.op = "+" /\ (c[<<<<e.left, n>>, b>>] \/ c[<<<<e.right, n>>, b>>])
             \/ e.op = "&" /\ c[<<<<e.left, n>>, b>>] /\ c[<<<<e.right, n>>, b>>]
             \/ e.op = "-" /\ c[<<<<e.left, n>>, b>>] /\ ~c[<<<<e.right, n>>, Opposite(b)>>]
      BY <2>1, <2>3 DEF HoldsAt
    <3> HIDE DEF u, v, s
    <3>7. /\ c[<<y, "lower">>] <=>
               \/ e.op = "+" /\ (Certainly(u) \/ Certainly(v))
               \/ e.op = "&" /\ Certainly(u) /\ Certainly(v)
               \/ e.op = "-" /\ Certainly(u) /\ ~Possibly(v)
          /\ c[<<y, "upper">>] <=>
               \/ e.op = "+" /\ (Possibly(u) \/ Possibly(v))
               \/ e.op = "&" /\ Possibly(u) /\ Possibly(v)
               \/ e.op = "-" /\ Possibly(u) /\ ~Certainly(v)
      BY <1>4, <2>2, <3>3, <3>6
    <3>8. CASE e.op = "+" BY <3>4, <3>5, <3>7, <3>8 DEF BoundsFit
    <3>9. CASE e.op = "&" BY <3>4, <3>5, <3>7, <3>9 DEF BoundsFit
    <3>10. CASE e.op = "-" BY <3>4, <3>5, <3>7, <3>10 DEF BoundsFit
    <3> QED BY <2>3, <3>8, <3>9, <3>10
  <2>4. CASE e.op = "ref" /\ e.name \in Permissions /\ n > 0
    <3>1. \A z \in Expressions : BoundsFit(c, d, <<z, n - 1>>)
      BY <1>5, <2>1, <2>4, OperandsRankLower
    <3>2. \A b \in Bounds : c[<<<<e, n>>, b>>] <=> HoldsAt(c, s, f, t, <<<<e, n>>, b>>)
      BY <1>1, <2>1
    <3>3. d[<<e, n>>] = DenotedAt(d, B, f, <<e, n>>) BY <2>1, <2>2
    <3>4. BoundsFit(c, d, <<e, n>>) BY <1>2, <2>4, <3>1, <3>2, <3>3, PermissionsAreExact
    <3> QED BY <2>1, <3>4
  <2>5. CASE e.op = "ref" /\ e.name \in Relations
    <3>1. e.name \notin Permissions /\ e.name # "authenticated" BY <2>5, NamesAssumption
    <3>2. f[e.name] \in {"none", "plain", "caveat"} BY <2>5 DEF Presence, Caveat
    <3> DEFINE verdict == Decides[InForceCaveat(B)]
    <3>3. verdict \in Truths BY CaveatsCompose
    <3>4. d[y] = IF f[e.name] = "caveat" THEN verdict
                 ELSE IF f[e.name] = "plain" THEN "true" ELSE "false"
      BY <2>1, <2>2, <2>5, <3>1, <3>2 DEF DenotedAt, KOr, Caveat
    <3>5. \A b \in Bounds : HoldsAt(c, s, f, t, <<y, b>>) <=> Admitted(f[e.name], verdict, b)
      BY <1>3, <2>1, <2>5, <3>1 DEF HoldsAt
    <3> HIDE DEF verdict
    <3>6. c[<<y, "lower">>] <=> d[y] = "true"
      BY <1>4, <2>2, <3>2, <3>4, <3>5 DEF Admitted, Caveat
    <3>7. c[<<y, "upper">>] <=> d[y] # "false"
      BY <1>4, <2>2, <3>2, <3>4, <3>5 DEF Admitted, Caveat
    <3> QED BY <3>6, <3>7 DEF BoundsFit, Certainly, Possibly
  <2>6. CASE e.op = "ref" /\ e.name = "authenticated"
    <3>1. e.name \notin Permissions /\ e.name \notin Relations BY <2>6, NamesAssumption
    <3>2. d[y] = "true" BY <2>1, <2>2, <2>6, <3>1 DEF DenotedAt, KOr
    <3>3. \A b \in Bounds : HoldsAt(c, s, f, t, <<y, b>>) BY <2>1, <2>6 DEF HoldsAt
    <3> QED BY <1>4, <2>2, <3>2, <3>3 DEF BoundsFit, Certainly, Possibly
  <2>7. CASE /\ e.op \notin {"+", "&", "-"}
             /\ ~(e.op = "ref" /\ e.name \in Permissions /\ n > 0)
             /\ ~(e.op = "ref" /\ e.name \in Relations)
             /\ ~(e.op = "ref" /\ e.name = "authenticated")
    <3>1. n > 0 \/ n = 0 BY LevelsAreNumbers
    <3>2. d[y] = "false" BY <2>1, <2>2, <2>7, <3>1 DEF DenotedAt, KOr
    <3>3. \A b \in Bounds : ~HoldsAt(c, s, f, t, <<y, b>>) BY <2>1, <2>7 DEF HoldsAt
    <3> QED BY <1>4, <2>2, <3>2, <3>3 DEF BoundsFit, Certainly, Possibly
  <2> QED BY <2>3, <2>4, <2>5, <2>6, <2>7
<1>6. \A y \in Nodes : (\A z \in Nodes : Rank[z] < Rank[y] => z \in X) => y \in X
  BY <1>5
<1> HIDE DEF X
<1>7. \A y \in Nodes : y \in X BY <1>6, RanksAreNumbers, RankInduction
<1> QED BY <1>7 DEF X, c, d

-----------------------------------------------------------------------------
(* The fence keeps a statement to the rows it was compiled for.            *)

\* While no deadline that lay ahead has passed, the same rows are in force.
LEMMA SameRowsInForce ==
    ASSUME NEW rs \in SUBSET OverrideRows, NEW a \in Times, NEW t \in Times, a <= t,
           \A d \in Deadlines(InForce(rs, a)) : t < d
    PROVE InForce(rs, t) = InForce(rs, a)
<1>1. a \in Nat /\ t \in Nat /\ t <= MaxTime BY LimitsAssumption DEF Times
<1>2. \A r \in rs : r.expires \in Nat BY RowsAreTyped
<1>3. ASSUME NEW r \in InForce(rs, a) PROVE r \in InForce(rs, t)
  <2>1. r \in Unstale(rs) /\ r.expires > a /\ r \in rs BY <1>3 DEF InForce, ActiveAt, Unstale
  <2>2. CASE r.expires = Never
    BY <1>1, <1>2, <2>1, <2>2, LimitsAssumption DEF InForce, ActiveAt
  <2>3. CASE r.expires # Never
    <3>1. r.expires \in Deadlines(InForce(rs, a)) BY <1>3, <2>3 DEF Deadlines
    <3> QED BY <1>1, <1>2, <2>1, <3>1 DEF InForce, ActiveAt
  <2> QED BY <2>2, <2>3
<1>4. ASSUME NEW r \in InForce(rs, t) PROVE r \in InForce(rs, a)
  <2>1. r \in Unstale(rs) /\ r.expires > t /\ r \in rs BY <1>4 DEF InForce, ActiveAt, Unstale
  <2> QED BY <1>1, <1>2, <2>1 DEF InForce, ActiveAt
<1> QED BY <1>3, <1>4

LEMMA RowsOfPolicies ==
    ASSUME NEW rs \in SUBSET OverrideRows, NEW t
    PROVE InForce(rs, t) \in SUBSET OverrideRows /\ InStatement(rs, t) \in SUBSET OverrideRows
          /\ Unstale(Active(rs, t)) = InForce(rs, t) /\ Active(Unstale(rs), t) = InForce(rs, t)
  BY DEF InForce, InStatement, Unstale, Active

LEMMA StatementsStand ==
    ASSUME NEW pol \in PolicySnapshots, NEW t \in Times, pol.at <= t, NEW rev,
           FenceOpen(pol, rev, t)
    PROVE /\ Stands(InStatement(pol.rows, pol.at), InForce(pol.rows, t), t)
          /\ InForce(pol.rows, t) = InForce(pol.rows, pol.at)
<1> DEFINE R == InStatement(pol.rows, pol.at)
           B == InForce(pol.rows, t)
<1>1. pol.rows \in SUBSET OverrideRows /\ pol.at \in Times BY DEF PolicySnapshots
<1>2. pol.at \in Nat /\ t \in Nat /\ t <= MaxTime BY <1>1, LimitsAssumption DEF Times
<1>3. \A r \in pol.rows : r.expires \in Nat BY <1>1, RowsAreTyped
<1>4. ASSUME NEW d \in Deadlines(InForce(pol.rows, pol.at)) PROVE t < d
  <2>1. PICK r \in InForce(pol.rows, pol.at) : d = r.expires /\ d # Never BY <1>4 DEF Deadlines
  <2>2. r \in Unstale(pol.rows) /\ d > pol.at BY <2>1 DEF InForce, ActiveAt
  <2>3. d \in Ahead(pol) BY <2>1, <2>2 DEF Ahead, Deadlines
  <2> QED BY <2>3 DEF FenceOpen
<1>5. InForce(pol.rows, t) = InForce(pol.rows, pol.at) BY <1>1, <1>4, SameRowsInForce
<1>6. ComposeCaveat(R) = InForceCaveat(B)
  <2> DEFINE A == InForce(pol.rows, pol.at)
  <2>1. Aimed(R, Caveat, {"recaveat"}) = Aimed(A, Caveat, {"recaveat"})
    <3>1. ASSUME NEW r \in pol.rows
          PROVE r \in Aimed(R, Caveat, {"recaveat"}) <=> r \in Aimed(A, Caveat, {"recaveat"})
      BY DEF Aimed, InStatement, InForce, ActiveAt
    <3>2. R \subseteq pol.rows /\ A \subseteq pol.rows BY DEF InStatement, InForce, Unstale
    <3>3. /\ Aimed(R, Caveat, {"recaveat"}) \subseteq pol.rows
          /\ Aimed(A, Caveat, {"recaveat"}) \subseteq pol.rows
      BY <3>2 DEF Aimed
    <3> QED BY <3>1, <3>3
  <2>2. ComposeCaveat(R) = ComposeCaveat(A)
    <3> DEFINE of(these) ==
                 LET winners == {row \in these : \A r \in these : r.created <= row.created}
                 IN IF these = {} THEN StoredCaveat ELSE (CHOOSE row \in winners : TRUE).expression.name
    <3>1. \A K : ComposeCaveat(K) = of(Aimed(K, Caveat, {"recaveat"})) BY DEF ComposeCaveat
    <3> HIDE DEF of
    <3> QED BY <2>1, <3>1
  <2>3. A \in SUBSET OverrideRows BY <1>1, RowsOfPolicies
  <2> QED BY <1>5, <2>2, <2>3, CaveatsCompose
<1>7. \A r \in R : r.kind # "recaveat" /\ t < r.expires => r \in B
  BY <1>2, <1>3 DEF InStatement, InForce, ActiveAt, Unstale
<1>8. \A r \in B : r.kind # "recaveat" => r \in R /\ t < r.expires
  BY <1>2, <1>3 DEF InStatement, InForce, ActiveAt, Unstale
<1> QED BY <1>5, <1>6, <1>7, <1>8 DEF Stands

\* A statement whose fence is open says what is meant at that instant.
LEMMA StatementsAreExact ==
    ASSUME NEW pol \in PolicySnapshots, NEW t \in Times, pol.at <= t, NEW rev,
           FenceOpen(pol, rev, t), NEW f \in [Relations -> Presence], NEW p \in Permissions
    PROVE /\ Holds(pol, f, p, "lower", t) <=> Granted(pol.rows, t, f, p) = "true"
          /\ Holds(pol, f, p, "upper", t) <=> Granted(pol.rows, t, f, p) # "false"
          /\ Granted(pol.rows, t, f, p) = Granted(pol.rows, pol.at, f, p)
<1>1. pol.rows \in SUBSET OverrideRows BY DEF PolicySnapshots
<1>2. /\ Stands(InStatement(pol.rows, pol.at), InForce(pol.rows, t), t)
      /\ InForce(pol.rows, t) = InForce(pol.rows, pol.at)
  BY StatementsStand
<1>3. Entry(p) \in Nodes BY ExpressionsAssumption, LevelsAreNumbers DEF Entry, Nodes
<1>4. InStatement(pol.rows, pol.at) \in SUBSET OverrideRows /\ InForce(pol.rows, t) \in SUBSET OverrideRows
  BY <1>1, RowsOfPolicies
<1>5. BoundsFit(Compiled(Tagged(pol), f, t), Denotes(InForce(pol.rows, t), f), Entry(p))
  BY <1>2, <1>3, <1>4, BoundsAreExact DEF Tagged
<1> QED BY <1>2, <1>5 DEF BoundsFit, Holds, Granted, Certainly, Possibly

\* The residual pass evaluates the policy as it was when it was prepared.
LEMMA ResidualsAreExact ==
    ASSUME NEW pol \in PolicySnapshots, NEW f \in [Relations -> Presence], NEW p \in Permissions
    PROVE ValueOf(Effective(pol), f)[Entry(p)] = Granted(pol.rows, pol.at, f, p)
<1>1. pol.rows \in SUBSET OverrideRows BY DEF PolicySnapshots
<1>2. Entry(p) \in Nodes BY ExpressionsAssumption, LevelsAreNumbers DEF Entry, Nodes
<1>3. Effective(pol) = ComposeTagged(InForce(pol.rows, pol.at))
  BY <1>1, RowsOfPolicies DEF Effective
<1> QED BY <1>1, <1>2, <1>3, RowsOfPolicies, ResidualIsExact DEF Granted

LEMMA GrantedType ==
    ASSUME NEW rs \in SUBSET OverrideRows, NEW t, NEW f \in [Relations -> Presence], NEW p \in Permissions
    PROVE Granted(rs, t, f, p) \in Truths
<1>1. Entry(p) \in Nodes BY ExpressionsAssumption, LevelsAreNumbers DEF Entry, Nodes
<1>2. InForce(rs, t) \in SUBSET OverrideRows BY RowsOfPolicies
<1>3. Denotes(InForce(rs, t), f) \in [Nodes -> Truths] BY <1>2, DenotesUnfolds
<1> QED BY <1>1, <1>3 DEF Granted

-----------------------------------------------------------------------------
(* What the reads of the policy outside a statement find.                  *)

LEMMA ExcludesAtLooksLower ==
    ASSUME NEW A \in SUBSET OverrideRows, NEW x \in Nodes, NEW g, NEW h,
           \A y \in Nodes : Rank[y] < Rank[x] => g[y] = h[y]
    PROVE ExcludesAt(g, ComposeTagged(A), x) <=> ExcludesAt(h, ComposeTagged(A), x)
<1>1. PICK e \in Expressions, n \in 0..Levels : x = <<e, n>> BY DEF Nodes
<1>2. CASE e.op \in {"+", "&", "-"}
  <2>1. g[<<e.left, n>>] = h[<<e.left, n>>] /\ g[<<e.right, n>>] = h[<<e.right, n>>]
    BY <1>1, <1>2, OperandsRankLower
  <2> QED BY <1>1, <1>2, <2>1 DEF ExcludesAt
<1>3. CASE e.op = "ref" /\ e.name \in Permissions /\ n > 0
  <2>1. \A y \in Expressions : g[<<y, n - 1>>] = h[<<y, n - 1>>]
    BY <1>1, <1>3, OperandsRankLower
  <2>2. Operands(ComposeTagged(A).permissions[e.name]) \subseteq Expressions
    BY <1>3, BodiesAreComposed
  <2> QED BY <1>1, <1>3, <2>1, <2>2 DEF ExcludesAt
<1>4. CASE ~(e.op \in {"+", "&", "-"}) /\ ~(e.op = "ref" /\ e.name \in Permissions /\ n > 0)
  BY <1>1, <1>4 DEF ExcludesAt
<1> QED BY <1>2, <1>3, <1>4

LEMMA ExcludesUnfolds ==
    ASSUME NEW A \in SUBSET OverrideRows
    PROVE \A x \in Nodes : Excludes(ComposeTagged(A))[x]
                             <=> ExcludesAt(Excludes(ComposeTagged(A)), ComposeTagged(A), x)
<1> DEFINE s == ComposeTagged(A)
           S == [x \in Nodes |-> [g \in [Nodes -> BOOLEAN] |->
                                    IF ExcludesAt(g, s, x) THEN TRUE ELSE FALSE]]
           excludes[x \in Nodes] == ExcludesAt(excludes, s, x)
<1>1. \A x \in Nodes : \A g \in [Nodes -> BOOLEAN] :
         S[x][g] = IF ExcludesAt(g, s, x) THEN TRUE ELSE FALSE
  OBVIOUS
<1>2. S \in [Nodes -> [[Nodes -> BOOLEAN] -> BOOLEAN]] OBVIOUS
<1> HIDE DEF S
<1>3. LooksLower(S, Nodes, BOOLEAN, Rank)
  <2>1. ASSUME NEW x \in Nodes, NEW g \in [Nodes -> BOOLEAN], NEW h \in [Nodes -> BOOLEAN],
               \A y \in Nodes : Rank[y] < Rank[x] => g[y] = h[y]
        PROVE S[x][g] = S[x][h]
    <3>1. ExcludesAt(g, s, x) <=> ExcludesAt(h, s, x) BY <2>1, ExcludesAtLooksLower
    <3> QED BY <1>1, <3>1
  <2> QED BY <1>2, <2>1 DEF LooksLower
<1>4. PICK g : FollowsSteps(g, S, Nodes, BOOLEAN)
  BY <1>3, RanksAreNumbers, RecursionExists
<1> HIDE DEF s
<1>5. \A x \in Nodes : g[x] = ExcludesAt(g, s, x) BY <1>1, <1>4 DEF FollowsSteps, ExcludesAt
<1>6. g = [x \in Nodes |-> ExcludesAt(g, s, x)] BY <1>4, <1>5 DEF FollowsSteps
<1>7. excludes = [x \in Nodes |-> ExcludesAt(excludes, s, x)] BY <1>6
<1>8. Excludes(s) = excludes BY DEF Excludes
<1> HIDE DEF excludes
<1>9. \A x \in Nodes : excludes[x] <=> ExcludesAt(excludes, s, x) BY <1>7
<1> QED BY <1>8, <1>9 DEF s

\* What is read of a permission is read of its operands.
ReadBelow(k, operands, n) == UNION {k[<<y, n - 1>>] : y \in operands}

LEMMA ReadAtPermission ==
    ASSUME NEW k, NEW s, NEW e, NEW n \in 0..Levels, n > 0, e.op = "ref", e.name \in Permissions
    PROVE ReadAt(k, s, <<e, n>>) = ReadBelow(k, Operands(s.permissions[e.name]), n)
<1>1. n # 0 BY LevelsAreNumbers
<1>2. e.op \notin {"+", "&", "-"} OBVIOUS
<1> QED BY <1>1, <1>2 DEF ReadAt, ReadBelow

LEMMA ReadAtLooksLower ==
    ASSUME NEW A \in SUBSET OverrideRows, NEW x \in Nodes, NEW g, NEW h,
           \A y \in Nodes : Rank[y] < Rank[x] => g[y] = h[y]
    PROVE ReadAt(g, ComposeTagged(A), x) = ReadAt(h, ComposeTagged(A), x)
<1>1. PICK e \in Expressions, n \in 0..Levels : x = <<e, n>> BY DEF Nodes
<1>2. CASE e.op \in {"+", "&", "-"}
  <2>1. g[<<e.left, n>>] = h[<<e.left, n>>] /\ g[<<e.right, n>>] = h[<<e.right, n>>]
    BY <1>1, <1>2, OperandsRankLower
  <2> QED BY <1>1, <1>2, <2>1 DEF ReadAt
<1>3. CASE e.op = "ref" /\ e.name \in Permissions /\ n > 0
  <2> DEFINE over == Operands(ComposeTagged(A).permissions[e.name])
  <2>1. \A y \in Expressions : g[<<y, n - 1>>] = h[<<y, n - 1>>]
    BY <1>1, <1>3, OperandsRankLower
  <2>2. over \subseteq Expressions BY <1>3, BodiesAreComposed
  <2>3. /\ ReadAt(g, ComposeTagged(A), <<e, n>>) = ReadBelow(g, over, n)
        /\ ReadAt(h, ComposeTagged(A), <<e, n>>) = ReadBelow(h, over, n)
    BY <1>1, <1>3, ReadAtPermission
  <2> HIDE DEF over
  <2>4. ReadBelow(g, over, n) = ReadBelow(h, over, n)
    <3>1. {g[<<y, n - 1>>] : y \in over} = {h[<<y, n - 1>>] : y \in over} BY <2>1, <2>2
    <3> QED BY <3>1 DEF ReadBelow
  <2> QED BY <1>1, <2>3, <2>4
<1>4. CASE ~(e.op \in {"+", "&", "-"}) /\ ~(e.op = "ref" /\ e.name \in Permissions /\ n > 0)
  <2>1. n > 0 \/ n = 0 BY LevelsAreNumbers
  <2> QED BY <1>1, <1>4, <2>1 DEF ReadAt
<1> QED BY <1>2, <1>3, <1>4

LEMMA ReadAtType ==
    ASSUME NEW A \in SUBSET OverrideRows, NEW x \in Nodes, NEW g \in [Nodes -> SUBSET Relations]
    PROVE ReadAt(g, ComposeTagged(A), x) \in SUBSET Relations
<1>1. PICK e \in Expressions, n \in 0..Levels : x = <<e, n>> BY DEF Nodes
<1>2. CASE e.op \in {"+", "&", "-"}
  <2>1. <<e.left, n>> \in Nodes /\ <<e.right, n>> \in Nodes BY <1>2, OperandsRankLower
  <2> QED BY <1>1, <1>2, <2>1 DEF ReadAt
<1>3. CASE e.op = "ref" /\ e.name \in Permissions /\ n > 0
  <2> DEFINE over == Operands(ComposeTagged(A).permissions[e.name])
  <2>1. over \subseteq Expressions BY <1>3, BodiesAreComposed
  <2>2. \A y \in Expressions : <<y, n - 1>> \in Nodes BY <1>3, OperandsRankLower
  <2>3. ReadAt(g, ComposeTagged(A), <<e, n>>) = ReadBelow(g, over, n)
    BY <1>1, <1>3, ReadAtPermission
  <2> HIDE DEF over
  <2>4. ReadBelow(g, over, n) \in SUBSET Relations BY <2>1, <2>2 DEF ReadBelow
  <2> QED BY <1>1, <2>3, <2>4
<1>4. CASE ~(e.op \in {"+", "&", "-"}) /\ ~(e.op = "ref" /\ e.name \in Permissions /\ n > 0)
  <2>1. n > 0 \/ n = 0 BY LevelsAreNumbers
  <2> QED BY <1>1, <1>4, <2>1 DEF ReadAt
<1> QED BY <1>2, <1>3, <1>4

LEMMA ReadingUnfolds ==
    ASSUME NEW A \in SUBSET OverrideRows
    PROVE \A x \in Nodes : Reading(ComposeTagged(A))[x]
                             = ReadAt(Reading(ComposeTagged(A)), ComposeTagged(A), x)
<1> DEFINE s == ComposeTagged(A)
           S == [x \in Nodes |-> [g \in [Nodes -> SUBSET Relations] |-> ReadAt(g, s, x)]]
           reads[x \in Nodes] == ReadAt(reads, s, x)
<1>1. \A x \in Nodes : \A g \in [Nodes -> SUBSET Relations] : S[x][g] = ReadAt(g, s, x)
  OBVIOUS
<1>2. S \in [Nodes -> [[Nodes -> SUBSET Relations] -> SUBSET Relations]] BY ReadAtType
<1> HIDE DEF S
<1>3. LooksLower(S, Nodes, SUBSET Relations, Rank)
  <2>1. ASSUME NEW x \in Nodes, NEW g \in [Nodes -> SUBSET Relations],
               NEW h \in [Nodes -> SUBSET Relations],
               \A y \in Nodes : Rank[y] < Rank[x] => g[y] = h[y]
        PROVE S[x][g] = S[x][h]
    <3>1. ReadAt(g, s, x) = ReadAt(h, s, x) BY <2>1, ReadAtLooksLower
    <3> QED BY <1>1, <3>1
  <2> QED BY <1>2, <2>1 DEF LooksLower
<1>4. PICK g : FollowsSteps(g, S, Nodes, SUBSET Relations)
  BY <1>3, RanksAreNumbers, RecursionExists
<1> HIDE DEF s
<1>5. g = [x \in Nodes |-> ReadAt(g, s, x)] BY <1>1, <1>4 DEF FollowsSteps
<1>6. reads = [x \in Nodes |-> ReadAt(reads, s, x)] BY <1>5
<1>7. Reading(s) = reads BY DEF Reading
<1> HIDE DEF reads
<1>8. \A x \in Nodes : reads[x] = ReadAt(reads, s, x) BY <1>6
<1> QED BY <1>7, <1>8 DEF s

\* A grant at no tuples that nothing excludes is one at any tuples.
LEMMA GrantsGrow ==
    ASSUME NEW A \in SUBSET OverrideRows, NEW f \in AllFacts, NEW x \in Nodes,
           ~Excludes(ComposeTagged(A))[x], Denotes(A, NoFacts)[x] = "true"
    PROVE Denotes(A, f)[x] = "true"
<1> DEFINE s == ComposeTagged(A)
           excludes == Excludes(s)
           none == Denotes(A, NoFacts)
           d == Denotes(A, f)
           X == {y \in Nodes : ~excludes[y] /\ none[y] = "true" => d[y] = "true"}
<1>1. NoFacts \in [Relations -> Presence] /\ f \in [Relations -> Presence]
  BY DEF NoFacts, AllFacts, Presence
<1>2. /\ none \in [Nodes -> Truths] /\ \A y \in Nodes : none[y] = DenotedAt(none, A, NoFacts, y)
      /\ d \in [Nodes -> Truths] /\ \A y \in Nodes : d[y] = DenotedAt(d, A, f, y)
  BY <1>1, DenotesUnfolds
<1>3. \A y \in Nodes : excludes[y] <=> ExcludesAt(excludes, s, y) BY ExcludesUnfolds
<1> HIDE DEF none, d, excludes
<1>4. ASSUME NEW y \in Nodes, \A z \in Nodes : Rank[z] < Rank[y] => z \in X,
             ~excludes[y], none[y] = "true"
      PROVE d[y] = "true"
  <2>1. PICK e \in Expressions, n \in 0..Levels : y = <<e, n>> BY DEF Nodes
  <2>2. ~ExcludesAt(excludes, s, y) BY <1>3, <1>4
  <2>3. none[y] = DenotedAt(none, A, NoFacts, y) /\ d[y] = DenotedAt(d, A, f, y) BY <1>2
  <2>4. CASE e.op \in {"+", "&", "-"}
    <3>1. e.op # "-" BY <2>1, <2>2 DEF ExcludesAt
    <3>2. /\ <<e.left, n>> \in Nodes /\ <<e.right, n>> \in Nodes
          /\ <<e.left, n>> \in X /\ <<e.right, n>> \in X
      BY <1>4, <2>1, <2>4, OperandsRankLower
    <3>3. ~excludes[<<e.left, n>>] /\ ~excludes[<<e.right, n>>]
      BY <2>1, <2>2, <2>4, <3>1 DEF ExcludesAt
    <3> DEFINE u == none[<<e.left, n>>]
               v == none[<<e.right, n>>]
               u1 == d[<<e.left, n>>]
               v1 == d[<<e.right, n>>]
    <3>4. (u = "true" => u1 = "true") /\ (v = "true" => v1 = "true") BY <3>2, <3>3
    <3>5. u \in Truths /\ v \in Truths /\ u1 \in Truths /\ v1 \in Truths BY <1>2, <3>2
    <3>6. /\ none[y] = IF e.op = "+" THEN KOr({u, v}) ELSE KAnd({u, v})
          /\ d[y] = IF e.op = "+" THEN KOr({u1, v1}) ELSE KAnd({u1, v1})
      BY <2>1, <2>3, <2>4, <3>1 DEF DenotedAt
    <3> HIDE DEF u, v, u1, v1
    <3>7. /\ KOr({u, v}) = "true" <=> u = "true" \/ v = "true"
          /\ KAnd({u, v}) = "true" <=> u = "true" /\ v = "true"
          /\ KOr({u1, v1}) = "true" <=> u1 = "true" \/ v1 = "true"
          /\ KAnd({u1, v1}) = "true" <=> u1 = "true" /\ v1 = "true"
      BY <3>5, KleeneBounds DEF Certainly
    <3> QED BY <1>4, <3>4, <3>6, <3>7
  <2>5. CASE e.op = "ref" /\ e.name \in Permissions /\ n > 0
    <3> DEFINE p == e.name
               m == n - 1
               body == s.permissions[p]
    <3>1. m \in 0..Levels BY <2>5, LevelsAreNumbers
    <3>2. \A z \in Expressions : <<z, m>> \in X /\ <<z, m>> \in Nodes
      BY <1>4, <2>1, <2>5, OperandsRankLower
    <3>3. /\ body.base = Baseline[p] /\ body.base \in Expressions
          /\ body.extends = {r \in A : r.target = p /\ r.kind \in {"extend", "loosen"}}
          /\ body.disables = {r \in A : r.target = p /\ r.kind \in {"disable"}}
          /\ body.tightens = {r \in A : r.target = p /\ r.kind \in {"tighten"}}
      BY <2>5, BodiesAreComposed
    <3>4. body.disables = {} /\ \A z \in Operands(body) : ~excludes[<<z, m>>]
      BY <2>1, <2>2, <2>5 DEF ExcludesAt
    <3>5. \A r \in A : r.expression \in Expressions BY RowsAreTyped
    <3>6. \A z \in Expressions :
            z \in Operands(body) /\ none[<<z, m>>] = "true" => d[<<z, m>>] = "true"
      BY <3>2, <3>4
    <3>7. /\ body.base \in Operands(body)
          /\ \A r \in body.extends \cup body.tightens : r.expression \in Operands(body)
      BY DEF Operands
    <3> HIDE DEF m, body
    <3>8. ASSUME NEW kinds PROVE /\ ValuesOf(none, A, p, kinds, m) \in SUBSET Truths
                                 /\ ValuesOf(d, A, p, kinds, m) \in SUBSET Truths
      BY <1>2, <3>1, ValuesOfType
    <3>9. none[<<Baseline[p], m>>] \in Truths /\ d[<<Baseline[p], m>>] \in Truths
      BY <1>2, <3>2, <3>3
    <3> DEFINE Of(g) == Granting(g[<<Baseline[p], m>>], ValuesOf(g, A, p, {"extend", "loosen"}, m),
                                 ValuesOf(g, A, p, {"disable"}, m),
                                 ValuesOf(g, A, p, {"tighten"}, m))
    <3>10. none[y] = Of(none) /\ d[y] = Of(d)
      <4>1. DenotedAt(none, A, NoFacts, <<e, n>>) = Of(none) BY <2>5, DenotedPermission DEF m
      <4>2. DenotedAt(d, A, f, <<e, n>>) = Of(d) BY <2>5, DenotedPermission DEF m
      <4> QED BY <2>1, <2>3, <4>1, <4>2
    <3>11. \A g : ValuesOf(g, A, p, {"disable"}, m) = {}
      BY <3>3, <3>4 DEF ValuesOf
    <3>12. \A g : /\ ValuesOf(g, A, p, {"extend", "loosen"}, m)
                       = {g[<<r.expression, m>>] : r \in body.extends}
                  /\ ValuesOf(g, A, p, {"tighten"}, m) = {g[<<r.expression, m>>] : r \in body.tightens}
      BY <3>3 DEF ValuesOf
    <3>13. \A r \in body.extends \cup body.tightens :
             none[<<r.expression, m>>] = "true" => d[<<r.expression, m>>] = "true"
      BY <3>3, <3>5, <3>6, <3>7
    <3>14. none[<<Baseline[p], m>>] = "true" => d[<<Baseline[p], m>>] = "true"
      BY <3>3, <3>6, <3>7
    <3>15. /\ Of(none) = "true" <=>
                /\ \/ none[<<Baseline[p], m>>] = "true"
                   \/ \E r \in body.extends : none[<<r.expression, m>>] = "true"
                /\ \A r \in body.tightens : none[<<r.expression, m>>] = "true"
           /\ Of(d) = "true" <=>
                /\ \/ d[<<Baseline[p], m>>] = "true"
                   \/ \E r \in body.extends : d[<<r.expression, m>>] = "true"
                /\ \A r \in body.tightens : d[<<r.expression, m>>] = "true"
      <4>1. ASSUME NEW g, g[<<Baseline[p], m>>] \in Truths,
                   \A kinds : ValuesOf(g, A, p, kinds, m) \in SUBSET Truths
            PROVE Of(g) = "true" <=>
                    /\ \/ g[<<Baseline[p], m>>] = "true"
                       \/ \E r \in body.extends : g[<<r.expression, m>>] = "true"
                    /\ \A r \in body.tightens : g[<<r.expression, m>>] = "true"
        <5> DEFINE b == g[<<Baseline[p], m>>]
                   V == ValuesOf(g, A, p, {"extend", "loosen"}, m)
                   W == ValuesOf(g, A, p, {"disable"}, m)
                   Z == ValuesOf(g, A, p, {"tighten"}, m)
        <5>1. b \in Truths /\ V \in SUBSET Truths /\ W \in SUBSET Truths /\ Z \in SUBSET Truths
          BY <4>1
        <5>2. W = {} /\ V = {g[<<r.expression, m>>] : r \in body.extends}
              /\ Z = {g[<<r.expression, m>>] : r \in body.tightens}
          BY <3>11, <3>12
        <5> HIDE DEF b, V, W, Z
        <5>3. Granting(b, V, W, Z) = "true" <=>
                 (b = "true" \/ \E v \in V : v = "true") /\ \A v \in Z : v = "true"
          <6>1. Certainly(Granting(b, V, W, Z)) <=>
                  /\ Certainly(b) \/ \E v \in V : Certainly(v)
                  /\ \A v \in W : ~Possibly(v)
                  /\ \A v \in Z : Certainly(v)
            BY <5>1, GrantingBounds
          <6>2. \A v \in W : ~Possibly(v) BY <5>2
          <6> QED BY <6>1, <6>2 DEF Certainly
        <5>4. /\ (\E v \in V : v = "true") <=> \E r \in body.extends : g[<<r.expression, m>>] = "true"
              /\ (\A v \in Z : v = "true") <=> \A r \in body.tightens : g[<<r.expression, m>>] = "true"
          BY <5>2
        <5> QED BY <5>3, <5>4 DEF b, V, W, Z
      <4> QED BY <3>8, <3>9, <4>1
    <3> QED BY <1>4, <3>10, <3>13, <3>14, <3>15
  <2>6. CASE ~(e.op \in {"+", "&", "-"}) /\ ~(e.op = "ref" /\ e.name \in Permissions /\ n > 0)
    <3>1. n > 0 \/ n = 0 BY LevelsAreNumbers
    <3>2. \A r \in Relations : NoFacts[r] = "none" BY DEF NoFacts
    <3>3. none[y] = IF e.op = "ref" /\ e.name \notin Relations /\ e.name \notin Permissions
                       /\ e.name = "authenticated" THEN "true" ELSE "false"
      BY <2>1, <2>3, <2>6, <3>1, <3>2, NamesAssumption DEF DenotedAt, KOr, Caveat
    <3>4. e.op = "ref" /\ e.name \notin Relations /\ e.name \notin Permissions
          /\ e.name = "authenticated"
      BY <1>4, <3>3
    <3> QED BY <2>1, <2>3, <3>4 DEF DenotedAt, KOr
  <2> QED BY <2>4, <2>5, <2>6
<1>5. \A y \in Nodes : (\A z \in Nodes : Rank[z] < Rank[y] => z \in X) => y \in X BY <1>4
<1> HIDE DEF X
<1>6. \A y \in Nodes : y \in X BY <1>5, RanksAreNumbers, RankInduction
<1> QED BY <1>6 DEF X, excludes, none, d

\* What cannot read a tuple under the caveat is decided.
LEMMA DecidedWithoutVerdicts ==
    ASSUME NEW R \in SUBSET OverrideRows, NEW B \in SUBSET OverrideRows,
           \A r \in B : r.kind # "recaveat" => r \in R,
           NEW f \in [Relations -> Presence], NEW x \in Nodes,
           \A rel \in Reading(ComposeTagged(R))[x] : f[rel] # Caveat
    PROVE Denotes(B, f)[x] # "unknown"
<1> DEFINE s == ComposeTagged(R)
           reads == Reading(s)
           d == Denotes(B, f)
           plain(y) == \A rel \in reads[y] : f[rel] # Caveat
           X == {y \in Nodes : plain(y) => d[y] # "unknown"}
<1>1. d \in [Nodes -> Truths] /\ \A y \in Nodes : d[y] = DenotedAt(d, B, f, y)
  BY DenotesUnfolds
<1>2. \A y \in Nodes : reads[y] = ReadAt(reads, s, y) BY ReadingUnfolds
<1> HIDE DEF d, reads
<1>3. ASSUME NEW y \in Nodes, \A z \in Nodes : Rank[z] < Rank[y] => z \in X, plain(y)
      PROVE d[y] # "unknown"
  <2>1. PICK e \in Expressions, n \in 0..Levels : y = <<e, n>> BY DEF Nodes
  <2>2. d[y] = DenotedAt(d, B, f, y) /\ reads[y] = ReadAt(reads, s, y) BY <1>1, <1>2
  <2>3. CASE e.op \in {"+", "&", "-"}
    <3>1. /\ <<e.left, n>> \in Nodes /\ <<e.right, n>> \in Nodes
          /\ <<e.left, n>> \in X /\ <<e.right, n>> \in X
      BY <1>3, <2>1, <2>3, OperandsRankLower
    <3>2. reads[y] = reads[<<e.left, n>>] \cup reads[<<e.right, n>>]
      BY <2>1, <2>2, <2>3 DEF ReadAt
    <3> DEFINE u == d[<<e.left, n>>]
               v == d[<<e.right, n>>]
    <3>3. u # "unknown" /\ v # "unknown" BY <1>3, <3>1, <3>2
    <3>4. d[y] = IF e.op = "+" THEN KOr({u, v})
                 ELSE IF e.op = "-" THEN KAnd({u, KNot(v)}) ELSE KAnd({u, v})
      BY <2>1, <2>2, <2>3 DEF DenotedAt
    <3> HIDE DEF u, v
    <3>5. u \in Truths /\ v \in Truths BY <1>1, <3>1 DEF u, v
    <3> QED BY <3>3, <3>4, <3>5 DEF KOr, KAnd, KNot, Truths
  <2>4. CASE e.op = "ref" /\ e.name \in Permissions /\ n > 0
    <3>0. d[y] = Granting(d[<<Baseline[e.name], n - 1>>],
                          ValuesOf(d, B, e.name, {"extend", "loosen"}, n - 1),
                          ValuesOf(d, B, e.name, {"disable"}, n - 1),
                          ValuesOf(d, B, e.name, {"tighten"}, n - 1))
      BY <2>1, <2>2, <2>4, DenotedPermission
    <3> DEFINE p == e.name
               m == n - 1
               body == s.permissions[p]
    <3>1. m \in 0..Levels BY <2>4, LevelsAreNumbers
    <3>2. \A z \in Expressions : <<z, m>> \in X /\ <<z, m>> \in Nodes
      BY <1>3, <2>1, <2>4, OperandsRankLower
    <3>3. /\ body.base = Baseline[p] /\ body.base \in Expressions
          /\ body.extends = {r \in R : r.target = p /\ r.kind \in {"extend", "loosen"}}
          /\ body.disables = {r \in R : r.target = p /\ r.kind \in {"disable"}}
          /\ body.tightens = {r \in R : r.target = p /\ r.kind \in {"tighten"}}
          /\ Operands(body) \subseteq Expressions
      BY <2>4, BodiesAreComposed
    <3>4. \A z \in Operands(body) : reads[<<z, m>>] \subseteq reads[y]
      <4>1. x \in Nodes /\ y[1] = e /\ y[2] = n /\ n # 0 /\ e.op \notin {"+", "&", "-"}
        BY <2>1, <2>4, LevelsAreNumbers
      <4> HIDE DEF body
      <4>2. ReadAt(reads, s, y) = UNION {reads[<<z, m>>] : z \in Operands(body)}
        BY <2>4, <4>1 DEF ReadAt, body
      <4> QED BY <2>2, <4>2
    <3>5. \A z \in Operands(body) : d[<<z, m>>] # "unknown"
      BY <1>3, <3>2, <3>3, <3>4
    <3>6. Baseline[p] \in Operands(body) BY <3>3 DEF Operands
    <3>7. \A r \in B : r.target = p /\ r.kind \in {"extend", "loosen", "disable", "tighten"} =>
            r.expression \in Operands(body)
      BY <3>3 DEF Operands
    <3> HIDE DEF m, body
    <3> DEFINE b == d[<<Baseline[p], m>>]
               V == ValuesOf(d, B, p, {"extend", "loosen"}, m)
               W == ValuesOf(d, B, p, {"disable"}, m)
               Z == ValuesOf(d, B, p, {"tighten"}, m)
    <3>8. V \in SUBSET Truths /\ W \in SUBSET Truths /\ Z \in SUBSET Truths /\ b \in Truths
      BY <1>1, <3>1, <3>2, <3>3, ValuesOfType
    <3>9. b # "unknown" /\ "unknown" \notin V /\ "unknown" \notin W /\ "unknown" \notin Z
      <4>1. ASSUME NEW kinds \in SUBSET {"extend", "loosen", "disable", "tighten"}
            PROVE "unknown" \notin ValuesOf(d, B, p, kinds, m)
        BY <3>5, <3>7 DEF ValuesOf
      <4> QED BY <3>5, <3>6, <4>1
    <3>10. d[y] = Granting(b, V, W, Z) BY <3>0, <2>2 DEF m
    <3> HIDE DEF b, V, W, Z
    <3>11. Possibly(b) <=> Certainly(b) BY <3>8, <3>9 DEF Truths, Possibly, Certainly
    <3>12. \A v \in V \cup W \cup Z : Possibly(v) <=> Certainly(v)
      BY <3>8, <3>9 DEF Truths, Possibly, Certainly
    <3>13. /\ Certainly(Granting(b, V, W, Z)) <=>
                /\ Certainly(b) \/ \E v \in V : Certainly(v)
                /\ \A v \in W : ~Possibly(v)
                /\ \A v \in Z : Certainly(v)
           /\ Possibly(Granting(b, V, W, Z)) <=>
                /\ Possibly(b) \/ \E v \in V : Possibly(v)
                /\ \A v \in W : ~Certainly(v)
                /\ \A v \in Z : Possibly(v)
      BY <3>8, GrantingBounds
    <3>14. Possibly(Granting(b, V, W, Z)) <=> Certainly(Granting(b, V, W, Z))
      BY <3>11, <3>12, <3>13
    <3> QED BY <3>10, <3>14 DEF Possibly, Certainly
  <2>5. CASE ~(e.op \in {"+", "&", "-"}) /\ ~(e.op = "ref" /\ e.name \in Permissions /\ n > 0)
    <3>1. n > 0 \/ n = 0 BY LevelsAreNumbers
    <3>2. e.op = "ref" /\ e.name \in Relations /\ e.name \notin Permissions => f[e.name] # Caveat
      BY <1>3, <2>1, <2>2, <2>5 DEF ReadAt
    <3> QED BY <2>1, <2>2, <2>5, <3>1, <3>2, NamesAssumption DEF DenotedAt, KOr
  <2> QED BY <2>3, <2>4, <2>5
<1>4. \A y \in Nodes : (\A z \in Nodes : Rank[z] < Rank[y] => z \in X) => y \in X BY <1>3
<1> HIDE DEF X
<1>5. \A y \in Nodes : y \in X BY <1>4, RanksAreNumbers, RankInduction
<1> QED BY <1>5 DEF X, d, reads

\* What is meant by a permission where an evaluation begins.
LEMMA DenotedEntry ==
    ASSUME NEW A, NEW f, NEW g, NEW p \in Permissions
    PROVE DenotedAt(g, A, f, Entry(p)) =
            Granting(g[<<Baseline[p], Levels - 1>>],
                     ValuesOf(g, A, p, {"extend", "loosen"}, Levels - 1),
                     ValuesOf(g, A, p, {"disable"}, Levels - 1),
                     ValuesOf(g, A, p, {"tighten"}, Levels - 1))
<1>1. Levels # 0 BY NamesAssumption, FS_EmptySet DEF Levels
<1>2. /\ Entry(p)[1].op = "ref" /\ Entry(p)[1].name = p
      /\ Entry(p)[2] = Levels
  BY DEF Entry, Ref
<1> QED BY <1>1, <1>2 DEF DenotedAt, ValuesOf, Granting

\* A permission that no override aims at is its baseline.
LEMMA UnaimedPermission ==
    ASSUME NEW B \in SUBSET OverrideRows, \A r \in B : r.kind = "recaveat",
           NEW f \in [Relations -> Presence], NEW p \in Permissions
    PROVE Denotes(B, f)[Entry(p)]
             = Granting(Denotes(B, f)[<<Baseline[p], Levels - 1>>], {}, {}, {})
<1> DEFINE d == Denotes(B, f)
           n == Levels - 1
<1>1. Entry(p) \in Nodes
  <2>1. Ref(p) \in Expressions BY ExpressionsAssumption
  <2>2. Levels \in 0..Levels BY LevelsAreNumbers
  <2> QED BY <2>1, <2>2 DEF Entry, Nodes
<1>2. d[Entry(p)] = DenotedAt(d, B, f, Entry(p)) BY <1>1, DenotesUnfolds
<1>3. ASSUME NEW kinds, "recaveat" \notin kinds PROVE ValuesOf(d, B, p, kinds, n) = {}
  BY <1>3 DEF ValuesOf
<1>4. DenotedAt(d, B, f, Entry(p)) =
          Granting(d[<<Baseline[p], n>>], ValuesOf(d, B, p, {"extend", "loosen"}, n),
                   ValuesOf(d, B, p, {"disable"}, n), ValuesOf(d, B, p, {"tighten"}, n))
  BY DenotedEntry
<1> HIDE DEF d, n
<1>5. /\ ValuesOf(d, B, p, {"extend", "loosen"}, n) = {}
      /\ ValuesOf(d, B, p, {"disable"}, n) = {}
      /\ ValuesOf(d, B, p, {"tighten"}, n) = {}
  BY <1>3
<1>6. d[Entry(p)] = Granting(d[<<Baseline[p], n>>], {}, {}, {}) BY <1>2, <1>4, <1>5
<1> QED BY <1>6 DEF d, n

\* Permissions that no override aims at are the same if their baselines are.
LEMMA SharedPermissionsAgree ==
    ASSUME NEW B \in SUBSET OverrideRows, \A r \in B : r.kind = "recaveat",
           \A p, q \in Permissions : Baseline[p] = Baseline[q],
           NEW f \in [Relations -> Presence], NEW p \in Permissions, NEW q \in Permissions
    PROVE Denotes(B, f)[Entry(p)] = Denotes(B, f)[Entry(q)]
<1>1. /\ Denotes(B, f)[Entry(p)] = Granting(Denotes(B, f)[<<Baseline[p], Levels - 1>>], {}, {}, {})
      /\ Denotes(B, f)[Entry(q)] = Granting(Denotes(B, f)[<<Baseline[q], Levels - 1>>], {}, {}, {})
  BY UnaimedPermission
<1>2. Baseline[p] = Baseline[q] OBVIOUS
<1> QED BY <1>1, <1>2

-----------------------------------------------------------------------------
(* Policies and their deadlines.                                           *)

\* A policy whose rows are accepted composes at every instant.
LEMMA AcceptedRowsCompose ==
    ASSUME NEW rs, Accepted(rs), NEW t
    PROVE ~Cyclic(InStatement(rs, t))
<1> DEFINE A == InStatement(rs, t)
           B == Unstale(rs)
<1>1. ASSUME NEW p, NEW kinds, "recaveat" \notin kinds PROVE Aimed(A, p, kinds) = Aimed(B, p, kinds)
  BY <1>1 DEF Aimed, InStatement
<1>2. ASSUME NEW p PROVE ComposePermission(A, p) = ComposePermission(B, p)
  BY <1>1 DEF ComposePermission
<1>3. Edges(A) = Edges(B) BY <1>2 DEF Edges
<1> QED BY <1>3 DEF Cyclic, Accepted

\* Between two instants that no deadline parts, the same rows are in force.
LEMMA CalmRows ==
    ASSUME NEW rs \in SUBSET OverrideRows, NEW a \in Times, NEW t \in Times, a <= t,
           \A d \in Deadlines(Unstale(rs)) : ~(a < d /\ d <= t)
    PROVE InForce(rs, t) = InForce(rs, a)
<1>1. ASSUME NEW d \in Deadlines(InForce(rs, a)) PROVE t < d
  <2>1. PICK r \in InForce(rs, a) : d = r.expires /\ d # Never BY <1>1 DEF Deadlines
  <2>2. r \in Unstale(rs) /\ d > a /\ r \in rs BY <2>1 DEF InForce, ActiveAt, Unstale
  <2>3. d \in Deadlines(Unstale(rs)) BY <2>1, <2>2 DEF Deadlines
  <2>4. d \in Nat /\ a \in Nat /\ t \in Nat BY <2>1, <2>2, RowsAreTyped DEF Times
  <2> QED BY <2>2, <2>3, <2>4
<1> QED BY <1>1, SameRowsInForce

\* A snapshot that has not expired is one of the rows that are in force.
LEMMA FreshRows ==
    ASSUME NEW snapshot \in PolicySnapshots, NEW t \in Times, snapshot.at <= t,
           Unexpired(snapshot, t)
    PROVE InForce(snapshot.rows, t) = InForce(snapshot.rows, snapshot.at)
<1>1. snapshot.rows \in SUBSET OverrideRows /\ snapshot.at \in Times BY DEF PolicySnapshots
<1>2. Active(Unstale(snapshot.rows), snapshot.at) = InForce(snapshot.rows, snapshot.at)
  BY <1>1, RowsOfPolicies
<1> QED BY <1>1, <1>2, SameRowsInForce DEF Unexpired

\* The deadlines of rows are instants.
LEMMA DeadlinesAreTimes ==
    ASSUME NEW rs \in SUBSET OverrideRows
    PROVE Deadlines(rs) \subseteq Nat /\ Deadlines(Unstale(rs)) \subseteq Nat
          /\ \A t : Deadlines(Active(Unstale(rs), t)) \subseteq Nat
  BY RowsAreTyped DEF Deadlines, Unstale, Active

\* A fence that is open has been open since its policy was prepared.
LEMMA FenceWasOpen ==
    ASSUME NEW pol \in PolicySnapshots, NEW rev, NEW t \in Nat, NEW u \in Nat,
           pol.at <= t, t <= u, FenceOpen(pol, rev, u)
    PROVE FenceOpen(pol, rev, t)
<1>1. pol.rows \in SUBSET OverrideRows /\ pol.at \in Nat BY DEF PolicySnapshots, Times
<1>2. Aimed(pol.rows, Caveat, {"recaveat"}) \in SUBSET OverrideRows BY <1>1 DEF Aimed
<1>3. Ahead(pol) \subseteq Nat /\ Passed(pol) \subseteq Nat
  BY <1>1, <1>2, DeadlinesAreTimes DEF Ahead, Passed
<1>4. \A d \in Passed(pol) : d <= pol.at BY DEF Passed
<1> QED BY <1>1, <1>3, <1>4 DEF FenceOpen

\* It is open while the policy is published and nothing that lay ahead passed.
LEMMA FenceIsOpen ==
    ASSUME NEW pol \in PolicySnapshots, NEW t \in Nat, pol.at <= t,
           \A d \in Ahead(pol) : t < d
    PROVE FenceOpen(pol, pol.revision, t)
<1>1. pol.rows \in SUBSET OverrideRows /\ pol.at \in Nat BY DEF PolicySnapshots, Times
<1>2. Aimed(pol.rows, Caveat, {"recaveat"}) \in SUBSET OverrideRows BY <1>1 DEF Aimed
<1>3. Passed(pol) \subseteq Nat BY <1>1, <1>2, DeadlinesAreTimes DEF Passed
<1>4. \A d \in Passed(pol) : d <= pol.at BY DEF Passed
<1> QED BY <1>1, <1>3, <1>4 DEF FenceOpen

\* A statement without verdicts decides.
LEMMA DecidedStatements ==
    ASSUME NEW pol \in PolicySnapshots, NEW t, facts \in [Relations -> Presence],
           NEW p \in Permissions, NoVerdicts(pol, p)
    PROVE Granted(pol.rows, t, facts, p) # "unknown"
<1>1. pol.rows \in SUBSET OverrideRows BY DEF PolicySnapshots
<1>2. /\ InStatement(pol.rows, pol.at) \in SUBSET OverrideRows
      /\ InForce(pol.rows, t) \in SUBSET OverrideRows
  BY <1>1, RowsOfPolicies
<1>3. \A r \in InForce(pol.rows, t) : r.kind # "recaveat" => r \in InStatement(pol.rows, pol.at)
  BY DEF InForce, InStatement
<1>4. Entry(p) \in Nodes BY ExpressionsAssumption, LevelsAreNumbers DEF Entry, Nodes
<1>5. \A rel \in Reading(ComposeTagged(InStatement(pol.rows, pol.at)))[Entry(p)] :
         facts[rel] # Caveat
  BY DEF NoVerdicts, Tagged
<1> QED BY <1>2, <1>3, <1>4, <1>5, DecidedWithoutVerdicts DEF Granted

LEMMA SharedGrants ==
    ASSUME NEW pol, pol.rows \in SUBSET OverrideRows, Shares(pol), NEW t,
           NEW f \in [Relations -> Presence], NEW p \in Permissions, NEW q \in Permissions
    PROVE Granted(pol.rows, t, f, p) = Granted(pol.rows, t, f, q)
<1>1. InForce(pol.rows, t) \in SUBSET OverrideRows BY RowsOfPolicies
<1>2. \A r \in InForce(pol.rows, t) : r.kind = "recaveat" BY DEF Shares, InForce
<1>3. \A a, b \in Permissions : Baseline[a] = Baseline[b] BY DEF Shares
<1> QED BY <1>1, <1>2, <1>3, SharedPermissionsAgree DEF Granted

LEMMA GrantsEverywhere ==
    ASSUME NEW rs \in SUBSET OverrideRows, NEW t, NEW p \in Permissions,
           ~Excludes(ComposeTagged(InForce(rs, t)))[Entry(p)],
           Granted(rs, t, NoFacts, p) = "true", NEW f \in AllFacts
    PROVE Granted(rs, t, f, p) = "true"
<1>1. InForce(rs, t) \in SUBSET OverrideRows BY RowsOfPolicies
<1>2. Entry(p) \in Nodes BY ExpressionsAssumption, LevelsAreNumbers DEF Entry, Nodes
<1> QED BY <1>1, <1>2, GrantsGrow DEF Granted

-----------------------------------------------------------------------------
(* Acquiring a snapshot.                                                   *)

\* The snapshot a load returns is fresh and known; unless the scope has it
\* pinned, it is one of the published policy.
AcquiredFits(snapshot) ==
    /\ snapshot \in PolicySnapshots /\ KnownPolicy(snapshot) /\ Unexpired(snapshot, now)
    /\ \/ snapshot.revision = current
       \/ pin # Nil /\ Unexpired(pin, now) /\ snapshot = pin

LEMMA AcquiredSnapshots ==
    ASSUME OverridesTypeOK, PoliciesAreKnown, SnapshotsAreInOrder
    PROVE /\ AcquiredFits(Acquired)
          /\ \/ Acquired = shared /\ shared # Nil /\ Acquired.generation = generation
             \/ Acquired.generation = generation + 1
          /\ pin # Nil /\ Unexpired(pin, now) => Acquired = pin
<1> USE DEF OverridesTypeOK, SnapshotsAreInOrder
<1>1. pin # Nil => pin \in PolicySnapshots /\ KnownPolicy(pin) /\ pin = shared
  BY DEF PoliciesAreKnown, HeldPolicies
<1>2. shared # Nil =>
        shared \in PolicySnapshots /\ KnownPolicy(shared) /\ shared.generation = generation
  BY DEF PoliciesAreKnown, HeldPolicies
<1>3. CASE pin # Nil /\ Unexpired(pin, now)
  <2>1. Acquired = pin BY <1>3 DEF Acquired
  <2> QED BY <1>1, <1>2, <1>3, <2>1 DEF AcquiredFits
<1>4. CASE ~(pin # Nil /\ Unexpired(pin, now)) /\ Shareable
  <2>1. Acquired = shared BY <1>4 DEF Acquired
  <2> QED BY <1>2, <1>4, <2>1 DEF AcquiredFits, Shareable
<1>5. CASE ~(pin # Nil /\ Unexpired(pin, now)) /\ ~Shareable
  <2> DEFINE new == Snapshot(now, generation + 1)
  <2>1. Acquired = new BY <1>5 DEF Acquired
  <2>2. /\ new.rows = overrideRows /\ new.revision = current /\ new.at = now
        /\ new.generation = generation + 1 /\ new \in PolicySnapshots
    BY DEF Snapshot, PolicySnapshots
  <2>3. now \in Nat BY DEF Times
  <2>4. KnownPolicy(new)
    BY <2>2, <2>3, LimitsAssumption DEF KnownPolicy, PoliciesAreKnown
  <2>5. Unexpired(new, now)
    BY <2>2, <2>3 DEF Unexpired, Deadlines, Active, ActiveAt
  <2> HIDE DEF new
  <2> QED BY <1>5, <2>1, <2>2, <2>4, <2>5 DEF AcquiredFits
<1> QED BY <1>3, <1>4, <1>5

LEMMA AcquireSteps ==
    ASSUME OverridesTypeOK, PoliciesAreKnown, SnapshotsAreInOrder, Acquire
    PROVE /\ shared' = Acquired /\ pin' = Acquired /\ generation' = Acquired.generation
          /\ generation' \in Nat /\ generation <= generation'
          /\ generation' = generation => shared' = shared
<1>1. generation \in Nat BY DEF OverridesTypeOK
<1>2. \/ Acquired = shared /\ Acquired.generation = generation
      \/ Acquired.generation = generation + 1
  BY AcquiredSnapshots
<1> QED BY <1>1, <1>2 DEF Acquire

-----------------------------------------------------------------------------
(* Steps.                                                                  *)

\* Before an operation answers there is nothing to justify.
LEMMA NoAnswer ==
    ASSUME answer' = Nil
    PROVE GrantsFollowTheComposition' /\ DenialsFollowTheComposition'
  BY NilAssumption DEF GrantsFollowTheComposition, DenialsFollowTheComposition

\* What the answers of the shared snapshot rest on stays as it is.
LEMMA AnswersStay ==
    ASSUME SharedAnswersFit, shared' = shared, generation' = generation, facts' = facts,
           current' = current, answers' \subseteq answers,
           shared # Nil /\ (Unexpired(shared, now') \/ (pc' = "asked" /\ op'.kind = "check")) =>
             Unexpired(shared, now) \/ (pc = "asked" /\ op.kind = "check")
    PROVE SharedAnswersFit'
  BY DEF SharedAnswersFit

LEMMA TickKeeps == ASSUME OverridesInv, Tick PROVE OverridesInv'
<1> USE DEF OverridesInv, Tick, process
<1>1. now \in Nat /\ now' = now + 1 /\ now' \in Times /\ MaxTime \in Nat
  BY LimitsAssumption DEF OverridesTypeOK, Times
<1>2. answer = Nil /\ answer' = Nil BY DEF OperationIsInOrder
<1>3. OverridesTypeOK'
  <2>1. began' \in [time : Times, seen : SUBSET [rows : SUBSET OverrideRows, time : Times]]
    BY <1>1 DEF OverridesTypeOK, Witness
  <2> QED BY <1>1, <2>1 DEF OverridesTypeOK
<1>4. PoliciesAreKnown'
  <2>1. HeldPolicies' = HeldPolicies BY DEF HeldPolicies
  <2>2. ASSUME NEW pol, pol \in HeldPolicies PROVE KnownPolicy(pol)'
    <3>1. pol \in PolicySnapshots BY <2>2 DEF HeldPolicies, OverridesTypeOK, Operations, NoOperation
    <3> QED BY <1>1, <2>2, <3>1 DEF PoliciesAreKnown, KnownPolicy, PolicySnapshots, Times
  <2> QED BY <2>1, <2>2 DEF PoliciesAreKnown
<1>5. SnapshotsAreInOrder' BY DEF SnapshotsAreInOrder
<1>6. SharedAnswersFit'
  <2>1. ASSUME shared # Nil, Unexpired(shared, now') PROVE Unexpired(shared, now)
    <3>1. shared.rows \in SUBSET OverrideRows BY <2>1 DEF OverridesTypeOK, PolicySnapshots
    <3>2. Deadlines(Active(Unstale(shared.rows), shared.at)) \subseteq Nat
      BY <3>1, DeadlinesAreTimes
    <3> QED BY <1>1, <2>1, <3>2 DEF Unexpired
  <2> QED BY <2>1, AnswersStay
<1>7. AsksByTheSnapshot' BY DEF AsksByTheSnapshot, Witness
<1>8. OperationIsInOrder'
  <2>1. began'.time = began.time BY DEF Witness, OverridesTypeOK
  <2>2. ASSUME UnderWay PROVE began'.time <= now'
    BY <1>1, <2>1, <2>2 DEF OperationIsInOrder, OverridesTypeOK, Times
  <2> QED BY <1>2, <2>1, <2>2 DEF OperationIsInOrder, UnderWay
<1>9. SeesOrIsPinned'
  <2>1. UnderWay' => pc # "idle" BY DEF UnderWay
  <2>2. pc # "idle" => [rows |-> overrideRows, time |-> now'] \in began'.seen
    BY <1>1 DEF Witness, OverridesTypeOK
  <2> QED BY <2>1, <2>2 DEF SeesOrIsPinned
<1>10. StatementsTell'
  <2> SUFFICES ASSUME pc \in {"prepared", "upper", "residual"} PROVE StatementsTell'
    BY DEF StatementsTell
  <2>1. began'.time = began.time BY DEF Witness, OverridesTypeOK
  <2>2. policy # Nil /\ policy \in PolicySnapshots /\ KnownPolicy(policy)
    BY DEF StatementsTell, PoliciesAreKnown, HeldPolicies, OverridesTypeOK
  <2>3. policy.at <= now BY <2>2 DEF KnownPolicy
  <2>4. FenceOpen(policy, current, now') => FenceOpen(policy, current, now)
    BY <1>1, <2>2, <2>3, FenceWasOpen
  <2> QED BY <2>1, <2>4 DEF StatementsTell
<1> QED BY <1>2, <1>3, <1>4, <1>5, <1>6, <1>7, <1>8, <1>9, <1>10, NoAnswer

LEMMA CommitKeeps ==
    ASSUME OverridesInv, NEW rs \in SUBSET OverrideRows, CommitRows(rs) PROVE OverridesInv'
<1> USE DEF OverridesInv, CommitRows
<1>1. current \in 0..LastRevision /\ current' = current + 1 /\ current' \in 0..LastRevision
  BY LimitsAssumption DEF OverridesTypeOK
<1>2. answer = Nil /\ answer' = Nil BY DEF OperationIsInOrder
<1>3. OverridesTypeOK'
  <2>1. began' \in [time : Times, seen : SUBSET [rows : SUBSET OverrideRows, time : Times]]
    BY DEF OverridesTypeOK, Witness
  <2> QED BY <1>1, <2>1 DEF OverridesTypeOK
<1>4. \A pol \in HeldPolicies :
         pol \in PolicySnapshots /\ KnownPolicy(pol) /\ pol.revision # current'
         /\ pol.revision <= current'
  <2>1. ASSUME NEW pol \in HeldPolicies PROVE pol \in PolicySnapshots /\ KnownPolicy(pol)
    BY DEF HeldPolicies, OverridesTypeOK, Operations, NoOperation, PoliciesAreKnown
  <2> QED BY <1>1, <2>1, LimitsAssumption DEF KnownPolicy, PolicySnapshots
<1>5. shared # Nil => shared \in HeldPolicies BY DEF HeldPolicies
<1>6. PoliciesAreKnown'
  <2>1. HeldPolicies' \subseteq HeldPolicies BY DEF HeldPolicies
  <2> QED BY <1>4, <2>1 DEF PoliciesAreKnown, KnownPolicy
<1>7. SnapshotsAreInOrder' BY DEF SnapshotsAreInOrder
<1>8. SharedAnswersFit' BY <1>4, <1>5 DEF SharedAnswersFit
<1>9. AsksByTheSnapshot' BY DEF AsksByTheSnapshot, Witness
<1>10. OperationIsInOrder'
  <2>1. began'.time = began.time BY DEF Witness, OverridesTypeOK
  <2>2. UnderWay => op.revision # current' /\ op.revision <= current'
    BY <1>1 DEF OperationIsInOrder, OverridesTypeOK, Operations, UnderWay
  <2> QED BY <1>2, <2>1, <2>2 DEF OperationIsInOrder, UnderWay
<1>11. SeesOrIsPinned'
  <2>1. UnderWay' => pc # "idle" BY DEF UnderWay
  <2>2. pc # "idle" => [rows |-> overrideRows', time |-> now] \in began'.seen
    BY DEF Witness, OverridesTypeOK
  <2> QED BY <2>1, <2>2 DEF SeesOrIsPinned
<1>12. StatementsTell'
  <2>1. began'.time = began.time BY DEF Witness, OverridesTypeOK
  <2>2. pc \in {"prepared", "upper", "residual"} => policy # Nil /\ policy \in HeldPolicies
    BY DEF StatementsTell, HeldPolicies
  <2> QED BY <1>4, <2>1, <2>2 DEF StatementsTell, FenceOpen
<1> QED BY <1>2, <1>3, <1>6, <1>7, <1>8, <1>9, <1>10, <1>11, <1>12, NoAnswer

LEMMA WritesKeep ==
    ASSUME OverridesInv,
           \/ \E form \in Writable : CreateOverride(form)
           \/ \E row \in overrideRows : DeleteOverride(row)
           \/ \E row \in overrideRows : \E form \in Forms : Reschedule(row, form)
    PROVE OverridesInv'
<1>1. overrideRows \in SUBSET OverrideRows /\ current \in 0..LastRevision
  BY DEF OverridesInv, OverridesTypeOK
<1>2. ASSUME NEW form \in Writable, CreateOverride(form) PROVE OverridesInv'
  <2>1. current + 1 \in 1..LastRevision /\ form \in Forms
    BY <1>1, <1>2, FormsAssumption, LimitsAssumption DEF CreateOverride, CommitRows
  <2>2. overrideRows \cup {Stamped(form, current + 1)} \in SUBSET OverrideRows BY <1>1, <2>1 DEF OverrideRows
  <2> QED BY <1>2, <2>2, CommitKeeps DEF CreateOverride
<1>3. ASSUME NEW row \in overrideRows, DeleteOverride(row) PROVE OverridesInv'
  BY <1>1, <1>3, CommitKeeps DEF DeleteOverride
<1>4. ASSUME NEW row \in overrideRows, NEW form \in Forms, Reschedule(row, form)
      PROVE OverridesInv'
  <2>1. row.created \in 1..LastRevision BY <1>1, RowsAreTyped
  <2>2. (overrideRows \ {row}) \cup {Stamped(form, row.created)} \in SUBSET OverrideRows
    BY <1>1, <2>1 DEF OverrideRows
  <2> QED BY <1>4, <2>2, CommitKeeps DEF Reschedule
<1> QED BY <1>2, <1>3, <1>4

\* A snapshot that is acquired changes no policy and no answer that is kept.
LEMMA AcquireKeeps ==
    ASSUME OverridesInv, Acquire, UNCHANGED database, answers' = answers, kept' = kept,
           pc' # "asked" \/ pc = "idle"
    PROVE SnapshotsAreInOrder' /\ SharedAnswersFit'
<1> USE DEF OverridesInv, database
<1>1. /\ shared' = Acquired /\ pin' = Acquired /\ generation' = Acquired.generation
      /\ generation' \in Nat /\ generation \in Nat /\ generation <= generation'
      /\ generation' = generation => shared' = shared
  BY AcquireSteps DEF OverridesTypeOK
<1>2. Acquired \in PolicySnapshots /\ Unexpired(Acquired, now) BY AcquiredSnapshots DEF AcquiredFits
<1>3. \A a \in answers : a.generation \in Nat /\ a.generation <= generation
  BY DEF SnapshotsAreInOrder, OverridesTypeOK
<1>4. SnapshotsAreInOrder'
  BY <1>1, <1>3 DEF SnapshotsAreInOrder
<1>5. SharedAnswersFit'
  <2>1. CASE generation' = generation
    BY <1>1, <1>2, <2>1 DEF SharedAnswersFit
  <2>2. CASE generation' # generation
    <3>1. \A a \in answers' : a.generation # generation' BY <1>1, <1>3, <2>2
    <3> QED BY <3>1 DEF SharedAnswersFit
  <2> QED BY <2>1, <2>2
<1> QED BY <1>4, <1>5

LEMMA AskKeeps ==
    ASSUME OverridesInv, NEW k \in Kinds, NEW p \in Permissions, Ask(k, p)
    PROVE OverridesInv'
<1> USE DEF OverridesInv, Ask
<1>1. /\ shared' = Acquired /\ pin' = Acquired /\ generation' = Acquired.generation
      /\ generation' \in Nat
  BY AcquireSteps
<1>2. AcquiredFits(Acquired) BY AcquiredSnapshots
<1>3. Acquired \in PolicySnapshots /\ KnownPolicy(Acquired) /\ Unexpired(Acquired, now)
  BY <1>2 DEF AcquiredFits
<1>4. /\ Acquired.rows \in SUBSET OverrideRows /\ Acquired.revision \in 0..LastRevision
      /\ Acquired.at \in Times /\ Acquired # Nil
  BY <1>3, NilAssumption DEF PolicySnapshots
<1>5. /\ op'.kind = k /\ op'.permission = p /\ op'.revision = Acquired.revision
      /\ op'.key = Acquired.generation /\ op'.with = Acquired /\ op'.shares = Shares(Acquired)
      /\ op' \in Operations
  BY <1>1, <1>3, <1>4 DEF Operations, Shares
<1>6. began' = [time |-> now, seen |-> {[rows |-> Acquired.rows, time |-> now]}] OBVIOUS
<1>7. answer = Nil /\ answer' = Nil BY DEF OperationIsInOrder
<1>8. now' = now /\ facts' = facts /\ overrideRows' = overrideRows /\ current' = current
  BY DEF database
<1>9. OverridesTypeOK'
  BY <1>1, <1>3, <1>4, <1>5, <1>6, <1>8, LimitsAssumption DEF OverridesTypeOK, Stages
<1>10. PoliciesAreKnown'
  <2>1. HeldPolicies' \subseteq HeldPolicies \cup {Acquired} BY <1>1, <1>5 DEF HeldPolicies
  <2> QED BY <1>3, <1>8, <2>1 DEF PoliciesAreKnown, KnownPolicy
<1>11. SnapshotsAreInOrder' /\ SharedAnswersFit' BY AcquireKeeps
<1>12. AsksByTheSnapshot'
  BY <1>1, <1>3, <1>4, <1>5, <1>6 DEF AsksByTheSnapshot, KnownPolicy
<1>13. OperationIsInOrder'
  <2>1. k \notin {"scope", "shared"} BY KindsAssumption
  <2>2. Acquired.revision <= current BY <1>3 DEF KnownPolicy
  <2>3. op'.shares /\ op'.revision = current => Shares([rows |-> overrideRows])
    BY <1>3, <1>5 DEF KnownPolicy, Shares
  <2>4. generation' <= generation' /\ now <= now BY <1>1 DEF OverridesTypeOK, Times
  <2> QED BY <1>1, <1>5, <1>6, <1>7, <1>8, <2>1, <2>2, <2>3, <2>4
          DEF OperationIsInOrder, UnderWay
<1>14. SeesOrIsPinned'
  <2>1. CASE Acquired.revision = current
    <3>1. [rows |-> overrideRows', time |-> now'] \in began'.seen
      BY <1>3, <1>6, <1>8, <2>1 DEF KnownPolicy
    <3> QED BY <3>1 DEF SeesOrIsPinned
  <2>2. CASE Acquired.revision # current
    BY <1>1, <1>3, <1>4, <1>5, <1>8, <2>2 DEF SeesOrIsPinned
  <2> QED BY <2>1, <2>2
<1>15. StatementsTell' BY DEF StatementsTell
<1> QED BY <1>7, <1>9, <1>10, <1>11, <1>12, <1>13, <1>14, <1>15, NoAnswer

LEMMA SelectKeeps == ASSUME OverridesInv, Select PROVE OverridesInv'
<1> USE DEF OverridesInv, Select
<1>1. /\ shared' = Acquired /\ pin' = Acquired /\ generation' = Acquired.generation
      /\ generation' \in Nat /\ generation <= generation'
  BY AcquireSteps
<1>2. AcquiredFits(Acquired) /\ (pin # Nil /\ Unexpired(pin, now) => Acquired = pin)
  BY AcquiredSnapshots
<1>3. Acquired \in PolicySnapshots /\ KnownPolicy(Acquired) /\ Unexpired(Acquired, now)
  BY <1>2 DEF AcquiredFits
<1>4. /\ Acquired.rows \in SUBSET OverrideRows /\ Acquired.revision \in 0..LastRevision
      /\ Acquired.at \in Times /\ Acquired # Nil
  BY <1>3, NilAssumption DEF PolicySnapshots
<1>5. op \in Operations /\ UnderWay /\ op.with = shared
  BY DEF OperationIsInOrder, UnderWay
<1>6. /\ op'.kind = op.kind /\ op'.permission = op.permission /\ op'.revision = op.revision
      /\ op'.key = op.key /\ op'.shares = op.shares /\ op'.with = Acquired /\ op' \in Operations
  BY <1>3, <1>5 DEF Operations
<1>7. answer = Nil /\ answer' = Nil BY DEF OperationIsInOrder
<1>8. now' = now /\ facts' = facts /\ overrideRows' = overrideRows /\ current' = current
  BY DEF database
<1>9. OverridesTypeOK'
  BY <1>1, <1>3, <1>6, <1>8 DEF OverridesTypeOK, Stages
<1>10. PoliciesAreKnown'
  <2>1. HeldPolicies' \subseteq HeldPolicies \cup {Acquired} BY <1>1, <1>6 DEF HeldPolicies
  <2> QED BY <1>3, <1>8, <2>1 DEF PoliciesAreKnown, KnownPolicy
<1>11. SnapshotsAreInOrder' /\ SharedAnswersFit' BY AcquireKeeps
<1>12. AsksByTheSnapshot' BY DEF AsksByTheSnapshot
<1>13. OperationIsInOrder'
  <2>1. /\ op.kind \notin {"scope", "shared"} /\ op.revision <= current
        /\ op.key <= generation' /\ began.time <= now
        /\ op.shares /\ op.revision = current => Shares([rows |-> overrideRows])
    BY <1>1, <1>5 DEF OperationIsInOrder, OverridesTypeOK, Operations
  <2>2. ASSUME op.kind = "all", op.revision = current
        PROVE ~Excludes(ComposeTagged(InForce(overrideRows, began.time)))[Entry(op.permission)]
    <3>1. /\ shared.revision = current /\ Unexpired(shared, began.time)
          /\ shared.at <= began.time
      BY <2>2 DEF AsksByTheSnapshot
    <3>2. shared \in PolicySnapshots /\ shared # Nil
      BY <1>5, NilAssumption DEF Operations
    <3>3. shared.rows = overrideRows
      BY <3>1, <3>2 DEF PoliciesAreKnown, HeldPolicies, KnownPolicy
    <3>4. shared.rows \in SUBSET OverrideRows /\ began.time \in Times
      BY <3>2 DEF PolicySnapshots, OverridesTypeOK
    <3>5. InForce(shared.rows, began.time) = InForce(shared.rows, shared.at)
      BY <3>1, <3>2, <3>4, FreshRows
    <3>6. Effective(shared) = ComposeTagged(InForce(shared.rows, shared.at))
      BY <3>4, RowsOfPolicies DEF Effective
    <3> QED BY <1>5, <2>2, <3>3, <3>5, <3>6
  <2> QED BY <1>1, <1>6, <1>7, <1>8, <2>1, <2>2 DEF OperationIsInOrder, UnderWay
<1>14. SeesOrIsPinned'
  <2>1. CASE [rows |-> overrideRows, time |-> now] \in began.seen
    BY <1>8, <2>1 DEF SeesOrIsPinned
  <2>2. CASE /\ op.revision # current
             /\ op.kind # "list" => pin # Nil /\ Unexpired(pin, now) /\ pin.revision = op.revision
    BY <1>1, <1>2, <1>4, <1>6, <1>8, <2>2 DEF SeesOrIsPinned
  <2> QED BY <1>5, <2>1, <2>2 DEF SeesOrIsPinned
<1>15. StatementsTell' BY DEF StatementsTell
<1> QED BY <1>7, <1>9, <1>10, <1>11, <1>12, <1>13, <1>14, <1>15, NoAnswer

\* What a step that answers has to show.
LEMMA AnsweringKeeps ==
    ASSUME OverridesInv, pc' = "answered", UNCHANGED database,
           UNCHANGED <<shared, pin, generation, kept, scope, asks>>,
           op' \in Operations, HeldPolicies' \subseteq HeldPolicies,
           began' \in [time : Times, seen : SUBSET [rows : SUBSET OverrideRows, time : Times]],
           policy' \in PolicySnapshots \cup {Nil},
           statements' \in [Permissions -> PolicySnapshots \cup {Nil}],
           answers' \subseteq [generation : Nat, permission : Permissions, answer : {"has", "no"}],
           answer' \in {"has", "no", "conditional"},
           \A a \in answers' : a.generation <= generation,
           SharedAnswersFit', GrantsFollowTheComposition', DenialsFollowTheComposition'
    PROVE OverridesInv'
<1> USE DEF OverridesInv
<1>1. now' = now /\ facts' = facts /\ overrideRows' = overrideRows /\ current' = current
  BY DEF database
<1>2. OverridesTypeOK' BY <1>1 DEF OverridesTypeOK, Stages
<1>3. PoliciesAreKnown' BY <1>1 DEF PoliciesAreKnown, KnownPolicy
<1>4. SnapshotsAreInOrder' BY DEF SnapshotsAreInOrder
<1>5. AsksByTheSnapshot' BY DEF AsksByTheSnapshot
<1>6. OperationIsInOrder' BY DEF OperationIsInOrder, UnderWay
<1>7. SeesOrIsPinned' BY DEF SeesOrIsPinned, UnderWay
<1>8. StatementsTell' BY DEF StatementsTell
<1> QED BY <1>2, <1>3, <1>4, <1>5, <1>6, <1>7, <1>8

LEMMA RecallKeeps == ASSUME OverridesInv, Recall PROVE OverridesInv'
<1> USE DEF OverridesInv, Recall
<1>1. now' = now /\ facts' = facts /\ overrideRows' = overrideRows /\ current' = current
  BY DEF database
<1>2. /\ shared' = shared /\ pin' = pin /\ generation' = generation /\ kept' = kept
      /\ statements' = statements /\ answers' = answers /\ scope' = scope
      /\ op' = op /\ began' = began /\ policy' = policy /\ asks' = asks
  BY DEF process
<1>3. op \in Operations /\ UnderWay /\ op.with = shared /\ op.kind = "check"
  BY DEF OperationIsInOrder, UnderWay
<1>4. PICK a \in Found : answer' = a.answer OBVIOUS
<1>5. /\ a \in answers /\ a.generation = op.key /\ a.permission = op.permission
      /\ a.answer \in {"has", "no"}
  BY DEF Found, OverridesTypeOK
<1>6. /\ op.key = generation /\ shared.revision = op.revision /\ Unexpired(shared, began.time)
      /\ shared.at <= began.time /\ [rows |-> shared.rows, time |-> began.time] \in began.seen
  BY <1>3 DEF AsksByTheSnapshot
<1>7. shared \in PolicySnapshots /\ shared # Nil /\ KnownPolicy(shared)
  BY <1>3, NilAssumption DEF Operations, PoliciesAreKnown, HeldPolicies
<1>8. /\ shared.rows \in SUBSET OverrideRows /\ began.time \in Times /\ now \in Times
      /\ began.time <= now
  BY <1>3, <1>7 DEF PolicySnapshots, OverridesTypeOK, OperationIsInOrder
<1> DEFINE p == op.permission
<1>9. Granted(shared.rows, shared.at, facts, p) = Granted(shared.rows, began.time, facts, p)
  BY <1>6, <1>7, <1>8, FreshRows DEF Granted
<1>10. /\ a.answer = "has" => Granted(shared.rows, shared.at, facts, p) = "true"
       /\ a.answer = "no" /\ shared.revision = current =>
            Granted(shared.rows, shared.at, facts, p) = "false"
  BY <1>3, <1>5, <1>6, <1>7 DEF SharedAnswersFit
<1>11. GrantsFollowTheComposition'
  <2> SUFFICES ASSUME answer' = "has"
               PROVE \E w \in began.seen : Granted(w.rows, w.time, facts, p) = "true"
    BY <1>1, <1>2, <1>3 DEF GrantsFollowTheComposition, Justified, Worlds, SplitReads
  <2> DEFINE w == [rows |-> shared.rows, time |-> began.time]
  <2>1. w \in began.seen /\ w.rows = shared.rows /\ w.time = began.time BY <1>6
  <2> QED BY <1>4, <1>9, <1>10, <2>1
<1>12. DenialsFollowTheComposition'
  <2>1. ASSUME Calm
        PROVE /\ shared.revision = current
              /\ Granted(overrideRows, now, facts, p) = Granted(shared.rows, shared.at, facts, p)
    <3>1. shared.revision = current BY <1>3, <2>1 DEF Calm
    <3>2. shared.rows = overrideRows BY <1>7, <3>1 DEF KnownPolicy
    <3>3. \A d \in Deadlines(Unstale(shared.rows)) : ~(began.time < d /\ d <= now)
      BY <2>1, <3>2 DEF Calm
    <3>4. InForce(shared.rows, now) = InForce(shared.rows, began.time)
      BY <1>8, <3>3, CalmRows
    <3> QED BY <1>9, <3>1, <3>2, <3>4 DEF Granted
  <2>2. Calm' => Calm BY <1>1, <1>2 DEF Calm
  <2>3. Granted(overrideRows, now, facts, op.permission)'
           = Granted(overrideRows, now, facts, p)
    BY <1>1, <1>2
  <2> QED BY <1>2, <1>3, <1>4, <1>5, <1>10, <2>1, <2>2, <2>3 DEF DenialsFollowTheComposition
<1>13. SharedAnswersFit' BY <1>1, <1>2, <1>3, AnswersStay
<1>14. HeldPolicies' = HeldPolicies BY <1>2 DEF HeldPolicies
<1>15. \A b \in answers' : b.generation <= generation BY <1>2 DEF SnapshotsAreInOrder
<1>16. answer' \in {"has", "no"} BY <1>4, <1>5
<1> QED BY <1>2, <1>3, <1>11, <1>12, <1>13, <1>14, <1>15, <1>16, AnsweringKeeps
        DEF OverridesTypeOK

LEMMA RefuseAllKeeps == ASSUME OverridesInv, RefuseAll PROVE OverridesInv'
<1> USE DEF OverridesInv, RefuseAll
<1>1. now' = now /\ facts' = facts /\ overrideRows' = overrideRows /\ current' = current
  BY DEF database
<1>2. /\ shared' = shared /\ pin' = pin /\ generation' = generation /\ kept' = kept
      /\ statements' = statements /\ answers' = answers /\ scope' = scope
      /\ op' = op /\ began' = began /\ policy' = policy /\ asks' = asks
  BY DEF process
<1>3. op \in Operations /\ op.kind = "all" BY DEF OperationIsInOrder
<1>4. GrantsFollowTheComposition' /\ DenialsFollowTheComposition'
  BY <1>2, <1>3 DEF GrantsFollowTheComposition, DenialsFollowTheComposition
<1>5. SharedAnswersFit' BY <1>1, <1>2, <1>3, AnswersStay
<1>6. HeldPolicies' = HeldPolicies BY <1>2 DEF HeldPolicies
<1>7. \A b \in answers' : b.generation <= generation BY <1>2 DEF SnapshotsAreInOrder
<1> QED BY <1>2, <1>3, <1>4, <1>5, <1>6, <1>7, AnsweringKeeps DEF OverridesTypeOK

\* Steps that leave no operation behind.
LEMMA IdleKeeps ==
    ASSUME OverridesInv, pc' = "idle", UNCHANGED database, op' = NoOperation, began' = Unasked,
           UNCHANGED <<shared, generation, statements, asks>>, pin' \in {pin, Nil},
           answers' \subseteq answers, answer' = Nil, policy' \in {policy, Nil},
           kept' \in PolicySnapshots \cup {Nil}, kept' # Nil => Ahead(kept') = {},
           scope' = Nil \/ scope' \in [policy : PolicySnapshots, permission : Permissions],
           \A pol \in HeldPolicies' : KnownPolicy(pol)
    PROVE OverridesInv'
<1> USE DEF OverridesInv
<1>1. now' = now /\ facts' = facts /\ overrideRows' = overrideRows /\ current' = current
  BY DEF database
<1>2. OverridesTypeOK'
  <2>1. began' \in [time : Times, seen : SUBSET [rows : SUBSET OverrideRows, time : Times]]
    BY LimitsAssumption DEF Unasked, Times
  <2> QED BY <1>1, <2>1 DEF OverridesTypeOK, Stages
<1>3. PoliciesAreKnown' BY <1>1 DEF PoliciesAreKnown, KnownPolicy
<1>4. SnapshotsAreInOrder' BY DEF SnapshotsAreInOrder
<1>5. SharedAnswersFit' BY <1>1, AnswersStay
<1>6. AsksByTheSnapshot' BY DEF AsksByTheSnapshot
<1>7. OperationIsInOrder' BY DEF OperationIsInOrder, UnderWay
<1>8. SeesOrIsPinned' BY DEF SeesOrIsPinned, UnderWay
<1>9. StatementsTell' BY DEF StatementsTell
<1> QED BY <1>2, <1>3, <1>4, <1>5, <1>6, <1>7, <1>8, <1>9, NoAnswer

LEMMA HeldAreTyped ==
    ASSUME OverridesTypeOK PROVE HeldPolicies \subseteq PolicySnapshots
  BY DEF OverridesTypeOK, HeldPolicies, Operations, NoOperation

LEMMA DropScopeKeeps == ASSUME OverridesInv, DropScope PROVE OverridesInv'
<1> USE DEF OverridesInv, DropScope, local
<1>1. pc' = "idle" /\ op = op' /\ pc = "idle" OBVIOUS
<1>2. now' = now /\ facts' = facts /\ overrideRows' = overrideRows /\ current' = current
  BY DEF database
<1>3. OverridesTypeOK' BY <1>2 DEF OverridesTypeOK
<1>4. PoliciesAreKnown'
  <2>1. HeldPolicies' \subseteq HeldPolicies BY DEF HeldPolicies
  <2> QED BY <1>2, <2>1 DEF PoliciesAreKnown, KnownPolicy
<1>5. SnapshotsAreInOrder' BY DEF SnapshotsAreInOrder
<1>6. SharedAnswersFit' BY <1>2, AnswersStay
<1>7. AsksByTheSnapshot' BY DEF AsksByTheSnapshot
<1>8. OperationIsInOrder' BY DEF OperationIsInOrder, UnderWay
<1>9. SeesOrIsPinned' BY DEF SeesOrIsPinned, UnderWay
<1>10. StatementsTell' BY DEF StatementsTell
<1>11. answer' = Nil BY DEF OperationIsInOrder
<1> QED BY <1>3, <1>4, <1>5, <1>6, <1>7, <1>8, <1>9, <1>10, <1>11, NoAnswer

LEMMA ReturnKeeps == ASSUME OverridesInv, Return PROVE OverridesInv'
<1> USE DEF OverridesInv, Return
<1>1. /\ shared' = shared /\ pin' = pin /\ generation' = generation /\ kept' = kept
      /\ statements' = statements /\ answers' = answers /\ scope' = scope
  BY DEF process
<1>2. HeldPolicies' \subseteq HeldPolicies BY <1>1 DEF HeldPolicies, NoOperation
<1>3. \A pol \in HeldPolicies : KnownPolicy(pol) BY DEF PoliciesAreKnown
<1> QED BY <1>1, <1>2, <1>3, IdleKeeps DEF OverridesTypeOK, SnapshotsAreInOrder

LEMMA CloseKeeps == ASSUME OverridesInv, CloseEvaluator PROVE OverridesInv'
<1> USE DEF OverridesInv, CloseEvaluator, local
<1>1. now' = now /\ facts' = facts /\ overrideRows' = overrideRows /\ current' = current
  BY DEF database
<1>2. OverridesTypeOK' BY <1>1 DEF OverridesTypeOK
<1>3. PoliciesAreKnown'
  <2>1. HeldPolicies' \subseteq HeldPolicies BY DEF HeldPolicies
  <2> QED BY <1>1, <2>1 DEF PoliciesAreKnown, KnownPolicy
<1>4. SnapshotsAreInOrder' BY DEF SnapshotsAreInOrder
<1>5. SharedAnswersFit' BY DEF SharedAnswersFit
<1>6. AsksByTheSnapshot' BY DEF AsksByTheSnapshot
<1>7. OperationIsInOrder' BY <1>1 DEF OperationIsInOrder, UnderWay
<1>8. SeesOrIsPinned' BY <1>1 DEF SeesOrIsPinned, UnderWay
<1>9. StatementsTell' BY DEF StatementsTell
<1>10. answer' = Nil BY DEF OperationIsInOrder
<1> QED BY <1>2, <1>3, <1>4, <1>5, <1>6, <1>7, <1>8, <1>9, <1>10, NoAnswer

LEMMA PrepareKeeps == ASSUME OverridesInv, Prepare PROVE OverridesInv'
<1> USE DEF OverridesInv, Prepare
<1> DEFINE pol == PolicyFor(op.with, now)
           over == op.kind = "list" /\ op.with.revision # op.revision
<1>1. now' = now /\ facts' = facts /\ overrideRows' = overrideRows /\ current' = current
  BY DEF database
<1>2. /\ op \in Operations /\ UnderWay /\ op.with = shared /\ answer = Nil
      /\ began.time <= now /\ op.kind \notin {"scope", "shared"}
  BY DEF OperationIsInOrder, UnderWay
<1>3. shared \in PolicySnapshots /\ shared # Nil /\ KnownPolicy(shared)
  BY <1>2, NilAssumption DEF Operations, PoliciesAreKnown, HeldPolicies
<1>4. ~DoesNotCompose(op.with, now)
  BY <1>2, <1>3, AcceptedRowsCompose DEF KnownPolicy, DoesNotCompose
<1>5. now \in Nat /\ now \in Times BY DEF OverridesTypeOK, Times
<1>6. /\ pol \in PolicySnapshots /\ pol # Nil /\ KnownPolicy(pol) /\ pol.revision = shared.revision
      /\ Ahead(pol) = {} \/ (shared.at <= pol.at /\ began.time <= pol.at)
  <2>1. CASE Reusable(op.with, now)
    <3>1. pol = kept /\ kept # Nil BY <2>1 DEF PolicyFor, Reusable
    <3>2. kept \in PolicySnapshots /\ KnownPolicy(kept) /\ Ahead(kept) = {}
      BY <3>1 DEF OverridesTypeOK, PoliciesAreKnown, HeldPolicies, SnapshotsAreInOrder
    <3>3. kept.revision = shared.revision BY <1>2, <2>1 DEF Reusable
    <3> QED BY <3>1, <3>2, <3>3
  <2>2. CASE ~Reusable(op.with, now)
    <3>1. pol = [shared EXCEPT !.at = now] BY <1>2, <2>2 DEF PolicyFor, Prepared
    <3>2. /\ pol \in PolicySnapshots /\ pol.rows = shared.rows /\ pol.at = now
          /\ pol.revision = shared.revision
      BY <1>3, <1>5, <3>1 DEF PolicySnapshots
    <3>3. shared.at <= now BY <1>3 DEF KnownPolicy
    <3>4. now <= now BY <1>5
    <3> HIDE DEF pol
    <3>5. KnownPolicy(pol) BY <1>3, <3>2, <3>4 DEF KnownPolicy
    <3> QED BY <1>2, <3>2, <3>3, <3>5, NilAssumption
  <2> QED BY <2>1, <2>2
<1>7. CASE over
  <2>1. /\ answer' = "no" /\ pc' = "answered" /\ kept' = kept /\ scope' = scope /\ op' = op
        /\ began' = began /\ policy' = policy
    BY <1>7
  <2>2. GrantsFollowTheComposition' BY <2>1 DEF GrantsFollowTheComposition
  <2>3. DenialsFollowTheComposition'
    BY <1>1, <1>7, <2>1 DEF DenialsFollowTheComposition, Calm
  <2>4. SharedAnswersFit' BY <1>1, <2>1, AnswersStay
  <2>5. HeldPolicies' = HeldPolicies BY <2>1 DEF HeldPolicies
  <2>6. \A b \in answers' : b.generation <= generation BY DEF SnapshotsAreInOrder
  <2> QED BY <1>2, <2>1, <2>2, <2>3, <2>4, <2>5, <2>6, AnsweringKeeps DEF OverridesTypeOK
<1> HIDE DEF pol
<1>8. CASE ~over
  <2>1. /\ KeepPolicy(pol) /\ answer' = answer
        /\ IF op.kind = "build"
             THEN /\ scope' = [policy |-> pol, permission |-> op.permission]
                  /\ pc' = "idle" /\ op' = NoOperation /\ began' = Unasked
                  /\ UNCHANGED policy
             ELSE /\ policy' = pol
                  /\ pc' = "prepared"
                  /\ UNCHANGED <<scope, op, began>>
    BY <1>4, <1>8 DEF pol
  <2>2. kept' \in {pol, kept} /\ (kept' # Nil => Ahead(kept') = {})
    BY <2>1 DEF KeepPolicy, Keepable, SnapshotsAreInOrder
  <2>3. answer' = Nil BY <1>2, <2>1
  <2>4. CASE op.kind = "build"
    <3>1. /\ scope' = [policy |-> pol, permission |-> op.permission]
          /\ pc' = "idle" /\ op' = NoOperation /\ began' = Unasked /\ policy' = policy
      BY <2>1, <2>4
    <3>2. scope' \in [policy : PolicySnapshots, permission : Permissions]
      BY <1>2, <1>6, <3>1 DEF Operations
    <3>3. HeldPolicies' \subseteq HeldPolicies \cup {pol}
      BY <2>2, <3>1 DEF HeldPolicies, NoOperation
    <3>4. \A held \in HeldPolicies' : KnownPolicy(held)
      BY <1>6, <3>3 DEF PoliciesAreKnown
    <3> QED BY <1>6, <2>2, <2>3, <3>1, <3>2, <3>4, IdleKeeps DEF OverridesTypeOK
  <2>5. CASE op.kind # "build"
    <3>1. /\ policy' = pol /\ pc' = "prepared" /\ scope' = scope /\ op' = op /\ began' = began
      BY <2>1, <2>5
    <3>2. OverridesTypeOK' BY <1>1, <1>6, <2>2, <2>3, <3>1 DEF OverridesTypeOK, Stages
    <3>3. PoliciesAreKnown'
      <4>1. HeldPolicies' \subseteq HeldPolicies \cup {pol}
        BY <2>2, <3>1 DEF HeldPolicies
      <4> QED BY <1>1, <1>6, <4>1 DEF PoliciesAreKnown, KnownPolicy
    <3>4. SnapshotsAreInOrder' BY <2>2 DEF SnapshotsAreInOrder
    <3>5. SharedAnswersFit' BY <1>1, <3>1, AnswersStay
    <3>6. AsksByTheSnapshot' BY <3>1 DEF AsksByTheSnapshot
    <3>7. OperationIsInOrder'
      BY <1>1, <1>2, <2>3, <3>1 DEF OperationIsInOrder, UnderWay
    <3>8. SeesOrIsPinned'
      <4>1. CASE [rows |-> overrideRows, time |-> now] \in began.seen
        BY <1>1, <3>1, <4>1 DEF SeesOrIsPinned
      <4>2. CASE /\ op.revision # current
                 /\ op.kind # "list" =>
                      pin # Nil /\ Unexpired(pin, now) /\ pin.revision = op.revision
        <5>1. pin # Nil => pin = shared BY DEF SnapshotsAreInOrder
        <5>2. pol.revision = op.revision BY <1>2, <1>6, <1>8, <4>2, <5>1
        <5> QED BY <1>1, <3>1, <4>2, <5>2 DEF SeesOrIsPinned
      <4> QED BY <1>2, <4>1, <4>2 DEF SeesOrIsPinned
    <3>9. StatementsTell' BY <1>1, <1>6, <3>1 DEF StatementsTell
    <3> QED BY <2>3, <3>2, <3>3, <3>4, <3>5, <3>6, <3>7, <3>8, <3>9, NoAnswer
  <2> QED BY <2>4, <2>5
<1> QED BY <1>7, <1>8

-----------------------------------------------------------------------------
(* Statements.                                                             *)

\* The statement that is executed is compiled for the same policy, or for one
\* with the same fence.
LEMMA StatementsAreKept ==
    ASSUME OverridesInv, NEW pol \in HeldPolicies, NEW p \in Permissions
    PROVE /\ Statement(pol, p) \in HeldPolicies /\ Statement(pol, p).revision = pol.revision
          /\ Fence(Statement(pol, p)) = Fence(pol)
          /\ ~NoVerdicts(pol, p) => Statement(pol, p) = pol
<1>1. CASE NoVerdicts(pol, p) /\ SameStatement(pol, p)
  BY <1>1 DEF Statement, SameStatement, HeldPolicies
<1>2. CASE ~(NoVerdicts(pol, p) /\ SameStatement(pol, p))
  BY <1>2 DEF Statement
<1> QED BY <1>1, <1>2

\* What a statement says of the published policy.
LEMMA StatementsSay ==
    ASSUME OverridesInv, NEW pol \in HeldPolicies, NEW p \in Permissions, NEW f \in AllFacts
    PROVE LET granted == Granted(overrideRows, now, f, p)
              st == Statement(pol, p)
          IN /\ Executed(st, f, p, "lower") =>
                  granted = "true" /\ pol.revision = current /\ FenceOpen(pol, current, now)
             /\ FenceOpen(pol, current, now) /\ ~Executed(st, f, p, "lower") =>
                  granted # "true"
<1> DEFINE st == Statement(pol, p)
<1>1. st \in HeldPolicies /\ st.revision = pol.revision /\ Fence(st) = Fence(pol)
  BY StatementsAreKept
<1>2. st \in PolicySnapshots /\ KnownPolicy(st) /\ now \in Times /\ f \in [Relations -> Presence]
  BY <1>1, HeldAreTyped DEF OverridesInv, OverridesTypeOK, PoliciesAreKnown, AllFacts
<1> HIDE DEF st
<1>3. Ahead(st) = Ahead(pol) /\ Passed(st) = Passed(pol) BY <1>1 DEF Fence
<1>4. FenceOpen(st, current, now) <=> FenceOpen(pol, current, now)
  BY <1>1, <1>3 DEF FenceOpen
<1>5. ASSUME FenceOpen(st, current, now)
      PROVE Holds(st, f, p, "lower", now) <=> Granted(overrideRows, now, f, p) = "true"
  <2>1. st.rows = overrideRows /\ st.at <= now BY <1>2, <1>5 DEF FenceOpen, KnownPolicy
  <2>2. Holds(st, f, p, "lower", now) <=> Granted(st.rows, now, f, p) = "true"
    BY <1>2, <1>5, <2>1, StatementsAreExact
  <2> QED BY <2>1, <2>2
<1>6. pol.revision = current <=> st.revision = current BY <1>1
<1> QED BY <1>4, <1>5, <1>6 DEF Executed, st, FenceOpen

\* While nothing passes, the fence of the policy in use stays open.
LEMMA FenceStays ==
    ASSUME OverridesInv, pc \in {"prepared", "upper", "residual"},
           policy.revision = current, Unexpired(shared, now) \/ Calm
    PROVE FenceOpen(policy, current, now)
<1> USE DEF OverridesInv
<1>1. /\ policy # Nil /\ policy.revision = shared.revision /\ UnderWay
      /\ Ahead(policy) = {} \/ (shared.at <= policy.at /\ began.time <= policy.at)
  BY DEF StatementsTell, UnderWay
<1>2. op \in Operations /\ op.with = shared BY <1>1 DEF OperationIsInOrder, UnderWay
<1>3. shared \in PolicySnapshots /\ shared # Nil BY <1>2, NilAssumption DEF Operations
<1>4. policy \in PolicySnapshots BY <1>1 DEF OverridesTypeOK
<1>5. KnownPolicy(policy) /\ KnownPolicy(shared)
  BY <1>1, <1>3 DEF PoliciesAreKnown, HeldPolicies
<1>6. policy.rows = overrideRows /\ shared.rows = overrideRows /\ policy.at <= now
  BY <1>1, <1>5 DEF KnownPolicy
<1>7. now \in Nat /\ policy.at \in Nat /\ shared.at \in Nat /\ began.time \in Nat
  BY <1>3, <1>4 DEF OverridesTypeOK, Times, PolicySnapshots
<1>8. overrideRows \in SUBSET OverrideRows BY DEF OverridesTypeOK
<1>9. ASSUME NEW d \in Ahead(policy) PROVE now < d
  <2>1. /\ d \in Deadlines(Unstale(overrideRows)) /\ d > policy.at
        /\ shared.at <= policy.at /\ began.time <= policy.at
    BY <1>1, <1>6 DEF Ahead
  <2>2. d \in Nat BY <1>8, <2>1, DeadlinesAreTimes
  <2>3. CASE Calm
    <3>1. ~(began.time < d /\ d <= now) BY <2>1, <2>3 DEF Calm
    <3> QED BY <1>7, <2>1, <2>2, <3>1
  <2>4. CASE Unexpired(shared, now)
    <3>1. PICK r \in Unstale(overrideRows) : d = r.expires /\ d # Never BY <2>1 DEF Deadlines
    <3>2. r.expires > shared.at BY <1>7, <2>1, <2>2, <3>1
    <3>3. d \in Deadlines(Active(Unstale(overrideRows), shared.at))
      BY <3>1, <3>2 DEF Deadlines, Active, ActiveAt
    <3> QED BY <1>6, <2>4, <3>3 DEF Unexpired
  <2> QED BY <2>3, <2>4
<1> QED BY <1>4, <1>6, <1>7, <1>9, FenceIsOpen

\* What an operation has to know before it answers.
LEMMA OperationsHold ==
    ASSUME OverridesInv, pc \in {"prepared", "upper", "residual"}
    PROVE /\ op \in Operations /\ op.permission \in Permissions /\ UnderWay
          /\ op.with = shared /\ op.kind \notin {"scope", "shared"}
          /\ shared \in PolicySnapshots /\ shared # Nil /\ KnownPolicy(shared)
          /\ policy \in PolicySnapshots /\ policy # Nil /\ KnownPolicy(policy)
          /\ policy \in HeldPolicies /\ policy.revision = shared.revision
          /\ now \in Times /\ facts \in AllFacts /\ facts \in [Relations -> Presence]
          /\ began.time \in Times /\ began.time <= now
          /\ overrideRows \in SUBSET OverrideRows
<1> USE DEF OverridesInv
<1>1. /\ op \in Operations /\ UnderWay /\ op.with = shared /\ op.kind \notin {"scope", "shared"}
      /\ began.time <= now
  BY DEF OperationIsInOrder, UnderWay
<1>2. shared \in PolicySnapshots /\ op.permission \in Permissions BY <1>1 DEF Operations
<1>3. shared # Nil BY <1>2, NilAssumption
<1>4. policy # Nil /\ policy.revision = shared.revision BY DEF StatementsTell
<1>5. policy \in HeldPolicies /\ shared \in HeldPolicies BY <1>3, <1>4 DEF HeldPolicies
<1>6. KnownPolicy(policy) /\ KnownPolicy(shared) BY <1>5 DEF PoliciesAreKnown
<1> QED BY <1>1, <1>2, <1>3, <1>4, <1>5, <1>6 DEF OverridesTypeOK, AllFacts

\* A fresh snapshot of the published policy says what is in force now.
LEMMA SharedSays ==
    ASSUME OverridesInv, shared # Nil, shared.revision = current, Unexpired(shared, now),
           NEW f, NEW p
    PROVE Granted(shared.rows, shared.at, f, p) = Granted(overrideRows, now, f, p)
<1> USE DEF OverridesInv
<1>1. shared \in PolicySnapshots /\ KnownPolicy(shared) /\ now \in Times
  BY DEF OverridesTypeOK, PoliciesAreKnown, HeldPolicies
<1>2. shared.rows = overrideRows /\ shared.at <= now BY <1>1 DEF KnownPolicy
<1>3. InForce(shared.rows, now) = InForce(shared.rows, shared.at) BY <1>1, <1>2, FreshRows
<1> QED BY <1>2, <1>3 DEF Granted

\* A check may keep an answer that is true while the snapshot is fresh.
LEMMA RememberKeeps ==
    ASSUME OverridesInv, UNCHANGED database, shared' = shared, generation' = generation,
           pc' = "answered", op \in Operations, op.key <= generation,
           NEW a \in {"has", "no", "conditional"}, Remember(op.permission, a),
           op.kind = "check" /\ shared # Nil /\ Unexpired(shared, now) =>
             LET value == Granted(overrideRows, now, facts, op.permission)
             IN /\ a = "has" => value = "true" /\ shared.revision = current
                /\ a = "no" /\ shared.revision = current => value = "false"
    PROVE /\ answers' \subseteq [generation : Nat, permission : Permissions, answer : {"has", "no"}]
          /\ \A b \in answers' : b.generation <= generation
          /\ SharedAnswersFit'
<1> USE DEF OverridesInv
<1> DEFINE p == op.permission
           new == [generation |-> op.key, permission |-> p, answer |-> a]
<1>1. now' = now /\ facts' = facts /\ overrideRows' = overrideRows /\ current' = current
  BY DEF database
<1>2. /\ answers \subseteq [generation : Nat, permission : Permissions, answer : {"has", "no"}]
      /\ \A b \in answers : b.generation <= generation
  BY DEF OverridesTypeOK, SnapshotsAreInOrder
<1>3. CASE op.kind = "check" /\ a # "conditional"
  <2>1. answers' = answers \cup {new} BY <1>3 DEF Remember
  <2>2. new \in [generation : Nat, permission : Permissions, answer : {"has", "no"}]
        /\ new.generation <= generation
    BY <1>3 DEF Operations
  <2>3. ASSUME shared # Nil, Unexpired(shared, now), NEW b \in answers', b.generation = generation
        PROVE LET value == Granted(shared.rows, shared.at, facts, b.permission)
              IN /\ b.answer = "has" => value = "true"
                 /\ b.answer = "no" /\ shared.revision = current => value = "false"
    <3>1. CASE b \in answers BY <2>3, <3>1 DEF SharedAnswersFit
    <3>2. CASE b = new
      <4>1. b.permission = p /\ b.answer = a BY <3>2
      <4>2. shared.revision = current =>
              Granted(shared.rows, shared.at, facts, p) = Granted(overrideRows, now, facts, p)
        BY <2>3, SharedSays
      <4> QED BY <1>3, <2>3, <4>1, <4>2
    <3> QED BY <2>1, <2>3, <3>1, <3>2
  <2>4. SharedAnswersFit' BY <1>1, <2>3 DEF SharedAnswersFit
  <2> HIDE DEF new
  <2> QED BY <1>2, <2>1, <2>2, <2>4
<1>4. CASE ~(op.kind = "check" /\ a # "conditional")
  <2>1. answers' = answers BY <1>4 DEF Remember
  <2> QED BY <1>1, <1>2, <2>1, AnswersStay
<1> QED BY <1>3, <1>4

\* A statement whose policy is still the published one is witnessed.
LEMMA StatementsAreSeen ==
    ASSUME OverridesInv, pc \in {"prepared", "upper", "residual"}, policy.revision = current
    PROVE [rows |-> overrideRows, time |-> now] \in began.seen
  BY DEF OverridesInv, SeesOrIsPinned, UnderWay

\* What one permission of an operation is granted, the other one is too when
\* they share.
LEMMA SharedOperations ==
    ASSUME OverridesInv, pc \in {"prepared", "upper", "residual"}, op.shares,
           op.revision = current, NEW t, NEW f \in AllFacts, NEW p \in Permissions,
           NEW q \in Permissions
    PROVE Granted(overrideRows, t, f, p) = Granted(overrideRows, t, f, q)
<1> DEFINE pol == [rows |-> overrideRows]
<1>1. UnderWay BY DEF UnderWay
<1>2. Shares(pol) BY <1>1 DEF OverridesInv, OperationIsInOrder
<1>3. pol.rows = overrideRows /\ overrideRows \in SUBSET OverrideRows
  BY DEF OverridesInv, OverridesTypeOK
<1>4. f \in [Relations -> Presence] BY DEF AllFacts
<1> HIDE DEF pol
<1>5. Granted(pol.rows, t, f, p) = Granted(pol.rows, t, f, q) BY <1>2, <1>3, <1>4, SharedGrants
<1> QED BY <1>3, <1>5

LEMMA LowerKeeps == ASSUME OverridesInv, Lower PROVE OverridesInv'
<1> USE DEF OverridesInv
<1> DEFINE p == op.permission
           st == Statement(policy, p)
           allowed == Executed(st, TuplesAsked, p, "lower")
           verdict == IF allowed THEN "has" ELSE "no"
           open == ~allowed /\ op.kind = "check" /\ ~NoVerdicts(policy, p)
           second == [op EXCEPT !.permission = Other(p)]
           value == Granted(overrideRows, now, facts, p)
<1>1. /\ pc = "prepared" /\ KeepStatement(policy, p)
      /\ IF open THEN /\ pc' = "upper"
                      /\ UNCHANGED <<op, answers, answer>>
         ELSE IF op.kind = "many" /\ ~op.shares
           THEN /\ op' = [second EXCEPT !.kind = "held"]
                /\ pc' = "asked"
                /\ UNCHANGED <<answers, answer>>
           ELSE /\ op' = IF op.kind = "many" THEN [second EXCEPT !.kind = "shared"] ELSE op
                /\ Remember(p, verdict)
                /\ answer' = verdict
                /\ pc' = "answered"
      /\ shared' = shared /\ pin' = pin /\ generation' = generation /\ kept' = kept
      /\ scope' = scope /\ asks' = asks /\ began' = began /\ policy' = policy
  BY DEF Lower
<1>2. /\ now' = now /\ facts' = facts /\ overrideRows' = overrideRows /\ current' = current
      /\ UNCHANGED database
  BY DEF Lower, database
<1>3. /\ op \in Operations /\ p \in Permissions /\ UnderWay
      /\ op.with = shared /\ op.kind \notin {"scope", "shared"}
      /\ shared \in PolicySnapshots /\ shared # Nil /\ KnownPolicy(shared)
      /\ policy \in PolicySnapshots /\ policy # Nil /\ KnownPolicy(policy)
      /\ policy \in HeldPolicies /\ policy.revision = shared.revision
      /\ now \in Times /\ facts \in AllFacts /\ facts \in [Relations -> Presence]
      /\ began.time \in Times /\ began.time <= now
      /\ overrideRows \in SUBSET OverrideRows
  BY <1>1, OperationsHold
<1>4. TuplesAsked \in AllFacts /\ (op.kind # "all" => TuplesAsked = facts)
  BY <1>3 DEF TuplesAsked, NoFacts, AllFacts, Presence
<1>5. st \in HeldPolicies /\ (~NoVerdicts(policy, p) => st = policy) BY <1>3, StatementsAreKept
<1>6. /\ allowed => /\ Granted(overrideRows, now, TuplesAsked, p) = "true"
                    /\ policy.revision = current /\ FenceOpen(policy, current, now)
      /\ FenceOpen(policy, current, now) /\ ~allowed =>
           Granted(overrideRows, now, TuplesAsked, p) # "true"
  BY <1>3, <1>4, StatementsSay
<1> HIDE DEF st, allowed
<1>7. /\ statements' \in [Permissions -> PolicySnapshots \cup {Nil}]
      /\ \A q \in Permissions : statements'[q] \in {statements[q], st}
  <2>1. statements \in [Permissions -> PolicySnapshots \cup {Nil}] BY DEF OverridesTypeOK
  <2>2. st \in PolicySnapshots BY <1>5, HeldAreTyped
  <2>3. statements' = statements \/ statements' = [statements EXCEPT ![p] = st]
    BY <1>1 DEF KeepStatement, st
  <2> QED BY <1>3, <2>1, <2>2, <2>3
<1>8. Other(p) \in Permissions BY <1>3, NamesAssumption DEF Other
<1>9. PoliciesAreKnown' /\ HeldPolicies' \subseteq HeldPolicies
  <2>1. op'.with = op.with BY <1>1, <1>3 DEF Operations
  <2>2. HeldPolicies' \subseteq HeldPolicies BY <1>1, <1>5, <1>7, <2>1 DEF HeldPolicies
  <2> QED BY <1>2, <2>2 DEF PoliciesAreKnown, KnownPolicy
<1>10. answer = Nil BY <1>1 DEF OperationIsInOrder
<1>11. CASE open
  <2>1. /\ pc' = "upper" /\ op' = op /\ answers' = answers /\ answer' = answer
        /\ op.kind = "check" /\ ~allowed
    BY <1>1, <1>11
  <2>2. OverridesTypeOK' BY <1>1, <1>2, <1>7, <2>1 DEF OverridesTypeOK, Stages
  <2>3. SnapshotsAreInOrder' BY <1>1, <2>1 DEF SnapshotsAreInOrder
  <2>4. SharedAnswersFit' BY <1>1, <1>2, <2>1, AnswersStay
  <2>5. AsksByTheSnapshot' BY <2>1 DEF AsksByTheSnapshot
  <2>6. OperationIsInOrder' BY <1>1, <1>2, <1>10, <2>1 DEF OperationIsInOrder, UnderWay
  <2>7. SeesOrIsPinned' BY <1>1, <1>2, <2>1 DEF SeesOrIsPinned, UnderWay
  <2>8. StatementsTell'
    <3>1. ASSUME FenceOpen(policy, current, now)
          PROVE Granted(policy.rows, policy.at, facts, p) # "true"
      <4>1. policy.rows = overrideRows /\ policy.at <= now
        BY <1>3, <3>1 DEF FenceOpen, KnownPolicy
      <4>2. Granted(policy.rows, now, facts, p) = Granted(policy.rows, policy.at, facts, p)
        BY <1>3, <3>1, <4>1, StatementsAreExact
      <4>3. Granted(overrideRows, now, TuplesAsked, p) # "true" BY <1>6, <2>1, <3>1
      <4> QED BY <1>4, <2>1, <4>1, <4>2, <4>3
    <3>2. Ahead(policy) = {} \/ (shared.at <= policy.at /\ began.time <= policy.at)
      BY <1>1 DEF StatementsTell
    <3> QED BY <1>1, <1>2, <1>3, <2>1, <3>1, <3>2 DEF StatementsTell
  <2> QED BY <1>9, <1>10, <2>1, <2>2, <2>3, <2>4, <2>5, <2>6, <2>7, <2>8, NoAnswer
<1>12. CASE ~open /\ op.kind = "many" /\ ~op.shares
  <2>1. /\ op' = [second EXCEPT !.kind = "held"] /\ pc' = "asked" /\ answers' = answers
        /\ answer' = answer
    BY <1>1, <1>12
  <2>2. /\ op' \in Operations /\ op'.kind = "held" /\ op'.with = op.with /\ op'.key = op.key
        /\ op'.revision = op.revision /\ op'.shares = op.shares
    BY <1>3, <1>8, <2>1 DEF Operations
  <2>3. OverridesTypeOK' BY <1>1, <1>2, <1>7, <2>1, <2>2 DEF OverridesTypeOK, Stages
  <2>4. SnapshotsAreInOrder' BY <1>1, <2>1 DEF SnapshotsAreInOrder
  <2>5. SharedAnswersFit' BY <1>1, <1>2, <2>1, <2>2, AnswersStay
  <2>6. AsksByTheSnapshot' BY <2>2 DEF AsksByTheSnapshot
  <2>7. OperationIsInOrder'
    BY <1>1, <1>2, <1>3, <1>10, <1>12, <2>1, <2>2 DEF OperationIsInOrder, UnderWay
  <2>8. SeesOrIsPinned'
    BY <1>1, <1>2, <1>12, <2>1, <2>2 DEF SeesOrIsPinned, UnderWay
  <2>9. StatementsTell' BY <2>1 DEF StatementsTell
  <2> QED BY <1>9, <1>10, <2>1, <2>3, <2>4, <2>5, <2>6, <2>7, <2>8, <2>9, NoAnswer
<1>13. CASE ~open /\ ~(op.kind = "many" /\ ~op.shares)
  <2>1. /\ op' = IF op.kind = "many" THEN [second EXCEPT !.kind = "shared"] ELSE op
        /\ Remember(p, verdict) /\ answer' = verdict /\ pc' = "answered"
    BY <1>1, <1>13
  <2>2. /\ op' \in Operations /\ op'.with = op.with /\ op'.revision = op.revision
        /\ op.kind # "many" => op' = op
        /\ op.kind = "many" => op'.kind = "shared" /\ op'.permission = Other(p) /\ op.shares
    BY <1>3, <1>8, <1>13, <2>1 DEF Operations
  <2>3. verdict \in {"has", "no"} /\ (verdict = "has" <=> allowed) OBVIOUS
  <2>4. ASSUME op.kind = "check", ~allowed, FenceOpen(policy, current, now)
        PROVE value = "false"
    <3>1. NoVerdicts(policy, p) BY <1>13, <2>4
    <3>2. policy.rows = overrideRows BY <1>3, <2>4 DEF FenceOpen, KnownPolicy
    <3>3. Granted(policy.rows, now, facts, p) # "unknown" BY <1>3, <3>1, DecidedStatements
    <3>4. value # "true" BY <1>4, <1>6, <2>4
    <3>5. value \in Truths BY <1>3, GrantedType
    <3> QED BY <3>2, <3>3, <3>4, <3>5 DEF Truths
  <2>5. ASSUME op.kind = "check", Unexpired(shared, now)
        PROVE /\ verdict = "has" => value = "true" /\ shared.revision = current
              /\ verdict = "no" /\ shared.revision = current => value = "false"
    <3>1. verdict = "has" => value = "true" /\ shared.revision = current
      BY <1>3, <1>4, <1>6, <2>5
    <3>2. ASSUME verdict = "no", shared.revision = current PROVE value = "false"
      <4>1. FenceOpen(policy, current, now) BY <1>1, <1>3, <2>5, <3>2, FenceStays
      <4> QED BY <2>4, <2>5, <3>2, <4>1
    <3> QED BY <3>1, <3>2
  <2> HIDE DEF verdict, value
  <2>6. op.key <= generation BY <1>3 DEF OperationIsInOrder
  <2>7. /\ answers' \subseteq [generation : Nat, permission : Permissions, answer : {"has", "no"}]
        /\ \A b \in answers' : b.generation <= generation
        /\ SharedAnswersFit'
    <3>1. verdict \in {"has", "no", "conditional"} BY <2>3
    <3> QED BY <1>1, <1>2, <1>3, <2>1, <2>5, <2>6, <3>1, RememberKeeps DEF value
  <2>8. Calm' => Calm BY <1>1, <1>2, <2>2 DEF Calm
  <2>9. GrantsFollowTheComposition'
    <3> SUFFICES ASSUME answer' = "has", op'.kind \in SplitReads => Calm PROVE Justified'
      BY <1>3, <2>2, <2>8 DEF GrantsFollowTheComposition, SplitReads
    <3>1. allowed BY <2>1, <2>3
    <3>2. /\ Granted(overrideRows, now, TuplesAsked, p) = "true" /\ policy.revision = current
      BY <1>6, <3>1
    <3> DEFINE w == [rows |-> overrideRows, time |-> now]
    <3>3. w \in began.seen /\ w.rows = overrideRows /\ w.time = now
      BY <1>1, <3>2, StatementsAreSeen
    <3>4. \A f \in Worlds' : Granted(overrideRows, now, f, op'.permission) = "true"
      <4>1. CASE op.kind = "all"
        <5>1. op' = op /\ TuplesAsked = NoFacts /\ Calm
          BY <2>2, <4>1 DEF TuplesAsked, SplitReads
        <5>2. ~Excludes(ComposeTagged(InForce(overrideRows, began.time)))[Entry(p)]
          BY <1>1, <1>3, <4>1, <5>1 DEF OperationIsInOrder, Calm
        <5>3. \A d \in Deadlines(Unstale(overrideRows)) : ~(began.time < d /\ d <= now)
          BY <5>1 DEF Calm
        <5>4. InForce(overrideRows, now) = InForce(overrideRows, began.time)
          BY <1>3, <5>3, CalmRows
        <5>5. \A f \in AllFacts : Granted(overrideRows, now, f, p) = "true"
          BY <1>3, <3>2, <5>1, <5>2, <5>4, GrantsEverywhere
        <5>6. Worlds' = AllFacts BY <4>1, <5>1 DEF Worlds, AllFacts
        <5> QED BY <5>1, <5>5, <5>6
      <4>2. CASE op.kind = "many"
        <5>1. op'.kind = "shared" /\ op'.permission = Other(p) /\ op.shares /\ Calm
          BY <2>2, <4>2 DEF SplitReads
        <5>2. op.revision = current BY <5>1 DEF Calm
        <5>3. Granted(overrideRows, now, facts, Other(p)) = Granted(overrideRows, now, facts, p)
          BY <1>1, <1>3, <1>8, <5>1, <5>2, SharedOperations
        <5>4. Worlds' = {facts} BY <1>2, <5>1 DEF Worlds
        <5>5. TuplesAsked = facts BY <1>4, <4>2
        <5> QED BY <3>2, <5>1, <5>3, <5>4, <5>5
      <4>3. CASE op.kind \notin {"all", "many"}
        <5>1. op' = op /\ TuplesAsked = facts BY <1>4, <2>2, <4>3
        <5>2. Worlds' = {facts} BY <1>2, <4>3, <5>1 DEF Worlds
        <5> QED BY <3>2, <5>1, <5>2
      <4> QED BY <4>1, <4>2, <4>3
    <3> HIDE DEF w
    <3> QED BY <1>1, <3>3, <3>4 DEF Justified
  <2>10. DenialsFollowTheComposition'
    <3>1. ASSUME Calm, ~allowed, op.kind # "all" PROVE value # "true"
      <4>1. policy.revision = current BY <1>3, <3>1 DEF Calm
      <4>2. FenceOpen(policy, current, now) BY <1>1, <3>1, <4>1, FenceStays
      <4> QED BY <1>4, <1>6, <3>1, <4>2 DEF value
    <3>2. ASSUME Calm, op.kind = "many"
          PROVE Granted(overrideRows, now, facts, op'.permission) = value
      <4>1. op.revision = current BY <3>2 DEF Calm
      <4>2. op.shares /\ op'.permission = Other(p) BY <2>2, <3>2
      <4> QED BY <1>1, <1>3, <1>8, <4>1, <4>2, SharedOperations DEF value
    <3>3. ASSUME Calm, op.kind = "check"
          PROVE IF allowed THEN value = "true" ELSE value = "false"
      <4>1. CASE allowed BY <1>4, <1>6, <3>3, <4>1 DEF value
      <4>2. CASE ~allowed
        <5>1. policy.revision = current BY <1>3, <3>3 DEF Calm
        <5>2. FenceOpen(policy, current, now) BY <1>1, <3>3, <5>1, FenceStays
        <5> QED BY <2>4, <3>3, <4>2, <5>2
      <4> QED BY <4>1, <4>2
    <3> DEFINE final == Granted(overrideRows, now, facts, op'.permission)
    <3>4. Calm' /\ answer' = "no" /\ op'.kind # "all" => final # "true"
      <4>1. op.kind # "many" => final = value BY <2>2 DEF value
      <4> QED BY <2>1, <2>2, <2>3, <2>8, <3>1, <3>2, <4>1
    <3>5. Calm' /\ op'.kind = "check" =>
            /\ final = "true" => answer' = "has"
            /\ final = "false" => answer' = "no"
            /\ final \in {"true", "false"}
      <4>1. op'.kind = "check" => op.kind = "check" /\ op' = op BY <2>2
      <4> QED BY <2>1, <2>3, <2>8, <3>3, <4>1 DEF value, verdict
    <3>6. answer' \in {"has", "no"} BY <2>1, <2>3
    <3>7. Granted(overrideRows, now, facts, op.permission)' = final BY <1>2
    <3> HIDE DEF final
    <3> QED BY <3>4, <3>5, <3>6, <3>7 DEF DenialsFollowTheComposition
  <2>11. answer' \in {"has", "no", "conditional"} BY <2>1, <2>3
  <2> QED BY <1>1, <1>2, <1>7, <1>9, <2>1, <2>2, <2>7, <2>9, <2>10, <2>11, AnsweringKeeps
          DEF OverridesTypeOK
<1> QED BY <1>11, <1>12, <1>13

\* The upper bound of a check, and what its residual leaves open.
LEMMA UpperSays ==
    ASSUME OverridesInv, pc \in {"upper", "residual"}, FenceOpen(policy, current, now)
    PROVE LET value == Granted(overrideRows, now, facts, op.permission)
          IN /\ value \in Truths /\ value # "true"
             /\ value = Granted(policy.rows, policy.at, facts, op.permission)
             /\ Executed(policy, facts, op.permission, "upper") <=> value # "false"
<1> DEFINE p == op.permission
<1>1. /\ policy \in PolicySnapshots /\ KnownPolicy(policy) /\ now \in Times
      /\ facts \in [Relations -> Presence] /\ p \in Permissions /\ overrideRows \in SUBSET OverrideRows
  BY OperationsHold
<1>2. policy.rows = overrideRows /\ policy.at <= now BY <1>1 DEF FenceOpen, KnownPolicy
<1>3. /\ Holds(policy, facts, p, "upper", now) <=> Granted(policy.rows, now, facts, p) # "false"
      /\ Granted(policy.rows, now, facts, p) = Granted(policy.rows, policy.at, facts, p)
  BY <1>1, <1>2, StatementsAreExact
<1>4. Granted(overrideRows, now, facts, p) \in Truths BY <1>1, GrantedType
<1>5. Granted(policy.rows, policy.at, facts, p) # "true" BY DEF OverridesInv, StatementsTell
<1> QED BY <1>2, <1>3, <1>4, <1>5 DEF Executed

\* A check that answers by its upper bound or its residual.
LEMMA CheckAnswers ==
    ASSUME OverridesInv, pc \in {"upper", "residual"}, pc' = "answered", UNCHANGED database,
           UNCHANGED <<shared, pin, generation, kept, statements, scope, asks, op, began, policy>>,
           answer' \in {"no", "conditional"}, Remember(op.permission, answer'),
           FenceOpen(policy, current, now) =>
             answer' = IF Granted(overrideRows, now, facts, op.permission) = "false"
                         THEN "no" ELSE "conditional"
    PROVE OverridesInv'
<1> USE DEF OverridesInv
<1> DEFINE value == Granted(overrideRows, now, facts, op.permission)
<1>1. now' = now /\ facts' = facts /\ overrideRows' = overrideRows /\ current' = current
  BY DEF database
<1>2. op \in Operations /\ op.with = shared /\ op.kind = "check" /\ op.key <= generation
  BY DEF OperationIsInOrder, UnderWay
<1>3. policy.revision = shared.revision BY DEF StatementsTell
<1>4. FenceOpen(policy, current, now) => value \in Truths /\ value # "true" BY UpperSays
<1>5. /\ answers' \subseteq [generation : Nat, permission : Permissions, answer : {"has", "no"}]
      /\ \A b \in answers' : b.generation <= generation
      /\ SharedAnswersFit'
  <2>1. ASSUME Unexpired(shared, now), answer' = "no", shared.revision = current
        PROVE value = "false"
    <3>1. FenceOpen(policy, current, now) BY <1>3, <2>1, FenceStays
    <3> QED BY <2>1, <3>1
  <2>2. answer' \in {"has", "no", "conditional"} /\ answer' # "has" OBVIOUS
  <2> QED BY <1>2, <2>1, <2>2, RememberKeeps
<1>6. GrantsFollowTheComposition' BY DEF GrantsFollowTheComposition
<1>7. DenialsFollowTheComposition'
  <2>1. Calm' => Calm BY <1>1 DEF Calm
  <2>2. ASSUME Calm PROVE FenceOpen(policy, current, now)
    <3>1. policy.revision = current BY <1>2, <1>3, <2>2 DEF Calm
    <3> QED BY <2>2, <3>1, FenceStays
  <2>3. Granted(overrideRows, now, facts, op.permission)' = value BY <1>1
  <2> HIDE DEF value
  <2>4. Calm' => /\ value \in Truths /\ value # "true"
                 /\ answer' = IF value = "false" THEN "no" ELSE "conditional"
    BY <1>4, <2>1, <2>2 DEF value
  <2> QED BY <1>2, <2>3, <2>4 DEF DenialsFollowTheComposition, Truths
<1>8. HeldPolicies' = HeldPolicies BY DEF HeldPolicies
<1> QED BY <1>2, <1>5, <1>6, <1>7, <1>8, AnsweringKeeps DEF OverridesTypeOK

LEMMA UpperKeeps == ASSUME OverridesInv, Upper PROVE OverridesInv'
<1> USE DEF OverridesInv
<1> DEFINE p == op.permission
           possible == Executed(policy, facts, p, "upper")
<1>1. /\ pc = "upper" /\ UNCHANGED database
      /\ UNCHANGED <<shared, pin, generation, kept, statements, scope, asks, op, began, policy>>
      /\ IF possible
           THEN pc' = "residual" /\ UNCHANGED <<answers, answer>>
           ELSE Remember(p, "no") /\ answer' = "no" /\ pc' = "answered"
  BY DEF Upper
<1>2. now' = now /\ facts' = facts /\ overrideRows' = overrideRows /\ current' = current
  BY <1>1 DEF database
<1>3. FenceOpen(policy, current, now) =>
        LET value == Granted(overrideRows, now, facts, p)
        IN /\ value = Granted(policy.rows, policy.at, facts, p)
           /\ possible <=> value # "false"
  BY <1>1, UpperSays
<1> HIDE DEF possible
<1>4. CASE possible
  <2>1. pc' = "residual" /\ answers' = answers /\ answer' = answer BY <1>1, <1>4
  <2>2. answer' = Nil /\ answer = Nil BY <1>1, <2>1 DEF OperationIsInOrder
  <2>3. OverridesTypeOK' BY <1>1, <1>2, <2>1 DEF OverridesTypeOK, Stages
  <2>4. PoliciesAreKnown'
    <3>1. HeldPolicies' = HeldPolicies BY <1>1 DEF HeldPolicies
    <3> QED BY <1>2, <3>1 DEF PoliciesAreKnown, KnownPolicy
  <2>5. SnapshotsAreInOrder' BY <1>1, <2>1 DEF SnapshotsAreInOrder
  <2>6. SharedAnswersFit' BY <1>1, <1>2, <2>1, AnswersStay
  <2>7. AsksByTheSnapshot' BY <2>1 DEF AsksByTheSnapshot
  <2>8. OperationIsInOrder' BY <1>1, <1>2, <2>1, <2>2 DEF OperationIsInOrder, UnderWay
  <2>9. SeesOrIsPinned' BY <1>1, <1>2, <2>1 DEF SeesOrIsPinned, UnderWay
  <2>10. StatementsTell' BY <1>1, <1>2, <1>3, <1>4, <2>1 DEF StatementsTell
  <2> QED BY <2>2, <2>3, <2>4, <2>5, <2>6, <2>7, <2>8, <2>9, <2>10, NoAnswer
<1>5. CASE ~possible
  <2>1. pc' = "answered" /\ answer' = "no" /\ Remember(p, answer') BY <1>1, <1>5
  <2>2. FenceOpen(policy, current, now) => Granted(overrideRows, now, facts, p) = "false"
    BY <1>3, <1>5
  <2> QED BY <1>1, <2>1, <2>2, CheckAnswers
<1> QED BY <1>4, <1>5

LEMMA ResidualKeeps == ASSUME OverridesInv, Residual PROVE OverridesInv'
<1> USE DEF OverridesInv
<1> DEFINE p == op.permission
           value == Granted(policy.rows, policy.at, facts, p)
<1>1. /\ pc = "residual" /\ pc' = "answered" /\ UNCHANGED database
      /\ UNCHANGED <<shared, pin, generation, kept, statements, scope, asks, op, began, policy>>
      /\ Remember(p, answer')
      /\ answer' = IF ValueOf(Effective(policy), facts)[Entry(p)] = "unknown"
                     THEN "conditional" ELSE "no"
  BY DEF Residual
<1>2. policy \in PolicySnapshots /\ facts \in [Relations -> Presence] /\ p \in Permissions
  BY <1>1, OperationsHold
<1>3. ValueOf(Effective(policy), facts)[Entry(p)] = value BY <1>2, ResidualsAreExact
<1>4. answer' = IF value = "unknown" THEN "conditional" ELSE "no" BY <1>1, <1>3
<1>5. FenceOpen(policy, current, now) =>
        /\ value = Granted(overrideRows, now, facts, p)
        /\ value \in Truths /\ value # "true" /\ value # "false"
  <2>1. FenceOpen(policy, current, now) => value # "false"
    BY <1>1 DEF StatementsTell
  <2> QED BY <1>1, <2>1, UpperSays
<1> HIDE DEF value
<1>6. FenceOpen(policy, current, now) =>
        answer' = IF Granted(overrideRows, now, facts, p) = "false" THEN "no" ELSE "conditional"
  BY <1>4, <1>5 DEF Truths
<1>7. answer' \in {"no", "conditional"} BY <1>4
<1> QED BY <1>1, <1>6, <1>7, CheckAnswers

LEMMA ExecuteScopeKeeps == ASSUME OverridesInv, ExecuteScope PROVE OverridesInv'
<1> USE DEF OverridesInv
<1> DEFINE p == scope.permission
           pol == scope.policy
           st == Statement(pol, p)
           granted == Executed(st, facts, p, "lower")
           value == Granted(overrideRows, now, facts, p)
<1>1. /\ pc = "idle" /\ scope # Nil /\ pc' = "answered" /\ UNCHANGED database
      /\ KeepStatement(pol, p) /\ answer' = (IF granted THEN "has" ELSE "no")
      /\ op' = [NoOperation EXCEPT !.kind = "scope", !.permission = p,
                                   !.revision = pol.revision, !.with = pol]
      /\ began' = [time |-> pol.at, seen |-> {[rows |-> overrideRows, time |-> now]}]
      /\ policy' = pol
      /\ UNCHANGED <<shared, pin, generation, kept, answers, scope, asks>>
  BY DEF ExecuteScope
<1>2. now' = now /\ facts' = facts /\ overrideRows' = overrideRows /\ current' = current
  BY <1>1 DEF database
<1>3. pol \in PolicySnapshots /\ p \in Permissions BY <1>1 DEF OverridesTypeOK
<1>4. pol # Nil BY <1>3, NilAssumption
<1>5. pol \in HeldPolicies /\ KnownPolicy(pol)
  BY <1>1, <1>4 DEF HeldPolicies, PoliciesAreKnown
<1>6. now \in Times /\ facts \in AllFacts /\ overrideRows \in SUBSET OverrideRows
  BY DEF OverridesTypeOK, AllFacts
<1>7. /\ granted => value = "true" /\ pol.revision = current /\ FenceOpen(pol, current, now)
      /\ FenceOpen(pol, current, now) /\ ~granted => value # "true"
  BY <1>3, <1>5, <1>6, StatementsSay
<1>8. st \in HeldPolicies /\ st \in PolicySnapshots
  BY <1>3, <1>5, StatementsAreKept, HeldAreTyped
<1> HIDE DEF granted
<1>9. /\ op' \in Operations /\ op'.kind = "scope" /\ op'.permission = p /\ op'.with = pol
      /\ op'.revision = pol.revision
  BY <1>1, <1>3 DEF Operations, NoOperation, PolicySnapshots
<1>10. /\ statements' \in [Permissions -> PolicySnapshots \cup {Nil}]
       /\ \A q \in Permissions : statements'[q] \in {statements[q], st}
  <2>1. statements \in [Permissions -> PolicySnapshots \cup {Nil}] BY DEF OverridesTypeOK
  <2>2. statements' = statements \/ statements' = [statements EXCEPT ![p] = st]
    BY <1>1 DEF KeepStatement
  <2> QED BY <1>3, <1>8, <2>1, <2>2
<1> HIDE DEF st
<1>11. HeldPolicies' \subseteq HeldPolicies
  BY <1>1, <1>5, <1>8, <1>9, <1>10 DEF HeldPolicies
<1>12. began' \in [time : Times, seen : SUBSET [rows : SUBSET OverrideRows, time : Times]]
  BY <1>1, <1>3, <1>6 DEF PolicySnapshots
<1>13. pol.rows \in SUBSET OverrideRows /\ now \in Nat /\ pol.at \in Nat /\ pol.at <= now
  BY <1>3, <1>5, <1>6 DEF PolicySnapshots, KnownPolicy, Times
<1>14. GrantsFollowTheComposition'
  <2> SUFFICES ASSUME answer' = "has"
               PROVE Justified' /\ ~\E d \in Deadlines(Unstale(pol.rows)) : pol.at < d /\ d <= now
    BY <1>2, <1>9 DEF GrantsFollowTheComposition
  <2>1. granted BY <1>1
  <2>2. value = "true" /\ FenceOpen(pol, current, now) BY <1>7, <2>1
  <2>3. Justified'
    <3> DEFINE w == [rows |-> overrideRows, time |-> now]
    <3>1. w \in began'.seen /\ w.rows = overrideRows /\ w.time = now BY <1>1
    <3>2. Worlds' = {facts} BY <1>2, <1>9 DEF Worlds
    <3> HIDE DEF w
    <3> QED BY <1>9, <2>2, <3>1, <3>2 DEF Justified
  <2>4. ASSUME NEW d \in Deadlines(Unstale(pol.rows)), pol.at < d PROVE ~(d <= now)
    <3>1. d \in Nat BY <1>13, DeadlinesAreTimes
    <3>2. d \in Ahead(pol) BY <1>13, <2>4, <3>1 DEF Ahead
    <3> QED BY <1>13, <2>2, <3>1, <3>2 DEF FenceOpen
  <2> QED BY <2>3, <2>4
<1>15. DenialsFollowTheComposition'
  <2>1. ASSUME Calm', answer' = "no" PROVE value # "true"
    <3>1. /\ pol.revision = current
          /\ \A d \in Deadlines(Unstale(overrideRows)) : ~(pol.at < d /\ d <= now)
      BY <1>1, <1>2, <1>9, <2>1 DEF Calm
    <3>2. pol.rows = overrideRows BY <1>5, <3>1 DEF KnownPolicy
    <3>3. ASSUME NEW d \in Ahead(pol) PROVE now < d
      <4>1. d \in Deadlines(Unstale(overrideRows)) /\ d > pol.at BY <3>2 DEF Ahead
      <4>2. d \in Nat BY <1>6, <4>1, DeadlinesAreTimes
      <4> QED BY <1>13, <3>1, <4>1, <4>2
    <3>4. FenceOpen(pol, current, now) BY <1>3, <1>13, <3>1, <3>3, FenceIsOpen
    <3> QED BY <1>1, <1>7, <2>1, <3>4
  <2>2. Granted(overrideRows, now, facts, op.permission)' = value BY <1>2, <1>9
  <2> HIDE DEF value
  <2> QED BY <1>1, <1>9, <2>1, <2>2 DEF DenialsFollowTheComposition
<1>16. SharedAnswersFit' BY <1>1, <1>2, AnswersStay
<1>17. \A b \in answers' : b.generation <= generation BY <1>1 DEF SnapshotsAreInOrder
<1> QED BY <1>1, <1>3, <1>9, <1>10, <1>11, <1>12, <1>14, <1>15, <1>16, <1>17, AnsweringKeeps
        DEF OverridesTypeOK

-----------------------------------------------------------------------------
(* The results.                                                            *)

LEMMA OverridesStart == ASSUME OverridesInit PROVE OverridesInv
<1> USE DEF OverridesInit
<1>1. overrideRows \in SUBSET OverrideRows /\ Accepted(overrideRows) /\ facts \in [Relations -> Presence]
  BY StartAssumption DEF Accepted
<1>2. now \in Times /\ current \in 0..LastRevision /\ asks \in 0..MaxAsks
      /\ began \in [time : Times, seen : SUBSET [rows : SUBSET OverrideRows, time : Times]]
  BY LimitsAssumption DEF Times, Unasked
<1>3. OverridesTypeOK BY <1>1, <1>2 DEF OverridesTypeOK, Stages
<1>4. PoliciesAreKnown BY <1>1 DEF PoliciesAreKnown, HeldPolicies, NoOperation
<1>5. SnapshotsAreInOrder BY DEF SnapshotsAreInOrder
<1>6. SharedAnswersFit /\ AsksByTheSnapshot BY DEF SharedAnswersFit, AsksByTheSnapshot
<1>7. OperationIsInOrder /\ SeesOrIsPinned /\ StatementsTell
  BY DEF OperationIsInOrder, SeesOrIsPinned, StatementsTell, UnderWay
<1>8. GrantsFollowTheComposition /\ DenialsFollowTheComposition
  BY NilAssumption DEF GrantsFollowTheComposition, DenialsFollowTheComposition
<1> QED BY <1>3, <1>4, <1>5, <1>6, <1>7, <1>8 DEF OverridesInv

LEMMA OverridesStutter == ASSUME OverridesInv, UNCHANGED overridesVars PROVE OverridesInv'
<1> USE DEF OverridesInv, overridesVars
<1>1. OverridesTypeOK' BY DEF OverridesTypeOK
<1>2. PoliciesAreKnown' BY DEF PoliciesAreKnown, HeldPolicies, KnownPolicy
<1>3. SnapshotsAreInOrder' BY DEF SnapshotsAreInOrder
<1>4. SharedAnswersFit' BY DEF SharedAnswersFit
<1>5. AsksByTheSnapshot' BY DEF AsksByTheSnapshot
<1>6. OperationIsInOrder' BY DEF OperationIsInOrder, UnderWay
<1>7. SeesOrIsPinned' BY DEF SeesOrIsPinned, UnderWay
<1>8. StatementsTell' BY DEF StatementsTell
<1>9. GrantsFollowTheComposition'
  BY DEF GrantsFollowTheComposition, Calm, Justified, Worlds
<1>10. DenialsFollowTheComposition'
  BY DEF DenialsFollowTheComposition, Calm
<1> QED BY <1>1, <1>2, <1>3, <1>4, <1>5, <1>6, <1>7, <1>8, <1>9, <1>10

\* Every state reached is in order: the policies that are held were published
\* and compose, what is kept of earlier answers is what the shared snapshot
\* says, and what a check has learnt from its bounds holds as long as the fence
\* of its statements is open.
THEOREM OverridesInvariance == OverridesSpec => []OverridesInv
<1>1. OverridesInit => OverridesInv BY OverridesStart
<1>2. OverridesInv /\ [OverridesNext]_overridesVars => OverridesInv'
  <2> SUFFICES ASSUME OverridesInv, [OverridesNext]_overridesVars PROVE OverridesInv' OBVIOUS
  <2>1. CASE Tick BY <2>1, TickKeeps
  <2>2. CASE \/ \E form \in Writable : CreateOverride(form)
             \/ \E row \in overrideRows : DeleteOverride(row)
             \/ \E row \in overrideRows : \E form \in Forms : Reschedule(row, form)
    BY <2>2, WritesKeep
  <2>3. CASE \E k \in Kinds : \E p \in Permissions : Ask(k, p) BY <2>3, AskKeeps
  <2>4. CASE Recall BY <2>4, RecallKeeps
  <2>5. CASE RefuseAll BY <2>5, RefuseAllKeeps
  <2>6. CASE Select BY <2>6, SelectKeeps
  <2>7. CASE Prepare BY <2>7, PrepareKeeps
  <2>8. CASE Lower BY <2>8, LowerKeeps
  <2>9. CASE Upper BY <2>9, UpperKeeps
  <2>10. CASE Residual BY <2>10, ResidualKeeps
  <2>11. CASE ExecuteScope BY <2>11, ExecuteScopeKeeps
  <2>12. CASE DropScope BY <2>12, DropScopeKeeps
  <2>13. CASE Return BY <2>13, ReturnKeeps
  <2>14. CASE CloseEvaluator BY <2>14, CloseKeeps
  <2>15. CASE UNCHANGED overridesVars BY <2>15, OverridesStutter
  <2> QED BY <2>1, <2>2, <2>3, <2>4, <2>5, <2>6, <2>7, <2>8, <2>9, <2>10, <2>11, <2>12,
             <2>13, <2>14, <2>15 DEF OverridesNext
<1> QED BY <1>1, <1>2, PTL DEF OverridesSpec

\* Every variable keeps its shape: snapshots, statements and scopes hold policies
\* of committed override rows, and a kept answer is a definite one.
THEOREM OverridesTypeCorrectness == OverridesSpec => []OverridesTypeOK
<1>1. OverridesInv => OverridesTypeOK BY DEF OverridesInv
<1> QED BY <1>1, OverridesInvariance, PTL

\* Whatever deadlines pass and whatever is kept, a grant is one of the composed
\* policy as it was at some moment of its operation; a scope that is executed
\* later grants nothing once a deadline has passed that lay ahead when it was built.
THEOREM GrantsAreComposed == OverridesSpec => []GrantsFollowTheComposition
<1>1. OverridesInv => GrantsFollowTheComposition BY DEF OverridesInv
<1> QED BY <1>1, OverridesInvariance, PTL

\* No accepted policy is refused; while neither the policy nor what is in force
\* changes, a denial is one of the composition, and a check is exact in all
\* three values.
THEOREM DenialsAreComposed == OverridesSpec => []DenialsFollowTheComposition
<1>1. OverridesInv => DenialsFollowTheComposition BY DEF OverridesInv
<1> QED BY <1>1, OverridesInvariance, PTL

=============================================================================
