----------------------- MODULE RelationshipStore_proofs -----------------------
(***************************************************************************)
(* For any sessions, tuples, batches and bounds: what tokens promise; in   *)
(* the second part, that the writes of batches, grants and saves land      *)
(* whole; in the third, that what a deletion took stays gone.              *)
(***************************************************************************)
EXTENDS RelationshipStore, FiniteSetTheorems, TLAPS

\* The process counts transaction ids, and a token of a scope covers them.
TokensCover ==
    /\ last \in Nat
    /\ drawn \in [Sessions -> Nat] /\ newest \in [Sessions -> Nat]
    /\ floor \in [Sessions -> Nat \cup {None}] /\ written \in [Sessions -> Nat]
    /\ FloorsCoverWrites

\* Only a batch has ids of tuples.
BatchesHaveIds ==
    /\ DOMAIN pc = Sessions /\ DOMAIN op = Sessions
    /\ \A s \in Sessions :
        /\ ~Writing(s) => newest[s] = 0
        /\ pc[s] = "idle" => op[s] = Nothing
        /\ pc[s] = "find" => Writing(s)

IInv == TokensCover /\ BatchesHaveIds

LEMMA NoneIsNoNumber == None \notin Nat
BY StoreAssumption DEF StoreAssumption

\* There are eight kinds of operation.
LEMMA OperationsHaveAKind ==
    ASSUME NEW o \in Operations
    PROVE o.kind \in {"write", "grant", "remove", "revoke", "save", "erase", "bulk", "drop"}
BY DEF Operations, Writes, Grants, Removals, Revocations, Saves, Erasures, Bulks, Drops

LEMMA Initially == ASSUME Init PROVE IInv
<1>1. TokensCover
  BY StoreAssumption, NoneIsNoNumber DEF Init, TokensCover, FloorsCoverWrites, StoreAssumption
<1>2. BatchesHaveIds
  BY DEF Init, BatchesHaveIds
<1> QED BY <1>1, <1>2 DEF IInv

-----------------------------------------------------------------------------
(* Tokens.                                                                 *)

LEMMA LargerIsLarger ==
    ASSUME NEW a \in Nat, NEW b \in Nat
    PROVE Larger(a, b) \in Nat /\ Larger(a, b) >= a /\ Larger(a, b) >= b
BY DEF Larger

\* A step that touches no id and no token.
LEMMA KeepsTokens ==
    ASSUME IInv, UNCHANGED <<last, drawn, newest, scope>>
    PROVE TokensCover' /\ FloorsRise
BY NoneIsNoNumber DEF IInv, TokensCover, FloorsCoverWrites, FloorsRise, scope

\* The end of an operation forgets its ids.
LEMMA IdleTokens ==
    ASSUME IInv, NEW s \in Sessions, Idle(s), UNCHANGED <<clocks, scope>>
    PROVE TokensCover' /\ FloorsRise
BY NoneIsNoNumber
   DEF IInv, TokensCover, FloorsCoverWrites, FloorsRise, scope, clocks, Idle, Put

LEMMA DrawTokens ==
    ASSUME IInv, NEW s \in Sessions, Draw(s)
    PROVE TokensCover' /\ FloorsRise
<1>1. PICK now \in Readings : drawn' = Put(drawn, s, NextXid(now))
  BY DEF Draw
<1>2. NextXid(now) \in Nat
  <2>1. now \in Nat /\ last + 1 \in Nat
    BY StoreAssumption DEF IInv, TokensCover, StoreAssumption
  <2> QED BY <2>1, LargerIsLarger DEF NextXid
<1>3. UNCHANGED <<last, newest, scope>>
  BY DEF Draw, clocks
<1> QED
  BY <1>1, <1>2, <1>3, NoneIsNoNumber
  DEF IInv, TokensCover, FloorsCoverWrites, FloorsRise, scope, Put

LEMMA StoreXidTokens ==
    ASSUME IInv, NEW s \in Sessions, StoreXid(s)
    PROVE TokensCover' /\ FloorsRise
BY NoneIsNoNumber
   DEF StoreXid, IInv, TokensCover, FloorsCoverWrites, FloorsRise, scope, locals

LEMMA FindTokens ==
    ASSUME IInv, NEW s \in Sessions, Find(s)
    PROVE TokensCover' /\ FloorsRise
<1>1. Larger(newest[s], last) \in Nat
  BY LargerIsLarger DEF IInv, TokensCover
<1>2. /\ drawn' = [drawn EXCEPT ![s] = last]
      /\ newest' = [newest EXCEPT ![s] = Larger(newest[s], last)]
      /\ UNCHANGED <<last, scope>>
  BY DEF Find, clocks, Put
<1> QED
  BY <1>1, <1>2, NoneIsNoNumber
  DEF IInv, TokensCover, FloorsCoverWrites, FloorsRise, scope

\* A token is at least the largest id of its batch and the token before it.
LEMMA TokenTokens ==
    ASSUME IInv, NEW s \in Sessions, Token(s)
    PROVE TokensCover' /\ FloorsRise
<1> DEFINE token == IF Writing(s) THEN TokenOf(s) ELSE last
           covers == Larger(written[s], newest[s])
<1>0. /\ last \in Nat /\ newest[s] \in Nat /\ written[s] \in Nat
      /\ floor[s] \in Nat \cup {None} /\ (floor[s] # None => floor[s] >= written[s])
  BY DEF IInv, TokensCover, FloorsCoverWrites
<1>1. token \in Nat /\ covers \in Nat /\ covers >= written[s]
  BY <1>0, LargerIsLarger DEF TokenOf, WriteToken
<1>2. /\ floor' = [floor EXCEPT ![s] = Record(floor[s], token)]
      /\ written' = [written EXCEPT ![s] = covers]
      /\ UNCHANGED <<last, drawn, newest>>
  BY DEF Token, Put, clocks, locals
<1>3. floor[s] = None => Record(floor[s], token) = None
  BY DEF Record
<1>4. ASSUME floor[s] # None
      PROVE Record(floor[s], token) \in Nat /\ Record(floor[s], token) >= floor[s]
            /\ Record(floor[s], token) >= token
  BY <1>0, <1>1, <1>4, LargerIsLarger DEF Record
<1>5. ASSUME floor[s] # None PROVE Record(floor[s], token) >= covers
  <2>1. token >= newest[s]
    <3>1. ~Writing(s) => newest[s] = 0 BY DEF IInv, BatchesHaveIds
    <3>2. TokenOf(s) >= newest[s] BY <1>0, LargerIsLarger DEF TokenOf, WriteToken
    <3> QED BY <1>0, <3>1, <3>2
  <2> HIDE DEF token
  <2> QED BY <1>0, <1>1, <1>4, <1>5, <2>1 DEF Larger
<1> QED
  BY <1>0, <1>1, <1>2, <1>3, <1>4, <1>5, NoneIsNoNumber
  DEF IInv, TokensCover, FloorsCoverWrites, FloorsRise

-----------------------------------------------------------------------------
(* Batches.                                                                *)

LEMMA StartBatches ==
    ASSUME IInv, NEW s \in Sessions, Start(s)
    PROVE BatchesHaveIds'
BY OperationsHaveAKind DEF Start, FirstStep, Nothing, Wrapped, committed, clocks, locals, overlay, scope, IInv, BatchesHaveIds, Goto, Put, Writing

LEMMA FailBatches ==
    ASSUME IInv, NEW s \in Sessions, Fail(s)
    PROVE BatchesHaveIds'
BY DEF Fail, Unwind, Idle, Nothing, clocks, scope, IInv, TokensCover, BatchesHaveIds, Goto, Put, Writing

LEMMA ReturnBatches ==
    ASSUME IInv, NEW s \in Sessions, Return(s)
    PROVE BatchesHaveIds'
BY DEF Return, Idle, Nothing, overlay, IInv, TokensCover, BatchesHaveIds, Goto, Put, Writing

LEMMA InternBatches ==
    ASSUME IInv, NEW s \in Sessions, Intern(s)
    PROVE BatchesHaveIds'
BY DEF Intern, locals, IInv, BatchesHaveIds, Goto, Put, Writing

LEMMA ResolveBatches ==
    ASSUME IInv, NEW s \in Sessions, Resolve(s)
    PROVE BatchesHaveIds'
BY DEF Resolve, locals, IInv, BatchesHaveIds, Goto, Put, Writing

LEMMA DrawBatches ==
    ASSUME IInv, NEW s \in Sessions, Draw(s)
    PROVE BatchesHaveIds'
BY DEF Draw, overlay, IInv, BatchesHaveIds, Goto, Put, Writing

LEMMA StoreXidBatches ==
    ASSUME IInv, NEW s \in Sessions, StoreXid(s)
    PROVE BatchesHaveIds'
BY DEF StoreXid, locals, overlay, IInv, BatchesHaveIds, Goto, Put, Writing

LEMMA FindBatches ==
    ASSUME IInv, NEW s \in Sessions, Find(s)
    PROVE BatchesHaveIds'
BY DEF Find, overlay, IInv, BatchesHaveIds, Goto, Put, Writing

LEMMA InsertBatches ==
    ASSUME IInv, NEW s \in Sessions, Insert(s)
    PROVE BatchesHaveIds'
BY DEF Insert, Laid, AfterTuple, IInv, BatchesHaveIds, Goto, Put, Writing

LEMMA DeriveBatches ==
    ASSUME IInv, NEW s \in Sessions, Derive(s)
    PROVE BatchesHaveIds'
BY DEF Derive, Laid, IInv, BatchesHaveIds, Goto, Put, Writing

LEMMA UpdateBatches ==
    ASSUME IInv, NEW s \in Sessions, Update(s)
    PROVE BatchesHaveIds'
BY DEF Update, Laid, AfterTuple, IInv, BatchesHaveIds, Goto, Put, Writing

LEMMA ReinsertBatches ==
    ASSUME IInv, NEW s \in Sessions, Reinsert(s)
    PROVE BatchesHaveIds'
BY DEF Reinsert, Laid, AfterTuple, IInv, BatchesHaveIds, Goto, Put, Writing

LEMMA BulkCreateBatches ==
    ASSUME IInv, NEW s \in Sessions, BulkCreate(s)
    PROVE BatchesHaveIds'
BY DEF BulkCreate, Laid, locals, IInv, BatchesHaveIds, Goto, Put, Writing

LEMMA LookBatches ==
    ASSUME IInv, NEW s \in Sessions, Look(s)
    PROVE BatchesHaveIds'
BY DEF Look, locals, overlay, IInv, BatchesHaveIds, Goto, Put, Writing

LEMMA RemoveBatches ==
    ASSUME IInv, NEW s \in Sessions, Remove(s)
    PROVE BatchesHaveIds'
BY DEF Remove, Erased, locals, IInv, BatchesHaveIds, Goto, Put, Writing

LEMMA EraseBatches ==
    ASSUME IInv, NEW s \in Sessions, Erase(s)
    PROVE BatchesHaveIds'
BY DEF Erase, Erased, locals, IInv, BatchesHaveIds, Goto, Put, Writing

LEMMA TokenBatches ==
    ASSUME IInv, NEW s \in Sessions, Token(s)
    PROVE BatchesHaveIds'
BY DEF Token, locals, overlay, IInv, BatchesHaveIds, Goto, Put, Writing

LEMMA GetBatches ==
    ASSUME IInv, NEW s \in Sessions, Get(s)
    PROVE BatchesHaveIds'
BY DEF Get, locals, overlay, IInv, BatchesHaveIds, Goto, Put, Writing

LEMMA DropBatches ==
    ASSUME IInv, NEW s \in Sessions, Drop(s)
    PROVE BatchesHaveIds'
BY DEF Drop, locals, IInv, BatchesHaveIds, Goto, Put, Writing

LEMMA DropNothingBatches ==
    ASSUME IInv, NEW s \in Sessions, DropNothing(s)
    PROVE BatchesHaveIds'
BY DEF DropNothing, locals, overlay, IInv, BatchesHaveIds, Goto, Put, Writing

LEMMA SweepBatches ==
    ASSUME IInv, NEW s \in Sessions, Sweep(s)
    PROVE BatchesHaveIds'
BY DEF Sweep, Erased, locals, IInv, BatchesHaveIds, Goto, Put, Writing

LEMMA LeaveBatches ==
    ASSUME IInv, NEW s \in Sessions, Leave(s)
    PROVE BatchesHaveIds'
BY OperationsHaveAKind DEF Leave, AfterBlock, Publish, Unwind, locals, overlay, IInv, BatchesHaveIds, Goto, Put, Writing

LEMMA CommitBatches ==
    ASSUME IInv, NEW s \in Sessions, Commit(s)
    PROVE BatchesHaveIds'
BY DEF Commit, Publish, Unwind, locals, IInv, BatchesHaveIds, Goto, Put, Writing

-----------------------------------------------------------------------------
(* The theorems.                                                           *)

\* A step of a session keeps the invariant, and lowers no token.
LEMMA SessionStep ==
    ASSUME IInv, NEW s \in Sessions,
           Start(s) \/ WriteStep(s) \/ SaveStep(s) \/ DeleteStep(s) \/ HelperStep(s) \/ EndStep(s)
    PROVE IInv' /\ FloorsRise
<1>1. CASE Fail(s)
  <2>1. TokensCover' /\ FloorsRise
    BY <1>1, IdleTokens DEF Fail
  <2> QED BY <1>1, <2>1, FailBatches DEF IInv
<1>2. CASE Start(s)
  <2>1. UNCHANGED <<last, drawn, newest, scope>>
    BY <1>2 DEF Start, clocks, locals
  <2> QED BY <1>2, <2>1, KeepsTokens, StartBatches DEF IInv
<1>3. CASE Intern(s)
  <2>1. UNCHANGED <<last, drawn, newest, scope>>
    BY <1>3 DEF Intern, clocks, locals
  <2> QED BY <1>3, <2>1, KeepsTokens, InternBatches DEF IInv
<1>4. CASE Resolve(s)
  <2>1. UNCHANGED <<last, drawn, newest, scope>>
    BY <1>4 DEF Resolve, clocks, locals
  <2> QED BY <1>4, <2>1, KeepsTokens, ResolveBatches DEF IInv
<1>5. CASE Draw(s)
  BY <1>5, DrawTokens, DrawBatches DEF IInv
<1>6. CASE StoreXid(s)
  BY <1>6, StoreXidTokens, StoreXidBatches DEF IInv
<1>7. CASE Find(s)
  BY <1>7, FindTokens, FindBatches DEF IInv
<1>8. CASE Insert(s)
  <2>1. UNCHANGED <<last, drawn, newest, scope>>
    BY <1>8 DEF Insert, clocks, locals
  <2> QED BY <1>8, <2>1, KeepsTokens, InsertBatches DEF IInv
<1>9. CASE Derive(s)
  <2>1. UNCHANGED <<last, drawn, newest, scope>>
    BY <1>9 DEF Derive, clocks, locals
  <2> QED BY <1>9, <2>1, KeepsTokens, DeriveBatches DEF IInv
<1>10. CASE Update(s)
  <2>1. UNCHANGED <<last, drawn, newest, scope>>
    BY <1>10 DEF Update, clocks, locals
  <2> QED BY <1>10, <2>1, KeepsTokens, UpdateBatches DEF IInv
<1>11. CASE Reinsert(s)
  <2>1. UNCHANGED <<last, drawn, newest, scope>>
    BY <1>11 DEF Reinsert, clocks, locals
  <2> QED BY <1>11, <2>1, KeepsTokens, ReinsertBatches DEF IInv
<1>12. CASE BulkCreate(s)
  <2>1. UNCHANGED <<last, drawn, newest, scope>>
    BY <1>12 DEF BulkCreate, clocks, locals
  <2> QED BY <1>12, <2>1, KeepsTokens, BulkCreateBatches DEF IInv
<1>13. CASE Look(s)
  <2>1. UNCHANGED <<last, drawn, newest, scope>>
    BY <1>13 DEF Look, clocks, locals
  <2> QED BY <1>13, <2>1, KeepsTokens, LookBatches DEF IInv
<1>14. CASE Remove(s)
  <2>1. UNCHANGED <<last, drawn, newest, scope>>
    BY <1>14 DEF Remove, clocks, locals
  <2> QED BY <1>14, <2>1, KeepsTokens, RemoveBatches DEF IInv
<1>15. CASE Erase(s)
  <2>1. UNCHANGED <<last, drawn, newest, scope>>
    BY <1>15 DEF Erase, clocks, locals
  <2> QED BY <1>15, <2>1, KeepsTokens, EraseBatches DEF IInv
<1>16. CASE Drop(s)
  <2>1. UNCHANGED <<last, drawn, newest, scope>>
    BY <1>16 DEF Drop, clocks, locals
  <2> QED BY <1>16, <2>1, KeepsTokens, DropBatches DEF IInv
<1>17. CASE DropNothing(s)
  <2>1. UNCHANGED <<last, drawn, newest, scope>>
    BY <1>17 DEF DropNothing, clocks, locals
  <2> QED BY <1>17, <2>1, KeepsTokens, DropNothingBatches DEF IInv
<1>18. CASE Sweep(s)
  <2>1. UNCHANGED <<last, drawn, newest, scope>>
    BY <1>18 DEF Sweep, clocks, locals
  <2> QED BY <1>18, <2>1, KeepsTokens, SweepBatches DEF IInv
<1>19. CASE Token(s)
  BY <1>19, TokenTokens, TokenBatches DEF IInv
<1>20. CASE Get(s)
  <2>1. UNCHANGED <<last, drawn, newest, scope>>
    BY <1>20 DEF Get, clocks, locals
  <2> QED BY <1>20, <2>1, KeepsTokens, GetBatches DEF IInv
<1>21. CASE Leave(s)
  <2>1. UNCHANGED <<last, drawn, newest, scope>>
    BY <1>21 DEF Leave, clocks, locals
  <2> QED BY <1>21, <2>1, KeepsTokens, LeaveBatches DEF IInv
<1>22. CASE Commit(s)
  <2>1. UNCHANGED <<last, drawn, newest, scope>>
    BY <1>22 DEF Commit, clocks, locals
  <2> QED BY <1>22, <2>1, KeepsTokens, CommitBatches DEF IInv
<1>23. CASE Return(s)
  <2>1. TokensCover' /\ FloorsRise
    BY <1>23, IdleTokens DEF Return
  <2> QED BY <1>23, <2>1, ReturnBatches DEF IInv
<1> QED
  BY <1>1, <1>2, <1>3, <1>4, <1>5, <1>6, <1>7, <1>8, <1>9, <1>10, <1>11, <1>12, <1>13, <1>14, <1>15, <1>16, <1>17, <1>18, <1>19, <1>20, <1>21, <1>22, <1>23
  DEF WriteStep, SaveStep, DeleteStep, HelperStep, EndStep, Unresolved, Duplicate, UpdateNothing, UpdateRefused, BulkRefused, IntegrityError, DatabaseError, Lost

\* Nothing happens.
LEMMA StutteringStep ==
    ASSUME IInv, UNCHANGED vars PROVE IInv' /\ FloorsRise
<1>1. TokensCover' /\ FloorsRise
  BY KeepsTokens DEF vars, clocks, locals
<1>2. BatchesHaveIds'
  BY DEF vars, locals, IInv, BatchesHaveIds, Writing
<1> QED BY <1>1, <1>2 DEF IInv

LEMMA Inductive ==
    ASSUME IInv, [Next]_vars PROVE IInv' /\ FloorsRise
BY SessionStep, StutteringStep DEF Next

\* The invariant behind the tokens (backends/local.py, consistency.py) holds for any sessions, tuples, batches and bounds.
THEOREM Invariance == Spec => []IInv
<1>1. Init => IInv BY Initially
<1>2. IInv /\ [Next]_vars => IInv' BY Inductive
<1> QED BY <1>1, <1>2, PTL DEF Spec

\* The token of a zookie scope covers every tuple written in it, however threads
\* race for _last_xid (write_relationships, record_zookie).
THEOREM TokensCoverWrites == Spec => []FloorsCoverWrites
<1>1. IInv => FloorsCoverWrites BY DEF IInv, TokensCover
<1> QED BY <1>1, Invariance, PTL

\* No token of a scope is replaced by a smaller one (record_zookie).
THEOREM TokensNeverFall == Spec => FloorsNeverFall
<1>1. IInv /\ [Next]_vars => [FloorsRise]_vars BY Inductive
<1> QED BY <1>1, Invariance, PTL DEF Spec, FloorsNeverFall

-----------------------------------------------------------------------------
(***************************************************************************)
(* Writes land whole.                                                      *)
(***************************************************************************)

\* What a session does at a step, and what it has at hand for it.
Batched(s) == op[s].kind \in {"write", "grant", "bulk"}
StepFits(s) ==
    /\ pc[s] = "idle" => op[s] = Nothing /\ outcome[s] = None
    /\ pc[s] \in {"intern", "resolve", "find", "insert"} => Writing(s)
    /\ pc[s] \in {"draw", "store", "token"} => op[s].kind \in {"write", "grant", "remove", "revoke"}
    /\ pc[s] \in {"derive", "update"} => op[s].kind \in {"write", "grant", "save"} /\ found[s] \in Ids
    /\ pc[s] = "update" => derived[s] \in Names \X Contexts
    /\ pc[s] = "bulk" => op[s].kind = "bulk"
    /\ pc[s] = "erase" => op[s].kind = "erase" /\ found[s] \in Ids
    /\ pc[s] \in {"look", "remove"} => op[s].kind \in {"remove", "revoke"}
    /\ pc[s] \in {"drop", "sweep"} => op[s].kind = "drop"
    /\ pc[s] = "get" => op[s].kind = "grant"
    /\ pc[s] \in {"idle", "intern", "resolve", "bulk"} => at[s] = 1
    /\ Batched(s) => at[s] \in 1..Len(op[s].batch)
    /\ op[s].kind = "grant" => ambient[s]
    /\ Writing(s) /\ pc[s] \notin {"commit", "done"} => outcome[s] = None

\* A row's key is that of its columns, until it was deleted and came back.
KeyFits(i, row) == i \in reborn \/ KeyMatches(row)

\* Keys of rows are handed out once.
RowsFit ==
    \A i \in Ids : rows[i] # Gone => i <= used /\ KeyFits(i, rows[i])

\* What the transaction of s made of row i, which nobody else touches: the row
\* stays what it was in name, and a new one is known to nobody.
DraftFits(s, i) ==
    /\ i <= used
    /\ \A z \in Others(s) : i \notin DOMAIN draft[z]
    /\ draft[s][i] # Gone =>
          /\ KeyFits(i, draft[s][i])
          /\ rows[i] = Gone => i \in reborn \/ \A z \in Others(s) : found[z] # i
          /\ rows[i] # Gone =>
                i \in renamed \cup reborn \/ Identity(draft[s][i]) = Identity(rows[i])
DraftsFit == \A s \in Sessions : \A i \in DOMAIN draft[s] : DraftFits(s, i)

\* The row an upsert found is that of its tuple.
FoundFits(s) ==
    /\ found[s] \in Ids => found[s] <= used
    /\ Writing(s) /\ pc[s] \in {"derive", "update"} /\ Stored(s, found[s]) =>
          \/ found[s] \in renamed \cup reborn
          \/ Identity(View(s, found[s])) = CurrentTuple(s)

\* The key a save has derived is that of the columns as they will be, those it
\* leaves out locked, unless there was no row to lock.
Locked(s) == found[s] \in DOMAIN draft[s] /\ Stored(s, found[s])
DerivedFits(s) ==
    pc[s] = "update" =>
        \/ derived[s] = DerivedKey(s) /\ (Omitted(s) # {} => Locked(s))
        \/ Omitted(s) # {} /\ (Stored(s, found[s]) => found[s] \in reborn)

\* The tuples a batch is through with, but for those it names again.
Through(s) == IF pc[s] = "leave" THEN Len(op[s].batch) ELSE at[s] - 1
LastOf(batch, k, n) ==
    \A j \in (k + 1)..n : <<batch[j].edge, batch[j].name>> # <<batch[k].edge, batch[k].name>>
Landed(s, t) ==
    \E i \in DOMAIN draft[s] :
        \/ i \in renamed \cup reborn
        \/ /\ draft[s][i] # Gone /\ draft[s][i].context = t.context
           /\ Identity(draft[s][i]) = [edge |-> t.edge, name |-> t.name]
BatchFits(s) ==
    Writing(s) /\ pc[s] \in {"draw", "store", "find", "insert", "derive", "update", "leave"} =>
        \A k \in 1..Through(s) :
            LastOf(op[s].batch, k, Through(s)) => Landed(s, op[s].batch[k])

\* A grant has its row until it reads it back.
GrantFits(s) ==
    op[s].kind = "grant" =>
        /\ pc[s] \in {"leave", "token", "get"} =>
              \/ found[s] \in renamed \cup reborn
              \/ Holding(s, CurrentTuple(s)) \cap DOMAIN draft[s] # {}
        /\ outcome[s] = "missing" => found[s] \in renamed \cup reborn

SessionFits(s) ==
    StepFits(s) /\ FoundFits(s) /\ DerivedFits(s) /\ BatchFits(s) /\ GrantFits(s)

LandInv == TypeOK /\ RowsFit /\ DraftsFit /\ \A s \in Sessions : SessionFits(s)

-----------------------------------------------------------------------------
(* Operations and their parts.                                             *)

LEMMA OperationParts ==
    ASSUME NEW o \in Operations
    PROVE /\ o.kind \in {"write", "grant", "remove", "revoke", "save", "erase", "bulk", "drop"}
          /\ o.kind \in {"write", "grant", "bulk"} => o.batch \in Batches
          /\ o.kind \in {"grant", "bulk"} => Len(o.batch) = 1
          /\ o.kind \in {"remove", "revoke"} => o.edge \in Edges /\ o.names \subseteq Names
          /\ o.kind = "save" => o.id \in Ids /\ o.change \in Changes /\ o.edge \in Edges
          /\ o.kind = "erase" => o.id \in Ids
          /\ o.kind = "drop" => o.object \in Objects
BY DEF Operations, Writes, Grants, Removals, Revocations, Saves, Erasures, Bulks, Drops

LEMMA BatchParts ==
    ASSUME NEW b \in Batches
    PROVE  /\ Len(b) \in Nat /\ Len(b) > 0
           /\ \A k \in 1..Len(b) : /\ b[k].edge \in Edges /\ b[k].name \in Names
                                   /\ b[k].context \in Contexts
                                   /\ b[k] \in Given
<1>1. b \in Seq(Given) /\ b # << >> BY StoreAssumption DEF StoreAssumption
<1>2. Len(b) \in Nat /\ Len(b) > 0 BY <1>1
<1>3. \A k \in 1..Len(b) : b[k] \in Given BY <1>1
<1> QED BY <1>2, <1>3 DEF Given

LEMMA SaveParts ==
    ASSUME NEW c \in Changes
    PROVE  /\ c.fields \subseteq Columns /\ c.name \in Names /\ c.context \in Contexts
           /\ ~c.partial => c.fields = Columns
BY StoreAssumption DEF StoreAssumption, Change

\* What a session writes is typed.
LEMMA CurrentIsTyped ==
    ASSUME LandInv, NEW s \in Sessions, Batched(s)
    PROVE  /\ op[s].batch \in Batches /\ at[s] \in 1..Len(op[s].batch)
           /\ Current(s) \in Given /\ CurrentTuple(s) \in Tuple
           /\ Current(s).edge \in Edges /\ Current(s).name \in Names
           /\ Current(s).context \in Contexts
           /\ op[s] \in Operations
<1>1. op[s] \in Operations
  BY DEF LandInv, TypeOK, SessionsTypeOK, Batched, Nothing
<1>2. op[s].batch \in Batches BY <1>1, OperationParts DEF Batched
<1>3. at[s] \in 1..Len(op[s].batch) BY DEF LandInv, SessionFits, StepFits
<1> QED BY <1>1, <1>2, <1>3, BatchParts DEF Current, CurrentTuple, Tuple

LEMMA RowParts ==
    ASSUME NEW r \in Row
    PROVE  /\ r # Gone /\ r.edge \in Edges /\ r.name \in Names /\ r.context \in Contexts
           /\ r.key \in Names \X Contexts /\ r.xid \in 0..MaxXid
BY StoreAssumption DEF StoreAssumption, Row

LEMMA ViewIsTyped ==
    ASSUME LandInv, NEW s \in Sessions, NEW i \in Ids
    PROVE  /\ View(s, i) \in Row \cup {Gone}
           /\ Stored(s, i) => View(s, i) \in Row
BY DEF LandInv, TypeOK, DatabaseTypeOK, OverlayTypeOK, View, Stored

LEMMA HeldIsStored ==
    ASSUME LandInv, NEW s \in Sessions, NEW t, NEW i \in Holding(s, t)
    PROVE  i \in Ids /\ i <= used /\ Stored(s, i) /\ Identity(View(s, i)) = t
BY DEF LandInv, DraftsFit, DraftFits, RowsFit, Holding, Stored, View

-----------------------------------------------------------------------------
(* A step of one session, as the others see it.                            *)

\* Nothing of another session's own state changes, rows become what s drafted,
\* and what s now drafts and has found was nobody else's.
Alone(s) ==
    /\ \A z \in Others(s) :
          /\ pc'[z] = pc[z] /\ op'[z] = op[z] /\ at'[z] = at[z] /\ found'[z] = found[z]
          /\ derived'[z] = derived[z] /\ ambient'[z] = ambient[z]
          /\ outcome'[z] = outcome[z] /\ draft'[z] = draft[z]
    /\ \A i \in Ids : rows'[i] # rows[i] => i \in DOMAIN draft[s] /\ rows'[i] = draft[s][i]
    /\ renamed \subseteq renamed' /\ reborn \subseteq reborn'
    /\ used' \in Nat /\ used <= used'
Apart(s) ==
    \A z \in Others(s) : \A i \in DOMAIN draft[z] :
        /\ i \notin DOMAIN draft'[s]
        /\ rows[i] = Gone /\ draft[z][i] # Gone => i \in reborn' \/ found'[s] # i

\* Rows as another session sees them change only by s, and stay what they were.
LEMMA ViewsStay ==
    ASSUME LandInv, NEW s \in Sessions, Alone(s), NEW z \in Others(s), NEW i \in Ids,
           i = found[z], Stored(z, i)'
    PROVE  \/ i \in reborn'
           \/ /\ Stored(z, i)
              /\ i \in renamed' \/ Identity(View(z, i)') = Identity(View(z, i))
<1>1. z \in Sessions /\ z # s BY DEF Others
<1>2. CASE i \in DOMAIN draft[z]
  <2>1. View(z, i)' = View(z, i) BY <1>2, <1>1 DEF View, Alone
  <2> QED BY <2>1 DEF Stored
<1>3. CASE i \notin DOMAIN draft[z]
  <2>1. View(z, i)' = rows'[i] /\ View(z, i) = rows[i] BY <1>3, <1>1 DEF View, Alone
  <2>2. CASE rows'[i] = rows[i] BY <2>1, <2>2 DEF Stored
  <2>3. CASE rows'[i] # rows[i]
    <3>1. i \in DOMAIN draft[s] /\ rows'[i] = draft[s][i] BY <2>3 DEF Alone
    <3>2. draft[s][i] # Gone BY <2>1, <3>1 DEF Stored
    <3>3. DraftFits(s, i) BY <3>1 DEF LandInv, DraftsFit
    <3>4. CASE rows[i] = Gone
      BY <1>1, <3>2, <3>3, <3>4 DEF DraftFits, Alone, Others
    <3>5. CASE rows[i] # Gone
      BY <2>1, <3>1, <3>2, <3>3, <3>5 DEF DraftFits, Alone, Stored, Identity
    <3> QED BY <3>4, <3>5
  <2> QED BY <2>2, <2>3
<1> QED BY <1>2, <1>3

\* A row that was gone when z looked for it comes back reborn or not at all.
LEMMA ViewsUnstored ==
    ASSUME LandInv, NEW s \in Sessions, Alone(s), NEW z \in Others(s), NEW i \in Ids,
           i = found[z], Stored(z, i)', Stored(z, i) => i \in reborn
    PROVE  i \in reborn'
BY ViewsStay DEF Alone

\* Another session is where it was, with what it had.
LEMMA OthersFit ==
    ASSUME LandInv, NEW s \in Sessions, Alone(s), NEW z \in Others(s)
    PROVE SessionFits(z)'
<1>1. z \in Sessions /\ z # s /\ SessionFits(z) BY DEF Others, LandInv
<1>2. /\ pc'[z] = pc[z] /\ op'[z] = op[z] /\ at'[z] = at[z] /\ found'[z] = found[z]
      /\ derived'[z] = derived[z] /\ ambient'[z] = ambient[z]
      /\ outcome'[z] = outcome[z] /\ draft'[z] = draft[z]
      /\ renamed \subseteq renamed' /\ reborn \subseteq reborn'
      /\ used' \in Nat /\ used \in Nat /\ used <= used'
  BY DEF Alone, LandInv, TypeOK, DatabaseTypeOK
<1>3. StepFits(z)'
  BY <1>1, <1>2 DEF SessionFits, StepFits, Writing, Batched
<1>4. CurrentTuple(z)' = CurrentTuple(z) /\ Writing(z)' = Writing(z)
  BY <1>2 DEF CurrentTuple, Current, Writing
<1>5. FoundFits(z)'
  <2>1. found[z] \in Ids => found[z] <= used'
    <3>1. found[z] \in Ids => found[z] <= used BY <1>1 DEF SessionFits, FoundFits
    <3> QED BY <1>2, <3>1 DEF Ids
  <2>2. ASSUME Writing(z), pc[z] \in {"derive", "update"}, Stored(z, found[z])'
        PROVE  found[z] \in renamed' \cup reborn' \/ Identity(View(z, found[z]))' = CurrentTuple(z)
    <3>1. PICK i \in Ids : i = found[z] BY <1>1, <2>2 DEF SessionFits, StepFits
    <3>2. i = found'[z] BY <1>2, <3>1
    <3>3. Stored(z, i)' BY <2>2, <3>2 DEF Stored, View
    <3>4. \/ i \in reborn'
          \/ /\ Stored(z, i)
             /\ i \in renamed' \/ Identity(View(z, i)') = Identity(View(z, i))
      BY <3>1, <3>3, ViewsStay
    <3>5. Stored(z, i) => i \in renamed \cup reborn \/ Identity(View(z, i)) = CurrentTuple(z)
      BY <1>1, <2>2, <3>1 DEF SessionFits, FoundFits
    <3>6. Identity(View(z, i)') = Identity(View(z, found[z]))'
      BY <3>2 DEF Identity, View
    <3> QED BY <1>2, <3>1, <3>4, <3>5, <3>6
  <2> QED BY <1>2, <1>4, <2>1, <2>2 DEF FoundFits
<1>6. DerivedFits(z)'
  <2> SUFFICES ASSUME pc[z] = "update"
               PROVE \/ derived[z] = DerivedKey(z)' /\ (Omitted(z)' # {} => Locked(z)')
                     \/ Omitted(z)' # {} /\ (Stored(z, found[z])' => found[z] \in reborn')
    BY <1>2 DEF DerivedFits
  <2>1. Omitted(z)' = Omitted(z) /\ Assigned(z)' = Assigned(z)
    BY <1>2 DEF Omitted, Fields, Assigned, Current
  <2>2. PICK i \in Ids : i = found[z] BY <1>1 DEF SessionFits, StepFits
  <2>3. i = found'[z] BY <1>2, <2>2
  <2>4. CASE Omitted(z) = {}
    <3>1. derived[z] = DerivedKey(z)
      BY <1>1, <2>4 DEF SessionFits, DerivedFits
    <3>2. DerivedKey(z)' = DerivedKey(z) BY <2>1, <2>4 DEF DerivedKey
    <3> QED BY <2>1, <2>4, <3>1, <3>2
  <2>5. CASE Omitted(z) # {} /\ Locked(z) /\ derived[z] = DerivedKey(z)
    <3>1. View(z, found[z])' = View(z, found[z])
      BY <1>2, <2>5 DEF Locked, View
    <3>2. Stored(z, found[z])' = Stored(z, found[z]) BY <3>1 DEF Stored
    <3>3. DerivedKey(z)' = DerivedKey(z) BY <2>1, <3>1, <3>2 DEF DerivedKey
    <3> QED BY <1>2, <2>1, <2>5, <3>2, <3>3 DEF Locked
  <2>6. CASE Omitted(z) # {} /\ (Stored(z, found[z]) => found[z] \in reborn)
    <3>1. ASSUME Stored(z, i)' PROVE i \in reborn'
      BY <1>2, <2>2, <2>6, <3>1, ViewsUnstored
    <3> QED BY <2>1, <2>2, <2>3, <2>6, <3>1 DEF Stored, View
  <2> QED BY <1>1, <2>4, <2>5, <2>6 DEF SessionFits, DerivedFits
<1>7. BatchFits(z)'
  <2>1. Through(z)' = Through(z) BY <1>2 DEF Through
  <2>2. \A t : Landed(z, t) => Landed(z, t)' BY <1>2 DEF Landed, Identity
  <2> QED BY <1>1, <1>2, <1>4, <2>1, <2>2 DEF SessionFits, BatchFits
<1>8. GrantFits(z)'
  <2>1. \A t : Holding(z, t)' \cap DOMAIN draft'[z] = Holding(z, t) \cap DOMAIN draft[z]
    BY <1>2 DEF Holding, Stored, View, Identity
  <2> QED BY <1>1, <1>2, <1>4, <2>1 DEF SessionFits, GrantFits
<1> QED BY <1>3, <1>5, <1>6, <1>7, <1>8 DEF SessionFits

LEMMA OtherDraftsFit ==
    ASSUME LandInv, NEW s \in Sessions, Alone(s), Apart(s), NEW z \in Others(s),
           NEW i \in DOMAIN draft'[z]
    PROVE  DraftFits(z, i)'
<1>1. z \in Sessions /\ z # s /\ i \in DOMAIN draft[z] /\ draft'[z] = draft[z]
  BY DEF Others, Alone
<1>2. DraftFits(z, i) BY <1>1 DEF LandInv, DraftsFit
<1>3. i \in Ids /\ i \in Nat /\ used \in Nat /\ used' \in Nat /\ used <= used'
  BY <1>1 DEF LandInv, TypeOK, OverlayTypeOK, DatabaseTypeOK, Alone, Ids
<1>4. i \notin DOMAIN draft[s] BY <1>1, <1>2 DEF DraftFits, Others
<1>5. rows'[i] = rows[i] BY <1>3, <1>4 DEF Alone
<1>6. i <= used' BY <1>2, <1>3 DEF DraftFits
<1>7. \A y \in Others(z) : i \notin DOMAIN draft'[y]
  BY <1>1, <1>2 DEF DraftFits, Alone, Apart, Others
<1>8. ASSUME draft[z][i] # Gone
      PROVE /\ KeyFits(i, draft[z][i])'
            /\ rows[i] = Gone => i \in reborn' \/ \A y \in Others(z) : found'[y] # i
            /\ rows[i] # Gone =>
                  i \in renamed' \cup reborn' \/ Identity(draft[z][i]) = Identity(rows[i])
  <2>1. KeyFits(i, draft[z][i])'
    BY <1>1, <1>2, <1>8 DEF DraftFits, KeyFits, KeyMatches, Alone
  <2>2. ASSUME rows[i] = Gone PROVE i \in reborn' \/ \A y \in Others(z) : found'[y] # i
    <3>1. i \in reborn' \/ found'[s] # i BY <1>1, <1>8, <2>2 DEF Apart
    <3>2. i \in reborn \/ \A y \in Others(z) : found[y] # i
      BY <1>2, <1>8, <2>2 DEF DraftFits
    <3> QED BY <1>1, <3>1, <3>2 DEF Alone, Others
  <2>3. ASSUME rows[i] # Gone
        PROVE i \in renamed' \cup reborn' \/ Identity(draft[z][i]) = Identity(rows[i])
    BY <1>2, <1>8, <2>3 DEF DraftFits, Alone
  <2> QED BY <2>1, <2>2, <2>3
<1> QED BY <1>1, <1>5, <1>6, <1>7, <1>8 DEF DraftFits, Identity

LEMMA RowsStayFit ==
    ASSUME LandInv, NEW s \in Sessions, Alone(s)
    PROVE  RowsFit'
<1> SUFFICES ASSUME NEW i \in Ids, rows'[i] # Gone
             PROVE  i <= used' /\ KeyFits(i, rows[i])'
  BY DEF RowsFit
<1>1. i \in Nat /\ used \in Nat /\ used' \in Nat /\ used <= used'
  BY DEF LandInv, TypeOK, DatabaseTypeOK, Alone, Ids
<1>2. i <= used /\ KeyFits(i, rows'[i])
  <2>1. CASE rows'[i] = rows[i] BY <2>1 DEF LandInv, RowsFit
  <2>2. CASE rows'[i] # rows[i]
    <3>1. i \in DOMAIN draft[s] /\ rows'[i] = draft[s][i] BY <2>2 DEF Alone
    <3>2. DraftFits(s, i) BY <3>1 DEF LandInv, DraftsFit
    <3> QED BY <3>1, <3>2 DEF DraftFits
  <2> QED BY <2>1, <2>2
<1> QED BY <1>1, <1>2 DEF KeyFits, KeyMatches, Alone

\* A step of s keeps the invariant when it keeps what is said of s.
LEMMA StepKeeps ==
    ASSUME LandInv, NEW s \in Sessions, Alone(s), Apart(s), TypeOK', SessionFits(s)',
           \A i \in DOMAIN draft'[s] : DraftFits(s, i)'
    PROVE  LandInv'
<1>1. \A z \in Sessions : SessionFits(z)' BY OthersFit DEF Others
<1>2. DraftsFit'
  <2>1. ASSUME NEW z \in Sessions, NEW i \in DOMAIN draft'[z] PROVE DraftFits(z, i)'
    BY <2>1, OtherDraftsFit DEF Others
  <2> QED BY <2>1 DEF DraftsFit
<1> QED BY <1>1, <1>2, RowsStayFit DEF LandInv

-----------------------------------------------------------------------------
(* Steps that write nothing.                                               *)

\* The rest of a session's own state is its own.
OthersRest(s) ==
    \A z \in Others(s) :
        /\ pc'[z] = pc[z] /\ op'[z] = op[z] /\ at'[z] = at[z] /\ found'[z] = found[z]
        /\ derived'[z] = derived[z] /\ ambient'[z] = ambient[z]
        /\ outcome'[z] = outcome[z] /\ draft'[z] = draft[z]

LEMMA QuietKeeps ==
    ASSUME LandInv, NEW s \in Sessions, OthersRest(s), TypeOK', SessionFits(s)',
           UNCHANGED <<rows, used, renamed, reborn>>,
           draft'[s] = draft[s],
           found'[s] = found[s] \/
              \A z \in Others(s) : \A i \in DOMAIN draft[z] :
                  rows[i] = Gone /\ draft[z][i] # Gone => i \in reborn \/ found'[s] # i
    PROVE  LandInv'
<1>1. used \in Nat BY DEF LandInv, TypeOK, DatabaseTypeOK
<1>2. Alone(s) BY <1>1 DEF Alone, OthersRest
<1>3. ASSUME NEW z \in Others(s), NEW i \in DOMAIN draft[z]
      PROVE /\ i \notin DOMAIN draft[s]
            /\ rows[i] = Gone /\ draft[z][i] # Gone => i \in reborn \/ found'[s] # i
  <2>1. DraftFits(z, i) /\ s \in Others(z) BY DEF LandInv, DraftsFit, Others
  <2> QED BY <2>1 DEF DraftFits
<1>4. Apart(s) BY <1>3 DEF Apart
<1>5. ASSUME NEW i \in DOMAIN draft'[s] PROVE DraftFits(s, i)'
  <2>1. DraftFits(s, i) BY <1>5 DEF LandInv, DraftsFit
  <2> QED BY <2>1
          DEF DraftFits, KeyFits, KeyMatches, Identity, OthersRest
<1> QED BY <1>2, <1>4, <1>5, StepKeeps

\* It goes on with what it had.
LEMMA QuietSession ==
    ASSUME LandInv, NEW s \in Sessions, StepFits(s)',
           UNCHANGED <<rows, used, renamed, reborn>>,
           draft'[s] = draft[s], found'[s] = found[s], op'[s] = op[s], at'[s] = at[s],
           pc'[s] \notin {"derive", "update"},
           pc'[s] = "leave" => ~Writing(s),
           Writing(s) /\ pc'[s] \in {"draw", "store", "find", "insert"} =>
               pc[s] \in {"draw", "store", "find"} \/ at[s] = 1,
           op[s].kind = "grant" /\ pc'[s] \in {"token", "get"} => pc[s] \in {"leave", "token"},
           op[s].kind = "grant" /\ outcome'[s] = "missing" => found[s] \in renamed \cup reborn
    PROVE  SessionFits(s)'
<1>1. SessionFits(s) BY DEF LandInv
<1>2. FoundFits(s)' BY <1>1 DEF SessionFits, FoundFits
<1>3. DerivedFits(s)' BY DEF DerivedFits
<1>4. BatchFits(s)'
  <2> SUFFICES ASSUME Writing(s), pc'[s] \in {"draw", "store", "find", "insert"},
                      NEW k \in 1..(at[s] - 1), LastOf(op[s].batch, k, at[s] - 1)
               PROVE  Landed(s, op[s].batch[k])'
    BY DEF BatchFits, Writing, Through
  <2>1. at[s] \in Nat BY DEF LandInv, TypeOK, SessionsTypeOK
  <2>2. pc[s] \in {"draw", "store", "find"} BY <2>1
  <2>3. Landed(s, op[s].batch[k]) BY <1>1, <2>2 DEF SessionFits, BatchFits, Through
  <2> QED BY <2>3 DEF Landed, Identity
<1>5. GrantFits(s)'
  <2>1. CurrentTuple(s)' = CurrentTuple(s) BY DEF CurrentTuple, Current
  <2>2. Holding(s, CurrentTuple(s))' = Holding(s, CurrentTuple(s))
    BY <2>1 DEF Holding, Stored, View, Identity
  <2> QED BY <1>1, <2>1, <2>2 DEF SessionFits, GrantFits, Writing
<1> QED BY <1>2, <1>3, <1>4, <1>5 DEF SessionFits

LEMMA InternLands ==
    ASSUME LandInv, NEW s \in Sessions, Intern(s)
    PROVE LandInv'
<1>1. /\ pc[s] = "intern" /\ pc' = [pc EXCEPT ![s] = "resolve"]
      /\ adding' = [adding EXCEPT ![s] = BatchEnds(s) \ resources]
      /\ UNCHANGED <<committed, clocks, ops, op, ambient, locals, draft, dropping,
                     interned, swept, history, scope, outcome>>
  BY DEF Intern, Goto, Put
<1>2. BatchEnds(s) \subseteq Objects
  <2>1. Writing(s) BY <1>1 DEF LandInv, SessionFits, StepFits
  <2>2. op[s].batch \in Batches BY <2>1, CurrentIsTyped DEF Writing, Batched
  <2>3. \A k \in DOMAIN op[s].batch : Ends[op[s].batch[k].edge] \subseteq Objects
    <3>1. op[s].batch \in Seq(Given) BY <2>2, StoreAssumption DEF StoreAssumption
    <3> QED BY <2>2, <3>1, BatchParts, StoreAssumption DEF StoreAssumption
  <2> QED BY <2>3 DEF BatchEnds
<1>3. TypeOK'
  BY <1>1, <1>2 DEF LandInv, TypeOK, DatabaseTypeOK, SessionsTypeOK, TokensTypeOK, OverlayTypeOK,
     committed, clocks, locals, history, scope, Labels
<1>4. StepFits(s)'
  BY <1>1 DEF LandInv, TypeOK, SessionsTypeOK, SessionFits, StepFits, Writing, Batched, locals
<1>5. SessionFits(s)'
  <2>1. op[s].kind = "grant" /\ outcome[s] = "missing" => found[s] \in renamed \cup reborn
    BY DEF LandInv, SessionFits, GrantFits
  <2> QED BY <1>1, <1>4, <2>1, QuietSession DEF LandInv, TypeOK, SessionsTypeOK, locals, committed, clocks, history
<1>6. OthersRest(s)
  BY <1>1 DEF OthersRest, Others, locals, LandInv, TypeOK, SessionsTypeOK
<1> QED BY <1>1, <1>3, <1>5, <1>6, QuietKeeps DEF committed, clocks, history, locals

LEMMA ResolveLands ==
    ASSUME LandInv, NEW s \in Sessions, Resolve(s)
    PROVE LandInv'
<1>3. TypeOK'
  BY StoreAssumption DEF Resolve, LandInv, TypeOK, DatabaseTypeOK, SessionsTypeOK, TokensTypeOK, OverlayTypeOK,
     committed, clocks, locals, overlay, history, scope, Labels, Goto, Put
<1>4. StepFits(s)'
  BY DEF Resolve, Goto, Put, LandInv, TypeOK, SessionsTypeOK, SessionFits, StepFits, Writing, Batched,
     locals, overlay
<1>5. OthersRest(s)
  BY DEF Resolve, Goto, Put, OthersRest, Others, locals, overlay, LandInv, TypeOK, SessionsTypeOK,
     OverlayTypeOK
<1>6. SessionFits(s)'
  <2>1. /\ op[s].kind = "grant" /\ outcome[s] = "missing" => found[s] \in renamed \cup reborn
        /\ StepFits(s)
    BY DEF LandInv, SessionFits, GrantFits
  <2> QED BY <1>4, <2>1, QuietSession
      DEF Resolve, Goto, Put, LandInv, TypeOK, SessionsTypeOK, StepFits, Writing, locals, overlay,
      committed, clocks, history
<1> QED BY <1>3, <1>5, <1>6, QuietKeeps
    DEF Resolve, committed, clocks, history, locals, overlay

LEMMA DrawLands ==
    ASSUME LandInv, NEW s \in Sessions, Draw(s)
    PROVE LandInv'
<1>1. PICK now \in Readings : NextXid(now) <= MaxXid /\ drawn' = Put(drawn, s, NextXid(now))
  BY DEF Draw
<1>2. NextXid(now) \in 0..MaxXid
  BY <1>1, StoreAssumption DEF StoreAssumption, NextXid, Larger, LandInv, TypeOK, DatabaseTypeOK
<1>3. TypeOK'
  <2>1. drawn' \in [Sessions -> 0..MaxXid]
    BY <1>1, <1>2 DEF Put, LandInv, TypeOK, TokensTypeOK
  <2> QED BY <2>1 DEF Draw, LandInv, TypeOK, DatabaseTypeOK, SessionsTypeOK, TokensTypeOK,
      OverlayTypeOK, committed, clocks, overlay, history, scope, Labels, Goto
<1>4. StepFits(s)'
  BY DEF Draw, Goto, Put, LandInv, TypeOK, SessionsTypeOK, SessionFits, StepFits, Writing, Batched,
     locals, overlay, NextXid, Larger
<1>5. OthersRest(s)
  BY DEF Draw, Goto, Put, OthersRest, Others, locals, overlay, LandInv, TypeOK, SessionsTypeOK,
     OverlayTypeOK
<1>6. SessionFits(s)'
  <2>1. /\ op[s].kind = "grant" /\ outcome[s] = "missing" => found[s] \in renamed \cup reborn
        /\ StepFits(s)
    BY DEF LandInv, SessionFits, GrantFits
  <2> QED BY <1>4, <2>1, QuietSession
      DEF Draw, Goto, Put, LandInv, TypeOK, SessionsTypeOK, StepFits, Writing, locals, overlay,
      committed, clocks, history
<1> QED BY <1>3, <1>5, <1>6, QuietKeeps
    DEF Draw, committed, clocks, history, locals, overlay

LEMMA StoreXidLands ==
    ASSUME LandInv, NEW s \in Sessions, StoreXid(s)
    PROVE LandInv'
<1>3. TypeOK'
  BY StoreAssumption DEF StoreXid, LandInv, TypeOK, DatabaseTypeOK, SessionsTypeOK, TokensTypeOK, OverlayTypeOK,
     committed, clocks, locals, overlay, history, scope, Labels, Goto, Put
<1>4. StepFits(s)'
  BY DEF StoreXid, Goto, Put, LandInv, TypeOK, SessionsTypeOK, SessionFits, StepFits, Writing, Batched,
     locals, overlay
<1>5. OthersRest(s)
  BY DEF StoreXid, Goto, Put, OthersRest, Others, locals, overlay, LandInv, TypeOK, SessionsTypeOK,
     OverlayTypeOK
<1>6. SessionFits(s)'
  <2>1. /\ op[s].kind = "grant" /\ outcome[s] = "missing" => found[s] \in renamed \cup reborn
        /\ StepFits(s)
    BY DEF LandInv, SessionFits, GrantFits
  <2>2. pc[s] = "store" /\ pc'[s] = IF Writing(s) THEN "find" ELSE "token"
    BY DEF StoreXid, Goto, LandInv, TypeOK, SessionsTypeOK
  <2>3. UNCHANGED <<rows, used, renamed, reborn, draft, found, op, at, outcome>>
    BY DEF StoreXid, locals, overlay, committed, history
  <2>4. op[s].kind = "grant" => Writing(s) BY DEF Writing
  <2> QED BY <1>4, <2>1, <2>2, <2>3, <2>4, QuietSession
<1> QED BY <1>3, <1>5, <1>6, QuietKeeps
    DEF StoreXid, committed, clocks, history, locals, overlay

LEMMA NamingIsStored ==
    ASSUME LandInv, NEW s \in Sessions, NEW o, NEW i \in Naming(s, o)
    PROVE  i \in Ids /\ i <= used
BY DEF LandInv, DraftsFit, DraftFits, RowsFit, Naming, Stored, View

LEMMA DropLands ==
    ASSUME LandInv, NEW s \in Sessions, Drop(s)
    PROVE LandInv'
<1>1. /\ pc[s] = "drop" /\ pc' = [pc EXCEPT ![s] = "sweep"]
      /\ dropping' = [dropping EXCEPT ![s] = {op[s].object}]
      /\ swept' = [swept EXCEPT ![s] = Naming(s, op[s].object)]
      /\ UNCHANGED <<committed, clocks, ops, op, ambient, locals, draft, adding,
                     interned, history, scope, outcome>>
  BY DEF Drop, Goto, Put
<1>2. Naming(s, op[s].object) \subseteq Ids BY NamingIsStored
<1>3. TypeOK'
  <2>1. op[s].kind = "drop" BY <1>1 DEF LandInv, SessionFits, StepFits
  <2>2. op[s] \in Operations BY <2>1 DEF LandInv, TypeOK, SessionsTypeOK, Nothing
  <2>3. op[s].object \in Objects BY <2>1, <2>2, OperationParts
  <2>4. OverlayTypeOK' BY <1>1, <1>2, <2>3 DEF LandInv, TypeOK, OverlayTypeOK
  <2>5. DatabaseTypeOK' /\ SessionsTypeOK' /\ TokensTypeOK'
    BY <1>1 DEF LandInv, TypeOK, DatabaseTypeOK, SessionsTypeOK, TokensTypeOK, committed, clocks,
       locals, history, scope, Labels
  <2> QED BY <2>4, <2>5 DEF TypeOK
<1>4. StepFits(s)'
  BY DEF Drop, Goto, Put, LandInv, TypeOK, SessionsTypeOK, SessionFits, StepFits, Writing, Batched,
     locals, overlay
<1>5. OthersRest(s)
  BY DEF Drop, Goto, Put, OthersRest, Others, locals, overlay, LandInv, TypeOK, SessionsTypeOK,
     OverlayTypeOK
<1>6. SessionFits(s)'
  <2>1. /\ op[s].kind = "grant" /\ outcome[s] = "missing" => found[s] \in renamed \cup reborn
        /\ StepFits(s)
    BY DEF LandInv, SessionFits, GrantFits
  <2> QED BY <1>4, <2>1, QuietSession
      DEF Drop, Goto, Put, LandInv, TypeOK, SessionsTypeOK, StepFits, Writing, locals, overlay,
      committed, clocks, history
<1> QED BY <1>3, <1>5, <1>6, QuietKeeps
    DEF Drop, committed, clocks, history, locals, overlay

LEMMA DropNothingLands ==
    ASSUME LandInv, NEW s \in Sessions, DropNothing(s)
    PROVE LandInv'
<1>3. TypeOK'
  BY StoreAssumption DEF DropNothing, LandInv, TypeOK, DatabaseTypeOK, SessionsTypeOK, TokensTypeOK, OverlayTypeOK,
     committed, clocks, locals, overlay, history, scope, Labels, Goto, Put
<1>4. StepFits(s)'
  BY DEF DropNothing, Goto, Put, LandInv, TypeOK, SessionsTypeOK, SessionFits, StepFits, Writing, Batched,
     locals, overlay
<1>5. OthersRest(s)
  BY DEF DropNothing, Goto, Put, OthersRest, Others, locals, overlay, LandInv, TypeOK, SessionsTypeOK,
     OverlayTypeOK
<1>6. SessionFits(s)'
  <2>1. /\ op[s].kind = "grant" /\ outcome[s] = "missing" => found[s] \in renamed \cup reborn
        /\ StepFits(s)
    BY DEF LandInv, SessionFits, GrantFits
  <2> QED BY <1>4, <2>1, QuietSession
      DEF DropNothing, Goto, Put, LandInv, TypeOK, SessionsTypeOK, StepFits, Writing, locals, overlay,
      committed, clocks, history
<1> QED BY <1>3, <1>5, <1>6, QuietKeeps
    DEF DropNothing, committed, clocks, history, locals, overlay

LEMMA LookLands ==
    ASSUME LandInv, NEW s \in Sessions, Look(s)
    PROVE LandInv'
<1>3. TypeOK'
  BY StoreAssumption DEF Look, LandInv, TypeOK, DatabaseTypeOK, SessionsTypeOK, TokensTypeOK, OverlayTypeOK,
     committed, clocks, locals, overlay, history, scope, Labels, Goto, Put
<1>4. StepFits(s)'
  BY DEF Look, Goto, Put, LandInv, TypeOK, SessionsTypeOK, SessionFits, StepFits, Writing, Batched,
     locals, overlay
<1>5. OthersRest(s)
  BY DEF Look, Goto, Put, OthersRest, Others, locals, overlay, LandInv, TypeOK, SessionsTypeOK,
     OverlayTypeOK
<1>6. SessionFits(s)'
  <2>1. /\ op[s].kind = "grant" /\ outcome[s] = "missing" => found[s] \in renamed \cup reborn
        /\ StepFits(s)
    BY DEF LandInv, SessionFits, GrantFits
  <2> QED BY <1>4, <2>1, QuietSession
      DEF Look, Goto, Put, LandInv, TypeOK, SessionsTypeOK, StepFits, Writing, locals, overlay,
      committed, clocks, history
<1> QED BY <1>3, <1>5, <1>6, QuietKeeps
    DEF Look, committed, clocks, history, locals, overlay

LEMMA TokenLands ==
    ASSUME LandInv, NEW s \in Sessions, Token(s)
    PROVE LandInv'
<1>3. TypeOK'
  BY StoreAssumption DEF Token, LandInv, TypeOK, DatabaseTypeOK, SessionsTypeOK, TokensTypeOK, OverlayTypeOK,
     committed, clocks, locals, overlay, history, scope, Labels, Goto, Put, Record, Larger, TokenOf, WriteToken
<1>4. StepFits(s)'
  BY DEF Token, Goto, Put, LandInv, TypeOK, SessionsTypeOK, SessionFits, StepFits, Writing, Batched,
     locals, overlay, Record, Larger, TokenOf, WriteToken
<1>5. OthersRest(s)
  BY DEF Token, Goto, Put, OthersRest, Others, locals, overlay, LandInv, TypeOK, SessionsTypeOK,
     OverlayTypeOK
<1>6. SessionFits(s)'
  <2>1. /\ op[s].kind = "grant" /\ outcome[s] = "missing" => found[s] \in renamed \cup reborn
        /\ StepFits(s)
    BY DEF LandInv, SessionFits, GrantFits
  <2> QED BY <1>4, <2>1, QuietSession
      DEF Token, Goto, Put, LandInv, TypeOK, SessionsTypeOK, StepFits, Writing, locals, overlay,
      committed, clocks, history
<1> QED BY <1>3, <1>5, <1>6, QuietKeeps
    DEF Token, committed, clocks, history, locals, overlay

LEMMA GetLands ==
    ASSUME LandInv, NEW s \in Sessions, Get(s)
    PROVE LandInv'
<1>3. TypeOK'
  BY StoreAssumption DEF Get, LandInv, TypeOK, DatabaseTypeOK, SessionsTypeOK, TokensTypeOK, OverlayTypeOK,
     committed, clocks, locals, overlay, history, scope, Labels, Goto, Put
<1>4. StepFits(s)'
  BY DEF Get, Goto, Put, LandInv, TypeOK, SessionsTypeOK, SessionFits, StepFits, Writing, Batched,
     locals, overlay
<1>5. OthersRest(s)
  BY DEF Get, Goto, Put, OthersRest, Others, locals, overlay, LandInv, TypeOK, SessionsTypeOK,
     OverlayTypeOK
<1>6. SessionFits(s)'
  <2>1. StepFits(s) /\ GrantFits(s) BY DEF LandInv, SessionFits
  <2>2. pc[s] = "get" /\ op[s].kind = "grant" /\ ambient[s] /\ pc'[s] = "commit"
    BY <2>1 DEF Get, Goto, LandInv, TypeOK, SessionsTypeOK, StepFits
  <2>3. UNCHANGED <<rows, used, renamed, reborn, draft, found, op, at>>
    BY DEF Get, locals, overlay, committed, clocks, history
  <2>4. outcome'[s] = IF Holding(s, CurrentTuple(s)) = {} THEN "missing" ELSE "found"
    BY DEF Get, Put, LandInv, TypeOK, SessionsTypeOK
  <2>5. outcome'[s] = "missing" => found[s] \in renamed \cup reborn
    BY <2>1, <2>2, <2>4 DEF GrantFits
  <2>6. ~(Writing(s) /\ pc'[s] \in {"draw", "store", "find", "insert"}) BY <2>2
  <2> QED BY <1>4, <2>2, <2>3, <2>5, <2>6, QuietSession
<1> QED BY <1>3, <1>5, <1>6, QuietKeeps
    DEF Get, committed, clocks, history, locals, overlay

LEMMA FindLands ==
    ASSUME LandInv, NEW s \in Sessions, Find(s)
    PROVE LandInv'
<1> DEFINE held == Holding(s, CurrentTuple(s))
           row == IF held = {} THEN None ELSE CHOOSE i \in held : TRUE
<1>1. /\ pc[s] = "find" /\ drawn' = [drawn EXCEPT ![s] = last]
      /\ newest' = [newest EXCEPT ![s] = Larger(newest[s], last)]
      /\ found' = [found EXCEPT ![s] = row]
      /\ pc' = [pc EXCEPT ![s] = IF held = {} THEN "insert" ELSE "derive"]
      /\ UNCHANGED <<committed, clocks, ops, op, ambient, at, derived, overlay, history,
                     scope, outcome>>
  BY DEF Find, Goto, Put
<1> HIDE DEF held
<1>2. (held = {} /\ row = None) \/ (held # {} /\ row \in held)
  <2>1. CASE held = {} BY <2>1
  <2>2. CASE held # {}
    <3>1. PICK i : i \in held BY <2>2
    <3>2. (CHOOSE j \in held : TRUE) \in held BY <3>1
    <3> QED BY <2>2, <3>2
  <2> QED BY <2>1, <2>2
<1>3. row \in held => /\ row \in Ids /\ row <= used /\ Stored(s, row)
                      /\ Identity(View(s, row)) = CurrentTuple(s)
  <2> HIDE DEF row
  <2> QED BY HeldIsStored DEF held
<1>4. row \in Ids \cup {None} BY <1>2, <1>3
<1> HIDE DEF row
<1>5. TypeOK'
  BY <1>1, <1>4 DEF LandInv, TypeOK, DatabaseTypeOK, SessionsTypeOK, TokensTypeOK,
     OverlayTypeOK, committed, clocks, overlay, history, scope, Labels, Larger
<1>6. OthersRest(s)
  BY <1>1 DEF OthersRest, Others, overlay, LandInv, TypeOK, SessionsTypeOK
<1>7. SessionFits(s) /\ Writing(s) BY <1>1 DEF LandInv, SessionFits, StepFits
<1>8. /\ pc'[s] = IF held = {} THEN "insert" ELSE "derive"
      /\ found'[s] = row
      /\ UNCHANGED <<rows, used, renamed, reborn, draft, op, at, ambient, outcome>>
  BY <1>1 DEF LandInv, TypeOK, SessionsTypeOK, committed, clocks, overlay, history
<1>9. StepFits(s)'
  BY <1>1, <1>2, <1>3, <1>7, <1>8 DEF SessionFits, StepFits, Writing, Batched
<1>10. SessionFits(s)'
  <2>1. FoundFits(s)'
    <3>1. found'[s] \in Ids => found'[s] <= used'
      BY <1>2, <1>3, <1>8, StoreAssumption DEF StoreAssumption, Ids
    <3>2. CASE held = {} BY <1>8, <3>1, <3>2 DEF FoundFits
    <3>3. CASE held # {}
      <4>1. CurrentTuple(s)' = CurrentTuple(s) BY <1>8 DEF CurrentTuple, Current
      <4>2. Identity(View(s, found[s]))' = Identity(View(s, row))
        BY <1>8 DEF Identity, View
      <4> QED BY <1>2, <1>3, <3>1, <3>3, <4>1, <4>2 DEF FoundFits
    <3> QED BY <3>2, <3>3
  <2>2. DerivedFits(s)' BY <1>8 DEF DerivedFits
  <2>3. BatchFits(s)'
    <3>1. Through(s)' = Through(s) BY <1>1, <1>8 DEF Through
    <3>2. \A t : Landed(s, t) => Landed(s, t)' BY <1>8 DEF Landed, Identity
    <3> QED BY <1>1, <1>7, <1>8, <3>1, <3>2 DEF SessionFits, BatchFits, Writing
  <2>4. GrantFits(s)'
    <3>1. outcome[s] = None BY <1>1, <1>7 DEF SessionFits, StepFits
    <3>2. outcome'[s] # "missing" BY <1>8, <3>1, StoreAssumption DEF StoreAssumption
    <3>3. pc'[s] \notin {"leave", "token", "get"} BY <1>8
    <3> QED BY <3>2, <3>3 DEF GrantFits
  <2> QED BY <1>9, <2>1, <2>2, <2>3, <2>4 DEF SessionFits
<1>11. ASSUME NEW z \in Others(s), NEW i \in DOMAIN draft[z], rows[i] = Gone
       PROVE  found'[s] # i
  <2>1. DraftFits(z, i) /\ i \in Ids
    BY DEF LandInv, DraftsFit, Others, TypeOK, OverlayTypeOK
  <2>2. i \notin DOMAIN draft[s] BY <2>1 DEF DraftFits, Others
  <2>3. ~Stored(s, i) BY <1>11, <2>2 DEF Stored, View
  <2>4. i # None BY <2>1, StoreAssumption DEF StoreAssumption, Ids
  <2> QED BY <1>2, <1>3, <1>8, <2>3, <2>4
<1> QED BY <1>5, <1>6, <1>8, <1>10, <1>11, QuietKeeps

-----------------------------------------------------------------------------
(* Steps that write rows.                                                  *)

\* A row that the transaction takes up.
Taken(s, i) ==
    /\ i \in Ids /\ i <= used'
    /\ RowFree(s, i)
    /\ draft'[s][i] # Gone =>
          /\ i \in reborn' \/ KeyMatches(draft'[s][i])
          /\ rows[i] = Gone => i \in reborn' \/ \A z \in Others(s) : found[z] # i
          /\ rows[i] # Gone =>
                i \in renamed' \cup reborn' \/ Identity(draft'[s][i]) = Identity(rows[i])

LEMMA WriteKeeps ==
    ASSUME LandInv, NEW s \in Sessions, OthersRest(s), TypeOK', SessionFits(s)',
           UNCHANGED rows, found'[s] = found[s],
           used <= used', renamed \subseteq renamed', reborn \subseteq reborn',
           \A i \in DOMAIN draft'[s] :
              \/ i \in DOMAIN draft[s] /\ draft'[s][i] = draft[s][i]
              \/ Taken(s, i)
    PROVE  LandInv'
<1>1. used \in Nat /\ used' \in Nat BY DEF LandInv, TypeOK, DatabaseTypeOK
<1>2. Alone(s) BY <1>1 DEF Alone, OthersRest
<1>3. ASSUME NEW z \in Others(s), NEW i \in DOMAIN draft[z]
      PROVE /\ i \notin DOMAIN draft'[s]
            /\ rows[i] = Gone /\ draft[z][i] # Gone => i \in reborn' \/ found'[s] # i
  <2>1. DraftFits(z, i) /\ s \in Others(z) BY DEF LandInv, DraftsFit, Others
  <2>2. i \notin DOMAIN draft[s] /\ ~RowFree(s, i) BY <2>1 DEF DraftFits, RowFree
  <2> QED BY <2>1, <2>2 DEF DraftFits, Taken
<1>4. Apart(s) BY <1>3 DEF Apart
<1>5. ASSUME NEW i \in DOMAIN draft'[s] PROVE DraftFits(s, i)'
  <2>1. CASE i \in DOMAIN draft[s] /\ draft'[s][i] = draft[s][i]
    <3>1. DraftFits(s, i) BY <2>1 DEF LandInv, DraftsFit
    <3>2. i \in Nat BY <2>1 DEF LandInv, TypeOK, OverlayTypeOK, Ids
    <3>3. i <= used' BY <1>1, <3>1, <3>2 DEF DraftFits
    <3> QED BY <2>1, <3>1, <3>3
            DEF DraftFits, KeyFits, KeyMatches, Identity, OthersRest
  <2>2. CASE Taken(s, i)
    <3>1. \A z \in Others(s) : found'[z] = found[z] /\ draft'[z] = draft[z]
      BY DEF OthersRest
    <3> QED BY <2>2, <3>1 DEF Taken, RowFree, DraftFits, Identity, KeyFits, KeyMatches
  <2> QED BY <2>1, <2>2
<1> QED BY <1>2, <1>4, <1>5, StepKeeps

\* A batch that has written a tuple.
LEMMA TupleLands ==
    ASSUME LandInv, NEW s \in Sessions, Writing(s), pc[s] \in {"insert", "update"},
           AfterTuple(s), op'[s] = op[s], \A t : t = Current(s) => Landed(s, t)',
           \A k \in 1..(at[s] - 1) :
              LastOf(op[s].batch, k, at[s]) /\ Landed(s, op[s].batch[k]) =>
                  \A t : t = op[s].batch[k] => Landed(s, t)'
    PROVE  /\ BatchFits(s)'
           /\ \/ pc'[s] = "draw" /\ at'[s] = at[s] + 1 /\ at[s] < Len(op[s].batch)
              \/ pc'[s] = "leave" /\ at'[s] = at[s]
<1>1. at[s] \in 1..Len(op[s].batch) /\ Len(op[s].batch) \in Nat
  BY CurrentIsTyped, BatchParts DEF Writing, Batched
<1>2. \/ pc'[s] = "draw" /\ at'[s] = at[s] + 1 /\ at[s] < Len(op[s].batch)
      \/ pc'[s] = "leave" /\ at'[s] = at[s] /\ at[s] = Len(op[s].batch)
  BY <1>1 DEF AfterTuple, Writing, Goto, LandInv, TypeOK, SessionsTypeOK
<1>3. Through(s)' = at[s] BY <1>1, <1>2 DEF Through
<1>4. ASSUME NEW k \in 1..at[s], LastOf(op[s].batch, k, at[s])
      PROVE  \A t : t = op[s].batch[k] => Landed(s, t)'
  <2>1. CASE k = at[s] BY <2>1 DEF Current
  <2>2. CASE k # at[s]
    <3>1. k \in 1..(at[s] - 1) BY <1>1, <2>2
    <3>2. LastOf(op[s].batch, k, at[s] - 1) BY <1>1, <1>4 DEF LastOf
    <3>3. Through(s) = at[s] - 1 BY DEF Through
    <3>4. BatchFits(s) BY DEF LandInv, SessionFits
    <3>5. Landed(s, op[s].batch[k]) BY <3>1, <3>2, <3>3, <3>4 DEF BatchFits
    <3> QED BY <1>4, <3>1, <3>5
  <2> QED BY <2>1, <2>2
<1>5. BatchFits(s)'
  <2>1. \A k : LastOf(op[s].batch, k, Through(s))' = LastOf(op[s].batch, k, at[s])
    BY <1>3 DEF LastOf
  <2>2. \A k : Landed(s, op[s].batch[k])' = (\A t : t = op[s].batch[k] => Landed(s, t)')
    BY DEF Landed, Identity
  <2> SUFFICES ASSUME NEW k \in 1..at[s], LastOf(op[s].batch, k, at[s])
               PROVE  Landed(s, op[s].batch[k])'
    BY <1>3, <2>1 DEF BatchFits
  <2> QED BY <1>4, <2>2
<1> QED BY <1>2, <1>5

-----------------------------------------------------------------------------
(* Beginnings and ends.                                                    *)

LEMMA IdleSession ==
    ASSUME LandInv, NEW s \in Sessions, Idle(s)
    PROVE  SessionFits(s)' /\ found'[s] = None
<1>1. /\ pc'[s] = "idle" /\ op'[s] = Nothing /\ outcome'[s] = None /\ at'[s] = 1
      /\ found'[s] = None
  BY DEF Idle, Goto, Put, LandInv, TypeOK, SessionsTypeOK
<1>2. op'[s].kind = "none" BY <1>1 DEF Nothing
<1>3. None \notin Ids /\ None # "missing" BY StoreAssumption DEF StoreAssumption, Ids
<1>4. StepFits(s)' BY <1>1, <1>2 DEF StepFits, Writing, Batched
<1> QED BY <1>1, <1>2, <1>3, <1>4
        DEF SessionFits, FoundFits, DerivedFits, BatchFits, GrantFits, Writing

LEMMA FailLands ==
    ASSUME LandInv, NEW s \in Sessions, Fail(s)
    PROVE LandInv'
<1>1. Unwind(s) /\ Idle(s) /\ UNCHANGED <<committed, clocks, history, scope>>
  BY DEF Fail
<1>2. SessionFits(s)' /\ found'[s] = None BY <1>1, IdleSession
<1>3. draft'[s] = << >> BY <1>1 DEF Unwind, Put, LandInv, TypeOK, OverlayTypeOK
<1>4. TypeOK'
  <2>1. DatabaseTypeOK'
    BY <1>1 DEF committed, clocks, history, LandInv, TypeOK, DatabaseTypeOK
  <2>2. SessionsTypeOK'
    BY <1>1 DEF Idle, Goto, Put, LandInv, TypeOK, SessionsTypeOK, Labels
  <2>3. TokensTypeOK'
    BY <1>1, StoreAssumption DEF StoreAssumption, Idle, Goto, Put, scope, LandInv, TypeOK, TokensTypeOK
  <2>4. OverlayTypeOK'
    BY <1>1 DEF Unwind, Put, LandInv, TypeOK, OverlayTypeOK
  <2> QED BY <2>1, <2>2, <2>3, <2>4 DEF TypeOK
<1>5. OthersRest(s)
  BY <1>1 DEF OthersRest, Others, Unwind, Idle, Goto, Put, LandInv, TypeOK, SessionsTypeOK,
     OverlayTypeOK
<1>6. Alone(s)
  BY <1>1, <1>5 DEF Alone, OthersRest, committed, clocks, history, LandInv, TypeOK, DatabaseTypeOK
<1>7. Apart(s)
  <2> SUFFICES ASSUME NEW z \in Others(s), NEW i \in DOMAIN draft[z]
               PROVE  i \notin DOMAIN draft'[s] /\ found'[s] # i
    BY DEF Apart
  <2>1. i \in Ids BY DEF Others, LandInv, TypeOK, OverlayTypeOK
  <2> QED BY <1>2, <1>3, <2>1, StoreAssumption DEF StoreAssumption, Ids
<1>8. \A i \in DOMAIN draft'[s] : DraftFits(s, i)' BY <1>3
<1> QED BY <1>2, <1>4, <1>6, <1>7, <1>8, StepKeeps

LEMMA ReturnLands ==
    ASSUME LandInv, NEW s \in Sessions, Return(s)
    PROVE LandInv'
<1>1. Idle(s) /\ UNCHANGED <<committed, clocks, overlay, history, scope>>
  BY DEF Return
<1>2. SessionFits(s)' /\ found'[s] = None BY <1>1, IdleSession
<1>3. TypeOK'
  <2>1. DatabaseTypeOK' /\ OverlayTypeOK'
    BY <1>1 DEF committed, clocks, history, overlay, LandInv, TypeOK, DatabaseTypeOK, OverlayTypeOK
  <2>2. SessionsTypeOK'
    BY <1>1 DEF Idle, Goto, Put, LandInv, TypeOK, SessionsTypeOK, Labels
  <2>3. TokensTypeOK'
    BY <1>1, StoreAssumption DEF StoreAssumption, Idle, Goto, Put, scope, LandInv, TypeOK, TokensTypeOK
  <2> QED BY <2>1, <2>2, <2>3 DEF TypeOK
<1>4. OthersRest(s)
  BY <1>1 DEF OthersRest, Others, overlay, Idle, Goto, Put, LandInv, TypeOK, SessionsTypeOK,
     OverlayTypeOK
<1>5. ASSUME NEW z \in Others(s), NEW i \in DOMAIN draft[z] PROVE found'[s] # i
  <2>1. i \in Ids BY DEF Others, LandInv, TypeOK, OverlayTypeOK
  <2> QED BY <1>2, <2>1, StoreAssumption DEF StoreAssumption, Ids
<1> QED BY <1>1, <1>2, <1>3, <1>4, <1>5, QuietKeeps DEF committed, clocks, history, overlay

LEMMA StartLands ==
    ASSUME LandInv, NEW s \in Sessions, Start(s)
    PROVE LandInv'
<1>1. /\ pc[s] = "idle" /\ ops' = [ops EXCEPT ![s] = @ + 1]
      /\ UNCHANGED <<committed, clocks, at, drawn, newest, derived, draft, dropping,
                     adding, swept, history, scope, outcome>>
  BY DEF Start
<1>2. PICK o \in Operations, within \in BOOLEAN :
          /\ Admissible(o) /\ (o.kind \in Wrapped => within)
          /\ op' = [op EXCEPT ![s] = o] /\ ambient' = [ambient EXCEPT ![s] = within]
          /\ found' = [found EXCEPT ![s] = IF o.kind \in {"save", "erase"} THEN o.id ELSE None]
          /\ interned' = IF o.kind \in {"save", "bulk"}
                         THEN [interned EXCEPT ![s] = epoch] ELSE interned
          /\ pc' = [pc EXCEPT ![s] = FirstStep(o)]
  BY DEF Start, Goto, Put
<1>3. /\ o.kind \in {"write", "grant", "remove", "revoke", "save", "erase", "bulk", "drop"}
      /\ o.kind \in {"write", "grant", "bulk"} => o.batch \in Batches
      /\ o.kind \in {"save", "erase"} => o.id \in Ids
  BY OperationParts
<1>4. /\ FirstStep(o) \in Labels
      /\ FirstStep(o) \notin {"idle", "update", "leave", "resolve", "find", "insert", "store",
                              "token", "get", "sweep"}
      /\ FirstStep(o) \in {"intern", "draw"} => o.kind \in {"write", "grant"}
      /\ FirstStep(o) = "derive" => o.kind = "save"
      /\ FirstStep(o) = "bulk" => o.kind = "bulk"
      /\ FirstStep(o) = "erase" => o.kind = "erase"
      /\ FirstStep(o) \in {"look", "remove"} => o.kind \in {"remove", "revoke"}
      /\ FirstStep(o) = "drop" => o.kind = "drop"
  BY <1>3 DEF FirstStep, Labels
<1>5. o.kind \in {"save", "erase"} => rows[o.id] # Gone
  BY <1>2 DEF Admissible
<1>6. StepFits(s) BY DEF LandInv, SessionFits
<1>7. /\ pc'[s] = FirstStep(o) /\ op'[s] = o /\ ambient'[s] = within /\ at'[s] = 1
      /\ found'[s] = IF o.kind \in {"save", "erase"} THEN o.id ELSE None
      /\ outcome'[s] = None
  BY <1>1, <1>2, <1>6 DEF StepFits, LandInv, TypeOK, SessionsTypeOK
<1>8. TypeOK'
  <2>1. DatabaseTypeOK' /\ TokensTypeOK'
    BY <1>1 DEF committed, clocks, history, scope, LandInv, TypeOK, DatabaseTypeOK, TokensTypeOK
  <2>2. SessionsTypeOK'
    BY <1>1, <1>2, <1>3, <1>4 DEF LandInv, TypeOK, SessionsTypeOK
  <2>3. OverlayTypeOK'
    BY <1>1, <1>2 DEF LandInv, TypeOK, OverlayTypeOK, DatabaseTypeOK
  <2> QED BY <2>1, <2>2, <2>3 DEF TypeOK
<1>9. StepFits(s)'
  <2>1. o.kind \in {"write", "grant", "bulk"} => 1 \in 1..Len(o.batch)
    BY <1>3, BatchParts
  <2> QED BY <1>2, <1>3, <1>4, <1>7, <2>1 DEF StepFits, Writing, Batched, Wrapped
<1>10. SessionFits(s)'
  <2>1. FoundFits(s)'
    <3>1. None \notin Ids /\ UNCHANGED used
      BY <1>1, StoreAssumption DEF StoreAssumption, Ids, clocks
    <3>2. found'[s] \in Ids => found'[s] <= used'
      BY <1>3, <1>5, <1>7, <3>1 DEF LandInv, RowsFit
    <3>3. ~(Writing(s)' /\ pc'[s] \in {"derive", "update"})
      BY <1>4, <1>7 DEF Writing
    <3> QED BY <3>2, <3>3 DEF FoundFits
  <2>2. DerivedFits(s)' BY <1>4, <1>7 DEF DerivedFits
  <2>3. BatchFits(s)'
    <3>1. Through(s)' = 0 BY <1>4, <1>7 DEF Through
    <3> QED BY <3>1 DEF BatchFits
  <2>4. GrantFits(s)'
    BY <1>4, <1>7, StoreAssumption DEF StoreAssumption, GrantFits
  <2> QED BY <1>9, <2>1, <2>2, <2>3, <2>4 DEF SessionFits
<1>11. OthersRest(s)
  BY <1>1, <1>2 DEF OthersRest, Others, LandInv, TypeOK, SessionsTypeOK, OverlayTypeOK
<1>12. ASSUME NEW z \in Others(s), NEW i \in DOMAIN draft[z], rows[i] = Gone PROVE found'[s] # i
  <2>1. i \in Ids BY DEF Others, LandInv, TypeOK, OverlayTypeOK
  <2>2. i # None BY <2>1, StoreAssumption DEF StoreAssumption, Ids
  <2> QED BY <1>5, <1>7, <1>12, <2>2
<1> QED BY <1>1, <1>8, <1>10, <1>11, <1>12, QuietKeeps DEF committed, clocks, history

\* What the transaction made is committed, and it starts afresh.
LEMMA PublishKeeps ==
    ASSUME LandInv, NEW s \in Sessions, Publish(s),
           UNCHANGED <<clocks, ops, op, ambient, locals, history, scope, outcome>>,
           NEW label \in Labels \ {"leave", "derive", "update", "idle", "get", "token", "draw"},
           \/ pc' = [pc EXCEPT ![s] = label] /\ StepFits(s)'
           \/ /\ pc[s] = "leave" /\ ~ambient[s] /\ StepFits(s)'
              /\ \/ pc' = [pc EXCEPT ![s] = "draw"] /\ ~Writing(s)
                 \/ pc' = [pc EXCEPT ![s] = "token"],
           ~(Writing(s) /\ label \in {"store", "find", "insert"})
    PROVE  LandInv'
<1>1. /\ rows' = [i \in Ids |-> View(s, i)] /\ objects' = objects \ dropping[s]
      /\ resources' = ResourcesOf(s) /\ UNCHANGED registry
      /\ epoch' = [o \in Objects |-> IF o \in dropping[s] \cap resources
                                     THEN epoch[o] + 1 ELSE epoch[o]]
      /\ buried' = buried \cup swept[s]
      /\ lapsed' = [o \in Objects |-> IF o \in dropping[s] THEN used ELSE lapsed[o]]
      /\ cascaded' = [o \in Objects |-> IF o \in dropping[s] \cap resources
                                        THEN used ELSE cascaded[o]]
      /\ Unwind(s)
  BY DEF Publish
<1>2. UNCHANGED <<used, op, at, found, derived, ambient, outcome, renamed, reborn>>
  BY DEF clocks, locals, history
<1>3. draft' = [draft EXCEPT ![s] = << >>] BY <1>1 DEF Unwind, Put
<1>4. draft'[s] = << >> BY <1>3 DEF LandInv, TypeOK, OverlayTypeOK
<1>5. TypeOK'
  <2>1. rows' \in [Ids -> Row \cup {Gone}] BY <1>1, ViewIsTyped
  <2>2. epoch' \in [Objects -> Nat] BY <1>1 DEF LandInv, TypeOK, DatabaseTypeOK
  <2>3. objects' \subseteq Objects /\ resources' \subseteq Objects
    BY <1>1 DEF LandInv, TypeOK, DatabaseTypeOK, OverlayTypeOK, ResourcesOf
  <2>4. DatabaseTypeOK'
    <3>1. used \in 0..MaxIds /\ buried \subseteq Ids /\ swept[s] \subseteq Ids
          /\ lapsed \in [Objects -> 0..MaxIds] /\ cascaded \in [Objects -> 0..MaxIds]
      BY DEF LandInv, TypeOK, DatabaseTypeOK, OverlayTypeOK
    <3>2. buried' \subseteq Ids /\ lapsed' \in [Objects -> 0..MaxIds]
          /\ cascaded' \in [Objects -> 0..MaxIds]
      BY <1>1, <3>1
    <3>3. registry' \in BOOLEAN /\ used' \in 0..MaxIds /\ last' \in 0..MaxXid
          /\ renamed' \subseteq Ids /\ reborn' \subseteq Ids
      BY <1>1 DEF LandInv, TypeOK, DatabaseTypeOK, clocks, history
    <3> QED BY <2>1, <2>2, <2>3, <3>2, <3>3 DEF DatabaseTypeOK
  <2>5. SessionsTypeOK' /\ TokensTypeOK'
    BY DEF LandInv, TypeOK, SessionsTypeOK, TokensTypeOK, locals, scope, Labels
  <2>6. OverlayTypeOK' BY <1>1 DEF Unwind, Put, LandInv, TypeOK, OverlayTypeOK
  <2> QED BY <2>4, <2>5, <2>6 DEF TypeOK
<1>6. OthersRest(s)
  BY <1>2, <1>3 DEF OthersRest, Others, LandInv, TypeOK, SessionsTypeOK, OverlayTypeOK
<1>7. \A i \in Ids : rows'[i] = IF i \in DOMAIN draft[s] THEN draft[s][i] ELSE rows[i]
  BY <1>1 DEF View
<1>8. Alone(s)
  BY <1>2, <1>6, <1>7 DEF Alone, OthersRest, LandInv, TypeOK, DatabaseTypeOK
<1>9. Apart(s)
  <2> SUFFICES ASSUME NEW z \in Others(s), NEW i \in DOMAIN draft[z],
                      rows[i] = Gone, draft[z][i] # Gone
               PROVE  i \in reborn \/ found[s] # i
    BY <1>2, <1>4 DEF Apart
  <2>1. DraftFits(z, i) /\ s \in Others(z) BY DEF LandInv, DraftsFit, Others
  <2> QED BY <2>1 DEF DraftFits
<1>10. SessionFits(s)'
  <2>1. SessionFits(s) BY DEF LandInv
  <2>2. pc'[s] \notin {"derive", "update", "leave"} /\ StepFits(s)'
    BY DEF LandInv, TypeOK, SessionsTypeOK, Labels
  <2>3. FoundFits(s)' BY <1>2, <2>1, <2>2 DEF SessionFits, FoundFits
  <2>4. DerivedFits(s)' BY <2>2 DEF DerivedFits
  <2>5. BatchFits(s)'
    <3>1. ~(Writing(s)' /\ pc'[s] \in {"draw", "store", "find", "insert"})
      BY <1>2 DEF Writing, LandInv, TypeOK, SessionsTypeOK
    <3> QED BY <2>2, <3>1 DEF BatchFits
  <2>6. GrantFits(s)'
    <3>1. op[s].kind = "grant" => pc'[s] \notin {"token", "get"}
      BY <2>1 DEF SessionFits, StepFits, LandInv, TypeOK, SessionsTypeOK
    <3> QED BY <1>2, <2>1, <2>2, <3>1 DEF SessionFits, GrantFits
  <2> QED BY <2>2, <2>3, <2>4, <2>5, <2>6 DEF SessionFits
<1>11. \A i \in DOMAIN draft'[s] : DraftFits(s, i)' BY <1>4
<1> QED BY <1>5, <1>8, <1>9, <1>10, <1>11, StepKeeps

LEMMA LeaveLands ==
    ASSUME LandInv, NEW s \in Sessions, Leave(s)
    PROVE LandInv'
<1>1. /\ pc[s] = "leave" /\ pc' = [pc EXCEPT ![s] = AfterBlock(s)]
      /\ UNCHANGED <<clocks, ops, op, ambient, locals, history, scope, outcome>>
  BY DEF Leave, Goto
<1>2. /\ AfterBlock(s) \in {"token", "draw", "done"}
      /\ AfterBlock(s) = "token" => Writing(s)
      /\ AfterBlock(s) = "draw" => op[s].kind \in {"remove", "revoke"}
      /\ Writing(s) => AfterBlock(s) = "token"
  BY DEF AfterBlock, Writing
<1>3. SessionFits(s) BY DEF LandInv
<1>4. pc'[s] = AfterBlock(s) BY <1>1 DEF LandInv, TypeOK, SessionsTypeOK
<1>5. UNCHANGED <<op, ambient, at, found, outcome, used, renamed, reborn>>
  BY <1>1 DEF locals, clocks, history
<1>6. StepFits(s)'
  BY <1>1, <1>2, <1>3, <1>4, <1>5 DEF SessionFits, StepFits, Writing, Batched
<1>7. CASE ambient[s]
  <2>1. UNCHANGED <<committed, overlay>> BY <1>7 DEF Leave
  <2>2. TypeOK'
    <3> HIDE DEF AfterBlock
    <3> QED BY <1>1, <1>2, <2>1 DEF LandInv, TypeOK, DatabaseTypeOK, SessionsTypeOK, TokensTypeOK,
            OverlayTypeOK, committed, clocks, locals, overlay, history, scope, Labels
  <2>3. OthersRest(s)
    BY <1>1, <2>1 DEF OthersRest, Others, locals, overlay, LandInv, TypeOK, SessionsTypeOK
  <2>4. UNCHANGED <<rows, draft>> BY <2>1 DEF committed, overlay
  <2>5. op[s].kind = "grant" /\ outcome[s] = "missing" => found[s] \in renamed \cup reborn
    BY <1>3 DEF SessionFits, GrantFits
  <2>6. pc'[s] \in {"token", "draw", "done"} BY <1>2, <1>4
  <2>7. ~(Writing(s) /\ pc'[s] = "draw") BY <1>2, <1>4
  <2>8. SessionFits(s)'
    BY <1>1, <1>5, <1>6, <2>4, <2>5, <2>6, <2>7, QuietSession
  <2> QED BY <1>5, <2>2, <2>3, <2>4, <2>8, QuietKeeps
<1>8. CASE ~ambient[s]
  <2>1. Publish(s) BY <1>8 DEF Leave
  <2>2. "done" \in Labels \ {"leave", "derive", "update", "idle", "get", "token", "draw"}
    BY DEF Labels
  <2>3. CASE AfterBlock(s) = "done" BY <1>1, <1>6, <2>1, <2>2, <2>3, PublishKeeps
  <2>4. CASE AfterBlock(s) = "token" BY <1>1, <1>6, <1>8, <2>1, <2>2, <2>4, PublishKeeps
  <2>5. CASE AfterBlock(s) = "draw"
    <3>1. ~Writing(s) BY <1>2, <2>5
    <3> QED BY <1>1, <1>6, <1>8, <2>1, <2>2, <2>5, <3>1, PublishKeeps
  <2> QED BY <1>2, <2>3, <2>4, <2>5
<1> QED BY <1>7, <1>8

LEMMA CommitLands ==
    ASSUME LandInv, NEW s \in Sessions, Commit(s)
    PROVE LandInv'
<1>1. /\ pc[s] = "commit" /\ pc' = [pc EXCEPT ![s] = "done"] /\ Publish(s)
      /\ UNCHANGED <<clocks, ops, op, ambient, locals, history, scope, outcome>>
  BY DEF Commit, Goto
<1>2. StepFits(s)'
  BY <1>1 DEF LandInv, SessionFits, StepFits, Writing, Batched, locals, TypeOK, SessionsTypeOK
<1>3. "done" \in Labels \ {"leave", "derive", "update", "idle", "get", "token", "draw"}
  BY DEF Labels
<1> QED BY <1>1, <1>2, <1>3, PublishKeeps

-----------------------------------------------------------------------------
(* The tuples of a batch.                                                  *)

\* A new row: its key is above all there are.
LEMMA FreshIsTaken ==
    ASSUME LandInv, NEW s \in Sessions, used < MaxIds, used' = used + 1, UNCHANGED reborn,
           NEW t \in Given, NEW x,
           draft'[s][used + 1] = Fresh(t, x)
    PROVE  Taken(s, used + 1) /\ used + 1 \in Ids /\ used + 1 \notin DOMAIN draft[s]
<1>1. used \in Nat /\ MaxIds \in Nat
  BY StoreAssumption DEF StoreAssumption, LandInv, TypeOK, DatabaseTypeOK
<1>2. used + 1 \in Ids /\ used + 1 <= used' /\ ~(used + 1 <= used) BY <1>1 DEF Ids
<1>3. \A z \in Sessions : used + 1 \notin DOMAIN draft[z]
  BY <1>2 DEF LandInv, DraftsFit, DraftFits
<1>4. \A z \in Sessions : found[z] # used + 1
  BY <1>2 DEF LandInv, SessionFits, FoundFits
<1>5. rows[used + 1] = Gone BY <1>2 DEF LandInv, RowsFit
<1>6. KeyMatches(draft'[s][used + 1]) BY DEF Fresh, KeyMatches
<1> QED BY <1>2, <1>3, <1>4, <1>5, <1>6 DEF Taken, RowFree, Others

\* One more row in the overlay of s.
LEMMA LaidParts ==
    ASSUME LandInv, NEW s \in Sessions, NEW i \in Ids, NEW v, Laid(s, i, v)
    PROVE  /\ DOMAIN draft'[s] = DOMAIN draft[s] \cup {i} /\ draft'[s][i] = v
           /\ \A j \in DOMAIN draft[s] : j # i => draft'[s][j] = draft[s][j]
           /\ \A z \in Others(s) : draft'[z] = draft[z]
           /\ DOMAIN draft' = Sessions
           /\ v \in Row \cup {Gone} =>
                 \A z \in Sessions : /\ DOMAIN draft'[z] \subseteq Ids
                                     /\ \A j \in DOMAIN draft'[z] : draft'[z][j] \in Row \cup {Gone}
<1> DEFINE o == Overlaid(draft[s], i, v)
<1>1. /\ DOMAIN o = DOMAIN draft[s] \cup {i} /\ o[i] = v
      /\ \A j \in DOMAIN draft[s] : j # i => o[j] = draft[s][j]
  BY DEF Overlaid
<1>2. draft' = [draft EXCEPT ![s] = o] BY DEF Laid, Put
<1> HIDE DEF o
<1>3. draft'[s] = o /\ \A z \in Others(s) : draft'[z] = draft[z]
  BY <1>2 DEF LandInv, TypeOK, OverlayTypeOK, Others
<1>4. DOMAIN draft' = Sessions BY <1>2 DEF LandInv, TypeOK, OverlayTypeOK
<1>5. v \in Row \cup {Gone} =>
         \A z \in Sessions : /\ DOMAIN draft'[z] \subseteq Ids
                             /\ \A j \in DOMAIN draft'[z] : draft'[z][j] \in Row \cup {Gone}
  <2> SUFFICES ASSUME v \in Row \cup {Gone}, NEW z \in Sessions
               PROVE /\ DOMAIN draft'[z] \subseteq Ids
                     /\ \A j \in DOMAIN draft'[z] : draft'[z][j] \in Row \cup {Gone}
    OBVIOUS
  <2>1. /\ DOMAIN draft[z] \subseteq Ids
        /\ \A j \in DOMAIN draft[z] : draft[z][j] \in Row \cup {Gone}
    BY DEF LandInv, TypeOK, OverlayTypeOK
  <2>2. CASE z = s BY <1>1, <1>3, <2>1, <2>2
  <2>3. CASE z # s
    <3>1. draft'[z] = draft[z] BY <1>3, <2>3 DEF Others
    <3> QED BY <2>1, <3>1
  <2> QED BY <2>2, <2>3
<1> QED BY <1>1, <1>3, <1>4, <1>5

LEMMA FreshIsTyped ==
    ASSUME NEW t \in Given, NEW x \in 0..MaxXid
    PROVE  /\ Fresh(t, x) \in Row /\ KeyMatches(Fresh(t, x))
           /\ Identity(Fresh(t, x)) = [edge |-> t.edge, name |-> t.name]
           /\ Fresh(t, x).context = t.context
BY DEF Fresh, Row, Given, KeyMatches, Identity

LEMMA AfterTupleTyped ==
    ASSUME LandInv, NEW s \in Sessions, AfterTuple(s)
    PROVE  pc' \in [Sessions -> Labels] /\ at' \in [Sessions -> Nat \ {0}]
<1>1. pc \in [Sessions -> Labels] /\ at \in [Sessions -> Nat \ {0}]
  BY DEF LandInv, TypeOK, SessionsTypeOK
<1>2. at[s] + 1 \in Nat \ {0} BY <1>1
<1> QED BY <1>1, <1>2 DEF AfterTuple, Goto, Labels

LEMMA InsertLands ==
    ASSUME LandInv, NEW s \in Sessions, Insert(s)
    PROVE LandInv'
<1>1. /\ pc[s] = "insert" /\ used < MaxIds /\ used' = used + 1
      /\ Laid(s, used + 1, Fresh(Current(s), drawn[s]))
      /\ AfterTuple(s)
      /\ UNCHANGED <<committed, last, ops, op, ambient, drawn, newest, found, derived,
                     dropping, adding, interned, swept, history, scope, outcome>>
  BY DEF Insert
<1>2. SessionFits(s) /\ Writing(s) BY <1>1 DEF LandInv, SessionFits, StepFits
<1>3. Current(s) \in Given BY <1>2, CurrentIsTyped DEF Writing, Batched
<1>4. drawn[s] \in 0..MaxXid BY DEF LandInv, TypeOK, TokensTypeOK
<1>5. /\ Fresh(Current(s), drawn[s]) \in Row
      /\ Identity(Fresh(Current(s), drawn[s])) = CurrentTuple(s)
      /\ Fresh(Current(s), drawn[s]).context = Current(s).context
  BY <1>3, <1>4, FreshIsTyped DEF CurrentTuple
<1>0. used \in Nat /\ used + 1 \in Ids
  BY <1>1, StoreAssumption DEF StoreAssumption, LandInv, TypeOK, DatabaseTypeOK, Ids
<1>6. PICK i \in Ids : i = used + 1 BY <1>0
<1>7. /\ DOMAIN draft'[s] = DOMAIN draft[s] \cup {i}
      /\ draft'[s][i] = Fresh(Current(s), drawn[s])
      /\ \A j \in DOMAIN draft[s] : j # i => draft'[s][j] = draft[s][j]
      /\ \A z \in Others(s) : draft'[z] = draft[z]
      /\ DOMAIN draft' = Sessions
      /\ \A z \in Sessions : /\ DOMAIN draft'[z] \subseteq Ids
                             /\ \A j \in DOMAIN draft'[z] : draft'[z][j] \in Row \cup {Gone}
  <2>1. Laid(s, i, Fresh(Current(s), drawn[s])) BY <1>1, <1>6
  <2> HIDE DEF Laid
  <2> QED BY <1>5, <2>1, LaidParts
<1>8. Taken(s, i) /\ i \notin DOMAIN draft[s]
  <2>1. UNCHANGED reborn BY <1>1 DEF history
  <2> QED BY <1>1, <1>3, <1>6, <1>7, <2>1, FreshIsTaken
<1>9. UNCHANGED <<rows, op, ambient, found, outcome, renamed, reborn>>
  BY <1>1 DEF committed, history
<1>10. \A t : t = Current(s) => Landed(s, t)'
  <2> SUFFICES ASSUME NEW t, t = Current(s) PROVE Landed(s, t)'
    OBVIOUS
  <2>1. /\ i \in DOMAIN draft'[s] /\ draft'[s][i] # Gone /\ draft'[s][i].context = t.context
        /\ Identity(draft'[s][i]) = [edge |-> t.edge, name |-> t.name]
    BY <1>5, <1>7, RowParts DEF CurrentTuple
  <2> QED BY <2>1 DEF Landed, Identity
<1>11. \A t : Landed(s, t) => Landed(s, t)'
  <2> SUFFICES ASSUME NEW t, Landed(s, t) PROVE Landed(s, t)'
    OBVIOUS
  <2>1. PICK j \in DOMAIN draft[s] :
           \/ j \in renamed \cup reborn
           \/ /\ draft[s][j] # Gone /\ draft[s][j].context = t.context
              /\ Identity(draft[s][j]) = [edge |-> t.edge, name |-> t.name]
    BY DEF Landed
  <2>2. j \in DOMAIN draft'[s] /\ draft'[s][j] = draft[s][j] BY <1>7, <1>8
  <2> QED BY <1>9, <2>1, <2>2 DEF Landed, Identity
<1>12. /\ BatchFits(s)'
       /\ \/ pc'[s] = "draw" /\ at'[s] = at[s] + 1 /\ at[s] < Len(op[s].batch)
          \/ pc'[s] = "leave" /\ at'[s] = at[s]
  BY <1>1, <1>2, <1>9, <1>10, <1>11, TupleLands
<1>13. at[s] \in 1..Len(op[s].batch) /\ Len(op[s].batch) \in Nat
  BY <1>2, CurrentIsTyped, BatchParts DEF Writing, Batched
<1>14. OthersRest(s)
  BY <1>1, <1>7 DEF OthersRest, Others, AfterTuple, Goto, LandInv, TypeOK, SessionsTypeOK
<1>15. TypeOK'
  <2>1. DatabaseTypeOK'
    BY <1>0, <1>1 DEF LandInv, TypeOK, DatabaseTypeOK, committed, history, Ids
  <2>2. SessionsTypeOK'
    BY <1>1, AfterTupleTyped DEF LandInv, TypeOK, SessionsTypeOK
  <2>3. TokensTypeOK' BY <1>1 DEF LandInv, TypeOK, TokensTypeOK, scope
  <2>4. OverlayTypeOK' BY <1>1, <1>7 DEF LandInv, TypeOK, OverlayTypeOK
  <2> QED BY <2>1, <2>2, <2>3, <2>4 DEF TypeOK
<1>16. StepFits(s)'
  BY <1>1, <1>2, <1>9, <1>12, <1>13 DEF SessionFits, StepFits, Writing, Batched
<1>17. SessionFits(s)'
  <2>1. FoundFits(s)'
    <3>1. found[s] \in Ids => found[s] <= used'
      BY <1>1, <1>2, <1>0 DEF SessionFits, FoundFits, Ids
    <3> QED BY <1>9, <1>12, <3>1 DEF FoundFits
  <2>2. DerivedFits(s)' BY <1>12 DEF DerivedFits
  <2>3. GrantFits(s)'
    <3>1. outcome[s] = None BY <1>1, <1>2 DEF SessionFits, StepFits
    <3>2. outcome'[s] # "missing" BY <1>9, <3>1, StoreAssumption DEF StoreAssumption
    <3>3. ASSUME pc'[s] = "leave"
          PROVE  i \in (Holding(s, CurrentTuple(s)) \cap DOMAIN draft[s])'
      <4>1. CurrentTuple(s)' = CurrentTuple(s)
        BY <1>9, <1>12, <3>3 DEF CurrentTuple, Current
      <4>2. View(s, i)' = draft'[s][i] BY <1>7 DEF View
      <4> QED BY <1>5, <1>6, <1>7, <4>1, <4>2, RowParts DEF Holding, Stored, Identity
    <3> QED BY <1>12, <3>2, <3>3 DEF GrantFits
  <2> QED BY <1>12, <1>16, <2>1, <2>2, <2>3 DEF SessionFits
<1>18. \A j \in DOMAIN draft'[s] :
          \/ j \in DOMAIN draft[s] /\ draft'[s][j] = draft[s][j]
          \/ Taken(s, j)
  BY <1>7, <1>8
<1>19. used <= used' BY <1>0, <1>1
<1> QED BY <1>9, <1>14, <1>15, <1>17, <1>18, <1>19, WriteKeeps

-----------------------------------------------------------------------------
(* Saves.                                                                  *)

\* What a save assigns and reads is typed.
LEMMA SaveIsTyped ==
    ASSUME LandInv, NEW s \in Sessions, pc[s] \in {"derive", "update"}
    PROVE  /\ found[s] \in Ids
           /\ Assigned(s).name \in Names /\ Assigned(s).context \in Contexts
           /\ DerivedKey(s) \in Names \X Contexts
<1>1. StepFits(s) BY DEF LandInv, SessionFits
<1>2. Assigned(s).name \in Names /\ Assigned(s).context \in Contexts
  <2>1. CASE op[s].kind = "save"
    <3>1. op[s] \in Operations BY <2>1 DEF LandInv, TypeOK, SessionsTypeOK, Nothing
    <3>2. op[s].change \in Changes BY <2>1, <3>1, OperationParts
    <3> QED BY <2>1, <3>2, SaveParts DEF Assigned
  <2>2. CASE op[s].kind # "save"
    <3>1. Batched(s) BY <1>1, <2>2 DEF StepFits, Batched
    <3> QED BY <2>2, <3>1, CurrentIsTyped DEF Assigned
  <2> QED BY <2>1, <2>2
<1>3. found[s] \in Ids BY <1>1 DEF StepFits
<1>4. Stored(s, found[s]) => /\ View(s, found[s]).name \in Names
                             /\ View(s, found[s]).context \in Contexts
  BY <1>3, ViewIsTyped, RowParts
<1>5. DerivedKey(s) \in Names \X Contexts BY <1>2, <1>4 DEF DerivedKey
<1> QED BY <1>2, <1>3, <1>5

LEMMA DeriveLands ==
    ASSUME LandInv, NEW s \in Sessions, Derive(s)
    PROVE LandInv'
<1>1. /\ pc[s] = "derive" /\ pc' = [pc EXCEPT ![s] = "update"]
      /\ derived' = [derived EXCEPT ![s] = DerivedKey(s)]
      /\ IF Locks(s)
         THEN RowFree(s, found[s]) /\ Laid(s, found[s], View(s, found[s]))
         ELSE UNCHANGED draft
      /\ UNCHANGED <<committed, clocks, ops, op, ambient, at, drawn, newest, found,
                     dropping, adding, interned, swept, history, scope, outcome>>
  BY DEF Derive, Goto, Put
<1>2. SessionFits(s) BY DEF LandInv
<1>3. PICK i \in Ids : i = found[s] BY <1>1, SaveIsTyped
<1>4. DerivedKey(s) \in Names \X Contexts BY <1>1, SaveIsTyped
<1>5. UNCHANGED <<rows, op, ambient, at, found, outcome, used, renamed, reborn>>
  BY <1>1 DEF committed, clocks, history
<1>6. View(s, i) \in Row \cup {Gone} BY ViewIsTyped
\* The lock adds the row to the overlay as it is seen.
<1>7. /\ DOMAIN draft'[s] = DOMAIN draft[s] \cup {j \in {i} : Locks(s)}
      /\ Locks(s) => draft'[s][i] = View(s, i) /\ RowFree(s, i)
      /\ \A j \in DOMAIN draft[s] : draft'[s][j] = draft[s][j]
      /\ \A z \in Others(s) : draft'[z] = draft[z]
      /\ DOMAIN draft' = Sessions
      /\ \A z \in Sessions : /\ DOMAIN draft'[z] \subseteq Ids
                             /\ \A j \in DOMAIN draft'[z] : draft'[z][j] \in Row \cup {Gone}
  <2>1. CASE Locks(s)
    <3>1. Laid(s, i, View(s, i)) /\ RowFree(s, i) BY <1>1, <1>3, <2>1
    <3>2. /\ DOMAIN draft'[s] = DOMAIN draft[s] \cup {i} /\ draft'[s][i] = View(s, i)
          /\ \A j \in DOMAIN draft[s] : j # i => draft'[s][j] = draft[s][j]
          /\ \A z \in Others(s) : draft'[z] = draft[z]
          /\ DOMAIN draft' = Sessions
          /\ \A z \in Sessions : /\ DOMAIN draft'[z] \subseteq Ids
                                 /\ \A j \in DOMAIN draft'[z] : draft'[z][j] \in Row \cup {Gone}
      BY <1>6, <3>1, LaidParts
    <3>3. i \in DOMAIN draft[s] => draft'[s][i] = draft[s][i] BY <3>2 DEF View
    <3> QED BY <2>1, <3>1, <3>2, <3>3
  <2>2. CASE ~Locks(s)
    BY <1>1, <2>2 DEF LandInv, TypeOK, OverlayTypeOK
  <2> QED BY <2>1, <2>2
<1>8. \A j \in Ids : View(s, j)' = View(s, j)
  BY <1>5, <1>7 DEF View
<1>9. /\ Omitted(s)' = Omitted(s) /\ Assigned(s)' = Assigned(s)
      /\ CurrentTuple(s)' = CurrentTuple(s) /\ Writing(s)' = Writing(s)
  BY <1>5 DEF Omitted, Fields, Assigned, CurrentTuple, Current, Writing
<1>10. View(s, found[s])' = View(s, found[s]) /\ Stored(s, found[s])' = Stored(s, found[s])
  <2>1. View(s, found[s])' = View(s, i)' BY <1>3, <1>5 DEF View
  <2> QED BY <1>3, <1>8, <2>1 DEF Stored
<1>11. DerivedKey(s)' = DerivedKey(s) BY <1>9, <1>10 DEF DerivedKey
<1>12. /\ pc'[s] = "update" /\ derived'[s] = DerivedKey(s)
  BY <1>1 DEF LandInv, TypeOK, SessionsTypeOK
<1>13. StepFits(s)'
  BY <1>1, <1>2, <1>4, <1>5, <1>12 DEF SessionFits, StepFits, Writing, Batched
<1>14. SessionFits(s)'
  <2>1. FoundFits(s)'
    BY <1>1, <1>2, <1>5, <1>9, <1>10, <1>12 DEF SessionFits, FoundFits, Identity
  <2>2. DerivedFits(s)'
    <3>1. CASE Locks(s)
      BY <1>3, <1>5, <1>7, <1>9, <1>10, <1>11, <1>12, <3>1 DEF DerivedFits, Locks, Locked
    <3>2. CASE ~Locks(s)
      BY <1>9, <1>10, <1>11, <1>12, <3>2 DEF DerivedFits, Locks
    <3> QED BY <3>1, <3>2
  <2>3. BatchFits(s)'
    <3>1. Through(s)' = Through(s) BY <1>1, <1>5, <1>12 DEF Through
    <3>2. \A t : Landed(s, t) => Landed(s, t)' BY <1>5, <1>7 DEF Landed, Identity
    <3> QED BY <1>1, <1>2, <1>5, <1>9, <3>1, <3>2 DEF SessionFits, BatchFits
  <2>4. GrantFits(s)'
    BY <1>2, <1>5, <1>12 DEF SessionFits, GrantFits
  <2> QED BY <1>13, <2>1, <2>2, <2>3, <2>4 DEF SessionFits
<1>15. TypeOK'
  <2>1. DatabaseTypeOK' /\ TokensTypeOK'
    BY <1>1 DEF LandInv, TypeOK, DatabaseTypeOK, TokensTypeOK, committed, clocks, history, scope
  <2>2. SessionsTypeOK' BY <1>1, <1>4 DEF LandInv, TypeOK, SessionsTypeOK, Labels
  <2>3. OverlayTypeOK' BY <1>1, <1>7 DEF LandInv, TypeOK, OverlayTypeOK
  <2> QED BY <2>1, <2>2, <2>3 DEF TypeOK
<1>16. OthersRest(s)
  BY <1>1, <1>7 DEF OthersRest, Others, LandInv, TypeOK, SessionsTypeOK
<1>17. ASSUME NEW j \in DOMAIN draft'[s]
       PROVE  \/ j \in DOMAIN draft[s] /\ draft'[s][j] = draft[s][j]
              \/ Taken(s, j)
  <2>1. CASE j \in DOMAIN draft[s] BY <1>7, <2>1
  <2>2. CASE j \notin DOMAIN draft[s]
    <3>1. Locks(s) /\ j = i BY <1>7, <2>2
    <3>2. draft'[s][j] = rows[j] /\ RowFree(s, j) BY <1>7, <2>2, <3>1 DEF View
    <3>3. rows[j] # Gone BY <1>3, <2>2, <3>1 DEF Locks, Stored, View
    <3>4. j <= used /\ KeyFits(j, rows[j]) BY <3>1, <3>3 DEF LandInv, RowsFit
    <3> QED BY <1>5, <3>1, <3>2, <3>3, <3>4 DEF Taken, KeyFits
  <2> QED BY <2>1, <2>2
<1>18. used <= used' BY <1>5 DEF LandInv, TypeOK, DatabaseTypeOK
<1> QED BY <1>5, <1>14, <1>15, <1>16, <1>17, <1>18, WriteKeeps

\* What an UPDATE writes: the key is that of the columns.
LEMMA SavedParts ==
    ASSUME LandInv, NEW s \in Sessions, pc[s] = "update", Stored(s, found[s])
    PROVE  /\ Saved(s) \in Row
           /\ found[s] \in reborn \/ KeyMatches(Saved(s))
           /\ Writing(s) => /\ Identity(Saved(s)) = Identity(View(s, found[s]))
                            /\ Saved(s).context = Current(s).context
<1> DEFINE row == View(s, found[s])
<1>1. found[s] \in Ids BY SaveIsTyped
<1>2. row \in Row BY <1>1, ViewIsTyped
<1>3. /\ row.edge \in Edges /\ row.name \in Names /\ row.context \in Contexts
      /\ row.xid \in 0..MaxXid
  BY <1>2, RowParts
<1>4. SessionFits(s) BY DEF LandInv
<1>5. derived[s] \in Names \X Contexts BY <1>4 DEF SessionFits, StepFits
<1>6. drawn[s] \in 0..MaxXid BY DEF LandInv, TypeOK, TokensTypeOK
<1>7. Assigned(s).name \in Names /\ Assigned(s).context \in Contexts BY SaveIsTyped
<1>8. /\ Saved(s).edge = row.edge /\ Saved(s).key = derived[s]
      /\ Saved(s).name = IF "name" \in Fields(s) THEN Assigned(s).name ELSE row.name
      /\ Saved(s).context = IF "context" \in Fields(s) THEN Assigned(s).context ELSE row.context
  BY DEF Saved
<1>9. Saved(s) \in Row
  <2>1. Saved(s) = [edge |-> row.edge,
                    name |-> IF "name" \in Fields(s) THEN Assigned(s).name ELSE row.name,
                    context |-> IF "context" \in Fields(s) THEN Assigned(s).context
                                ELSE row.context,
                    key |-> derived[s],
                    xid |-> IF op[s].kind = "save" THEN row.xid ELSE drawn[s]]
    BY DEF Saved
  <2> HIDE DEF row
  <2> QED BY <1>3, <1>5, <1>6, <1>7, <2>1 DEF Row
<1>10. found[s] \in reborn \/ KeyMatches(Saved(s))
  <2>1. CASE derived[s] = DerivedKey(s)
    <3>1. derived[s] = <<IF "name" \in Omitted(s) THEN row.name ELSE Assigned(s).name,
                         IF "context" \in Omitted(s) THEN row.context ELSE Assigned(s).context>>
      BY <2>1 DEF DerivedKey
    <3>2. ("name" \in Omitted(s) <=> "name" \notin Fields(s))
          /\ ("context" \in Omitted(s) <=> "context" \notin Fields(s))
      BY DEF Omitted, Columns
    <3> HIDE DEF row
    <3> QED BY <1>8, <3>1, <3>2 DEF KeyMatches
  <2>2. CASE derived[s] # DerivedKey(s)
    BY <1>4, <2>2 DEF SessionFits, DerivedFits
  <2> QED BY <2>1, <2>2
<1>11. ASSUME Writing(s)
       PROVE  /\ Identity(Saved(s)) = Identity(row) /\ Saved(s).context = Current(s).context
  <2>1. Fields(s) = {"context"} /\ Assigned(s) = Current(s)
    BY <1>11 DEF Fields, Assigned, Writing
  <2> HIDE DEF row
  <2> QED BY <1>8, <2>1 DEF Identity
<1> QED BY <1>9, <1>10, <1>11

LEMMA UpdateLands ==
    ASSUME LandInv, NEW s \in Sessions, Update(s)
    PROVE LandInv'
<1>1. /\ pc[s] = "update" /\ Stored(s, found[s]) /\ RowFree(s, found[s])
      /\ Laid(s, found[s], Saved(s))
      /\ renamed' = IF Renames(s) THEN renamed \cup {found[s]} ELSE renamed
      /\ AfterTuple(s)
      /\ UNCHANGED <<committed, clocks, ops, op, ambient, drawn, newest, found, derived,
                     dropping, adding, interned, swept, reborn, scope, outcome>>
  BY DEF Update
<1>2. SessionFits(s) BY DEF LandInv
<1>3. PICK i \in Ids : i = found[s] BY <1>1, SaveIsTyped
<1>4. PICK row \in Row : row = Saved(s) BY <1>1, SavedParts
<1>5. /\ i \in reborn \/ KeyMatches(row)
      /\ Writing(s) => /\ Identity(row) = Identity(View(s, i))
                       /\ row.context = Current(s).context
  BY <1>1, <1>3, <1>4, SavedParts
<1>6. /\ DOMAIN draft'[s] = DOMAIN draft[s] \cup {i} /\ draft'[s][i] = row
      /\ \A j \in DOMAIN draft[s] : j # i => draft'[s][j] = draft[s][j]
      /\ \A z \in Others(s) : draft'[z] = draft[z]
      /\ DOMAIN draft' = Sessions
      /\ \A z \in Sessions : /\ DOMAIN draft'[z] \subseteq Ids
                             /\ \A j \in DOMAIN draft'[z] : draft'[z][j] \in Row \cup {Gone}
  <2>1. Laid(s, i, row) BY <1>1, <1>3, <1>4
  <2> HIDE DEF Laid
  <2> QED BY <2>1, LaidParts
<1>7. UNCHANGED <<rows, op, ambient, found, outcome, used, reborn>>
  BY <1>1 DEF committed, clocks
<1>8. renamed \subseteq renamed' /\ renamed' \subseteq Ids
  BY <1>1, <1>3 DEF LandInv, TypeOK, DatabaseTypeOK
<1>9. i \in renamed' \/ Identity(row) = Identity(View(s, i))
  BY <1>1, <1>3, <1>4 DEF Renames
<1>10. i <= used
  BY <1>2, <1>3 DEF SessionFits, FoundFits
<1>11. Taken(s, i)
  <2>1. ASSUME rows[i] = Gone PROVE i \in reborn \/ \A z \in Others(s) : found[z] # i
    <3>1. i \in DOMAIN draft[s] /\ draft[s][i] # Gone
      BY <1>1, <1>3, <2>1 DEF Stored, View
    <3> QED BY <2>1, <3>1 DEF LandInv, DraftsFit, DraftFits
  <2>2. ASSUME rows[i] # Gone
        PROVE  i \in renamed' \cup reborn \/ Identity(row) = Identity(rows[i])
    <3>1. CASE i \in DOMAIN draft[s]
      <4>1. View(s, i) = draft[s][i] /\ draft[s][i] # Gone
        BY <1>1, <1>3, <3>1 DEF Stored, View
      <4>2. i \in renamed \cup reborn \/ Identity(draft[s][i]) = Identity(rows[i])
        BY <2>2, <3>1, <4>1 DEF LandInv, DraftsFit, DraftFits
      <4> QED BY <1>8, <1>9, <4>1, <4>2
    <3>2. CASE i \notin DOMAIN draft[s] BY <1>9, <3>2 DEF View
    <3> QED BY <3>1, <3>2
  <2> QED BY <1>1, <1>3, <1>5, <1>6, <1>7, <1>10, <2>1, <2>2 DEF Taken
\* The tuples before: their rows are others, or the row has another name now.
<1>12. ASSUME Writing(s) PROVE i \in renamed \cup reborn \/ Identity(View(s, i)) = CurrentTuple(s)
  BY <1>1, <1>2, <1>3, <1>12 DEF SessionFits, FoundFits
<1>13. ASSUME Writing(s) PROVE \A t : t = Current(s) => Landed(s, t)'
  <2> SUFFICES ASSUME NEW t, t = Current(s) PROVE Landed(s, t)'
    OBVIOUS
  <2>1. CASE i \in renamed \cup reborn
    BY <1>6, <1>7, <1>8, <2>1 DEF Landed
  <2>2. CASE Identity(View(s, i)) = CurrentTuple(s)
    <3>1. /\ i \in DOMAIN draft'[s] /\ draft'[s][i] # Gone /\ draft'[s][i].context = t.context
          /\ Identity(draft'[s][i]) = [edge |-> t.edge, name |-> t.name]
      BY <1>5, <1>6, <1>13, <2>2, RowParts DEF CurrentTuple
    <3> QED BY <3>1 DEF Landed, Identity
  <2> QED BY <1>12, <1>13, <2>1, <2>2
<1>14. ASSUME Writing(s), NEW k \in 1..(at[s] - 1), LastOf(op[s].batch, k, at[s]),
              Landed(s, op[s].batch[k])
       PROVE  \A t : t = op[s].batch[k] => Landed(s, t)'
  <2> SUFFICES ASSUME NEW t, t = op[s].batch[k] PROVE Landed(s, t)'
    OBVIOUS
  <2>1. PICK j \in DOMAIN draft[s] :
           \/ j \in renamed \cup reborn
           \/ /\ draft[s][j] # Gone /\ draft[s][j].context = t.context
              /\ Identity(draft[s][j]) = [edge |-> t.edge, name |-> t.name]
    BY <1>14 DEF Landed
  <2>2. CASE j \in renamed \cup reborn
    BY <1>6, <1>7, <1>8, <2>2 DEF Landed
  <2>3. CASE j # i /\ j \notin renamed \cup reborn
    <3>1. j \in DOMAIN draft'[s] /\ draft'[s][j] = draft[s][j] BY <1>6, <2>3
    <3> QED BY <2>1, <2>3, <3>1 DEF Landed, Identity
  <2>4. CASE j = i /\ j \notin renamed \cup reborn
    <3>1. Identity(View(s, i)) = [edge |-> t.edge, name |-> t.name]
      BY <2>1, <2>4 DEF View, Identity
    <3>2. CurrentTuple(s) = [edge |-> t.edge, name |-> t.name]
      BY <1>12, <1>14, <2>4, <3>1
    <3>3. t.edge = Current(s).edge /\ t.name = Current(s).name
      BY <3>2 DEF CurrentTuple
    <3>4. at[s] \in (k + 1)..at[s]
      BY DEF LandInv, TypeOK, SessionsTypeOK
    <3>5. <<Current(s).edge, Current(s).name>> # <<t.edge, t.name>>
      BY <1>14, <3>4 DEF LastOf, Current
    <3> QED BY <3>3, <3>5
  <2> QED BY <2>2, <2>3, <2>4
<1>15. /\ BatchFits(s)'
       /\ \/ pc'[s] = "draw" /\ at'[s] = at[s] + 1 /\ at[s] < Len(op[s].batch) /\ Writing(s)
          \/ pc'[s] = "leave" /\ at'[s] = at[s]
  <2>1. CASE Writing(s)
    BY <1>1, <1>7, <1>13, <1>14, <2>1, TupleLands
  <2>2. CASE ~Writing(s)
    <3>1. pc'[s] = "leave" /\ at'[s] = at[s]
      BY <1>1, <2>2 DEF AfterTuple, Writing, Goto, LandInv, TypeOK, SessionsTypeOK
    <3> QED BY <1>7, <2>2, <3>1 DEF BatchFits, Writing
  <2> QED BY <2>1, <2>2
<1>16. Batched(s) => at[s] \in 1..Len(op[s].batch) /\ Len(op[s].batch) \in Nat
  BY CurrentIsTyped, BatchParts
<1>17. OthersRest(s)
  BY <1>1, <1>6 DEF OthersRest, Others, AfterTuple, Goto, LandInv, TypeOK, SessionsTypeOK
<1>18. TypeOK'
  <2>1. DatabaseTypeOK' /\ TokensTypeOK'
    BY <1>1, <1>8 DEF LandInv, TypeOK, DatabaseTypeOK, TokensTypeOK, committed, clocks, scope
  <2>2. SessionsTypeOK' BY <1>1, AfterTupleTyped DEF LandInv, TypeOK, SessionsTypeOK
  <2>3. OverlayTypeOK' BY <1>1, <1>6 DEF LandInv, TypeOK, OverlayTypeOK
  <2> QED BY <2>1, <2>2, <2>3 DEF TypeOK
<1>19. StepFits(s)'
  BY <1>1, <1>2, <1>7, <1>15, <1>16 DEF SessionFits, StepFits, Writing, Batched
<1>20. SessionFits(s)'
  <2>1. FoundFits(s)' BY <1>2, <1>7, <1>15 DEF SessionFits, FoundFits
  <2>2. DerivedFits(s)' BY <1>15 DEF DerivedFits
  <2>3. GrantFits(s)'
    <3> SUFFICES ASSUME op[s].kind = "grant" PROVE GrantFits(s)'
      BY <1>7 DEF GrantFits
    <3>1. Writing(s) BY DEF Writing
    <3>2. outcome[s] = None BY <1>1, <1>2, <3>1 DEF SessionFits, StepFits
    <3>3. outcome'[s] # "missing" BY <1>7, <3>2, StoreAssumption DEF StoreAssumption
    <3>4. ASSUME pc'[s] = "leave"
          PROVE  \/ i \in renamed' \cup reborn'
                 \/ i \in (Holding(s, CurrentTuple(s)) \cap DOMAIN draft[s])'
      <4>1. CASE i \in renamed \cup reborn BY <1>7, <1>8, <4>1
      <4>2. CASE Identity(View(s, i)) = CurrentTuple(s)
        <5>1. CurrentTuple(s)' = CurrentTuple(s)
          BY <1>7, <1>15, <3>4 DEF CurrentTuple, Current
        <5>2. View(s, i)' = row BY <1>6 DEF View
        <5>3. Identity(row) = CurrentTuple(s)' BY <1>5, <3>1, <4>2, <5>1
        <5> QED BY <1>6, <5>2, <5>3, RowParts DEF Holding, Stored, Identity
      <4> QED BY <1>12, <3>1, <4>1, <4>2
    <3>5. found'[s] = i BY <1>3, <1>7
    <3> QED BY <1>15, <3>3, <3>4, <3>5 DEF GrantFits
  <2> QED BY <1>15, <1>19, <2>1, <2>2, <2>3 DEF SessionFits
<1>21. \A j \in DOMAIN draft'[s] :
          \/ j \in DOMAIN draft[s] /\ draft'[s][j] = draft[s][j]
          \/ Taken(s, j)
  BY <1>6, <1>11
<1>22. used <= used' BY <1>7 DEF LandInv, TypeOK, DatabaseTypeOK
<1> QED BY <1>7, <1>8, <1>17, <1>18, <1>20, <1>21, <1>22, WriteKeeps

LEMMA ReinsertLands ==
    ASSUME LandInv, NEW s \in Sessions, Reinsert(s)
    PROVE LandInv'
<1> DEFINE new == [edge |-> op[s].edge, name |-> op[s].change.name,
                   context |-> op[s].change.context, key |-> derived[s], xid |-> 0]
<1>1. /\ pc[s] = "update" /\ op[s].kind = "save" /\ RowFree(s, found[s])
      /\ Laid(s, found[s], new)
      /\ reborn' = reborn \cup {found[s]}
      /\ AfterTuple(s)
      /\ UNCHANGED <<committed, clocks, ops, op, ambient, drawn, newest, found, derived,
                     dropping, adding, interned, swept, renamed, scope, outcome>>
  BY DEF Reinsert, SavesWhole
<1>2. SessionFits(s) BY DEF LandInv
<1>3. PICK i \in Ids : i = found[s] BY <1>1, SaveIsTyped
<1>4. new \in Row
  <2>1. op[s] \in Operations BY <1>1 DEF LandInv, TypeOK, SessionsTypeOK, Nothing
  <2>2. /\ op[s].edge \in Edges /\ op[s].change.name \in Names
        /\ op[s].change.context \in Contexts
    BY <1>1, <2>1, OperationParts, SaveParts
  <2>3. derived[s] \in Names \X Contexts BY <1>1, <1>2 DEF SessionFits, StepFits
  <2> QED BY <2>2, <2>3, StoreAssumption DEF StoreAssumption, Row
<1> HIDE DEF new
<1>5. PICK row \in Row : row = new BY <1>4
<1>6. /\ DOMAIN draft'[s] = DOMAIN draft[s] \cup {i} /\ draft'[s][i] = row
      /\ \A j \in DOMAIN draft[s] : j # i => draft'[s][j] = draft[s][j]
      /\ \A z \in Others(s) : draft'[z] = draft[z]
      /\ DOMAIN draft' = Sessions
      /\ \A z \in Sessions : /\ DOMAIN draft'[z] \subseteq Ids
                             /\ \A j \in DOMAIN draft'[z] : draft'[z][j] \in Row \cup {Gone}
  <2>1. Laid(s, i, row) BY <1>1, <1>3, <1>5
  <2> HIDE DEF Laid
  <2> QED BY <2>1, LaidParts
<1>7. UNCHANGED <<rows, op, ambient, found, outcome, used, renamed>>
  BY <1>1 DEF committed, clocks
<1>8. reborn \subseteq reborn' /\ reborn' \subseteq Ids /\ i \in reborn'
  BY <1>1, <1>3 DEF LandInv, TypeOK, DatabaseTypeOK
<1>9. i <= used /\ i <= used' BY <1>2, <1>3, <1>7 DEF SessionFits, FoundFits
<1>10. Taken(s, i) BY <1>1, <1>3, <1>8, <1>9 DEF Taken
<1>11. pc'[s] = "leave" /\ at'[s] = at[s]
  BY <1>1 DEF AfterTuple, Goto, LandInv, TypeOK, SessionsTypeOK
<1>12. OthersRest(s)
  BY <1>1, <1>6 DEF OthersRest, Others, AfterTuple, Goto, LandInv, TypeOK, SessionsTypeOK
<1>13. TypeOK'
  <2>1. DatabaseTypeOK' /\ TokensTypeOK'
    BY <1>1, <1>8 DEF LandInv, TypeOK, DatabaseTypeOK, TokensTypeOK, committed, clocks, scope
  <2>2. SessionsTypeOK' BY <1>1, AfterTupleTyped DEF LandInv, TypeOK, SessionsTypeOK
  <2>3. OverlayTypeOK' BY <1>1, <1>6 DEF LandInv, TypeOK, OverlayTypeOK
  <2> QED BY <2>1, <2>2, <2>3 DEF TypeOK
<1>14. SessionFits(s)'
  <2>1. StepFits(s)' BY <1>1, <1>7, <1>11 DEF StepFits, Writing, Batched
  <2>2. FoundFits(s)' BY <1>2, <1>7, <1>11 DEF SessionFits, FoundFits
  <2>3. DerivedFits(s)' BY <1>11 DEF DerivedFits
  <2>4. BatchFits(s)' /\ GrantFits(s)' BY <1>1, <1>7 DEF BatchFits, GrantFits, Writing
  <2> QED BY <2>1, <2>2, <2>3, <2>4 DEF SessionFits
<1>15. \A j \in DOMAIN draft'[s] :
          \/ j \in DOMAIN draft[s] /\ draft'[s][j] = draft[s][j]
          \/ Taken(s, j)
  BY <1>6, <1>10
<1>16. used <= used' BY <1>7 DEF LandInv, TypeOK, DatabaseTypeOK
<1> QED BY <1>7, <1>8, <1>12, <1>13, <1>14, <1>15, <1>16, WriteKeeps

\* A free key frees the row that holds it.
LEMMA FreeKeyFreesRow ==
    ASSUME LandInv, NEW s \in Sessions, NEW t, KeyFree(s, t), NEW i \in Holding(s, t)
    PROVE  RowFree(s, i)
<1> SUFFICES ASSUME NEW z \in Others(s), i \in DOMAIN draft[z] PROVE FALSE
  BY DEF RowFree
<1>1. i \notin DOMAIN draft[s] BY DEF LandInv, DraftsFit, DraftFits, Others
<1>2. rows[i] # Gone /\ Identity(rows[i]) = t BY <1>1 DEF Holding, Stored, View
<1> QED BY <1>2 DEF KeyFree

\* The end of a removal or of a bulk creation.
LEMMA LeavingSession ==
    ASSUME LandInv, NEW s \in Sessions, pc'[s] = "leave",
           UNCHANGED <<op, ambient, at, found, outcome>>,
           used <= used', used' \in Nat, ~Writing(s)
    PROVE  SessionFits(s)'
<1>1. SessionFits(s) BY DEF LandInv
<1>2. StepFits(s)' BY <1>1 DEF SessionFits, StepFits, Writing, Batched
<1>3. FoundFits(s)'
  <2>1. used \in Nat BY DEF LandInv, TypeOK, DatabaseTypeOK
  <2> QED BY <1>1, <2>1 DEF SessionFits, FoundFits, Ids
<1>4. DerivedFits(s)' BY DEF DerivedFits
<1>5. BatchFits(s)' /\ GrantFits(s)' BY DEF BatchFits, GrantFits, Writing
<1> QED BY <1>2, <1>3, <1>4, <1>5 DEF SessionFits

LEMMA BulkCreateLands ==
    ASSUME LandInv, NEW s \in Sessions, BulkCreate(s)
    PROVE LandInv'
<1> DEFINE held == Holding(s, CurrentTuple(s))
<1>1. /\ pc[s] = "bulk" /\ KeyFree(s, CurrentTuple(s))
      /\ pc' = [pc EXCEPT ![s] = "leave"]
      /\ UNCHANGED <<committed, last, ops, op, ambient, locals, dropping, adding, interned,
                     swept, history, scope, outcome>>
  BY DEF BulkCreate, Goto
<1>2. \/ /\ used < MaxIds /\ used' = used + 1 /\ Laid(s, used + 1, Fresh(Current(s), 0))
      \/ /\ UNCHANGED used
         /\ \E i \in held : Laid(s, i, Fresh(Current(s), View(s, i).xid))
      \/ UNCHANGED <<draft, used>>
  BY DEF BulkCreate
<1>3. op[s].kind = "bulk" BY <1>1 DEF LandInv, SessionFits, StepFits
<1>4. Current(s) \in Given BY <1>3, CurrentIsTyped DEF Batched
<1>5. UNCHANGED <<rows, op, ambient, at, found, outcome, renamed, reborn>>
  BY <1>1 DEF committed, history, locals
<1>6. MaxIds \in Nat /\ used \in Nat /\ MaxXid \in Nat
  BY StoreAssumption DEF StoreAssumption, LandInv, TypeOK, DatabaseTypeOK
<1>7. ~Writing(s) BY <1>3 DEF Writing
<1>8. used \in 0..MaxIds BY DEF LandInv, TypeOK, DatabaseTypeOK
<1>9. used' \in 0..MaxIds /\ used <= used' BY <1>2, <1>6, <1>8
<1>10. pc'[s] = "leave" BY <1>1 DEF LandInv, TypeOK, SessionsTypeOK
<1>11. SessionFits(s)'
  <2>1. used' \in Nat BY <1>6, <1>9
  <2> QED BY <1>5, <1>7, <1>9, <1>10, <2>1, LeavingSession
<1>12. /\ DOMAIN draft' = Sessions
       /\ \A z \in Others(s) : draft'[z] = draft[z]
       /\ \A z \in Sessions : /\ DOMAIN draft'[z] \subseteq Ids
                              /\ \A j \in DOMAIN draft'[z] : draft'[z][j] \in Row \cup {Gone}
       /\ \A j \in DOMAIN draft'[s] :
             \/ j \in DOMAIN draft[s] /\ draft'[s][j] = draft[s][j]
             \/ Taken(s, j)
  <2>1. CASE /\ used < MaxIds /\ used' = used + 1
             /\ Laid(s, used + 1, Fresh(Current(s), 0))
    <3>1. PICK i \in Ids : i = used + 1 BY <1>6, <2>1 DEF Ids
    <3>2. PICK row \in Row : row = Fresh(Current(s), 0)
      <4>1. 0 \in 0..MaxXid BY <1>6
      <4> QED BY <1>4, <4>1, FreshIsTyped
    <3>3. Laid(s, i, row) BY <2>1, <3>1, <3>2
    <3>4. /\ DOMAIN draft'[s] = DOMAIN draft[s] \cup {i} /\ draft'[s][i] = row
          /\ \A j \in DOMAIN draft[s] : j # i => draft'[s][j] = draft[s][j]
          /\ \A z \in Others(s) : draft'[z] = draft[z]
          /\ DOMAIN draft' = Sessions
          /\ \A z \in Sessions : /\ DOMAIN draft'[z] \subseteq Ids
                                 /\ \A j \in DOMAIN draft'[z] : draft'[z][j] \in Row \cup {Gone}
      BY <3>3, LaidParts
    <3>5. Taken(s, i)
      <4>1. draft'[s][used + 1] = Fresh(Current(s), 0) BY <3>1, <3>2, <3>4
      <4> QED BY <1>4, <1>5, <2>1, <3>1, <4>1, FreshIsTaken
    <3> QED BY <3>4, <3>5
  <2>2. CASE UNCHANGED used /\ \E i \in held : Laid(s, i, Fresh(Current(s), View(s, i).xid))
    <3>1. PICK i \in held : Laid(s, i, Fresh(Current(s), View(s, i).xid)) BY <2>2
    <3>2. i \in Ids /\ i <= used /\ Stored(s, i) /\ Identity(View(s, i)) = CurrentTuple(s)
      BY HeldIsStored
    <3>3. View(s, i).xid \in 0..MaxXid BY <3>2, ViewIsTyped, RowParts
    <3>4. PICK row \in Row : /\ row = Fresh(Current(s), View(s, i).xid) /\ KeyMatches(row)
                             /\ Identity(row) = CurrentTuple(s)
      BY <1>4, <3>3, FreshIsTyped DEF CurrentTuple
    <3>5. Laid(s, i, row) BY <3>1, <3>4
    <3>6. /\ DOMAIN draft'[s] = DOMAIN draft[s] \cup {i} /\ draft'[s][i] = row
          /\ \A j \in DOMAIN draft[s] : j # i => draft'[s][j] = draft[s][j]
          /\ \A z \in Others(s) : draft'[z] = draft[z]
          /\ DOMAIN draft' = Sessions
          /\ \A z \in Sessions : /\ DOMAIN draft'[z] \subseteq Ids
                                 /\ \A j \in DOMAIN draft'[z] : draft'[z][j] \in Row \cup {Gone}
      BY <3>2, <3>5, LaidParts
    <3>7. RowFree(s, i) BY <1>1, FreeKeyFreesRow
    <3>8. ASSUME rows[i] = Gone PROVE i \in reborn \/ \A z \in Others(s) : found[z] # i
      <4>1. i \in DOMAIN draft[s] /\ draft[s][i] # Gone BY <3>2, <3>8 DEF Stored, View
      <4> QED BY <3>8, <4>1 DEF LandInv, DraftsFit, DraftFits
    <3>9. ASSUME rows[i] # Gone
          PROVE  i \in renamed \cup reborn \/ Identity(row) = Identity(rows[i])
      <4>1. CASE i \in DOMAIN draft[s]
        <5>1. View(s, i) = draft[s][i] /\ draft[s][i] # Gone BY <3>2, <4>1 DEF Stored, View
        <5> QED BY <3>2, <3>4, <3>9, <4>1, <5>1 DEF LandInv, DraftsFit, DraftFits
      <4>2. CASE i \notin DOMAIN draft[s] BY <3>2, <3>4, <4>2 DEF View
      <4> QED BY <4>1, <4>2
    <3>10. Taken(s, i)
      BY <1>5, <2>2, <3>2, <3>4, <3>6, <3>7, <3>8, <3>9 DEF Taken
    <3> QED BY <3>6, <3>10
  <2>3. CASE UNCHANGED <<draft, used>>
    BY <2>3 DEF LandInv, TypeOK, OverlayTypeOK
  <2> QED BY <1>2, <2>1, <2>2, <2>3
<1>13. OthersRest(s)
  BY <1>1, <1>12 DEF OthersRest, Others, locals, LandInv, TypeOK, SessionsTypeOK
<1>14. TypeOK'
  <2>1. DatabaseTypeOK' /\ TokensTypeOK'
    BY <1>1, <1>9 DEF LandInv, TypeOK, DatabaseTypeOK, TokensTypeOK, committed, history, scope,
       locals
  <2>2. SessionsTypeOK' BY <1>1 DEF LandInv, TypeOK, SessionsTypeOK, locals, Labels
  <2>3. OverlayTypeOK' BY <1>1, <1>12 DEF LandInv, TypeOK, OverlayTypeOK
  <2> QED BY <2>1, <2>2, <2>3 DEF TypeOK
<1> QED BY <1>5, <1>9, <1>11, <1>12, <1>13, <1>14, WriteKeeps

-----------------------------------------------------------------------------
(* Deletes.                                                                *)

\* The rows R are gone for s, who is through.
LEMMA ErasedKeeps ==
    ASSUME LandInv, NEW s \in Sessions, NEW R \in SUBSET Ids,
           \A i \in R : i <= used /\ RowFree(s, i),
           draft' = [draft EXCEPT ![s] = [i \in DOMAIN draft[s] \cup R |->
                                             IF i \in R THEN Gone ELSE draft[s][i]]],
           pc' = [pc EXCEPT ![s] = "leave"], ~Writing(s),
           swept' \in [Sessions -> SUBSET Ids],
           UNCHANGED <<committed, clocks, ops, op, ambient, locals, dropping, adding,
                       interned, history, scope, outcome>>
    PROVE  LandInv'
<1>1. UNCHANGED <<rows, op, ambient, at, found, outcome, used, renamed, reborn>>
  BY DEF committed, clocks, locals, history
<1>2. used \in Nat BY DEF LandInv, TypeOK, DatabaseTypeOK
<1>3. /\ DOMAIN draft' = Sessions
      /\ \A z \in Others(s) : draft'[z] = draft[z]
      /\ draft'[s] = [i \in DOMAIN draft[s] \cup R |-> IF i \in R THEN Gone ELSE draft[s][i]]
  BY DEF LandInv, TypeOK, OverlayTypeOK, Others
<1>4. \A z \in Sessions : /\ DOMAIN draft'[z] \subseteq Ids
                          /\ \A j \in DOMAIN draft'[z] : draft'[z][j] \in Row \cup {Gone}
  <2>1. /\ DOMAIN draft'[s] \subseteq Ids
        /\ \A j \in DOMAIN draft'[s] : draft'[s][j] \in Row \cup {Gone}
    BY <1>3 DEF LandInv, TypeOK, OverlayTypeOK
  <2> QED BY <1>3, <2>1 DEF LandInv, TypeOK, OverlayTypeOK, Others
<1>5. \A j \in DOMAIN draft'[s] :
         \/ j \in DOMAIN draft[s] /\ draft'[s][j] = draft[s][j]
         \/ Taken(s, j)
  <2> SUFFICES ASSUME NEW j \in R PROVE Taken(s, j)
    BY <1>3
  <2>1. draft'[s][j] = Gone BY <1>3
  <2> QED BY <1>1, <2>1 DEF Taken
<1>6. pc'[s] = "leave" BY DEF LandInv, TypeOK, SessionsTypeOK
<1>7. SessionFits(s)'
  <2>1. used <= used' /\ used' \in Nat BY <1>1, <1>2
  <2> QED BY <1>1, <1>6, <2>1, LeavingSession
<1>8. OthersRest(s)
  BY <1>1, <1>3 DEF OthersRest, Others, locals, LandInv, TypeOK, SessionsTypeOK
<1>9. TypeOK'
  <2>1. DatabaseTypeOK' /\ TokensTypeOK'
    BY DEF LandInv, TypeOK, DatabaseTypeOK, TokensTypeOK, committed, clocks, history, scope, locals
  <2>2. SessionsTypeOK' BY DEF LandInv, TypeOK, SessionsTypeOK, locals, Labels
  <2>3. OverlayTypeOK' BY <1>3, <1>4 DEF LandInv, TypeOK, OverlayTypeOK
  <2> QED BY <2>1, <2>2, <2>3 DEF TypeOK
<1>10. used <= used' BY <1>1, <1>2
<1> QED BY <1>1, <1>5, <1>7, <1>8, <1>9, <1>10, WriteKeeps

LEMMA RemoveLands ==
    ASSUME LandInv, NEW s \in Sessions, Remove(s)
    PROVE LandInv'
<1>1. PICK R : R = Matched(s) OBVIOUS
<1>2. \A i \in R : i \in Ids /\ i <= used
  <2>1. ASSUME NEW i \in R PROVE i \in Ids /\ i <= used
    <3>1. PICK n \in op[s].names : i \in Holding(s, [edge |-> op[s].edge, name |-> n])
      BY <1>1 DEF Matched
    <3> QED BY <3>1, HeldIsStored
  <2> QED BY <2>1
<1>3. /\ \A i \in R : RowFree(s, i)
      /\ draft' = [draft EXCEPT ![s] = [i \in DOMAIN draft[s] \cup R |->
                                           IF i \in R THEN Gone ELSE draft[s][i]]]
      /\ swept' = [swept EXCEPT ![s] = R]
      /\ pc[s] = "remove" /\ pc' = [pc EXCEPT ![s] = "leave"]
      /\ UNCHANGED <<committed, clocks, ops, op, ambient, locals, dropping, adding,
                     interned, history, scope, outcome>>
  BY <1>1 DEF Remove, Erased, Goto, Put
<1>4. ~Writing(s) BY <1>3 DEF LandInv, SessionFits, StepFits, Writing
<1>5. swept' \in [Sessions -> SUBSET Ids] BY <1>2, <1>3 DEF LandInv, TypeOK, OverlayTypeOK
<1>6. R \in SUBSET Ids BY <1>2
<1> QED BY <1>2, <1>3, <1>4, <1>5, <1>6, ErasedKeeps

LEMMA EraseLands ==
    ASSUME LandInv, NEW s \in Sessions, Erase(s)
    PROVE LandInv'
<1>1. PICK R : R = {i \in {found[s]} : Stored(s, i)} OBVIOUS
<1>2. /\ \A i \in R : RowFree(s, i)
      /\ draft' = [draft EXCEPT ![s] = [i \in DOMAIN draft[s] \cup R |->
                                           IF i \in R THEN Gone ELSE draft[s][i]]]
      /\ pc[s] = "erase" /\ pc' = [pc EXCEPT ![s] = "leave"]
      /\ UNCHANGED <<committed, clocks, ops, op, ambient, locals, dropping, adding,
                     interned, swept, history, scope, outcome>>
  BY <1>1 DEF Erase, Erased, Goto, Put
<1>3. SessionFits(s) BY DEF LandInv
<1>4. found[s] \in Ids /\ found[s] <= used
  BY <1>2, <1>3 DEF SessionFits, StepFits, FoundFits
<1>5. R \in SUBSET Ids /\ \A i \in R : i <= used BY <1>1, <1>4
<1>6. ~Writing(s) BY <1>2, <1>3 DEF SessionFits, StepFits, Writing
<1>7. swept' \in [Sessions -> SUBSET Ids] BY <1>2 DEF LandInv, TypeOK, OverlayTypeOK
<1> QED BY <1>2, <1>5, <1>6, <1>7, ErasedKeeps

LEMMA SweepLands ==
    ASSUME LandInv, NEW s \in Sessions, Sweep(s)
    PROVE LandInv'
<1>1. PICK R : R = Naming(s, op[s].object) OBVIOUS
<1>2. /\ \A i \in R : RowFree(s, i)
      /\ draft' = [draft EXCEPT ![s] = [i \in DOMAIN draft[s] \cup R |->
                                           IF i \in R THEN Gone ELSE draft[s][i]]]
      /\ swept' = [swept EXCEPT ![s] = swept[s] \cup R]
      /\ pc[s] = "sweep" /\ pc' = [pc EXCEPT ![s] = "leave"]
      /\ UNCHANGED <<committed, clocks, ops, op, ambient, locals, dropping, adding,
                     interned, history, scope, outcome>>
  BY <1>1 DEF Sweep, Sweeps, Erased, Goto, Put
<1>3. R \in SUBSET Ids /\ \A i \in R : i <= used BY <1>1, NamingIsStored
<1>4. ~Writing(s) BY <1>2 DEF LandInv, SessionFits, StepFits, Writing
<1>5. swept' \in [Sessions -> SUBSET Ids] BY <1>2, <1>3 DEF LandInv, TypeOK, OverlayTypeOK
<1> QED BY <1>2, <1>3, <1>4, <1>5, ErasedKeeps

-----------------------------------------------------------------------------
(* The invariant.                                                          *)

LEMMA LandInitially == Init => LandInv
<1> SUFFICES ASSUME Init PROVE LandInv
  OBVIOUS
<1>1. /\ rows \in [Ids -> Row \cup {Gone}]
      /\ \A i \in Ids : rows[i] # Gone => KeyMatches(rows[i])
  BY StoreAssumption DEF StoreAssumption, Init, Filled
<1>2. PICK n \in 0..MaxIds : \A i \in Ids : rows[i] # Gone <=> i <= n
  BY StoreAssumption DEF StoreAssumption, Init, Filled
<1>3. MaxIds \in Nat /\ MaxXid \in Nat BY StoreAssumption DEF StoreAssumption
<1>4. used = n
  <2>1. {i \in Ids : rows[i] # Gone} = 1..n BY <1>2, <1>3 DEF Ids
  <2>2. Cardinality(1..n) = n
    <3>1. n \in Int /\ n \in Nat BY <1>3
    <3>2. Cardinality(1..n) = IF 1 > n THEN 0 ELSE n - 1 + 1 BY <3>1, FS_Interval
    <3> QED BY <3>1, <3>2
  <2> QED BY <2>1, <2>2 DEF Init
<1>5. TypeOK
  <2>1. resources \subseteq Objects
    <3>1. \A i \in Ids : rows[i] # Gone => Ends[rows[i].edge] \subseteq Objects
      BY <1>1, RowParts, StoreAssumption DEF StoreAssumption
    <3> QED BY <3>1 DEF Init
  <2>2. DatabaseTypeOK BY <1>1, <1>3, <1>4, <2>1 DEF Init, DatabaseTypeOK
  <2>3. SessionsTypeOK BY DEF Init, SessionsTypeOK, Labels
  <2>4. TokensTypeOK BY <1>3, StoreAssumption DEF StoreAssumption, Init, TokensTypeOK
  <2>5. OverlayTypeOK BY DEF Init, OverlayTypeOK
  <2> QED BY <2>2, <2>3, <2>4, <2>5 DEF TypeOK
<1>6. RowsFit BY <1>1, <1>2, <1>4 DEF RowsFit, KeyFits
<1>7. DraftsFit BY DEF DraftsFit, Init
<1>8. ASSUME NEW s \in Sessions PROVE SessionFits(s)
  <2>1. /\ pc[s] = "idle" /\ op[s] = Nothing /\ outcome[s] = None /\ at[s] = 1
        /\ found[s] = None
    BY DEF Init
  <2>2. op[s].kind = "none" BY <2>1 DEF Nothing
  <2>3. None \notin Ids BY StoreAssumption DEF StoreAssumption, Ids
  <2>4. StepFits(s) BY <2>1, <2>2 DEF StepFits, Writing, Batched
  <2> QED BY <2>1, <2>2, <2>3, <2>4
          DEF SessionFits, FoundFits, DerivedFits, BatchFits, GrantFits, Writing
<1> QED BY <1>5, <1>6, <1>7, <1>8 DEF LandInv

LEMMA LandStutters ==
    ASSUME LandInv, UNCHANGED vars
    PROVE  LandInv'
<1>1. TypeOK'
  BY DEF vars, committed, clocks, locals, overlay, history, scope, LandInv, TypeOK,
     DatabaseTypeOK, SessionsTypeOK, TokensTypeOK, OverlayTypeOK
<1>2. RowsFit' /\ DraftsFit'
  BY DEF vars, committed, clocks, locals, overlay, history, LandInv, RowsFit, DraftsFit, DraftFits,
     KeyFits, KeyMatches, Identity
<1>3. ASSUME NEW s \in Sessions PROVE SessionFits(s)'
  <2>1. UNCHANGED <<rows, used, renamed, reborn, draft, found, op, at, ambient, pc, derived, outcome>>
    BY DEF vars, committed, clocks, locals, overlay, history
  <2>2. SessionFits(s) BY DEF LandInv
  <2> USE <2>1, <2>2 DEF SessionFits, Writing, Stored, View, Identity, CurrentTuple, Current
  <2>3. StepFits(s)' /\ FoundFits(s)' BY DEF StepFits, FoundFits, Batched
  <2>4. DerivedFits(s)' BY DEF DerivedFits, DerivedKey, Assigned, Omitted, Fields, Locked
  <2>5. BatchFits(s)' BY DEF BatchFits, Through, LastOf, Landed
  <2>6. GrantFits(s)' BY DEF GrantFits, Holding
  <2> QED BY <2>3, <2>4, <2>5, <2>6
<1> QED BY <1>1, <1>2, <1>3 DEF LandInv

LEMMA LandInductive == LandInv /\ [Next]_vars => LandInv'
<1> SUFFICES ASSUME LandInv, [Next]_vars PROVE LandInv'
  OBVIOUS
<1>1. CASE UNCHANGED vars BY <1>1, LandStutters
<1>2. ASSUME NEW s \in Sessions,
             Start(s) \/ WriteStep(s) \/ SaveStep(s) \/ DeleteStep(s) \/ HelperStep(s) \/ EndStep(s)
      PROVE  LandInv'
  <2>1. CASE Fail(s) BY <2>1, FailLands
  <2>2. CASE WriteStep(s)
    BY <2>2, InternLands, ResolveLands, DrawLands, StoreXidLands, FindLands, InsertLands, FailLands
    DEF WriteStep, Unresolved, Duplicate
  <2>3. CASE SaveStep(s)
    BY <2>3, DeriveLands, UpdateLands, ReinsertLands, BulkCreateLands, FailLands
    DEF SaveStep, UpdateNothing, Lost, UpdateRefused, BulkRefused
  <2>4. CASE DeleteStep(s)
    BY <2>4, LookLands, RemoveLands, EraseLands, DropLands, DropNothingLands, SweepLands
    DEF DeleteStep
  <2>5. CASE HelperStep(s) BY <2>5, TokenLands, GetLands DEF HelperStep
  <2>6. CASE EndStep(s)
    BY <2>6, LeaveLands, CommitLands, ReturnLands, FailLands
    DEF EndStep, IntegrityError, DatabaseError
  <2> QED BY <1>2, <2>2, <2>3, <2>4, <2>5, <2>6, StartLands
<1> QED BY <1>1, <1>2 DEF Next

\* The invariant behind the writes (backends/local.py, models/relationship.py)
\* holds for any sessions, tuples, batches and bounds.
THEOREM LandInvariance == Spec => []LandInv
BY LandInitially, LandInductive, PTL DEF Spec

\* Every variable has its type; caveat_key is a name and a context whenever a
\* row is written (_derive_caveat_key).
THEOREM TypeCorrectness == Spec => []TypeOK
<1>1. LandInv => TypeOK BY DEF LandInv
<1> QED BY <1>1, LandInvariance, PTL

LEMMA LandedIsHeld ==
    ASSUME LandInv, NEW s \in Sessions, NEW t \in Given, Landed(s, t)
    PROVE  \/ \E i \in Holding(s, [edge |-> t.edge, name |-> t.name]) :
                 View(s, i).context = t.context
           \/ \E i \in DOMAIN draft[s] : i \in renamed \cup reborn
<1>1. PICK i \in DOMAIN draft[s] :
         \/ i \in renamed \cup reborn
         \/ /\ draft[s][i] # Gone /\ draft[s][i].context = t.context
            /\ Identity(draft[s][i]) = [edge |-> t.edge, name |-> t.name]
  BY DEF Landed
<1>2. i \in Ids /\ View(s, i) = draft[s][i] BY DEF View, LandInv, TypeOK, OverlayTypeOK
<1> QED BY <1>1, <1>2 DEF Holding, Stored

LEMMA LandIsWhole == LandInv => WritesLandWhole
<1> SUFFICES ASSUME LandInv PROVE WritesLandWhole
  OBVIOUS
<1>1. BatchesAreWhole
  <2> SUFFICES ASSUME NEW s \in Sessions, Writing(s), pc[s] = "leave",
                      NEW k \in DOMAIN op[s].batch, LastWord(op[s].batch, k)
               PROVE  LET t == op[s].batch[k]
                      IN  \/ \E i \in Holding(s, [edge |-> t.edge, name |-> t.name]) :
                                View(s, i).context = t.context
                          \/ \E i \in DOMAIN draft[s] : i \in renamed \cup reborn
    BY DEF BatchesAreWhole
  <2>1. op[s].batch \in Batches BY CurrentIsTyped DEF Writing, Batched
  <2>2. op[s].batch \in Seq(Given) BY <2>1, StoreAssumption DEF StoreAssumption
  <2>3. DOMAIN op[s].batch = 1..Len(op[s].batch) /\ Len(op[s].batch) \in Nat BY <2>2
  <2>4. LastOf(op[s].batch, k, Len(op[s].batch)) BY <2>3 DEF LastWord, LastOf
  <2>5. Landed(s, op[s].batch[k])
    BY <2>3, <2>4 DEF LandInv, SessionFits, BatchFits, Through
  <2>6. op[s].batch[k] \in Given BY <2>2, <2>3
  <2> QED BY <2>5, <2>6, LandedIsHeld
<1>2. GrantsFindTheirRow BY DEF LandInv, SessionFits, GrantFits, GrantsFindTheirRow
<1>3. CaveatKeysMatch BY DEF LandInv, RowsFit, KeyFits, CaveatKeysMatch
<1> QED BY <1>1, <1>2, <1>3 DEF WritesLandWhole

\* A batch or a grant that returns has its tuples stored, and no row is left half
\* one write and half another, but for rows that instance saves rename or bring
\* back (write_relationships, memberships.grant, _derive_caveat_key).
THEOREM WritesLand == Spec => []WritesLandWhole
BY LandInvariance, LandIsWhole, PTL

-----------------------------------------------------------------------------
(***************************************************************************)
(* What a deletion took stays gone.                                        *)
(***************************************************************************)

\* A row that is gone, and that nobody is bringing back.
Dead(i) ==
    /\ rows[i] = Gone
    /\ \A z \in Sessions : i \in DOMAIN draft[z] => draft[z][i] = Gone
BuriedFit == \A i \in buried \ reborn : i <= used /\ Dead(i)

\* A row that a deletion has to remove is gone, or erased in its transaction, or,
\* before the sweep, still names the object.
Doomed(s, i) ==
    \/ Dead(i)
    \/ i \in DOMAIN draft[s] /\ draft[s][i] = Gone
    \/ pc[s] = "sweep" /\ rows[i] # Gone /\ op[s].object \in Ends[rows[i].edge]
SweptFits(s) == \A i \in swept[s] \ reborn : i <= used /\ Doomed(s, i)

\* A transaction has one operation, and nothing drafted when that begins or ends.
OperationFits(s) ==
    /\ ambient[s] => op[s].kind \in {"write", "grant", "remove", "revoke"}
    /\ \/ pc[s] \in {"idle", "intern", "resolve", "look", "remove", "drop", "sweep", "done"}
       \/ ~ambient[s] /\ pc[s] = "token"
       \/ ~ambient[s] /\ pc[s] \in {"draw", "store"} /\ ~Writing(s)
       => draft[s] = << >>

\* A tuple never changes its resource, relation or subject.
EdgesFit(s) ==
    \A i \in DOMAIN draft[s] \ reborn :
        draft[s][i] # Gone /\ rows[i] # Gone => draft[s][i].edge = rows[i].edge

\* The resource rows a session inserts are new and its alone.
ResourcesFit(s) ==
    /\ adding[s] \cap resources = {}
    /\ \A z \in Others(s) : adding[s] \cap adding[z] = {}
    /\ pc[s] = "intern" \/ adding[s] # {} => registry
    /\ \A o \in Objects : interned[s][o] <= epoch[o]
RegistryFits ==
    /\ resources # {} => registry
    /\ \A o \in Objects : cascaded[o] <= used /\ (cascaded[o] > 0 => registry)

\* A new tuple older than the deletion of an end refers to the row that was there
\* before.
NewTupleFits(s, i) ==
    \A o \in Ends[draft[s][i].edge] :
        i <= cascaded[o] => interned[s][o] < epoch[o] /\ o \notin adding[s]
NewTuplesFit(s) ==
    \A i \in DOMAIN draft[s] \ reborn :
        draft[s][i] # Gone /\ rows[i] = Gone => NewTupleFits(s, i)

SessionFinal(s) ==
    /\ SweptFits(s) /\ OperationFits(s) /\ EdgesFit(s)
    /\ ResourcesFit(s) /\ NewTuplesFit(s)

FinalInv ==
    /\ LandInv /\ BuriedFit /\ RegistryFits /\ CascadesAreWhole
    /\ \A s \in Sessions : SessionFinal(s)


\* What a step of s leaves alone.
Undisturbed(s) ==
    \A z \in Others(s) :
        /\ pc'[z] = pc[z] /\ op'[z] = op[z] /\ ambient'[z] = ambient[z]
        /\ draft'[z] = draft[z] /\ swept'[z] = swept[z]
        /\ adding'[z] = adding[z] /\ interned'[z] = interned[z]

\* What s has drafted after a step is a row with a new key, one that it saw before
\* with the same ends, or one that a save brings back.
Rewrites(s) ==
    \A i \in DOMAIN draft'[s] \ reborn' :
        draft'[s][i] # Gone =>
            \/ i > used
            \/ Stored(s, i) /\ draft'[s][i].edge = View(s, i).edge

LEMMA FinalParts ==
    ASSUME FinalInv
    PROVE  /\ used \in Nat /\ reborn \subseteq Ids /\ buried \subseteq Ids
           /\ \A i \in Ids : i \in Nat /\ i > 0 /\ (rows[i] # Gone => i <= used)
           /\ \A z \in Sessions :
                 /\ DOMAIN draft[z] \subseteq Ids /\ swept[z] \subseteq Ids
                 /\ \A i \in DOMAIN draft[z] :
                       /\ i <= used /\ \A y \in Others(z) : i \notin DOMAIN draft[y]
<1>1. used \in Nat /\ reborn \subseteq Ids /\ buried \subseteq Ids
  BY StoreAssumption DEF StoreAssumption, FinalInv, LandInv, TypeOK, DatabaseTypeOK
<1>2. \A i \in Ids : i \in Nat /\ i > 0 /\ (rows[i] # Gone => i <= used)
  BY DEF FinalInv, LandInv, RowsFit, Ids
<1>3. \A z \in Sessions : DOMAIN draft[z] \subseteq Ids /\ swept[z] \subseteq Ids
  BY DEF FinalInv, LandInv, TypeOK, OverlayTypeOK
<1>4. \A z \in Sessions : \A i \in DOMAIN draft[z] :
         i <= used /\ \A y \in Others(z) : i \notin DOMAIN draft[y]
  BY DEF FinalInv, LandInv, DraftsFit, DraftFits
<1> QED BY <1>1, <1>2, <1>3, <1>4

-----------------------------------------------------------------------------
(* A step that commits nothing.                                            *)

LEMMA DeadStays ==
    ASSUME FinalInv, NEW s \in Sessions, Undisturbed(s), rows' = rows, Rewrites(s),
           NEW i \in Ids, i <= used, i \notin reborn', Dead(i)
    PROVE  Dead(i)'
<1>1. ASSUME NEW z \in Sessions, i \in DOMAIN draft'[z] PROVE draft'[z][i] = Gone
  <2>1. CASE z = s
    <3>1. used \in Nat /\ i \in Nat BY FinalParts
    <3>2. ~Stored(s, i) BY DEF Dead, Stored, View
    <3> QED BY <1>1, <2>1, <3>1, <3>2 DEF Rewrites
  <2>2. CASE z # s BY <1>1, <2>2 DEF Undisturbed, Others, Dead
  <2> QED BY <2>1, <2>2
<1> QED BY <1>1 DEF Dead

LEMMA WriteFinal ==
    ASSUME FinalInv, LandInv', NEW s \in Sessions, Undisturbed(s), UNCHANGED committed,
           used <= used', reborn \subseteq reborn', Rewrites(s), OperationFits(s)',
           \/ SweptFits(s)'
           \/ /\ swept'[s] = swept[s] /\ pc[s] # "sweep"
              /\ DOMAIN draft[s] \subseteq DOMAIN draft'[s],
           \/ interned'[s] = interned[s] /\ adding'[s] = adding[s] /\ pc'[s] # "intern"
           \/ draft'[s] = << >> /\ ResourcesFit(s)'
    PROVE  FinalInv'
<1>1. /\ UNCHANGED <<registry, rows, resources, epoch, buried, cascaded>>
      /\ used \in Nat /\ used' \in Nat
  BY FinalParts, StoreAssumption
     DEF committed, StoreAssumption, LandInv, TypeOK, DatabaseTypeOK
<1>2. ASSUME NEW i \in Ids, i <= used PROVE i <= used'
  BY <1>1, <1>2, FinalParts
<1>3. BuriedFit'
  <2> SUFFICES ASSUME NEW i \in buried \ reborn' PROVE i <= used' /\ Dead(i)'
    BY <1>1 DEF BuriedFit
  <2>1. i \in Ids /\ i <= used /\ Dead(i) BY FinalParts DEF FinalInv, BuriedFit
  <2> QED BY <1>1, <1>2, <2>1, DeadStays
<1>4. RegistryFits'
  <2>1. \A o \in Objects : cascaded[o] \in Nat
    BY StoreAssumption DEF StoreAssumption, FinalInv, LandInv, TypeOK, DatabaseTypeOK
  <2> QED BY <1>1, <2>1 DEF FinalInv, RegistryFits
<1>5. CascadesAreWhole' BY <1>1 DEF FinalInv, CascadesAreWhole
<1>6. ASSUME NEW z \in Others(s) PROVE SessionFinal(z)'
  <2>1. z \in Sessions /\ z # s /\ SessionFinal(z) BY DEF Others, FinalInv
  <2>2. /\ pc'[z] = pc[z] /\ op'[z] = op[z] /\ ambient'[z] = ambient[z]
        /\ draft'[z] = draft[z] /\ swept'[z] = swept[z]
        /\ adding'[z] = adding[z] /\ interned'[z] = interned[z]
    BY DEF Undisturbed
  <2>3. SweptFits(z)'
    <3> SUFFICES ASSUME NEW i \in swept[z] \ reborn' PROVE i <= used' /\ Doomed(z, i)'
      BY <2>2 DEF SweptFits
    <3>1. i \in Ids /\ i <= used /\ Doomed(z, i)
      BY <2>1, FinalParts DEF SessionFinal, SweptFits
    <3>2. Dead(i) => Dead(i)' BY <1>1, <3>1, DeadStays
    <3> QED BY <1>1, <1>2, <2>2, <3>1, <3>2 DEF Doomed
  <2>4. OperationFits(z)' BY <2>1, <2>2 DEF SessionFinal, OperationFits, Writing
  <2>5. EdgesFit(z)' BY <1>1, <2>1, <2>2 DEF SessionFinal, EdgesFit
  <2>6. ResourcesFit(z)'
    <3>1. ResourcesFit(z) BY <2>1 DEF SessionFinal
    <3>2. \A y \in Others(z) : y # s => adding'[y] = adding[y] BY DEF Undisturbed, Others
    <3>3. adding[z] \cap adding'[s] = {}
      <4>1. CASE adding'[s] = adding[s] BY <2>1, <3>1, <4>1 DEF ResourcesFit, Others
      <4>2. CASE ResourcesFit(s)' BY <2>1, <2>2, <4>2 DEF ResourcesFit, Others
      <4> QED BY <4>1, <4>2
    <3>4. \A y \in Others(z) : adding[z] \cap adding'[y] = {}
      BY <3>1, <3>2, <3>3 DEF ResourcesFit
    <3> QED BY <1>1, <2>2, <3>1, <3>4 DEF ResourcesFit
  <2>7. NewTuplesFit(z)'
    BY <1>1, <2>1, <2>2 DEF SessionFinal, NewTuplesFit, NewTupleFits
  <2> QED BY <2>3, <2>4, <2>5, <2>6, <2>7 DEF SessionFinal
<1>7. SessionFinal(s)'
  <2>1. SessionFinal(s) BY DEF FinalInv
  <2>2. SweptFits(s)'
    <3> SUFFICES ASSUME swept'[s] = swept[s], pc[s] # "sweep",
                        DOMAIN draft[s] \subseteq DOMAIN draft'[s],
                        NEW i \in swept[s] \ reborn'
                 PROVE  i <= used' /\ Doomed(s, i)'
      BY DEF SweptFits
    <3>1. i \in Ids /\ i <= used /\ Doomed(s, i)
      BY <2>1, FinalParts DEF SessionFinal, SweptFits
    <3>2. Dead(i) => Dead(i)' BY <1>1, <3>1, DeadStays
    <3>3. ASSUME i \in DOMAIN draft[s], draft[s][i] = Gone
          PROVE  i \in DOMAIN draft'[s] /\ draft'[s][i] = Gone
      <4>1. ~Stored(s, i) BY <3>3 DEF Stored, View
      <4>2. ~(i > used) BY <1>1, <3>1, FinalParts
      <4> QED BY <3>3, <4>1, <4>2 DEF Rewrites
    <3> QED BY <1>2, <3>1, <3>2, <3>3 DEF Doomed
  <2>3. ASSUME NEW i \in DOMAIN draft'[s] \ reborn', draft'[s][i] # Gone
        PROVE  /\ rows[i] # Gone => draft'[s][i].edge = rows[i].edge
               /\ rows[i] = Gone => \/ i > used
                                    \/ /\ i \in DOMAIN draft[s] /\ draft[s][i] # Gone
                                       /\ draft'[s][i].edge = draft[s][i].edge
    <3>1. \/ i > used
          \/ Stored(s, i) /\ draft'[s][i].edge = View(s, i).edge
      BY <2>3 DEF Rewrites
    <3>2. i \in Ids BY <2>3 DEF LandInv, TypeOK, OverlayTypeOK
    <3>3. ASSUME rows[i] # Gone PROVE draft'[s][i].edge = rows[i].edge
      <4>1. ~(i > used) BY <1>1, <3>2, <3>3, FinalParts
      <4>2. CASE i \in DOMAIN draft[s]
        BY <2>1, <2>3, <3>1, <3>3, <4>1, <4>2 DEF SessionFinal, EdgesFit, Stored, View
      <4>3. CASE i \notin DOMAIN draft[s] BY <3>1, <4>1, <4>3 DEF View
      <4> QED BY <4>2, <4>3
    <3> QED BY <3>1, <3>3 DEF Stored, View
  <2>4. EdgesFit(s)' BY <1>1, <2>3 DEF EdgesFit
  <2>5. ResourcesFit(s)'
    <3> SUFFICES ASSUME interned'[s] = interned[s], adding'[s] = adding[s], pc'[s] # "intern"
                 PROVE  ResourcesFit(s)'
      OBVIOUS
    <3>1. ResourcesFit(s) BY <2>1 DEF SessionFinal
    <3>2. \A z \in Others(s) : adding'[z] = adding[z] BY DEF Undisturbed
    <3> QED BY <1>1, <3>1, <3>2 DEF ResourcesFit
  <2>6. NewTuplesFit(s)'
    <3> SUFFICES ASSUME NEW i \in DOMAIN draft'[s] \ reborn', draft'[s][i] # Gone, rows[i] = Gone,
                        NEW o \in Ends[draft'[s][i].edge], i <= cascaded[o]
                 PROVE  interned'[s][o] < epoch[o] /\ o \notin adding'[s]
      BY <1>1 DEF NewTuplesFit, NewTupleFits
    <3>1. interned'[s] = interned[s] /\ adding'[s] = adding[s] OBVIOUS
    <3>2. i \in Ids /\ draft'[s][i] \in Row BY DEF LandInv, TypeOK, OverlayTypeOK
    <3>3. o \in Objects BY <3>2, RowParts, StoreAssumption DEF StoreAssumption
    <3>4. cascaded[o] <= used /\ cascaded[o] \in Nat
      BY <3>3, StoreAssumption
         DEF StoreAssumption, FinalInv, RegistryFits, LandInv, TypeOK, DatabaseTypeOK
    <3>5. ~(i > used) BY <1>1, <3>2, <3>4, FinalParts
    <3>6. /\ i \in DOMAIN draft[s] \ reborn /\ draft[s][i] # Gone
          /\ draft'[s][i].edge = draft[s][i].edge
      BY <2>3, <3>5
    <3>7. NewTupleFits(s, i) BY <2>1, <3>6 DEF SessionFinal, NewTuplesFit
    <3> QED BY <3>1, <3>6, <3>7 DEF NewTupleFits
  <2> QED BY <2>2, <2>4, <2>5, <2>6 DEF SessionFinal
<1> QED BY <1>3, <1>4, <1>5, <1>6, <1>7 DEF FinalInv, Others

-----------------------------------------------------------------------------
(* The end of a transaction.                                               *)

LEMMA PublishParts ==
    ASSUME FinalInv, NEW s \in Sessions, Publish(s)
    PROVE  /\ rows' = [i \in Ids |-> View(s, i)]
           /\ resources' = (resources \ dropping[s]) \cup adding[s]
           /\ epoch' = [o \in Objects |-> IF o \in dropping[s] \cap resources
                                          THEN epoch[o] + 1 ELSE epoch[o]]
           /\ buried' = buried \cup swept[s]
           /\ cascaded' = [o \in Objects |-> IF o \in dropping[s] \cap resources
                                             THEN used ELSE cascaded[o]]
           /\ draft'[s] = << >> /\ swept'[s] = {} /\ adding'[s] = {}
           /\ interned'[s] = [o \in Objects |-> 0]
           /\ registry' = registry
BY DEF Publish, Unwind, Put, ResourcesOf, FinalInv, LandInv, TypeOK, OverlayTypeOK

\* A row of which s has no draft stays; one that nobody brings back is dead.
LEMMA PublishedRows ==
    ASSUME FinalInv, NEW s \in Sessions, Undisturbed(s), Publish(s), reborn' = reborn,
           NEW i \in Ids
    PROVE  /\ i \notin DOMAIN draft[s] => rows'[i] = rows[i]
           /\ i \in DOMAIN draft[s] => rows'[i] = draft[s][i]
           /\ Dead(i) => Dead(i)'
           /\ i \in DOMAIN draft[s] /\ draft[s][i] = Gone => Dead(i)'
<1>1. rows'[i] = View(s, i) /\ draft'[s] = << >> BY PublishParts
<1>2. \A z \in Others(s) : draft'[z] = draft[z] BY DEF Undisturbed
<1>3. i \in DOMAIN draft[s] => \A z \in Others(s) : i \notin DOMAIN draft[z] BY FinalParts
<1>4. ASSUME Dead(i) PROVE Dead(i)'
  <2>1. rows'[i] = Gone BY <1>1, <1>4 DEF Dead, View
  <2> QED BY <1>1, <1>2, <1>4, <2>1 DEF Dead, Others
<1>5. ASSUME i \in DOMAIN draft[s], draft[s][i] = Gone PROVE Dead(i)'
  <2>1. rows'[i] = Gone BY <1>1, <1>5 DEF View
  <2> QED BY <1>1, <1>2, <1>3, <1>5, <2>1 DEF Dead, Others
<1> QED BY <1>1, <1>4, <1>5 DEF View

LEMMA PublishFinal ==
    ASSUME FinalInv, LandInv', NEW s \in Sessions, Undisturbed(s), References(s), Publish(s),
           used' = used, reborn' = reborn, OperationFits(s)', pc[s] # "sweep", pc'[s] # "intern"
    PROVE  FinalInv'
<1>1. /\ rows' = [i \in Ids |-> View(s, i)]
      /\ resources' = (resources \ dropping[s]) \cup adding[s]
      /\ epoch' = [o \in Objects |-> IF o \in dropping[s] \cap resources
                                     THEN epoch[o] + 1 ELSE epoch[o]]
      /\ buried' = buried \cup swept[s]
      /\ cascaded' = [o \in Objects |-> IF o \in dropping[s] \cap resources
                                        THEN used ELSE cascaded[o]]
      /\ draft'[s] = << >> /\ swept'[s] = {} /\ adding'[s] = {}
      /\ interned'[s] = [o \in Objects |-> 0]
      /\ registry' = registry
  BY PublishParts
<1>2. used \in Nat BY FinalParts
<1>3. epoch \in [Objects -> Nat] /\ cascaded \in [Objects -> Nat]
  BY StoreAssumption DEF StoreAssumption, FinalInv, LandInv, TypeOK, DatabaseTypeOK
<1>4. /\ \A o \in Objects : epoch'[o] \in Nat /\ epoch[o] <= epoch'[o]
      /\ \A o \in Objects : o \in dropping[s] \cap resources => epoch[o] < epoch'[o]
  BY <1>1, <1>3
<1>5. SessionFinal(s) /\ RegistryFits BY DEF FinalInv
<1>6. BuriedFit'
  <2> SUFFICES ASSUME NEW i \in buried' \ reborn PROVE i <= used /\ Dead(i)'
    BY DEF BuriedFit
  <2>1. i \in Ids BY <1>1, FinalParts
  <2>2. CASE i \in buried
    <3>1. i <= used /\ Dead(i) BY <2>2 DEF FinalInv, BuriedFit
    <3> QED BY <2>1, <3>1, PublishedRows
  <2>3. CASE i \in swept[s]
    <3>1. i <= used /\ Doomed(s, i) BY <1>5, <2>3 DEF SessionFinal, SweptFits
    <3> QED BY <2>1, <3>1, PublishedRows DEF Doomed
  <2> QED BY <1>1, <2>2, <2>3
<1>7. RegistryFits'
  <2>1. ASSUME NEW o \in Objects PROVE cascaded'[o] <= used /\ (cascaded'[o] > 0 => registry)
    BY <1>1, <1>2, <1>5 DEF RegistryFits
  <2>2. resources' # {} => registry
    BY <1>1, <1>5 DEF RegistryFits, SessionFinal, ResourcesFit
  <2> QED BY <1>1, <2>1, <2>2 DEF RegistryFits
<1>8. CascadesAreWhole'
  <2> SUFFICES ASSUME NEW i \in Ids \ reborn, rows'[i] # Gone,
                      NEW o \in Ends[rows'[i].edge], ~(i > cascaded'[o])
               PROVE  FALSE
    BY DEF CascadesAreWhole
  <2>1. rows'[i] = View(s, i) /\ Stored(s, i) BY <1>1 DEF Stored
  <2>2. o \in Objects
    <3>1. View(s, i) \in Row BY <2>1, ViewIsTyped DEF FinalInv
    <3> QED BY <2>1, <3>1, RowParts, StoreAssumption DEF StoreAssumption
  <2>3. i \in Nat /\ i > 0 BY FinalParts
  <2>4. registry
    BY <1>1, <1>3, <1>5, <2>2, <2>3 DEF RegistryFits
  <2>5. CASE o \in dropping[s] \cap resources
    <3>1. Naming(s, o) = {} BY <2>4, <2>5 DEF References
    <3> QED BY <2>1, <3>1 DEF Naming
  <2>6. CASE o \notin dropping[s] \cap resources
    <3>1. cascaded'[o] = cascaded[o] BY <1>1, <2>2, <2>6
    <3>2. i <= cascaded[o] BY <1>3, <2>2, <2>3, <3>1
    <3>3. ASSUME rows[i] # Gone PROVE o \notin Ends[rows[i].edge]
      BY <3>1, <3>3 DEF FinalInv, CascadesAreWhole
    <3>4. CASE i \in DOMAIN draft[s] /\ rows[i] = Gone
      <4>1. draft[s][i] = rows'[i] /\ draft[s][i] # Gone BY <2>1, <3>4 DEF View
      <4>2. NewTupleFits(s, i) BY <1>5, <3>4, <4>1 DEF SessionFinal, NewTuplesFit
      <4>3. interned[s][o] < epoch[o] /\ o \notin adding[s]
        BY <3>2, <4>1, <4>2 DEF NewTupleFits
      <4>4. i \in Inserted(s) BY <3>4, <4>1 DEF Inserted
      <4>5. o \in ResourcesOf(s) /\ (o \in resources => epoch[o] = interned[s][o])
        BY <2>4, <4>1, <4>4 DEF References
      <4>6. interned[s][o] \in Nat /\ epoch[o] \in Nat
        BY <1>3, <2>2 DEF FinalInv, LandInv, TypeOK, OverlayTypeOK
      <4> QED BY <4>3, <4>5, <4>6 DEF ResourcesOf
    <3>5. CASE i \in DOMAIN draft[s] /\ rows[i] # Gone
      <4>1. draft[s][i] = rows'[i] BY <2>1, <3>5 DEF View
      <4>2. draft[s][i].edge = rows[i].edge BY <1>5, <3>5, <4>1 DEF SessionFinal, EdgesFit
      <4> QED BY <3>3, <3>5, <4>1, <4>2
    <3>6. CASE i \notin DOMAIN draft[s] BY <2>1, <3>3, <3>6 DEF View
    <3> QED BY <3>4, <3>5, <3>6
  <2> QED BY <2>5, <2>6
<1>9. ASSUME NEW z \in Others(s) PROVE SessionFinal(z)'
  <2>1. z \in Sessions /\ z # s /\ SessionFinal(z) BY DEF Others, FinalInv
  <2>2. /\ pc'[z] = pc[z] /\ op'[z] = op[z] /\ ambient'[z] = ambient[z]
        /\ draft'[z] = draft[z] /\ swept'[z] = swept[z]
        /\ adding'[z] = adding[z] /\ interned'[z] = interned[z]
    BY DEF Undisturbed
  <2>3. \A i \in DOMAIN draft[z] : i \in Ids /\ i \notin DOMAIN draft[s] /\ rows'[i] = rows[i]
    <3>1. \A i \in DOMAIN draft[z] : i \in Ids /\ i \notin DOMAIN draft[s]
      BY <2>1, FinalParts DEF Others
    <3> QED BY <3>1, PublishedRows
  <2>4. SweptFits(z)'
    <3> SUFFICES ASSUME NEW i \in swept[z] \ reborn PROVE i <= used /\ Doomed(z, i)'
      BY <2>2 DEF SweptFits
    <3>1. i \in Ids /\ i <= used /\ Doomed(z, i)
      BY <2>1, FinalParts DEF SessionFinal, SweptFits
    <3>2. CASE Dead(i) BY <3>1, <3>2, PublishedRows DEF Doomed
    <3>3. CASE i \in DOMAIN draft[z] /\ draft[z][i] = Gone BY <2>2, <3>1, <3>3 DEF Doomed
    <3>4. CASE pc[z] = "sweep" /\ rows[i] # Gone /\ op[z].object \in Ends[rows[i].edge]
      <4>1. CASE i \notin DOMAIN draft[s]
        <5>1. rows'[i] = rows[i] BY <3>1, <4>1, PublishedRows
        <5> QED BY <2>2, <3>1, <3>4, <5>1 DEF Doomed
      <4>2. CASE i \in DOMAIN draft[s] /\ draft[s][i] = Gone
        BY <3>1, <4>2, PublishedRows DEF Doomed
      <4>3. CASE i \in DOMAIN draft[s] /\ draft[s][i] # Gone
        <5>1. rows'[i] = draft[s][i] BY <3>1, <4>3, PublishedRows
        <5>2. draft[s][i].edge = rows[i].edge BY <1>5, <3>4, <4>3 DEF SessionFinal, EdgesFit
        <5> QED BY <2>2, <3>1, <3>4, <4>3, <5>1, <5>2 DEF Doomed
      <4> QED BY <4>1, <4>2, <4>3
    <3> QED BY <3>1, <3>2, <3>3, <3>4 DEF Doomed
  <2>5. OperationFits(z)' BY <2>1, <2>2 DEF SessionFinal, OperationFits, Writing
  <2>6. EdgesFit(z)' BY <2>1, <2>2, <2>3 DEF SessionFinal, EdgesFit
  <2>7. ResourcesFit(z)'
    <3>1. ResourcesFit(z) BY <2>1 DEF SessionFinal
    <3>2. adding[z] \cap resources' = {}
      BY <1>1, <1>5, <2>1, <3>1 DEF SessionFinal, ResourcesFit, Others
    <3>3. \A y \in Others(z) : adding[z] \cap adding'[y] = {}
      BY <1>1, <3>1 DEF ResourcesFit, Undisturbed, Others
    <3>4. \A o \in Objects : interned[z][o] <= epoch'[o]
      <4>1. \A o \in Objects : interned[z][o] \in Nat
        BY <2>1 DEF FinalInv, LandInv, TypeOK, OverlayTypeOK
      <4> QED BY <1>3, <1>4, <3>1, <4>1 DEF ResourcesFit
    <3> QED BY <1>1, <2>2, <3>1, <3>2, <3>3, <3>4 DEF ResourcesFit
  <2>8. NewTuplesFit(z)'
    <3> SUFFICES ASSUME NEW i \in DOMAIN draft[z] \ reborn, draft[z][i] # Gone, rows'[i] = Gone,
                        NEW o \in Ends[draft[z][i].edge], i <= cascaded'[o]
                 PROVE  interned[z][o] < epoch'[o] /\ o \notin adding[z]
      BY <2>2 DEF NewTuplesFit, NewTupleFits
    <3>1. rows[i] = Gone /\ NewTupleFits(z, i)
      BY <2>1, <2>3 DEF SessionFinal, NewTuplesFit
    <3>2. o \in Objects
      <4>1. draft[z][i] \in Row BY <2>1 DEF FinalInv, LandInv, TypeOK, OverlayTypeOK
      <4> QED BY <4>1, RowParts, StoreAssumption DEF StoreAssumption
    <3>3. interned[z][o] \in Nat BY <2>1, <3>2 DEF FinalInv, LandInv, TypeOK, OverlayTypeOK
    <3>4. ResourcesFit(z) BY <2>1 DEF SessionFinal
    <3>5. interned[z][o] <= epoch[o] /\ epoch[o] \in Nat /\ epoch'[o] \in Nat /\ epoch[o] <= epoch'[o]
      BY <1>3, <1>4, <3>2, <3>4 DEF ResourcesFit
    <3>6. CASE o \in dropping[s] \cap resources
      <4>1. epoch[o] < epoch'[o] BY <1>4, <3>2, <3>6
      <4>2. o \notin adding[z] BY <3>4, <3>6 DEF ResourcesFit
      <4> QED BY <3>3, <3>5, <4>1, <4>2
    <3>7. CASE o \notin dropping[s] \cap resources
      <4>1. cascaded'[o] = cascaded[o] BY <1>1, <3>2, <3>7
      <4>2. interned[z][o] < epoch[o] /\ o \notin adding[z] BY <3>1, <4>1 DEF NewTupleFits
      <4> QED BY <3>3, <3>5, <4>2
    <3> QED BY <3>6, <3>7
  <2> QED BY <2>4, <2>5, <2>6, <2>7, <2>8 DEF SessionFinal
<1>10. SessionFinal(s)'
  <2>1. SweptFits(s)' /\ EdgesFit(s)' /\ NewTuplesFit(s)'
    BY <1>1 DEF SweptFits, EdgesFit, NewTuplesFit
  <2>2. ResourcesFit(s)' BY <1>1, <1>4 DEF ResourcesFit
  <2> QED BY <2>1, <2>2 DEF SessionFinal
<1> QED BY <1>6, <1>7, <1>8, <1>9, <1>10 DEF FinalInv, Others

-----------------------------------------------------------------------------
(* Steps that draft nothing.                                               *)

LEMMA QuietFinal ==
    ASSUME FinalInv, LandInv', NEW s \in Sessions, Undisturbed(s), UNCHANGED committed,
           UNCHANGED <<used, reborn>>, draft'[s] = draft[s], OperationFits(s)',
           SweptFits(s)' \/ (swept'[s] = swept[s] /\ pc[s] # "sweep"),
           \/ interned'[s] = interned[s] /\ adding'[s] = adding[s] /\ pc'[s] # "intern"
           \/ draft[s] = << >> /\ ResourcesFit(s)'
    PROVE  FinalInv'
<1>1. Rewrites(s) BY DEF Rewrites, Stored, View
<1>2. used <= used' BY FinalParts
<1> QED BY <1>1, <1>2, WriteFinal

\* A step that moves on, with what it had.
LEMMA MoveFinal ==
    ASSUME FinalInv, LandInv', NEW s \in Sessions, NEW label,
           pc' = [pc EXCEPT ![s] = label], label # "intern", pc[s] # "sweep",
           UNCHANGED <<committed, used, op, ambient, overlay, history>>, OperationFits(s)'
    PROVE  FinalInv'
<1>1. Undisturbed(s)
  BY DEF Undisturbed, Others, overlay, FinalInv, LandInv, TypeOK, SessionsTypeOK
<1>2. pc'[s] # "intern" BY DEF FinalInv, LandInv, TypeOK, SessionsTypeOK
<1> QED BY <1>1, <1>2, QuietFinal DEF overlay, history

LEMMA DrawFinal ==
    ASSUME FinalInv, LandInv', NEW s \in Sessions, Draw(s)
    PROVE  FinalInv'
<1>1. pc[s] = "draw" /\ pc' = [pc EXCEPT ![s] = "store"]
      /\ UNCHANGED <<committed, used, op, ambient, overlay, history>>
  BY DEF Draw, Goto, clocks
<1>2. OperationFits(s) BY DEF FinalInv, SessionFinal
<1>3. OperationFits(s)'
  BY <1>1, <1>2 DEF OperationFits, Writing, overlay, FinalInv, LandInv, TypeOK, SessionsTypeOK
<1> QED BY <1>1, <1>3, MoveFinal

LEMMA StoreXidFinal ==
    ASSUME FinalInv, LandInv', NEW s \in Sessions, StoreXid(s)
    PROVE  FinalInv'
<1>1. pc[s] = "store" /\ pc' = [pc EXCEPT ![s] = IF Writing(s) THEN "find" ELSE "token"]
      /\ UNCHANGED <<committed, used, op, ambient, overlay, history>>
  BY DEF StoreXid, Goto, locals
<1>2. OperationFits(s) BY DEF FinalInv, SessionFinal
<1>3. OperationFits(s)'
  BY <1>1, <1>2 DEF OperationFits, Writing, overlay, FinalInv, LandInv, TypeOK, SessionsTypeOK
<1>4. (IF Writing(s) THEN "find" ELSE "token") # "intern" OBVIOUS
<1> QED BY <1>1, <1>3, <1>4, MoveFinal

LEMMA FindFinal ==
    ASSUME FinalInv, LandInv', NEW s \in Sessions, Find(s)
    PROVE  FinalInv'
<1>1. PICK label \in {"insert", "derive"} :
         pc[s] = "find" /\ pc' = [pc EXCEPT ![s] = label]
         /\ UNCHANGED <<committed, used, op, ambient, overlay, history>>
  BY DEF Find, Goto, clocks
<1>2. OperationFits(s) BY DEF FinalInv, SessionFinal
<1>3. OperationFits(s)'
  BY <1>1, <1>2 DEF OperationFits, Writing, overlay, FinalInv, LandInv, TypeOK, SessionsTypeOK
<1> QED BY <1>1, <1>3, MoveFinal

LEMMA LookFinal ==
    ASSUME FinalInv, LandInv', NEW s \in Sessions, Look(s)
    PROVE  FinalInv'
<1>1. pc[s] = "look" /\ pc' = [pc EXCEPT ![s] = "remove"]
      /\ UNCHANGED <<committed, used, op, ambient, overlay, history>>
  BY DEF Look, Goto, clocks
<1>2. OperationFits(s) BY DEF FinalInv, SessionFinal
<1>3. OperationFits(s)'
  BY <1>1, <1>2 DEF OperationFits, Writing, overlay, FinalInv, LandInv, TypeOK, SessionsTypeOK
<1> QED BY <1>1, <1>3, MoveFinal

LEMMA DropNothingFinal ==
    ASSUME FinalInv, LandInv', NEW s \in Sessions, DropNothing(s)
    PROVE  FinalInv'
<1>1. pc[s] = "drop" /\ pc' = [pc EXCEPT ![s] = "leave"]
      /\ UNCHANGED <<committed, used, op, ambient, overlay, history>>
  BY DEF DropNothing, Goto, clocks
<1>2. OperationFits(s) BY DEF FinalInv, SessionFinal
<1>3. OperationFits(s)'
  BY <1>1, <1>2 DEF OperationFits, Writing, overlay, FinalInv, LandInv, TypeOK, SessionsTypeOK
<1> QED BY <1>1, <1>3, MoveFinal

LEMMA TokenFinal ==
    ASSUME FinalInv, LandInv', NEW s \in Sessions, Token(s)
    PROVE  FinalInv'
<1>1. PICK label : /\ label = CASE op[s].kind = "grant" -> "get"
                               [] op[s].kind # "grant" /\ ambient[s] -> "commit"
                               [] OTHER -> "done"
                   /\ pc[s] = "token" /\ pc' = [pc EXCEPT ![s] = label]
                   /\ UNCHANGED <<committed, used, op, ambient, overlay, history>>
  BY DEF Token, Goto, clocks
<1>2. OperationFits(s) /\ StepFits(s) BY DEF FinalInv, SessionFinal, LandInv, SessionFits
<1>3. label \in {"get", "commit", "done"} /\ (label = "done" => ~ambient[s])
  BY <1>1, <1>2 DEF StepFits
<1>4. OperationFits(s)'
  BY <1>1, <1>2, <1>3
  DEF OperationFits, Writing, overlay, FinalInv, LandInv, TypeOK, SessionsTypeOK
<1> QED BY <1>1, <1>3, <1>4, MoveFinal

LEMMA GetFinal ==
    ASSUME FinalInv, LandInv', NEW s \in Sessions, Get(s)
    PROVE  FinalInv'
<1>1. pc[s] = "get" /\ pc' = [pc EXCEPT ![s] = IF ambient[s] THEN "commit" ELSE "done"]
      /\ UNCHANGED <<committed, used, op, ambient, overlay, history>>
  BY DEF Get, Goto, clocks
<1>2. OperationFits(s) /\ ambient[s]
  BY <1>1 DEF FinalInv, SessionFinal, LandInv, SessionFits, StepFits
<1>3. OperationFits(s)'
  BY <1>1, <1>2 DEF OperationFits, Writing, overlay, FinalInv, LandInv, TypeOK, SessionsTypeOK
<1>4. (IF ambient[s] THEN "commit" ELSE "done") # "intern" OBVIOUS
<1> QED BY <1>1, <1>3, <1>4, MoveFinal

LEMMA DropFinal ==
    ASSUME FinalInv, LandInv', NEW s \in Sessions, Drop(s)
    PROVE  FinalInv'
<1>1. /\ pc[s] = "drop" /\ pc' = [pc EXCEPT ![s] = "sweep"]
      /\ swept' = [swept EXCEPT ![s] = Naming(s, op[s].object)]
      /\ UNCHANGED <<committed, used, op, ambient, draft, adding, interned, history>>
  BY DEF Drop, Goto, Put, clocks
<1>2. Undisturbed(s)
  BY <1>1 DEF Undisturbed, Others, FinalInv, LandInv, TypeOK, SessionsTypeOK, OverlayTypeOK
<1>3. pc'[s] = "sweep" /\ swept'[s] = Naming(s, op[s].object)
  BY <1>1 DEF FinalInv, LandInv, TypeOK, SessionsTypeOK, OverlayTypeOK
<1>4. OperationFits(s) BY DEF FinalInv, SessionFinal
<1>5. draft[s] = << >> BY <1>1, <1>4 DEF OperationFits
<1>6. OperationFits(s)' BY <1>1, <1>3, <1>4, <1>5 DEF OperationFits
<1>7. SweptFits(s)'
  <2> SUFFICES ASSUME NEW i \in Naming(s, op[s].object) PROVE i <= used /\ Doomed(s, i)'
    BY <1>1, <1>3 DEF SweptFits
  <2>1. i <= used BY NamingIsStored DEF FinalInv
  <2>2. rows[i] # Gone /\ op[s].object \in Ends[rows[i].edge]
    BY <1>5 DEF Naming, Stored, View
  <2> QED BY <1>1, <1>3, <2>1, <2>2 DEF Doomed, committed
<1> QED BY <1>1, <1>2, <1>3, <1>6, <1>7, QuietFinal DEF history

LEMMA StartFinal ==
    ASSUME FinalInv, LandInv', NEW s \in Sessions, Start(s)
    PROVE  FinalInv'
<1>1. PICK o \in Operations, within \in BOOLEAN :
         /\ o.kind \in {"save", "erase", "bulk", "drop"} => ~within
         /\ op' = [op EXCEPT ![s] = o] /\ ambient' = [ambient EXCEPT ![s] = within]
         /\ interned' = IF o.kind \in {"save", "bulk"}
                        THEN [interned EXCEPT ![s] = epoch] ELSE interned
         /\ pc' = [pc EXCEPT ![s] = FirstStep(o)]
  BY DEF Start, Goto, Put
<1>2. pc[s] = "idle" /\ UNCHANGED <<committed, clocks, draft, dropping, adding, swept, history>>
  BY DEF Start
<1>3. Undisturbed(s)
  BY <1>1, <1>2 DEF Undisturbed, Others, FinalInv, LandInv, TypeOK, SessionsTypeOK, OverlayTypeOK
<1>4. /\ op'[s] = o /\ ambient'[s] = within /\ pc'[s] = FirstStep(o)
      /\ interned'[s] \in {interned[s], epoch}
      /\ draft'[s] = draft[s] /\ adding'[s] = adding[s] /\ swept'[s] = swept[s]
  BY <1>1, <1>2 DEF FinalInv, LandInv, TypeOK, SessionsTypeOK, OverlayTypeOK
<1>5. draft[s] = << >> /\ ResourcesFit(s)
  BY <1>2 DEF FinalInv, SessionFinal, OperationFits
<1>6. OperationFits(s)'
  <2>1. o.kind \in {"write", "grant", "remove", "revoke", "save", "erase", "bulk", "drop"}
    BY OperationParts
  <2> QED BY <1>1, <1>4, <1>5, <2>1 DEF OperationFits
<1>7. ResourcesFit(s)'
  <2>1. pc'[s] = "intern" => registry
    <3>1. registry' = registry BY <1>2 DEF committed
    <3>2. pc'[s] = "intern" => registry
      BY <1>1, <1>4, OperationParts DEF FirstStep
    <3> QED BY <3>1, <3>2
  <2>2. \A e \in Objects : interned'[s][e] <= epoch[e]
    <3>1. epoch \in [Objects -> Nat] BY DEF FinalInv, LandInv, TypeOK, DatabaseTypeOK
    <3> QED BY <1>4, <1>5, <3>1 DEF ResourcesFit
  <2>3. \A z \in Others(s) : adding'[z] = adding[z] BY <1>3 DEF Undisturbed
  <2> QED BY <1>2, <1>4, <1>5, <2>1, <2>2, <2>3 DEF ResourcesFit, committed
<1> QED BY <1>2, <1>3, <1>4, <1>5, <1>6, <1>7, QuietFinal DEF clocks, history

LEMMA InternFinal ==
    ASSUME FinalInv, LandInv', NEW s \in Sessions, Intern(s)
    PROVE  FinalInv'
<1>1. /\ pc[s] = "intern" /\ pc' = [pc EXCEPT ![s] = "resolve"]
      /\ adding' = [adding EXCEPT ![s] = BatchEnds(s) \ resources]
      /\ \A o \in BatchEnds(s) : ResourceFree(s, o)
      /\ UNCHANGED <<committed, used, op, ambient, draft, interned, swept, history>>
  BY DEF Intern, Goto, Put, clocks
<1>2. Undisturbed(s)
  BY <1>1 DEF Undisturbed, Others, FinalInv, LandInv, TypeOK, SessionsTypeOK, OverlayTypeOK
<1>3. pc'[s] = "resolve" /\ adding'[s] = BatchEnds(s) \ resources
  BY <1>1 DEF FinalInv, LandInv, TypeOK, SessionsTypeOK, OverlayTypeOK
<1>4. OperationFits(s) /\ ResourcesFit(s) BY DEF FinalInv, SessionFinal
<1>5. draft[s] = << >> BY <1>1, <1>4 DEF OperationFits
<1>6. OperationFits(s)' BY <1>1, <1>3, <1>4, <1>5 DEF OperationFits
<1>7. ResourcesFit(s)'
  <2>1. \A z \in Others(s) : adding'[s] \cap adding'[z] = {}
    BY <1>1, <1>2, <1>3 DEF ResourceFree, Undisturbed
  <2> QED BY <1>1, <1>3, <1>4, <2>1 DEF ResourcesFit, committed
<1> QED BY <1>1, <1>2, <1>5, <1>6, <1>7, QuietFinal DEF history

LEMMA ResolveFinal ==
    ASSUME FinalInv, LandInv', NEW s \in Sessions, Resolve(s)
    PROVE  FinalInv'
<1>1. /\ pc[s] = "resolve" /\ pc' = [pc EXCEPT ![s] = "draw"]
      /\ interned' = [interned EXCEPT ![s] = epoch]
      /\ UNCHANGED <<committed, used, op, ambient, draft, adding, swept, history>>
  BY DEF Resolve, Goto, Put, clocks
<1>2. Undisturbed(s)
  BY <1>1 DEF Undisturbed, Others, FinalInv, LandInv, TypeOK, SessionsTypeOK, OverlayTypeOK
<1>3. pc'[s] = "draw" /\ interned'[s] = epoch
  BY <1>1 DEF FinalInv, LandInv, TypeOK, SessionsTypeOK, OverlayTypeOK
<1>4. OperationFits(s) /\ ResourcesFit(s) BY DEF FinalInv, SessionFinal
<1>5. draft[s] = << >> BY <1>1, <1>4 DEF OperationFits
<1>6. OperationFits(s)' BY <1>1, <1>3, <1>4, <1>5 DEF OperationFits
<1>7. ResourcesFit(s)'
  <2>1. \A o \in Objects : epoch[o] <= epoch[o]
    BY DEF FinalInv, LandInv, TypeOK, DatabaseTypeOK
  <2>2. \A z \in Others(s) : adding'[z] = adding[z] BY <1>2 DEF Undisturbed
  <2> QED BY <1>1, <1>3, <1>4, <2>1, <2>2 DEF ResourcesFit, committed
<1> QED BY <1>1, <1>2, <1>5, <1>6, <1>7, QuietFinal DEF history

LEMMA ReturnFinal ==
    ASSUME FinalInv, LandInv', NEW s \in Sessions, Return(s)
    PROVE  FinalInv'
<1>1. /\ pc[s] = "done" /\ pc' = [pc EXCEPT ![s] = "idle"]
      /\ op' = [op EXCEPT ![s] = Nothing] /\ ambient' = [ambient EXCEPT ![s] = FALSE]
      /\ UNCHANGED <<committed, used, overlay, history>>
  BY DEF Return, Idle, Goto, Put, clocks
<1>2. Undisturbed(s)
  BY <1>1 DEF Undisturbed, Others, overlay, FinalInv, LandInv, TypeOK, SessionsTypeOK
<1>3. pc'[s] = "idle" /\ ~ambient'[s]
  BY <1>1 DEF FinalInv, LandInv, TypeOK, SessionsTypeOK
<1>4. draft[s] = << >> BY <1>1 DEF FinalInv, SessionFinal, OperationFits
<1>5. OperationFits(s)' BY <1>1, <1>3, <1>4 DEF OperationFits, overlay
<1> QED BY <1>1, <1>2, <1>3, <1>5, QuietFinal DEF overlay, history

\* A transaction that is rolled back.
LEMMA FailFinal ==
    ASSUME FinalInv, LandInv', NEW s \in Sessions, Fail(s)
    PROVE  FinalInv'
<1>1. /\ pc' = [pc EXCEPT ![s] = "idle"] /\ op' = [op EXCEPT ![s] = Nothing]
      /\ ambient' = [ambient EXCEPT ![s] = FALSE]
      /\ draft' = [draft EXCEPT ![s] = << >>] /\ adding' = [adding EXCEPT ![s] = {}]
      /\ interned' = [interned EXCEPT ![s] = [o \in Objects |-> 0]]
      /\ swept' = [swept EXCEPT ![s] = {}]
      /\ UNCHANGED <<committed, used, history>>
  BY DEF Fail, Unwind, Idle, Goto, Put, clocks
<1>2. Undisturbed(s)
  BY <1>1 DEF Undisturbed, Others, FinalInv, LandInv, TypeOK, SessionsTypeOK, OverlayTypeOK
<1>3. /\ pc'[s] = "idle" /\ ~ambient'[s] /\ draft'[s] = << >> /\ swept'[s] = {}
      /\ adding'[s] = {} /\ interned'[s] = [o \in Objects |-> 0]
  BY <1>1 DEF FinalInv, LandInv, TypeOK, SessionsTypeOK, OverlayTypeOK
<1>4. Rewrites(s) /\ OperationFits(s)' /\ SweptFits(s)'
  BY <1>3 DEF Rewrites, OperationFits, SweptFits
<1>5. ResourcesFit(s)'
  <2>1. epoch' = epoch /\ epoch \in [Objects -> Nat]
    BY <1>1 DEF committed, FinalInv, LandInv, TypeOK, DatabaseTypeOK
  <2> QED BY <1>3, <2>1 DEF ResourcesFit
<1>6. used <= used' BY <1>1, FinalParts
<1> QED BY <1>1, <1>2, <1>3, <1>4, <1>5, <1>6, WriteFinal DEF history

LEMMA LeaveFinal ==
    ASSUME FinalInv, LandInv', NEW s \in Sessions, Leave(s)
    PROVE  FinalInv'
<1>1. /\ pc[s] = "leave" /\ pc' = [pc EXCEPT ![s] = AfterBlock(s)]
      /\ UNCHANGED <<clocks, op, ambient, history>>
  BY DEF Leave, Goto
<1>2. /\ AfterBlock(s) \in {"token", "draw", "done"}
      /\ AfterBlock(s) = "draw" <=> op[s].kind \in {"remove", "revoke"}
      /\ AfterBlock(s) = "token" <=> Writing(s)
  BY DEF AfterBlock, Writing
<1>3. OperationFits(s) BY DEF FinalInv, SessionFinal
<1>4. pc'[s] = AfterBlock(s) BY <1>1 DEF FinalInv, LandInv, TypeOK, SessionsTypeOK
<1>5. CASE ambient[s]
  <2>1. UNCHANGED <<committed, overlay>> BY <1>5 DEF Leave
  <2>2. AfterBlock(s) # "done" BY <1>2, <1>3, <1>5 DEF OperationFits, Writing
  <2>3. OperationFits(s)' BY <1>1, <1>2, <1>3, <1>4, <1>5, <2>2 DEF OperationFits
  <2> QED BY <1>1, <1>2, <2>1, <2>3, MoveFinal DEF clocks
<1>6. CASE ~ambient[s]
  <2>1. References(s) /\ Publish(s) BY <1>6 DEF Leave
  <2>2. draft'[s] = << >> BY <2>1, PublishParts
  <2>3. Undisturbed(s)
    BY <1>1, <2>1
    DEF Publish, Unwind, Put, Undisturbed, Others, FinalInv, LandInv, TypeOK, SessionsTypeOK, OverlayTypeOK
  <2>4. OperationFits(s)' BY <1>1, <1>6, <2>2 DEF OperationFits
  <2> QED BY <1>1, <1>2, <1>4, <2>1, <2>3, <2>4, PublishFinal DEF clocks, history
<1> QED BY <1>5, <1>6

LEMMA CommitFinal ==
    ASSUME FinalInv, LandInv', NEW s \in Sessions, Commit(s)
    PROVE  FinalInv'
<1>1. /\ pc[s] = "commit" /\ pc' = [pc EXCEPT ![s] = "done"]
      /\ References(s) /\ Publish(s) /\ UNCHANGED <<clocks, op, ambient, history>>
  BY DEF Commit, Goto
<1>2. pc'[s] = "done" BY <1>1 DEF FinalInv, LandInv, TypeOK, SessionsTypeOK
<1>3. draft'[s] = << >> BY <1>1, PublishParts
<1>4. Undisturbed(s)
  BY <1>1
  DEF Publish, Unwind, Put, Undisturbed, Others, FinalInv, LandInv, TypeOK, SessionsTypeOK, OverlayTypeOK
<1>5. OperationFits(s) BY DEF FinalInv, SessionFinal
<1>6. OperationFits(s)' BY <1>1, <1>3, <1>5 DEF OperationFits
<1> QED BY <1>1, <1>2, <1>4, <1>6, PublishFinal DEF clocks, history

-----------------------------------------------------------------------------
(* Steps that draft rows.                                                  *)

\* One row: a new one, one that is there, or one that a save brings back.
LEMMA LaidFinal ==
    ASSUME FinalInv, LandInv', NEW s \in Sessions, NEW i, NEW row, NEW label,
           pc[s] # "sweep", pc' = [pc EXCEPT ![s] = label], label \in {"draw", "update", "leave"},
           label = "draw" => Writing(s),
           draft' = [draft EXCEPT ![s] = Overlaid(draft[s], i, row)],
           UNCHANGED <<committed, op, ambient, adding, interned, swept>>,
           used <= used', reborn \subseteq reborn',
           i > used \/ i \in reborn' \/ (Stored(s, i) /\ View(s, i).edge = row.edge)
    PROVE  FinalInv'
<1>1. Undisturbed(s)
  BY DEF Undisturbed, Others, FinalInv, LandInv, TypeOK, SessionsTypeOK, OverlayTypeOK
<1>2. draft'[s] = Overlaid(draft[s], i, row) /\ pc'[s] = label
  BY DEF FinalInv, LandInv, TypeOK, SessionsTypeOK, OverlayTypeOK
<1>3. /\ DOMAIN draft'[s] = DOMAIN draft[s] \cup {i} /\ draft'[s][i] = row
      /\ \A j \in DOMAIN draft[s] : j # i => draft'[s][j] = draft[s][j]
  BY <1>2 DEF Overlaid
<1>4. Rewrites(s)
  <2> SUFFICES ASSUME NEW j \in DOMAIN draft'[s] \ reborn', draft'[s][j] # Gone
               PROVE  j > used \/ (Stored(s, j) /\ draft'[s][j].edge = View(s, j).edge)
    BY DEF Rewrites
  <2>1. CASE j = i BY <1>3, <2>1
  <2>2. CASE j # i BY <1>3, <2>2 DEF Stored, View
  <2> QED BY <2>1, <2>2
<1>5. OperationFits(s)'
  <2>1. OperationFits(s) BY DEF FinalInv, SessionFinal
  <2> QED BY <1>2, <2>1 DEF OperationFits, Writing
<1>6. swept'[s] = swept[s] /\ interned'[s] = interned[s] /\ adding'[s] = adding[s]
      /\ pc'[s] # "intern"
  BY <1>2
<1> QED BY <1>1, <1>3, <1>4, <1>5, <1>6, WriteFinal

\* Where a session goes after a tuple.
LEMMA AfterTupleLabel ==
    ASSUME NEW s \in Sessions, AfterTuple(s)
    PROVE  \E label \in {"draw", "leave"} :
              pc' = [pc EXCEPT ![s] = label] /\ (label = "draw" => Writing(s))
BY DEF AfterTuple, Goto, Writing

LEMMA InsertFinal ==
    ASSUME FinalInv, LandInv', NEW s \in Sessions, Insert(s)
    PROVE  FinalInv'
<1>1. /\ pc[s] = "insert" /\ AfterTuple(s) /\ used' = used + 1
      /\ draft' = [draft EXCEPT ![s] = Overlaid(draft[s], used + 1, Fresh(Current(s), drawn[s]))]
      /\ UNCHANGED <<committed, op, ambient, adding, interned, swept, history>>
  BY DEF Insert, Laid, Put
<1>2. PICK label \in {"draw", "leave"} :
         pc' = [pc EXCEPT ![s] = label] /\ (label = "draw" => Writing(s))
  BY <1>1, AfterTupleLabel
<1>3. used + 1 > used /\ used <= used' BY <1>1, FinalParts
<1> QED BY <1>1, <1>2, <1>3, LaidFinal DEF history

LEMMA DeriveFinal ==
    ASSUME FinalInv, LandInv', NEW s \in Sessions, Derive(s)
    PROVE  FinalInv'
<1>1. /\ pc[s] = "derive" /\ pc' = [pc EXCEPT ![s] = "update"]
      /\ UNCHANGED <<committed, clocks, op, ambient, dropping, adding, interned, swept, history>>
  BY DEF Derive, Goto
<1>2. CASE Locks(s)
  <2>1. draft' = [draft EXCEPT ![s] = Overlaid(draft[s], found[s], View(s, found[s]))]
    BY <1>2 DEF Derive, Laid, Put
  <2>2. Stored(s, found[s]) BY <1>2 DEF Locks
  <2>3. used <= used' BY <1>1, FinalParts DEF clocks
  <2> QED BY <1>1, <2>1, <2>2, <2>3, LaidFinal DEF history
<1>3. CASE ~Locks(s)
  <2>1. draft' = draft BY <1>3 DEF Derive
  <2>2. OperationFits(s)'
    BY <1>1, <2>1 DEF OperationFits, Writing, FinalInv, SessionFinal, LandInv, TypeOK, SessionsTypeOK
  <2> QED BY <1>1, <2>1, <2>2, MoveFinal DEF clocks, overlay
<1> QED BY <1>2, <1>3

LEMMA UpdateFinal ==
    ASSUME FinalInv, LandInv', NEW s \in Sessions, Update(s)
    PROVE  FinalInv'
<1>1. /\ pc[s] = "update" /\ AfterTuple(s) /\ Stored(s, found[s])
      /\ draft' = [draft EXCEPT ![s] = Overlaid(draft[s], found[s], Saved(s))]
      /\ UNCHANGED <<committed, clocks, op, ambient, adding, interned, swept, reborn>>
  BY DEF Update, Laid, Put
<1>2. PICK label \in {"draw", "leave"} :
         pc' = [pc EXCEPT ![s] = label] /\ (label = "draw" => Writing(s))
  BY <1>1, AfterTupleLabel
<1>3. View(s, found[s]).edge = Saved(s).edge BY DEF Saved
<1>4. used <= used' BY <1>1, FinalParts DEF clocks
<1> QED BY <1>1, <1>2, <1>3, <1>4, LaidFinal

LEMMA ReinsertFinal ==
    ASSUME FinalInv, LandInv', NEW s \in Sessions, Reinsert(s)
    PROVE  FinalInv'
<1>1. PICK row :
         draft' = [draft EXCEPT ![s] = Overlaid(draft[s], found[s], row)]
  BY DEF Reinsert, Laid, Put
<1>2. /\ pc[s] = "update" /\ AfterTuple(s) /\ reborn' = reborn \cup {found[s]}
      /\ UNCHANGED <<committed, clocks, op, ambient, adding, interned, swept>>
  BY DEF Reinsert
<1>3. PICK label \in {"draw", "leave"} :
         pc' = [pc EXCEPT ![s] = label] /\ (label = "draw" => Writing(s))
  BY <1>2, AfterTupleLabel
<1>4. used <= used' BY <1>2, FinalParts DEF clocks
<1> QED BY <1>1, <1>2, <1>3, <1>4, LaidFinal

LEMMA BulkCreateFinal ==
    ASSUME FinalInv, LandInv', NEW s \in Sessions, BulkCreate(s)
    PROVE  FinalInv'
<1> DEFINE held == Holding(s, CurrentTuple(s))
<1>1. /\ pc[s] = "bulk" /\ pc' = [pc EXCEPT ![s] = "leave"]
      /\ UNCHANGED <<committed, op, ambient, dropping, adding, interned, swept, history>>
  BY DEF BulkCreate, Goto
<1>2. CASE /\ used' = used + 1
           /\ draft' = [draft EXCEPT ![s] = Overlaid(draft[s], used + 1, Fresh(Current(s), 0))]
  <2>1. used + 1 > used /\ used <= used' BY <1>2, FinalParts
  <2> QED BY <1>1, <1>2, <2>1, LaidFinal DEF history
<1>3. ASSUME NEW i \in held, used' = used,
             draft' = [draft EXCEPT ![s] = Overlaid(draft[s], i, Fresh(Current(s), View(s, i).xid))]
      PROVE  FinalInv'
  <2>1. Stored(s, i) /\ View(s, i).edge = Fresh(Current(s), View(s, i).xid).edge
    BY DEF Holding, Identity, CurrentTuple, Fresh
  <2>2. used <= used' BY <1>3, FinalParts
  <2> QED BY <1>1, <1>3, <2>1, <2>2, LaidFinal DEF history
<1>4. CASE UNCHANGED <<draft, used>>
  <2>1. OperationFits(s)'
    BY <1>1, <1>4 DEF OperationFits, Writing, FinalInv, SessionFinal, LandInv, TypeOK, SessionsTypeOK
  <2> QED BY <1>1, <1>4, <2>1, MoveFinal DEF overlay
<1> QED BY <1>2, <1>3, <1>4 DEF BulkCreate, Laid, Put

\* Rows that are deleted.
LEMMA ErasedFinal ==
    ASSUME FinalInv, LandInv', NEW s \in Sessions, NEW R, NEW W,
           pc' = [pc EXCEPT ![s] = "leave"],
           draft' = [draft EXCEPT ![s] = [i \in DOMAIN draft[s] \cup R |->
                                            IF i \in R THEN Gone ELSE draft[s][i]]],
           swept' = [swept EXCEPT ![s] = W],
           UNCHANGED <<committed, used, op, ambient, adding, interned, history>>,
           (pc[s] # "sweep" /\ W = swept[s]) \/ SweptFits(s)'
    PROVE  FinalInv'
<1>0. W = swept[s] => swept'[s] = swept[s]
  BY DEF FinalInv, LandInv, TypeOK, OverlayTypeOK
<1>1. Undisturbed(s)
  BY DEF Undisturbed, Others, FinalInv, LandInv, TypeOK, SessionsTypeOK, OverlayTypeOK
<1>2. /\ DOMAIN draft'[s] = DOMAIN draft[s] \cup R /\ pc'[s] = "leave"
      /\ \A i \in DOMAIN draft'[s] : draft'[s][i] = IF i \in R THEN Gone ELSE draft[s][i]
  BY DEF FinalInv, LandInv, TypeOK, SessionsTypeOK, OverlayTypeOK
<1>3. Rewrites(s) BY <1>2 DEF Rewrites, Stored, View
<1>4. OperationFits(s)'
  BY <1>2 DEF OperationFits, FinalInv, SessionFinal
<1>5. used <= used' BY FinalParts
<1> QED BY <1>0, <1>1, <1>2, <1>3, <1>4, <1>5, WriteFinal DEF history

LEMMA RemoveFinal ==
    ASSUME FinalInv, LandInv', NEW s \in Sessions, Remove(s)
    PROVE  FinalInv'
<1>1. PICK R : R = Matched(s) OBVIOUS
<1>2. /\ draft' = [draft EXCEPT ![s] = [i \in DOMAIN draft[s] \cup R |->
                                           IF i \in R THEN Gone ELSE draft[s][i]]]
      /\ swept' = [swept EXCEPT ![s] = R] /\ pc' = [pc EXCEPT ![s] = "leave"]
      /\ UNCHANGED <<committed, used, op, ambient, adding, interned, history>>
  BY <1>1 DEF Remove, Erased, Goto, Put, clocks
<1>3. \A i \in R : i <= used
  <2>1. ASSUME NEW i \in R PROVE i <= used
    <3>1. PICK n \in op[s].names : i \in Holding(s, [edge |-> op[s].edge, name |-> n])
      BY <1>1 DEF Matched
    <3> QED BY <3>1, HeldIsStored DEF FinalInv
  <2> QED BY <2>1
<1>4. /\ swept'[s] = R
      /\ \A i \in R : i \in DOMAIN draft'[s] /\ draft'[s][i] = Gone
  BY <1>2 DEF Others, FinalInv, LandInv, TypeOK, OverlayTypeOK
<1>5. SweptFits(s)' BY <1>2, <1>3, <1>4 DEF SweptFits, Doomed
<1> QED BY <1>2, <1>5, ErasedFinal

LEMMA EraseFinal ==
    ASSUME FinalInv, LandInv', NEW s \in Sessions, Erase(s)
    PROVE  FinalInv'
<1>1. PICK R : R = {i \in {found[s]} : Stored(s, i)} OBVIOUS
<1>2. /\ draft' = [draft EXCEPT ![s] = [i \in DOMAIN draft[s] \cup R |->
                                           IF i \in R THEN Gone ELSE draft[s][i]]]
      /\ pc[s] = "erase" /\ pc' = [pc EXCEPT ![s] = "leave"]
      /\ UNCHANGED <<committed, used, op, ambient, adding, interned, swept, history>>
  BY <1>1 DEF Erase, Erased, Goto, Put, clocks
<1>3. PICK W : W = swept[s] OBVIOUS
<1>4. swept' = [swept EXCEPT ![s] = W]
  <2>1. swept \in [Sessions -> SUBSET Ids] BY DEF FinalInv, LandInv, TypeOK, OverlayTypeOK
  <2> QED BY <1>2, <1>3, <2>1
<1>5. pc[s] # "sweep" BY <1>2
<1> QED BY <1>2, <1>3, <1>4, <1>5, ErasedFinal

LEMMA SweepFinal ==
    ASSUME FinalInv, LandInv', NEW s \in Sessions, Sweep(s)
    PROVE  FinalInv'
<1>1. PICK R : R = Naming(s, op[s].object) OBVIOUS
<1>2. /\ draft' = [draft EXCEPT ![s] = [i \in DOMAIN draft[s] \cup R |->
                                           IF i \in R THEN Gone ELSE draft[s][i]]]
      /\ swept' = [swept EXCEPT ![s] = swept[s] \cup R]
      /\ pc[s] = "sweep" /\ pc' = [pc EXCEPT ![s] = "leave"]
      /\ UNCHANGED <<committed, used, op, ambient, adding, interned, history>>
  BY <1>1 DEF Sweep, Sweeps, Erased, Goto, Put, clocks
<1>3. /\ swept'[s] = swept[s] \cup R
      /\ draft'[s] = [i \in R |-> Gone]
      /\ \A z \in Others(s) : draft'[z] = draft[z]
  <2>1. draft[s] = << >> BY <1>2 DEF FinalInv, SessionFinal, OperationFits
  <2> QED BY <1>2, <2>1 DEF Others, FinalInv, LandInv, TypeOK, OverlayTypeOK
<1>4. SweptFits(s)'
  <2> SUFFICES ASSUME NEW i \in swept[s] \cup R, i \notin reborn PROVE i <= used /\ Doomed(s, i)'
    BY <1>2, <1>3 DEF SweptFits, history
  <2>1. draft[s] = << >> BY <1>2 DEF FinalInv, SessionFinal, OperationFits
  <2>2. CASE i \in R
    <3>1. i <= used BY <1>1, <2>2, NamingIsStored DEF FinalInv
    <3> QED BY <1>3, <2>2, <3>1 DEF Doomed
  <2>3. CASE i \notin R
    <3>1. i \in Ids /\ i <= used /\ Doomed(s, i)
      BY <2>3, FinalParts DEF FinalInv, SessionFinal, SweptFits
    <3>2. CASE Dead(i)
      <4>1. rows'[i] = Gone BY <1>2, <3>2 DEF Dead, committed
      <4>2. Dead(i)' BY <1>3, <3>2, <4>1 DEF Dead, Others
      <4> QED BY <3>1, <4>2 DEF Doomed
    <3>3. CASE i \in DOMAIN draft[s] BY <2>1, <3>3
    <3>4. CASE rows[i] # Gone /\ op[s].object \in Ends[rows[i].edge]
      BY <1>1, <2>1, <2>3, <3>1, <3>4 DEF Naming, Stored, View
    <3> QED BY <3>1, <3>2, <3>3, <3>4 DEF Doomed
  <2> QED BY <2>2, <2>3
<1> QED BY <1>2, <1>4, ErasedFinal

-----------------------------------------------------------------------------
(* The invariant.                                                          *)

LEMMA FinalInitially == Init => FinalInv
<1> SUFFICES ASSUME Init PROVE FinalInv
  OBVIOUS
<1>1. LandInv BY LandInitially
<1>2. used \in Nat BY <1>1, StoreAssumption DEF StoreAssumption, LandInv, TypeOK, DatabaseTypeOK
<1>3. BuriedFit /\ RegistryFits
  <2>1. BuriedFit BY DEF Init, BuriedFit
  <2>2. resources # {} => registry BY DEF Init
  <2>3. \A o \in Objects : cascaded[o] = 0 BY DEF Init
  <2> QED BY <1>2, <2>1, <2>2, <2>3 DEF RegistryFits
<1>4. CascadesAreWhole
  <2> SUFFICES ASSUME NEW i \in Ids, rows[i] # Gone, NEW o \in Ends[rows[i].edge]
               PROVE  i > cascaded[o]
    BY DEF CascadesAreWhole
  <2>1. rows[i] \in Row BY <1>1 DEF LandInv, TypeOK, DatabaseTypeOK
  <2>2. o \in Objects BY <2>1, RowParts, StoreAssumption DEF StoreAssumption
  <2>3. cascaded[o] = 0 BY <2>2 DEF Init
  <2> QED BY <2>3 DEF Ids
<1>5. ASSUME NEW s \in Sessions PROVE SessionFinal(s)
  <2>1. SweptFits(s) /\ EdgesFit(s) /\ NewTuplesFit(s)
    BY DEF Init, SweptFits, EdgesFit, NewTuplesFit
  <2>2. OperationFits(s) BY DEF Init, OperationFits
  <2>3. ResourcesFit(s) BY DEF Init, ResourcesFit, Others
  <2> QED BY <2>1, <2>2, <2>3 DEF SessionFinal
<1> QED BY <1>1, <1>3, <1>4, <1>5 DEF FinalInv

LEMMA FinalStutters ==
    ASSUME FinalInv, LandInv', UNCHANGED vars
    PROVE  FinalInv'
<1>1. UNCHANGED <<registry, rows, resources, epoch, buried, cascaded, used, pc, op, ambient,
                  draft, adding, interned, swept, reborn>>
  BY DEF vars, committed, clocks, overlay, history
<1>2. \A i : Dead(i)' <=> Dead(i) BY <1>1 DEF Dead
<1>3. BuriedFit' /\ RegistryFits' /\ CascadesAreWhole'
  BY <1>1, <1>2 DEF FinalInv, BuriedFit, RegistryFits, CascadesAreWhole
<1>4. ASSUME NEW s \in Sessions PROVE SessionFinal(s)'
  <2>1. SessionFinal(s) BY DEF FinalInv
  <2>2. SweptFits(s)' BY <1>1, <1>2, <2>1 DEF SessionFinal, SweptFits, Doomed
  <2>3. OperationFits(s)' BY <1>1, <2>1 DEF SessionFinal, OperationFits, Writing
  <2>4. EdgesFit(s)' BY <1>1, <2>1 DEF SessionFinal, EdgesFit
  <2>5. ResourcesFit(s)' BY <1>1, <2>1 DEF SessionFinal, ResourcesFit
  <2>6. NewTuplesFit(s)' BY <1>1, <2>1 DEF SessionFinal, NewTuplesFit, NewTupleFits
  <2> QED BY <2>2, <2>3, <2>4, <2>5, <2>6 DEF SessionFinal
<1> QED BY <1>3, <1>4 DEF FinalInv

LEMMA FinalInductive == FinalInv /\ [Next]_vars => FinalInv'
<1> SUFFICES ASSUME FinalInv, [Next]_vars PROVE FinalInv'
  OBVIOUS
<1>0. LandInv' BY LandInductive DEF FinalInv
<1>1. CASE UNCHANGED vars BY <1>0, <1>1, FinalStutters
<1>2. ASSUME NEW s \in Sessions,
             Start(s) \/ WriteStep(s) \/ SaveStep(s) \/ DeleteStep(s) \/ HelperStep(s) \/ EndStep(s)
      PROVE  FinalInv'
  <2>1. CASE Fail(s) BY <1>0, <2>1, FailFinal
  <2>2. CASE WriteStep(s)
    BY <1>0, <2>1, <2>2, InternFinal, ResolveFinal, DrawFinal, StoreXidFinal, FindFinal, InsertFinal
    DEF WriteStep, Unresolved, Duplicate
  <2>3. CASE SaveStep(s)
    BY <1>0, <2>1, <2>3, DeriveFinal, UpdateFinal, ReinsertFinal, BulkCreateFinal
    DEF SaveStep, UpdateNothing, Lost, UpdateRefused, BulkRefused
  <2>4. CASE DeleteStep(s)
    BY <1>0, <2>4, LookFinal, RemoveFinal, EraseFinal, DropFinal, DropNothingFinal, SweepFinal
    DEF DeleteStep
  <2>5. CASE HelperStep(s) BY <1>0, <2>5, TokenFinal, GetFinal DEF HelperStep
  <2>6. CASE EndStep(s)
    BY <1>0, <2>1, <2>6, LeaveFinal, CommitFinal, ReturnFinal
    DEF EndStep, IntegrityError, DatabaseError
  <2> QED BY <1>0, <1>2, <2>2, <2>3, <2>4, <2>5, <2>6, StartFinal
<1> QED BY <1>1, <1>2 DEF Next

\* What a committed deletion took stays gone, whoever had found it before, unless
\* a whole save brings it back; in registry storage no tuple survives the deletion
\* of a resource it names, either (cleanup_identities, delete_relationships,
\* _save_table, the foreign keys of RelationshipRegistry).
THEOREM DeletedStaysDeleted == Spec => []DeletionsAreFinal
<1>1. Init => FinalInv BY FinalInitially
<1>2. FinalInv /\ [Next]_vars => FinalInv' BY FinalInductive
<1>3. FinalInv => DeletionsAreFinal
  BY DEF FinalInv, BuriedFit, Dead, DeletionsAreFinal, BuriedStayGone
<1> QED BY <1>1, <1>2, <1>3, PTL DEF Spec
=============================================================================
