-------------------------- MODULE GatedWrites_proofs --------------------------
(***************************************************************************)
(* Proofs about GatedWrites, for any rows, containers, sessions and        *)
(* operations, of a database whose policy was published before.            *)
(***************************************************************************)
EXTENDS GatedWrites, TLAPS

USE DEF Put, Goto

\* The kinds of operations, and what each has.
LEMMA OperationParts ==
    ASSUME NEW o \in Operations \cup {Nothing}
    PROVE  /\ o.kind = "save" => o \in Saves /\ o.row \in Rows /\ o.to \in Containers
                                 /\ o.edge \in BOOLEAN /\ o.dry \in BOOLEAN
           /\ o.kind = "insert" => o \in Inserts /\ o.row \in Rows /\ o.to \in Containers
                                   /\ o.dry \in BOOLEAN
           /\ o.kind = "remove" => o.row \in Rows
           /\ o.kind = "update" => o.to \in Containers \cup {Gone}
           /\ o.kind = "links" => o.with \subseteq Containers
                                  /\ o.verb \in {"add", "remove", "clear"}
           /\ o.kind = "none" <=> o = Nothing
           /\ o.kind \in {"save", "insert", "remove", "update", "delete", "links", "none"}
BY DEF Operations, Saves, Inserts, Removals, Updates, Deletes, Through, Nothing

\* What a session sees of a row is a row, or that it is gone.
LEMMA ViewType ==
    ASSUME TypeOK, NEW s \in Sessions, NEW r \in Rows
    PROVE  /\ View(s, r) \in Row \cup {Gone}
           /\ Exists(s, r) => View(s, r) \in Row /\ View(s, r).at \in Containers
           /\ Stored(s, r) \in Containers \cup {Gone}
           /\ Exists(s, r) <=> Stored(s, r) # Gone
<1>1. View(s, r) \in Row \cup {Gone}
  <2>1. \A q \in DOMAIN draft[s] : draft[s][q] \in Row \cup {Gone} BY DEF TypeOK
  <2>2. rows[r] \in Row \cup {Gone} BY DEF TypeOK
  <2> QED BY <2>1, <2>2 DEF View
<1>2. Gone \notin Row /\ Gone \notin Containers BY GatedAssumption DEF GatedAssumption
<1>3. \A v \in Row : v.at \in Containers BY DEF Row
<1> QED BY <1>1, <1>2, <1>3 DEF Exists, Stored

\* The places statements are about.
LEMMA ScanTypes ==
    ASSUME TypeOK, NEW s \in Sessions
    PROVE  /\ Matching(s) \subseteq Rows /\ Statement(s) \subseteq Matching(s)
           /\ Replaced(s) \subseteq Rows /\ Linked(s) \subseteq Containers
           /\ \A r \in Matching(s) : Exists(s, r)
<1>1. links \subseteq Containers /\ present[s] \subseteq Containers BY DEF TypeOK
<1> QED BY <1>1 DEF Matching, Statement, Replaced, Linked

\* What an edge check asks of are containers.
LEMMA EndsType ==
    ASSUME TypeOK, NEW s \in Sessions, NEW R \in SUBSET Rows, \A r \in R : Exists(s, r),
           op[s].kind \in {"save", "insert", "update"}, MovesEdge(s)
    PROVE  Ends(s, R) \subseteq Containers
<1>1. op[s] \in Operations \cup {Nothing} BY DEF TypeOK
<1>2. op[s].to \in Containers BY <1>1, OperationParts DEF MovesEdge
<1> QED BY <1>2, ViewType DEF Ends

-----------------------------------------------------------------------------
(* Types.                                                                  *)

\* The end of a transaction leaves everything it touches well typed.
LEMMA UnwindTypes ==
    ASSUME TypeOK, Kept, NEW s \in Sessions, NEW label \in Labels, Unwind(s, label)
    PROVE  /\ pc' \in [Sessions -> Labels] /\ lock' \in [Rows -> Sessions \cup {None}]
           /\ asked' \in [Sessions -> SUBSET Containers]
           /\ scanned' \in [Sessions -> SUBSET Rows] /\ roots' \in [Sessions -> SUBSET Rows]
           /\ exempt' \in [Sessions -> SUBSET Containers]
           /\ crossed' \in [Sessions -> SUBSET Containers]
           /\ present' \in [Sessions -> SUBSET Containers]
           /\ pinned' \in [Sessions -> SUBSET Rows]
           /\ DOMAIN draft' = Sessions
           /\ \A u \in Sessions : draft'[u] = IF u = s THEN << >> ELSE draft[u]
           /\ \A u \in Sessions :
                 /\ DOMAIN draft'[u] \subseteq Rows
                 /\ \A r \in DOMAIN draft'[u] : draft'[u][r] \in Row \cup {Gone}
<1>1. DOMAIN << >> = {} OBVIOUS
<1>2. /\ DOMAIN draft' = Sessions
      /\ \A u \in Sessions : draft'[u] = IF u = s THEN << >> ELSE draft[u]
  BY DEF Kept, Unwind
<1>3. ASSUME NEW u \in Sessions
      PROVE  /\ DOMAIN draft'[u] \subseteq Rows
             /\ \A r \in DOMAIN draft'[u] : draft'[u][r] \in Row \cup {Gone}
  <2>1. CASE u = s BY <1>1, <1>2, <2>1
  <2>2. CASE u # s BY <1>2, <2>2 DEF TypeOK
  <2> QED BY <2>1, <2>2
<1>4. /\ pc' \in [Sessions -> Labels] /\ lock' \in [Rows -> Sessions \cup {None}]
      /\ asked' \in [Sessions -> SUBSET Containers]
      /\ scanned' \in [Sessions -> SUBSET Rows] /\ roots' \in [Sessions -> SUBSET Rows]
      /\ exempt' \in [Sessions -> SUBSET Containers]
  BY DEF TypeOK, Unwind
<1>5. /\ crossed' \in [Sessions -> SUBSET Containers]
      /\ present' \in [Sessions -> SUBSET Containers]
      /\ pinned' \in [Sessions -> SUBSET Rows]
  BY DEF TypeOK, Unwind
<1> QED BY <1>2, <1>3, <1>4, <1>5

\* A rollback.
LEMMA RollbackTypes ==
    ASSUME TypeOK, Kept, NEW s \in Sessions, NEW label \in {"done", "denied"},
           Rollback(s, label),
           refused' \in [Sessions -> Places \cup {None}], trail' \in [Sessions -> SUBSET Places]
    PROVE  TypeOK'
<1>1. UNCHANGED <<rows, links, grants, policy, changes, writes, op, held, keys, judged, guarded>>
  BY DEF Rollback, db
<1>2. Unwind(s, label) /\ label \in Labels BY DEF Rollback, Labels
<1>3. moved' \in [Sessions -> SUBSET (Rows \X (Containers \cup {Gone}) \X (Containers \cup {Gone}))]
  BY DEF Rollback, TypeOK
<1> QED BY <1>1, <1>2, <1>3, UnwindTypes DEF TypeOK

\* A denial.
LEMMA RefuseTypes ==
    ASSUME TypeOK, Kept, NEW s \in Sessions, NEW resource \in Places, NEW again \in BOOLEAN,
           Refuse(s, resource, again)
    PROVE  TypeOK'
<1>1. refused' \in [Sessions -> Places \cup {None}] /\ trail' \in [Sessions -> SUBSET Places]
  BY DEF Refuse, TypeOK
<1> QED BY <1>1, RollbackTypes DEF Refuse

-----------------------------------------------------------------------------
(* The properties, session by session, and what a step leaves alone.       *)

EdgesJudged(s) ==
    Scoped(s) /\ Watched(s) /\ MovesEdge(s) =>
        \A m \in moved[s] : m[1] \in pinned[s] /\ m[2] # m[3] => {m[2], m[3]} \subseteq judged[s]

EntriesJudged(s) ==
    Scoped(s) /\ Watched(s) /\ op[s].kind \in {"save", "insert"} /\ MovesEdge(s) =>
        \A m \in moved[s] : m[2] # m[3] => m[3] \in judged[s]

KeysBound(s) ==
    Scoped(s) /\ op[s].kind \in {"update", "delete"} => \A m \in moved[s] : m[1] \in keys[s]

UpdatesGuarded(s) ==
    Scoped(s) /\ Watched(s) /\ MovesEdge(s) /\ op[s].kind = "update" =>
        \A m \in moved[s] : m[1] \in pinned[s] => m[1] \in guarded[s]

PairsJudged(s) ==
    Scoped(s) /\ op[s].kind = "links" /\ pc[s] = "commit" /\ Gating(s) =>
        crossed[s] \subseteq judged[s]

DenialAudited(s) ==
    pc[s] = "denied" =>
        IF Dry(s) THEN trail[s] = {}
        ELSE \/ op[s].kind \in {"update", "delete"} /\ refused[s] \in Rows
             \/ trail[s] = {refused[s]}

WritesNothing(s) == Dry(s) => draft[s] = << >> /\ moved[s] = {}

Honest(s) ==
    /\ EdgesJudged(s) /\ EntriesJudged(s) /\ KeysBound(s) /\ UpdatesGuarded(s)
    /\ PairsJudged(s) /\ DenialAudited(s) /\ WritesNothing(s)

\* The properties say the same of every session.
LEMMA PropertiesBySession ==
    WritesAreJudged /\ QuerysetWritesAreBounded /\ OnlyAuditRowsRemain
        <=> \A s \in Sessions : Honest(s)
BY DEF WritesAreJudged, QuerysetWritesAreBounded, OnlyAuditRowsRemain, EdgesAreJudged,
       EntriesAreJudged, PairsAreJudged, KeysBoundTheWrite, GuardedUpdates, DenialsAreAudited,
       RehearsalsWriteNothing, Honest, EdgesJudged, EntriesJudged, KeysBound, UpdatesGuarded,
       PairsJudged, DenialAudited, WritesNothing, Gating

LEMMA PropertiesBySessionAfter ==
    (WritesAreJudged /\ QuerysetWritesAreBounded /\ OnlyAuditRowsRemain)'
        <=> \A s \in Sessions : Honest(s)'
BY DEF WritesAreJudged, QuerysetWritesAreBounded, OnlyAuditRowsRemain, EdgesAreJudged,
       EntriesAreJudged, PairsAreJudged, KeysBoundTheWrite, GuardedUpdates, DenialsAreAudited,
       RehearsalsWriteNothing, Honest, EdgesJudged, EntriesJudged, KeysBound, UpdatesGuarded,
       PairsJudged, DenialAudited, WritesNothing, Gating,
       Scoped, Watched, MovesEdge, Dry

\* A session that takes no step.
Rests(u) ==
    /\ pc'[u] = pc[u] /\ op'[u] = op[u] /\ held'[u] = held[u] /\ keys'[u] = keys[u]
    /\ scanned'[u] = scanned[u] /\ exempt'[u] = exempt[u] /\ asked'[u] = asked[u]
    /\ draft'[u] = draft[u] /\ crossed'[u] = crossed[u] /\ judged'[u] = judged[u]
    /\ guarded'[u] = guarded[u] /\ pinned'[u] = pinned[u] /\ moved'[u] = moved[u]
    /\ refused'[u] = refused[u] /\ trail'[u] = trail[u]

\* What it locked, nobody takes or changes.
Respects(u) == \A r \in Rows : lock[r] = u => lock'[r] = u /\ rows'[r] = rows[r]

\* It sees the rows it locked as before.
LEMMA SeesTheSame ==
    ASSUME NEW u \in Sessions, Rests(u), Respects(u), NEW r \in Rows, lock[r] = u
    PROVE  View(u, r)' = View(u, r) /\ Exists(u, r)' = Exists(u, r) /\ Stored(u, r)' = Stored(u, r)
BY DEF Rests, Respects, View, Exists, Stored

\* So a session that rests is gated as before.
LEMMA RestingFits ==
    ASSUME IInv, NEW u \in Sessions, Rests(u), Respects(u)
    PROVE  SessionFits(u)' /\ Honest(u)'
<1>1. SessionFits(u) /\ Honest(u) BY PropertiesBySession DEF IInv, Kept
<1>2. \A r \in pinned[u] :
         /\ r \in Rows /\ lock[r] = u /\ View(u, r)' = View(u, r)
         /\ Exists(u, r)' = Exists(u, r) /\ Stored(u, r)' = Stored(u, r)
  BY <1>1, SeesTheSame DEF SessionFits, LocksHold, IInv, TypeOK
<1>3. PhaseFits(u)' /\ WritesComeLast(u)' /\ PairsAreGated(u)'
  BY <1>1 DEF SessionFits, PhaseFits, WritesComeLast, PairsAreGated, Gating, Rests, Dry, Scoped
<1>4. LocksHold(u)'
  <2>1. DOMAIN draft[u] \subseteq Rows /\ pinned[u] \subseteq Rows BY DEF IInv, TypeOK
  <2> QED BY <1>1, <2>1 DEF SessionFits, LocksHold, Rests, Respects
<1>5. MovesEdge(u)' = MovesEdge(u) /\ Watched(u)' = Watched(u) /\ Scoped(u)' = Scoped(u)
      /\ Dry(u)' = Dry(u)
  BY DEF Rests, MovesEdge, Watched, Scoped, Dry
<1>6. PinsAreGated(u)'
  <2>1. Ends(u, pinned[u])' = Ends(u, pinned[u])
    <3>1. pinned'[u] = pinned[u] /\ op'[u] = op[u] BY DEF Rests
    <3>2. \A r \in pinned[u] : Stored(u, r)' = Stored(u, r) BY <1>2
    <3>3. {Stored(u, r) : r \in pinned[u]}' = {Stored(u, r) : r \in pinned[u]} BY <3>1, <3>2
    <3> QED BY <3>1, <3>3 DEF Ends
  <2> QED BY <1>1, <1>5, <2>1 DEF SessionFits, PinsAreGated, Rests
<1>7. QuerysetsAreGated(u)'
  <2>1. \A r \in pinned[u] : r \in Statement(u)' => r \in Statement(u)
    BY <1>2, <1>5 DEF Statement, Matching, Rests
  <2> QED BY <1>1, <1>5, <2>1 DEF SessionFits, QuerysetsAreGated, Rests
<1>8. Honest(u)'
  BY <1>1, <1>5 DEF Rests, Honest, EdgesJudged, EntriesJudged, KeysBound, UpdatesGuarded,
                    PairsJudged, DenialAudited, WritesNothing, Gating
<1> QED BY <1>3, <1>4, <1>6, <1>7, <1>8 DEF SessionFits

\* A step is right if it is right for the session that takes it.
LEMMA StepFits ==
    ASSUME IInv, NEW s \in Sessions, TypeOK', policy' # "none", DOMAIN draft' = Sessions,
           \A u \in Sessions \ {s} : Rests(u) /\ Respects(u),
           SessionFits(s)', Honest(s)'
    PROVE  IInv'
<1>1. \A u \in Sessions : SessionFits(u)' /\ Honest(u)' BY RestingFits
<1> QED BY <1>1, PropertiesBySessionAfter DEF IInv, Kept

-----------------------------------------------------------------------------
(* The beginning and the end of an operation.                              *)

\* A session that ends its transaction leaves the others alone.
LEMMA UnwindRespects ==
    ASSUME IInv, NEW s \in Sessions, NEW label \in Labels, Unwind(s, label),
           UNCHANGED <<op, held, keys, judged, guarded>>,
           \A u \in Sessions \ {s} :
              moved'[u] = moved[u] /\ refused'[u] = refused[u] /\ trail'[u] = trail[u],
           \A r \in Rows : lock[r] # s => rows'[r] = rows[r]
    PROVE  \A u \in Sessions \ {s} : Rests(u) /\ Respects(u)
<1> SUFFICES ASSUME NEW u \in Sessions \ {s} PROVE Rests(u) /\ Respects(u) OBVIOUS
<1>1. draft'[u] = draft[u] BY DEF Unwind, IInv, Kept
<1>2. Respects(u) BY DEF Unwind, Respects, IInv, TypeOK
<1> QED BY <1>1, <1>2 DEF Unwind, Rests, IInv, TypeOK

\* A session whose transaction is over has nothing pinned, drafted or crossed.
LEMMA UnwoundFits ==
    ASSUME IInv, NEW s \in Sessions, pc[s] # "idle", NEW label \in {"done", "denied"},
           Unwind(s, label), op' = op, label = "denied" => moved'[s] = {}
    PROVE  SessionFits(s)'
<1>1. /\ pc'[s] = label /\ pinned'[s] = {} /\ crossed'[s] = {} /\ draft'[s] = << >>
      /\ op'[s] # Nothing
  BY DEF Unwind, IInv, TypeOK, Kept, SessionFits, PhaseFits
<1>2. DOMAIN << >> = {} OBVIOUS
<1> QED BY <1>1, <1>2
    DEF SessionFits, PhaseFits, WritesComeLast, LocksHold, PinsAreGated, QuerysetsAreGated,
        PairsAreGated, Related, Fetching

LEMMA RollbackFits ==
    ASSUME IInv, NEW s \in Sessions, pc[s] # "idle", NEW label \in {"done", "denied"},
           Rollback(s, label), TypeOK', DenialAudited(s)',
           \A u \in Sessions \ {s} : refused'[u] = refused[u] /\ trail'[u] = trail[u]
    PROVE  IInv'
<1>1. Unwind(s, label) /\ label \in Labels BY DEF Rollback, Labels
<1>2. /\ UNCHANGED <<rows, policy, op, held, keys, judged, guarded>>
      /\ moved'[s] = {} /\ \A u \in Sessions \ {s} : moved'[u] = moved[u]
  BY DEF Rollback, db, IInv, TypeOK
<1>3. \A u \in Sessions \ {s} : Rests(u) /\ Respects(u)
  BY <1>1, <1>2, UnwindRespects
<1>4. SessionFits(s)' BY <1>1, <1>2, UnwoundFits
<1>5. draft'[s] = << >> /\ pc'[s] = label /\ DOMAIN draft' = Sessions
  BY <1>1 DEF Unwind, IInv, TypeOK, Kept
<1>6. Honest(s)'
  BY <1>2, <1>5 DEF Honest, EdgesJudged, EntriesJudged, KeysBound, UpdatesGuarded, PairsJudged,
                    WritesNothing
<1> QED BY <1>2, <1>3, <1>4, <1>5, <1>6, StepFits DEF IInv, Kept

\* A denial has its audit row, unless it was found by the guard of a queryset write.
LEMMA RefuseFits ==
    ASSUME IInv, NEW s \in Sessions, pc[s] # "idle", NEW resource \in Places,
           NEW again \in BOOLEAN, Refuse(s, resource, again),
           again \/ (op[s].kind \in {"update", "delete"} /\ resource \in Rows)
    PROVE  IInv'
<1>1. TypeOK' BY RefuseTypes DEF IInv
<1>2. /\ Rollback(s, "denied") /\ op' = op
      /\ refused'[s] = resource /\ trail'[s] = IF again /\ ~Dry(s) THEN {resource} ELSE {}
      /\ \A u \in Sessions \ {s} : refused'[u] = refused[u] /\ trail'[u] = trail[u]
  BY DEF Refuse, Rollback, IInv, TypeOK
<1>3. DenialAudited(s)' BY <1>2 DEF DenialAudited, Dry
<1> QED BY <1>1, <1>2, <1>3, RollbackFits

LEMMA DatabaseErrorFits ==
    ASSUME IInv, NEW s \in Sessions, DatabaseError(s) \/ Rehearsed(s)
    PROVE  IInv'
<1>1. pc[s] # "idle" /\ Rollback(s, "done") /\ UNCHANGED <<refused, trail>>
  BY DEF DatabaseError, Rehearsed
<1>2. TypeOK' BY <1>1, RollbackTypes DEF IInv, TypeOK
<1>3. pc'[s] = "done" BY <1>1 DEF Rollback, Unwind, IInv, TypeOK
<1> QED BY <1>1, <1>2, <1>3, RollbackFits DEF DenialAudited

\* A commit stores only rows its session locked.
LEMMA CommitFits ==
    ASSUME IInv, NEW s \in Sessions, Commit(s)
    PROVE  IInv'
<1>1. /\ pc[s] = "commit" /\ Unwind(s, "done") /\ "done" \in Labels
      /\ rows' = [r \in Rows |-> View(s, r)] /\ links' = Linked(s)
      /\ UNCHANGED <<grants, policy, changes, writes, op, held, keys, judged, guarded,
                     moved, refused, trail>>
  BY DEF Commit, Labels
<1>2. TypeOK'
  <2>1. rows' \in [Rows -> Row \cup {Gone}] /\ links' \subseteq Containers
    BY <1>1, ViewType, ScanTypes DEF IInv
  <2> QED BY <1>1, <2>1, UnwindTypes DEF IInv, TypeOK
<1>3. \A r \in Rows : lock[r] # s => rows'[r] = rows[r]
  BY <1>1 DEF View, IInv, Kept, SessionFits, LocksHold
<1>4. \A u \in Sessions \ {s} : Rests(u) /\ Respects(u) BY <1>1, <1>3, UnwindRespects
<1>5. SessionFits(s)' BY <1>1, UnwoundFits
<1>6. pc'[s] = "done" /\ pinned'[s] = {} /\ draft'[s] = << >> /\ DOMAIN draft' = Sessions
  BY <1>1 DEF Unwind, IInv, TypeOK, Kept
<1>7. Honest(s) BY PropertiesBySession DEF IInv
<1>8. Honest(s)'
  BY <1>1, <1>6, <1>7 DEF Honest, EdgesJudged, EntriesJudged, KeysBound, UpdatesGuarded, PairsJudged,
       DenialAudited, WritesNothing, MovesEdge, Watched, Dry
<1> QED BY <1>1, <1>2, <1>4, <1>5, <1>6, <1>8, StepFits DEF IInv, Kept

LEMMA FinishFits ==
    ASSUME IInv, NEW s \in Sessions, Finish(s)
    PROVE  IInv'
<1>1. /\ pc[s] \in {"done", "denied"}
      /\ UNCHANGED <<rows, links, grants, policy, changes, lock, writes, scanned, roots, exempt,
                     asked, draft, crossed, present, pinned>>
      /\ pc' = [pc EXCEPT ![s] = "idle"] /\ op' = [op EXCEPT ![s] = Nothing]
      /\ held' = [held EXCEPT ![s] = None] /\ keys' = [keys EXCEPT ![s] = {}]
      /\ judged' = [judged EXCEPT ![s] = {}] /\ guarded' = [guarded EXCEPT ![s] = {}]
      /\ moved' = [moved EXCEPT ![s] = {}] /\ refused' = [refused EXCEPT ![s] = None]
      /\ trail' = [trail EXCEPT ![s] = {}]
  BY DEF Finish, db
<1>2. TypeOK' BY <1>1 DEF IInv, TypeOK, Labels
<1>3. \A u \in Sessions \ {s} : Rests(u) /\ Respects(u)
  BY <1>1 DEF Rests, Respects, IInv, TypeOK
<1>4. pc'[s] = "idle" /\ op'[s] = Nothing /\ moved'[s] = {}
  BY <1>1 DEF IInv, TypeOK
<1>5. pinned[s] = {} /\ crossed[s] = {} /\ draft[s] = << >>
  BY <1>1 DEF IInv, Kept, SessionFits, PinsAreGated, PairsAreGated, WritesComeLast
<1>6. DOMAIN << >> = {} OBVIOUS
<1>7. SessionFits(s)'
  BY <1>1, <1>4, <1>5, <1>6
  DEF SessionFits, PhaseFits, WritesComeLast, LocksHold, PinsAreGated, QuerysetsAreGated,
      PairsAreGated, Related, Fetching, Dry, Nothing
<1>8. Honest(s)'
  BY <1>4, <1>1, <1>5 DEF Honest, EdgesJudged, EntriesJudged, KeysBound, UpdatesGuarded, PairsJudged,
       DenialAudited, WritesNothing
<1> QED BY <1>1, <1>2, <1>3, <1>7, <1>8, StepFits DEF IInv, Kept

LEMMA StartFits ==
    ASSUME IInv, NEW s \in Sessions, Start(s)
    PROVE  IInv'
<1>1. PICK o \in Operations :
         /\ op' = [op EXCEPT ![s] = o] /\ pc' = [pc EXCEPT ![s] = FirstStep(o)]
         /\ held' = [held EXCEPT ![s] = IF o.kind = "links" THEN None ELSE policy]
  BY DEF Start
<1>2. /\ pc[s] = "idle" /\ writes[s] < MaxWrites /\ writes' = [writes EXCEPT ![s] = writes[s] + 1]
      /\ UNCHANGED <<rows, links, grants, policy, changes, lock, keys, scanned, roots, exempt,
                     asked, draft, crossed, present, judged, guarded, pinned, moved, refused, trail>>
  BY DEF Start, db, scope, history
<1>3. /\ o.kind \in {"save", "insert", "remove", "update", "delete", "links"} /\ o # Nothing
      /\ FirstStep(o) = IF o.kind \in {"save", "insert", "remove"} THEN "check"
                        ELSE IF o.kind = "links" THEN "wrapper" ELSE "keys"
  BY OperationParts DEF FirstStep, Nothing, Operations, Saves, Inserts, Removals, Updates,
     Deletes, Through
<1>4. TypeOK'
  <2>1. writes' \in [Sessions -> 0..MaxWrites]
    BY <1>2, GatedAssumption DEF GatedAssumption, IInv, TypeOK
  <2> QED BY <1>1, <1>2, <1>3, <2>1 DEF IInv, TypeOK, Labels
<1>5. \A u \in Sessions \ {s} : Rests(u) /\ Respects(u)
  BY <1>1, <1>2 DEF Rests, Respects, IInv, TypeOK
<1>6. /\ pc'[s] = FirstStep(o) /\ op'[s] = o
      /\ pinned[s] = {} /\ crossed[s] = {} /\ draft[s] = << >> /\ moved[s] = {}
  BY <1>1, <1>2 DEF IInv, TypeOK, Kept, SessionFits, PinsAreGated, PairsAreGated, WritesComeLast
<1>7. DOMAIN << >> = {} OBVIOUS
<1>8. SessionFits(s)'
  BY <1>2, <1>3, <1>6, <1>7
  DEF SessionFits, PhaseFits, WritesComeLast, LocksHold, PinsAreGated, QuerysetsAreGated,
      PairsAreGated, Related, Fetching
<1>9. Honest(s)'
  BY <1>2, <1>3, <1>6 DEF Honest, EdgesJudged, EntriesJudged, KeysBound, UpdatesGuarded, PairsJudged,
       DenialAudited, WritesNothing
<1> QED BY <1>2, <1>4, <1>5, <1>8, <1>9, StepFits DEF IInv, Kept

-----------------------------------------------------------------------------
(* The steps of saves, instance deletes and edges.                         *)

\* A session between the beginning and the end of its operation, which reads
\* or decides something, is right if it is gated as its next step needs.
LEMMA InsideFits ==
    ASSUME IInv, NEW s \in Sessions, TypeOK',
           pc[s] \notin {"commit", "done", "denied"},
           pc'[s] \notin {"commit", "done", "denied"},
           UNCHANGED <<rows, policy, lock, op, draft, moved, refused, trail>>,
           \A u \in Sessions \ {s} :
              /\ pc'[u] = pc[u] /\ held'[u] = held[u] /\ keys'[u] = keys[u]
              /\ scanned'[u] = scanned[u] /\ exempt'[u] = exempt[u] /\ asked'[u] = asked[u]
              /\ crossed'[u] = crossed[u] /\ judged'[u] = judged[u]
              /\ guarded'[u] = guarded[u] /\ pinned'[u] = pinned[u],
           pinned'[s] = pinned[s],
           PhaseFits(s)', PinsAreGated(s)', QuerysetsAreGated(s)', PairsAreGated(s)'
    PROVE  IInv'
<1>1. \A u \in Sessions \ {s} : Rests(u) /\ Respects(u) BY DEF Rests, Respects
<1>2. SessionFits(s) BY DEF IInv, Kept
<1>3. draft[s] = << >> /\ moved[s] = {} BY <1>2 DEF SessionFits, WritesComeLast
<1>4. WritesComeLast(s)' BY <1>3 DEF WritesComeLast
<1>5. LocksHold(s)' BY <1>2 DEF SessionFits, LocksHold
<1>6. Honest(s)'
  BY <1>3 DEF Honest, EdgesJudged, EntriesJudged, KeysBound, UpdatesGuarded, PairsJudged,
              DenialAudited, WritesNothing
<1> QED BY <1>1, <1>4, <1>5, <1>6, StepFits DEF SessionFits, IInv, Kept

LEMMA CheckFits ==
    ASSUME IInv, NEW s \in Sessions, Check(s)
    PROVE  IInv'
<1>1. SessionFits(s) /\ pc[s] = "check" BY DEF Check, IInv, Kept
<1>2. op[s] \in Operations \cup {Nothing} /\ op[s].kind \in {"save", "insert", "remove"}
  BY <1>1 DEF SessionFits, PhaseFits, IInv, TypeOK
<1>3. op[s].row \in Rows /\ op[s] # Nothing BY <1>2, OperationParts
<1>4. CASE Scoped(s) /\ ~Passes(s)
  <2>1. Refuse(s, op[s].row, TRUE) BY <1>4 DEF Check
  <2> QED BY <1>1, <1>3, <2>1, RefuseFits DEF Places
<1>5. CASE ~(Scoped(s) /\ ~Passes(s))
  <2>1. /\ guarded' = [guarded EXCEPT ![s] = {op[s].row}]
        /\ pc' = [pc EXCEPT ![s] = IF op[s].kind = "remove" THEN "write" ELSE "edge"]
        /\ UNCHANGED <<rows, links, grants, policy, changes, lock, writes, op, held, keys, scanned,
                       roots, exempt, asked, draft, crossed, present, judged, pinned, moved,
                       refused, trail>>
    BY <1>5 DEF Check, db, scope
  <2>2. TypeOK' BY <1>3, <2>1 DEF IInv, TypeOK, Labels
  <2>3. pc'[s] = IF op[s].kind = "remove" THEN "write" ELSE "edge" BY <2>1 DEF IInv, TypeOK
  <2>4. pinned[s] = {} /\ crossed[s] = {}
    BY <1>1 DEF SessionFits, PinsAreGated, PairsAreGated
  <2>5. PhaseFits(s)' BY <1>2, <1>3, <2>1, <2>3 DEF PhaseFits, Dry, Fetching, Related
  <2>6. PinsAreGated(s)' BY <1>2, <2>1, <2>3, <2>4 DEF PinsAreGated, MovesEdge
  <2>7. QuerysetsAreGated(s)' /\ PairsAreGated(s)'
    BY <1>2, <2>1, <2>3, <2>4 DEF QuerysetsAreGated, PairsAreGated
  <2> QED BY <1>1, <2>1, <2>2, <2>3, <2>5, <2>6, <2>7, InsideFits DEF IInv, TypeOK
<1> QED BY <1>4, <1>5

\* Where a write goes on from its gates.
LEMMA GatedLabel ==
    ASSUME NEW s \in Sessions, op[s].kind \in {"save", "insert", "update"}
    PROVE  /\ Gated(s) \in {"scan", "rehearsed", "write"}
           /\ Gated(s) = "scan" <=> op[s].kind = "update"
           /\ Gated(s) = "rehearsed" <=> Dry(s)
BY DEF Gated, Dry

\* Before its edge is read, nothing is pinned, written or crossed.
LEMMA EdgeStart ==
    ASSUME IInv, NEW s \in Sessions, pc[s] \in {"edge", "judge"}
    PROVE  /\ SessionFits(s) /\ op[s].kind \in {"save", "insert", "update"}
           /\ op[s] \in Operations /\ op[s] # Nothing
           /\ crossed[s] = {} /\ draft[s] = << >> /\ moved[s] = {}
           /\ pc[s] = "edge" => pinned[s] = {}
<1>1. SessionFits(s) BY DEF IInv, Kept
<1>2. op[s].kind \in {"save", "insert", "update"} /\ op[s] # Nothing
  BY <1>1 DEF SessionFits, PhaseFits
<1> QED BY <1>1, <1>2 DEF SessionFits, PairsAreGated, PinsAreGated, WritesComeLast, IInv, TypeOK

\* A write that no gate watches goes on with nothing pinned.
LEMMA UnwatchedFits ==
    ASSUME IInv, NEW s \in Sessions, ReadEdge(s), ~Watched(s) \/ ~MovesEdge(s)
    PROVE  IInv'
<1>1. /\ pc[s] = "edge" /\ pc' = [pc EXCEPT ![s] = Gated(s)]
      /\ UNCHANGED <<rows, links, grants, policy, changes, lock, writes, op, held, keys, scanned,
                     roots, exempt, asked, draft, crossed, present, judged, guarded, pinned,
                     moved, refused, trail>>
  BY DEF ReadEdge, db, scope
<1>2. /\ SessionFits(s) /\ op[s].kind \in {"save", "insert", "update"} /\ op[s] # Nothing
      /\ crossed[s] = {} /\ pinned[s] = {}
  BY <1>1, EdgeStart
<1>3. pc'[s] = Gated(s) /\ Gated(s) \in {"scan", "rehearsed", "write"}
  BY <1>1, <1>2, GatedLabel DEF IInv, TypeOK
<1>4. TypeOK' BY <1>1, <1>3 DEF IInv, TypeOK, Labels
<1>5. PhaseFits(s)'
  BY <1>1, <1>2, <1>3, GatedLabel DEF PhaseFits, Dry, Fetching, Related
<1>6. PinsAreGated(s)'
  <2>1. ~(Watched(s)' /\ MovesEdge(s)') BY <1>1 DEF Watched, MovesEdge
  <2> QED BY <1>1, <1>2, <2>1 DEF PinsAreGated
<1>7. QuerysetsAreGated(s)' /\ PairsAreGated(s)'
  BY <1>1, <1>2, <1>3 DEF QuerysetsAreGated, PairsAreGated
<1> QED BY <1>1, <1>3, <1>4, <1>5, <1>6, <1>7, InsideFits DEF IInv, TypeOK

\* A watched write locks the rows it will replace, and asks of both ends.
LEMMA WatchedFits ==
    ASSUME IInv, NEW s \in Sessions, ReadEdge(s), Watched(s), MovesEdge(s)
    PROVE  IInv'
<1>1. /\ pc[s] = "edge" /\ pc' = [pc EXCEPT ![s] = "judge"]
      /\ Free(s, Replaced(s))
      /\ lock' = [r \in Rows |-> IF r \in Replaced(s) THEN s ELSE lock[r]]
      /\ pinned' = [pinned EXCEPT ![s] = Replaced(s)]
      /\ asked' = [asked EXCEPT ![s] = Ends(s, Replaced(s))]
      /\ UNCHANGED <<rows, links, grants, policy, changes, writes, op, held, keys, scanned,
                     roots, exempt, draft, crossed, present, judged, guarded,
                     moved, refused, trail>>
  BY DEF ReadEdge, db, scope, Lockable, Take
<1>2. /\ SessionFits(s) /\ op[s].kind \in {"save", "insert", "update"} /\ op[s] # Nothing
      /\ crossed[s] = {} /\ draft[s] = << >> /\ moved[s] = {}
  BY <1>1, EdgeStart
<1>3. Replaced(s) \subseteq Rows /\ \A r \in Replaced(s) : Exists(s, r) BY DEF Replaced
<1>4. Ends(s, Replaced(s)) \subseteq Containers BY <1>2, <1>3, EndsType DEF IInv
<1>5. TypeOK' BY <1>1, <1>3, <1>4 DEF IInv, TypeOK, Labels
<1>6. /\ pc'[s] = "judge" /\ pinned'[s] = Replaced(s) /\ asked'[s] = Ends(s, Replaced(s))
      /\ \A u \in Sessions \ {s} :
            pc'[u] = pc[u] /\ pinned'[u] = pinned[u] /\ asked'[u] = asked[u]
  BY <1>1 DEF IInv, TypeOK
<1>7. \A u \in Sessions \ {s} : Rests(u) /\ Respects(u)
  <2>1. None \notin Sessions BY GatedAssumption DEF GatedAssumption
  <2> QED BY <1>1, <1>6, <2>1 DEF Rests, Respects, Free
<1>8. PhaseFits(s)' /\ WritesComeLast(s)' /\ PairsAreGated(s)' /\ QuerysetsAreGated(s)'
  BY <1>1, <1>2, <1>6 DEF PhaseFits, WritesComeLast, PairsAreGated, QuerysetsAreGated,
                          Fetching, Related
<1>9. LocksHold(s)'
  <2>1. DOMAIN << >> = {} OBVIOUS
  <2> QED BY <1>1, <1>2, <1>3, <1>6, <2>1 DEF LocksHold
<1>10. PinsAreGated(s)'
  <2>1. op[s].kind = "save" => Replaced(s) \subseteq {op[s].row} BY DEF Replaced
  <2>2. op[s].kind = "insert" => Replaced(s) = {} BY DEF Replaced
  <2>3. Ends(s, pinned[s])' = Ends(s, Replaced(s))
    <3>1. \A r \in Rows : Stored(s, r)' = Stored(s, r) BY <1>1 DEF Stored, Exists, View
    <3> QED BY <1>1, <1>3, <1>6, <3>1 DEF Ends
  <2>4. Watched(s)' /\ MovesEdge(s)' BY <1>1 DEF Watched, MovesEdge
  <2> QED BY <1>1, <1>2, <1>6, <2>1, <2>2, <2>3, <2>4 DEF PinsAreGated
<1>11. Honest(s)'
  BY <1>1, <1>2, <1>6 DEF Honest, EdgesJudged, EntriesJudged, KeysBound, UpdatesGuarded,
                    PairsJudged, DenialAudited, WritesNothing
<1> QED BY <1>1, <1>5, <1>7, <1>8, <1>9, <1>10, <1>11, StepFits DEF SessionFits, IInv, Kept

LEMMA ReadEdgeFits ==
    ASSUME IInv, NEW s \in Sessions, ReadEdge(s)
    PROVE  IInv'
BY UnwatchedFits, WatchedFits

LEMMA JudgeFits ==
    ASSUME IInv, NEW s \in Sessions, Judge(s)
    PROVE  IInv'
<1>1. /\ pc[s] = "judge" /\ SessionFits(s) /\ op[s].kind \in {"save", "insert", "update"}
      /\ op[s] # Nothing /\ crossed[s] = {}
  BY EdgeStart DEF Judge
<1>2. CASE Scoped(s) /\ Denied(s) # {}
  <2>1. PICK c \in Denied(s) : Refuse(s, c, TRUE) BY <1>2 DEF Judge
  <2>2. c \in Places BY DEF Denied, IInv, TypeOK, Places
  <2> QED BY <1>1, <2>1, <2>2, RefuseFits
<1>3. CASE ~(Scoped(s) /\ Denied(s) # {})
  <2>1. /\ judged' = [judged EXCEPT ![s] = judged[s] \cup asked[s]]
        /\ asked' = [asked EXCEPT ![s] = {}]
        /\ pc' = [pc EXCEPT ![s] = Gated(s)]
        /\ UNCHANGED <<rows, links, grants, policy, changes, lock, writes, op, held, keys, scanned,
                       roots, exempt, draft, crossed, present, guarded, pinned, moved,
                       refused, trail>>
    BY <1>3 DEF Judge, db, scope
  <2>2. /\ pc'[s] = Gated(s) /\ Gated(s) \in {"scan", "rehearsed", "write"}
        /\ judged'[s] = judged[s] \cup asked[s]
    BY <1>1, <2>1, GatedLabel DEF IInv, TypeOK
  <2>3. TypeOK' BY <2>1, <2>2 DEF IInv, TypeOK, Labels
  <2>4. PhaseFits(s)'
    BY <1>1, <2>1, <2>2, GatedLabel DEF PhaseFits, Dry, Fetching, Related
  <2>5. PinsAreGated(s)'
    <3>1. Ends(s, pinned[s])' = Ends(s, pinned[s])
      BY <2>1 DEF Ends, Stored, Exists, View
    <3>2. Watched(s)' = Watched(s) /\ MovesEdge(s)' = MovesEdge(s) /\ Scoped(s)' = Scoped(s)
      BY <2>1 DEF Watched, MovesEdge, Scoped
    <3> QED BY <1>1, <2>1, <2>2, <3>1, <3>2 DEF SessionFits, PinsAreGated
  <2>6. QuerysetsAreGated(s)' /\ PairsAreGated(s)'
    BY <1>1, <2>1, <2>2, GatedLabel DEF QuerysetsAreGated, PairsAreGated
  <2> QED BY <1>1, <2>1, <2>2, <2>3, <2>4, <2>5, <2>6, InsideFits DEF IInv, TypeOK
<1> QED BY <1>2, <1>3

-----------------------------------------------------------------------------
(* The statements that write rows.                                         *)

\* The part of a write that is the same for all: it locks what it drafts.
LEMMA DraftFits ==
    ASSUME IInv, NEW s \in Sessions, NEW R \in SUBSET Rows, NEW d, NEW M,
           pc[s] = "write", op[s].kind # "links", Free(s, R), Take(s, R),
           draft' = [draft EXCEPT ![s] = d], DOMAIN d = R,
           \A r \in R : d[r] \in Row \cup {Gone},
           moved' = [moved EXCEPT ![s] = M],
           M \in SUBSET (Rows \X (Containers \cup {Gone}) \X (Containers \cup {Gone})),
           pc' = [pc EXCEPT ![s] = "commit"],
           UNCHANGED <<rows, links, grants, policy, changes, writes, op, held, keys, scanned,
                       roots, exempt, asked, crossed, present, judged, guarded, pinned,
                       refused, trail>>,
           EdgesJudged(s)', EntriesJudged(s)', KeysBound(s)', UpdatesGuarded(s)'
    PROVE  IInv'
<1>1. SessionFits(s) /\ DOMAIN draft = Sessions BY DEF IInv, Kept
<1>2. /\ pc'[s] = "commit" /\ draft'[s] = d /\ moved'[s] = M /\ DOMAIN draft' = Sessions
      /\ \A u \in Sessions \ {s} :
            pc'[u] = pc[u] /\ draft'[u] = draft[u] /\ moved'[u] = moved[u]
  BY <1>1 DEF IInv, TypeOK
<1>3. lock' = [r \in Rows |-> IF r \in R THEN s ELSE lock[r]] BY DEF Take
<1>4. TypeOK'
  <2>1. \A u \in Sessions :
          DOMAIN draft'[u] \subseteq Rows
          /\ \A r \in DOMAIN draft'[u] : draft'[u][r] \in Row \cup {Gone}
    BY <1>2 DEF IInv, TypeOK
  <2> QED BY <1>3, <2>1 DEF IInv, TypeOK, Labels
<1>5. \A u \in Sessions \ {s} : Rests(u) /\ Respects(u)
  <2>1. None \notin Sessions BY GatedAssumption DEF GatedAssumption
  <2> QED BY <1>2, <1>3, <2>1 DEF Rests, Respects, Free
<1>6. PhaseFits(s)' /\ WritesComeLast(s)' /\ QuerysetsAreGated(s)'
  BY <1>1, <1>2 DEF SessionFits, PhaseFits, WritesComeLast, QuerysetsAreGated, Dry, Related,
                    Fetching
<1>7. LocksHold(s)' BY <1>1, <1>2, <1>3 DEF SessionFits, LocksHold, IInv, TypeOK
<1>8. PinsAreGated(s)' /\ PairsAreGated(s)'
  BY <1>1, <1>2 DEF SessionFits, PinsAreGated, PairsAreGated, Watched, MovesEdge
<1>9. ~Dry(s)' BY <1>1 DEF SessionFits, PhaseFits, Dry
<1>10. Honest(s)'
  BY <1>2, <1>9 DEF Honest, PairsJudged, DenialAudited, WritesNothing
<1> QED BY <1>2, <1>4, <1>5, <1>6, <1>7, <1>8, <1>10, StepFits DEF SessionFits, IInv, Kept

\* A save or insert writes what its row held and what it enters, both judged;
\* a save whose row is gone was judged on the container it enters.
LEMMA LayFits ==
    ASSUME IInv, NEW s \in Sessions, NEW row \in Row \cup {Gone},
           pc[s] = "write", op[s].kind \in {"save", "insert", "remove"},
           Lay(s, op[s].row, row), MovesEdge(s) => row # Gone /\ row.at = op[s].to,
           pc' = [pc EXCEPT ![s] = "commit"],
           UNCHANGED <<rows, links, grants, policy, changes, writes, op, held, keys, scanned,
                       roots, exempt, asked, crossed, present, judged, guarded, pinned,
                       refused, trail>>
    PROVE  IInv'
<1> DEFINE r == op[s].row
           new == IF row = Gone THEN Gone ELSE row.at
<1>1. /\ op[s] \in Operations \cup {Nothing} /\ SessionFits(s) BY DEF IInv, TypeOK, Kept
<1>2. r \in Rows BY <1>1, OperationParts
<1>3. /\ Free(s, {r}) /\ Take(s, {r})
      /\ draft' = [draft EXCEPT ![s] = [q \in {r} |-> row]]
      /\ moved' = [moved EXCEPT ![s] = {<<r, Stored(s, r), new>>}]
  BY DEF Lay
<1>4. new \in Containers \cup {Gone} BY DEF Row
<1>5. Stored(s, r) \in Containers \cup {Gone} BY <1>2, ViewType DEF IInv
<1>6. moved'[s] = {<<r, Stored(s, r), new>>} BY <1>3 DEF IInv, TypeOK
<1>7. Watched(s)' = Watched(s) /\ MovesEdge(s)' = MovesEdge(s) /\ Scoped(s)' = Scoped(s)
  BY DEF Watched, MovesEdge, Scoped
<1>8. ASSUME Scoped(s), Watched(s), MovesEdge(s), Stored(s, r) # new
      PROVE  new \in judged[s] /\ (r \in pinned[s] => Stored(s, r) \in judged[s])
  <2>1. new = op[s].to /\ Ends(s, pinned[s]) \subseteq judged[s] /\ pinned[s] \subseteq {r}
        /\ op[s].kind # "update"
    BY <1>1, <1>8 DEF SessionFits, PinsAreGated
  <2>2. CASE pinned[s] = {} BY <2>1, <2>2 DEF Ends
  <2>3. CASE pinned[s] = {r} BY <1>8, <2>1, <2>3 DEF Ends
  <2> QED BY <2>1, <2>2, <2>3
<1>9. EdgesJudged(s)' /\ EntriesJudged(s)'
  BY <1>6, <1>7, <1>8 DEF EdgesJudged, EntriesJudged
<1>10. KeysBound(s)' /\ UpdatesGuarded(s)' BY DEF KeysBound, UpdatesGuarded
<1>11. {<<r, Stored(s, r), new>>} \in SUBSET (Rows \X (Containers \cup {Gone}) \X (Containers \cup {Gone}))
  BY <1>2, <1>4, <1>5
<1> DEFINE d == [q \in {r} |-> row]
           M == {<<r, Stored(s, r), new>>}
<1>12. \A q \in {r} : d[q] \in Row \cup {Gone} OBVIOUS
<1>13. DOMAIN d = {r} /\ op[s].kind # "links" /\ {r} \in SUBSET Rows BY <1>2
<1>14. draft' = [draft EXCEPT ![s] = d] /\ moved' = [moved EXCEPT ![s] = M] BY <1>3
<1> HIDE DEF d, M, r, new
<1> QED BY <1>3, <1>9, <1>10, <1>11, <1>12, <1>13, <1>14, DraftFits

LEMMA WriteRowFits ==
    ASSUME IInv, NEW s \in Sessions, WriteSave(s) \/ WriteInsert(s) \/ WriteRemoval(s)
    PROVE  IInv'
<1> DEFINE r == op[s].row
<1>1. op[s] \in Operations \cup {Nothing} /\ op[s].kind \in {"save", "insert", "remove"}
      /\ pc[s] = "write"
  BY DEF WriteSave, WriteInsert, WriteRemoval, IInv, TypeOK
<1>2. /\ pc' = [pc EXCEPT ![s] = "commit"]
      /\ UNCHANGED <<rows, links, grants, policy, changes, writes, op, held, keys, scanned,
                     roots, exempt, asked, crossed, present, judged, guarded, pinned,
                     refused, trail>>
  BY DEF WriteSave, WriteInsert, WriteRemoval, db, scope
<1>3. CASE WriteSave(s)
  <2> DEFINE on == IF Exists(s, r) THEN View(s, r).on ELSE TRUE
             at == IF op[s].edge THEN op[s].to ELSE Stored(s, r)
  <2>1. Lay(s, r, [at |-> at, on |-> on]) /\ op[s].kind = "save" /\ (Exists(s, r) \/ op[s].edge)
    BY <1>3 DEF WriteSave
  <2>2. r \in Rows /\ op[s].to \in Containers /\ op[s].edge \in BOOLEAN
    BY <1>1, <2>1, OperationParts
  <2>3. on \in BOOLEAN /\ at \in Containers
    BY <2>1, <2>2, ViewType DEF IInv, Row, Stored
  <2>4. [at |-> at, on |-> on] \in Row BY <2>3 DEF Row
  <2>5. MovesEdge(s) => at = op[s].to BY <2>1 DEF MovesEdge
  <2>6. Gone \notin Row BY GatedAssumption DEF GatedAssumption
  <2> QED BY <1>1, <1>2, <2>1, <2>4, <2>5, <2>6, LayFits
<1>4. CASE WriteInsert(s)
  <2>1. Lay(s, r, [at |-> op[s].to, on |-> TRUE]) /\ op[s].kind = "insert"
    BY <1>4 DEF WriteInsert
  <2>2. [at |-> op[s].to, on |-> TRUE] \in Row BY <1>1, <2>1, OperationParts DEF Row
  <2>3. Gone \notin Row BY GatedAssumption DEF GatedAssumption
  <2> QED BY <1>1, <1>2, <2>1, <2>2, <2>3, LayFits
<1>5. CASE WriteRemoval(s)
  <2>1. Lay(s, r, Gone) /\ op[s].kind = "remove" BY <1>5 DEF WriteRemoval
  <2>2. ~MovesEdge(s) BY <2>1 DEF MovesEdge
  <2> QED BY <1>1, <1>2, <2>1, <2>2, LayFits
<1> QED BY <1>3, <1>4, <1>5

LEMMA WriteUpdateFits ==
    ASSUME IInv, NEW s \in Sessions, WriteUpdate(s)
    PROVE  IInv'
<1> DEFINE R == Statement(s)
           new == [r \in R |-> IF op[s].to = Gone THEN View(s, r)
                                ELSE [View(s, r) EXCEPT !.at = op[s].to]]
           M == {<<r, Stored(s, r), IF new[r] = Gone THEN Gone ELSE new[r].at>> : r \in R}
<1>1. /\ pc[s] = "write" /\ op[s].kind = "update" /\ pc' = [pc EXCEPT ![s] = "commit"]
      /\ UNCHANGED <<rows, links, grants, policy, changes, writes, op, held, keys, scanned,
                     roots, exempt, asked, crossed, present, judged, guarded, pinned,
                     refused, trail>>
  BY DEF WriteUpdate, db, scope
<1>2. /\ Free(s, R) /\ Take(s, R)
      /\ draft' = [draft EXCEPT ![s] = [r \in R |-> new[r]]]
      /\ moved' = [moved EXCEPT ![s] = M]
  BY DEF WriteUpdate, Replace
<1>3. SessionFits(s) /\ op[s] \in Operations \cup {Nothing} BY DEF IInv, TypeOK, Kept
<1>4. op[s].to \in Containers \cup {Gone} BY <1>1, <1>3, OperationParts
<1>5. R \subseteq Rows /\ \A r \in R : View(s, r) \in Row
  BY ScanTypes, ViewType DEF IInv
<1>6. \A r \in R : new[r] \in Row /\ (op[s].to # Gone => new[r].at = op[s].to)
  <2> SUFFICES ASSUME NEW r \in R
               PROVE new[r] \in Row /\ (op[s].to # Gone => new[r].at = op[s].to)
    OBVIOUS
  <2>1. new[r] = IF op[s].to = Gone THEN View(s, r) ELSE [View(s, r) EXCEPT !.at = op[s].to]
    OBVIOUS
  <2> QED BY <1>4, <1>5, <2>1 DEF Row
<1>7. Gone \notin Row BY GatedAssumption DEF GatedAssumption
<1>8. \A m \in M : /\ m[1] \in R /\ m[2] = Stored(s, m[1]) /\ m[3] = new[m[1]].at
                   /\ m \in Rows \X (Containers \cup {Gone}) \X (Containers \cup {Gone})
  <2> SUFFICES ASSUME NEW r \in R, NEW m, m = <<r, Stored(s, r), IF new[r] = Gone THEN Gone ELSE new[r].at>>
               PROVE /\ m[1] \in R /\ m[2] = Stored(s, m[1]) /\ m[3] = new[m[1]].at
                     /\ m \in Rows \X (Containers \cup {Gone}) \X (Containers \cup {Gone})
    OBVIOUS
  <2>1. m = <<r, Stored(s, r), new[r].at>> BY <1>6, <1>7
  <2>2. new[r].at \in Containers BY <1>6 DEF Row
  <2>3. Stored(s, r) \in Containers \cup {Gone} /\ r \in Rows BY <1>5, ViewType DEF IInv
  <2> HIDE DEF new, R
  <2> QED BY <2>1, <2>2, <2>3
<1>9. moved'[s] = M BY <1>2 DEF IInv, TypeOK
<1> HIDE DEF M, new
<1>10. Watched(s)' = Watched(s) /\ MovesEdge(s)' = MovesEdge(s) /\ Scoped(s)' = Scoped(s)
  BY <1>1 DEF Watched, MovesEdge, Scoped
<1>11. EdgesJudged(s)'
  <2> SUFFICES ASSUME Scoped(s), Watched(s), MovesEdge(s),
                      NEW m \in M, m[1] \in pinned[s], m[2] # m[3]
               PROVE {m[2], m[3]} \subseteq judged[s]
    BY <1>1, <1>9, <1>10 DEF EdgesJudged
  <2>1. Ends(s, pinned[s]) \subseteq judged[s] BY <1>1, <1>3 DEF SessionFits, PinsAreGated
  <2>2. m[2] = Stored(s, m[1]) /\ m[3] = op[s].to BY <1>1, <1>6, <1>8 DEF MovesEdge
  <2> QED BY <2>1, <2>2 DEF Ends
<1>12. EntriesJudged(s)' BY <1>1 DEF EntriesJudged
<1>13. KeysBound(s)' BY <1>1, <1>8, <1>9, <1>10 DEF KeysBound, Statement
<1>14. UpdatesGuarded(s)'
  BY <1>1, <1>3, <1>8, <1>9, <1>10 DEF UpdatesGuarded, SessionFits, QuerysetsAreGated
<1>15. M \in SUBSET (Rows \X (Containers \cup {Gone}) \X (Containers \cup {Gone})) BY <1>8
<1> DEFINE d == [r \in R |-> new[r]]
<1>16. DOMAIN d = R /\ \A r \in R : d[r] \in Row \cup {Gone} BY <1>6
<1>17. draft' = [draft EXCEPT ![s] = d] BY <1>2
<1> HIDE DEF d
<1> QED BY <1>1, <1>2, <1>5, <1>11, <1>12, <1>13, <1>14, <1>15, <1>16, <1>17, DraftFits

LEMMA WriteDeleteFits ==
    ASSUME IInv, NEW s \in Sessions, WriteDelete(s)
    PROVE  IInv'
<1> DEFINE R == {r \in scanned[s] : Exists(s, r)}
           new == [r \in scanned[s] |-> Gone]
           M == {<<r, Stored(s, r), IF new[r] = Gone THEN Gone ELSE new[r].at>> : r \in R}
           d == [r \in R |-> new[r]]
<1>1. /\ pc[s] = "write" /\ op[s].kind = "delete" /\ pc' = [pc EXCEPT ![s] = "commit"]
      /\ UNCHANGED <<rows, links, grants, policy, changes, writes, op, held, keys, scanned,
                     roots, exempt, asked, crossed, present, judged, guarded, pinned,
                     refused, trail>>
  BY DEF WriteDelete, db, scope
<1>2. /\ Free(s, R) /\ Take(s, R)
      /\ draft' = [draft EXCEPT ![s] = d] /\ moved' = [moved EXCEPT ![s] = M]
  BY DEF WriteDelete, Replace
<1>3. SessionFits(s) BY DEF IInv, Kept
<1>4. R \subseteq Rows /\ R \subseteq scanned[s] BY DEF IInv, TypeOK
<1>5. \A m \in M : m[1] \in R /\ m \in Rows \X (Containers \cup {Gone}) \X (Containers \cup {Gone})
  <2> SUFFICES ASSUME NEW r \in R, NEW m, m = <<r, Stored(s, r), Gone>>
               PROVE m[1] \in R /\ m \in Rows \X (Containers \cup {Gone}) \X (Containers \cup {Gone})
    BY <1>4
  <2>1. Stored(s, r) \in Containers \cup {Gone} /\ r \in Rows BY <1>4, ViewType DEF IInv
  <2> QED BY <2>1
<1>6. moved'[s] = M BY <1>2 DEF IInv, TypeOK
<1>7. DOMAIN d = R /\ \A r \in R : d[r] \in Row \cup {Gone} BY <1>4
<1> HIDE DEF M, d, new, R
<1>8. EdgesJudged(s)' /\ EntriesJudged(s)' /\ UpdatesGuarded(s)'
  BY <1>1 DEF EdgesJudged, EntriesJudged, UpdatesGuarded, MovesEdge
<1>9. KeysBound(s)'
  BY <1>1, <1>3, <1>4, <1>5, <1>6 DEF KeysBound, SessionFits, QuerysetsAreGated, Scoped
<1>10. M \in SUBSET (Rows \X (Containers \cup {Gone}) \X (Containers \cup {Gone})) BY <1>5
<1> QED BY <1>1, <1>2, <1>4, <1>7, <1>8, <1>9, <1>10, DraftFits

-----------------------------------------------------------------------------
(* The reads and guards of queryset writes.                                *)

\* A queryset write is never a rehearsal and crosses no pairs; one that deletes
\* pins no rows.
LEMMA QuerysetParts ==
    ASSUME IInv, NEW s \in Sessions, op[s].kind \in {"update", "delete"}, pc[s] # "idle"
    PROVE  /\ SessionFits(s) /\ ~Dry(s) /\ op[s] # Nothing
           /\ op[s].kind = "delete" => pinned[s] = {} /\ ~MovesEdge(s)
           /\ pc[s] \in {"keys", "scan", "guard", "roots", "collect", "batch"} => crossed[s] = {}
           /\ pc[s] = "keys" => pinned[s] = {}
BY DEF IInv, Kept, SessionFits, PhaseFits, PinsAreGated, PairsAreGated, Dry, MovesEdge

\* A read of a queryset write leaves what its gates decided.
LEMMA QuerysetReadFits ==
    ASSUME IInv, NEW s \in Sessions, NEW label \in {"write", "edge", "scan", "guard", "roots", "collect", "batch"},
           op[s].kind \in {"update", "delete"}, pc[s] \in {"keys", "scan", "roots", "collect"},
           label \in Fetching \cup {"batch"} => op[s].kind = "delete",
           label = "edge" => op[s].kind = "update",
           pc' = [pc EXCEPT ![s] = label],
           keys' \in [Sessions -> SUBSET Places], scanned' \in [Sessions -> SUBSET Rows],
           roots' \in [Sessions -> SUBSET Rows],
           \A u \in Sessions \ {s} : keys'[u] = keys[u] /\ scanned'[u] = scanned[u],
           UNCHANGED <<rows, links, grants, policy, changes, lock, writes, op, held,
                       exempt, asked, draft, crossed, present, judged, guarded, pinned, moved,
                       refused, trail>>,
           PinsAreGated(s)', QuerysetsAreGated(s)'
    PROVE  IInv'
<1>1. /\ SessionFits(s) /\ ~Dry(s) /\ op[s] # Nothing /\ crossed[s] = {}
  BY QuerysetParts
<1>2. pc'[s] = label /\ \A u \in Sessions \ {s} : pc'[u] = pc[u] BY DEF IInv, TypeOK
<1>3. TypeOK' BY DEF IInv, TypeOK, Labels
<1>4. PhaseFits(s)' BY <1>1, <1>2 DEF PhaseFits, Dry, Fetching, Related
<1>5. PairsAreGated(s)' BY <1>1, <1>2 DEF PairsAreGated
<1> QED BY <1>2, <1>3, <1>4, <1>5, InsideFits

LEMMA SelectKeysFits ==
    ASSUME IInv, NEW s \in Sessions, SelectKeys(s)
    PROVE  IInv'
<1> DEFINE label == IF Scoped(s) THEN IF op[s].kind = "update" THEN "edge" ELSE "scan"
                    ELSE IF op[s].kind = "update" THEN "write" ELSE "roots"
<1>1. pc[s] = "keys" /\ op[s].kind \in {"update", "delete"}
  BY DEF SelectKeys, IInv, Kept, SessionFits, PhaseFits
<1>2. /\ keys' = [keys EXCEPT ![s] = {r \in Matching(s) : Scoped(s) /\ ReadRow(s, r)}]
      /\ UNCHANGED <<rows, links, grants, policy, changes, lock, writes, op, held, scanned, roots,
                     exempt, asked, draft, crossed, present, judged, guarded, pinned, moved,
                     refused, trail>>
  BY DEF SelectKeys, db, history
<1>3. pc' = [pc EXCEPT ![s] = label] BY <1>1 DEF SelectKeys
<1>4. keys' \in [Sessions -> SUBSET Places]
  BY <1>2, ScanTypes DEF IInv, TypeOK, Places
<1>5. \A u \in Sessions \ {s} : keys'[u] = keys[u] BY <1>2 DEF IInv, TypeOK
<1>6. pinned[s] = {} BY <1>1, QuerysetParts
<1>7. pc'[s] = label BY <1>3 DEF IInv, TypeOK
<1>8. PinsAreGated(s)'
  BY <1>1, <1>2, <1>6, <1>7 DEF PinsAreGated, Scoped, MovesEdge
<1>9. QuerysetsAreGated(s)' BY <1>1, <1>2, <1>6, <1>7 DEF QuerysetsAreGated, Scoped
<1>10. /\ label \in {"write", "edge", "scan", "roots"} /\ (label = "roots" => op[s].kind = "delete")
       /\ (label = "edge" => op[s].kind = "update")
  BY <1>1
<1> HIDE DEF label
<1> QED BY <1>1, <1>2, <1>3, <1>4, <1>5, <1>8, <1>9, <1>10, QuerysetReadFits
    DEF IInv, TypeOK, Fetching

\* The rows of a statement are the same when only Python variables changed.
LEMMA StatementStays ==
    ASSUME NEW s \in Sessions, UNCHANGED <<rows, draft, keys>>
    PROVE  Statement(s)' = Statement(s)
BY DEF Statement, Matching, Exists, View, Scoped

LEMMA ScanFits ==
    ASSUME IInv, NEW s \in Sessions, ScanGuard(s) \/ Collect(s)
    PROVE  IInv'
<1> DEFINE label == IF pc[s] = "scan" THEN "guard" ELSE "batch"
<1>1. /\ pc[s] \in {"scan", "collect"} /\ op[s].kind \in {"update", "delete"}
      /\ pc[s] = "collect" => op[s].kind = "delete"
  BY DEF ScanGuard, Collect, IInv, Kept, SessionFits, PhaseFits, Fetching
<1>2. /\ scanned' = [scanned EXCEPT ![s] = Statement(s)]
      /\ UNCHANGED <<rows, links, grants, policy, changes, lock, writes, op, held, keys, roots,
                     exempt, asked, draft, crossed, present, judged, guarded, pinned, moved,
                     refused, trail>>
  BY DEF ScanGuard, Collect, db, history
<1>3. pc' = [pc EXCEPT ![s] = label] BY DEF ScanGuard, Collect
<1>4. Statement(s) \subseteq Rows /\ Statement(s)' = Statement(s)
  BY <1>2, ScanTypes, StatementStays DEF IInv
<1>5. scanned'[s] = Statement(s) /\ \A u \in Sessions \ {s} : scanned'[u] = scanned[u]
  BY <1>2 DEF IInv, TypeOK
<1>6. pc'[s] = label BY <1>3 DEF IInv, TypeOK
<1>7. SessionFits(s) BY DEF IInv, Kept
<1>8. PinsAreGated(s)'
  <2>1. Ends(s, pinned[s])' = Ends(s, pinned[s]) BY <1>2 DEF Ends, Stored, Exists, View
  <2>2. Watched(s)' = Watched(s) /\ MovesEdge(s)' = MovesEdge(s) /\ Scoped(s)' = Scoped(s)
    BY <1>2 DEF Watched, MovesEdge, Scoped
  <2>3. op[s].kind = "delete" => pinned[s] = {} /\ ~MovesEdge(s) BY <1>1, QuerysetParts
  <2> QED BY <1>1, <1>2, <1>6, <1>7, <2>1, <2>2, <2>3 DEF SessionFits, PinsAreGated
<1>9. QuerysetsAreGated(s)'
  BY <1>2, <1>4, <1>5, <1>6 DEF QuerysetsAreGated, Scoped, Statement
<1>10. label \in {"guard", "batch"} /\ (label = "batch" => op[s].kind = "delete") BY <1>1
<1>11. scanned' \in [Sessions -> SUBSET Rows] BY <1>2, <1>4 DEF IInv, TypeOK
<1> HIDE DEF label
<1> QED BY <1>1, <1>2, <1>3, <1>5, <1>8, <1>9, <1>10, <1>11, QuerysetReadFits
    DEF IInv, TypeOK, Fetching

LEMMA CaptureRootsFits ==
    ASSUME IInv, NEW s \in Sessions, CaptureRoots(s)
    PROVE  IInv'
<1>1. pc[s] = "roots" /\ op[s].kind = "delete" /\ pinned[s] = {} /\ ~MovesEdge(s)
  BY QuerysetParts DEF CaptureRoots, IInv, Kept, SessionFits, PhaseFits, Fetching
<1>2. /\ roots' = [roots EXCEPT ![s] = Statement(s)] /\ pc' = [pc EXCEPT ![s] = "collect"]
      /\ UNCHANGED <<rows, links, grants, policy, changes, lock, writes, op, held, keys, scanned,
                     exempt, asked, draft, crossed, present, judged, guarded, pinned, moved,
                     refused, trail>>
  BY DEF CaptureRoots, db, history
<1>3. roots' \in [Sessions -> SUBSET Rows] BY <1>2, ScanTypes DEF IInv, TypeOK
<1>4. pc'[s] = "collect" BY <1>2 DEF IInv, TypeOK
<1>5. PinsAreGated(s)' /\ QuerysetsAreGated(s)'
  BY <1>1, <1>2, <1>4 DEF PinsAreGated, QuerysetsAreGated, MovesEdge
<1> QED BY <1>1, <1>2, <1>3, <1>5, QuerysetReadFits DEF IInv, TypeOK

\* A guard passes or denies all the rows of a statement.
LEMMA GuardFits ==
    ASSUME IInv, NEW s \in Sessions, Guard(s) \/ Batch(s)
    PROVE  IInv'
<1> DEFINE B == IF pc[s] = "guard" THEN scanned[s] ELSE Uncovered(s)
           label == IF pc[s] = "guard" /\ op[s].kind = "delete" THEN "roots" ELSE "write"
<1>1. /\ pc[s] \in {"guard", "batch"} /\ op[s].kind \in {"update", "delete"}
      /\ pc[s] = "batch" => op[s].kind = "delete"
  BY DEF Guard, Batch, IInv, Kept, SessionFits, PhaseFits, Fetching
<1>2. B \subseteq Rows BY DEF Uncovered, IInv, TypeOK
<1>3. CASE \E r \in B : ~WriteRow(s, r)
  <2>1. PICK r \in B : Refuse(s, r, FALSE) BY <1>3 DEF Guard, Batch
  <2> QED BY <1>1, <1>2, <2>1, RefuseFits DEF Places
<1>4. CASE ~ \E r \in B : ~WriteRow(s, r)
  <2>1. /\ guarded' = [guarded EXCEPT ![s] = guarded[s] \cup B]
        /\ pc' = [pc EXCEPT ![s] = label]
        /\ UNCHANGED <<rows, links, grants, policy, changes, lock, writes, op, held, keys, scanned,
                       roots, exempt, asked, draft, crossed, present, judged, pinned, moved,
                       refused, trail>>
    BY <1>1, <1>4 DEF Guard, Batch, db, scope
  <2>2. /\ guarded'[s] = guarded[s] \cup B
        /\ \A u \in Sessions \ {s} : guarded'[u] = guarded[u]
    BY <2>1 DEF IInv, TypeOK
  <2>3. label \in {"roots", "write"} /\ pc'[s] = label /\ \A u \in Sessions \ {s} : pc'[u] = pc[u]
    BY <2>1 DEF IInv, TypeOK
  <2>4. TypeOK' BY <1>2, <2>1, <2>3 DEF IInv, TypeOK, Labels
  <2>5. /\ SessionFits(s) /\ ~Dry(s) /\ op[s] # Nothing /\ crossed[s] = {}
        /\ op[s].kind = "delete" => pinned[s] = {} /\ ~MovesEdge(s)
    BY <1>1, QuerysetParts
  <2>6. PhaseFits(s)'
    BY <1>1, <2>1, <2>3, <2>5 DEF PhaseFits, Dry, Fetching, Related
  <2>7. PinsAreGated(s)'
    <3>1. Ends(s, pinned[s])' = Ends(s, pinned[s]) BY <2>1 DEF Ends, Stored, Exists, View
    <3>2. Watched(s)' = Watched(s) /\ MovesEdge(s)' = MovesEdge(s) /\ Scoped(s)' = Scoped(s)
      BY <2>1 DEF Watched, MovesEdge, Scoped
    <3>3. pc'[s] \in {"roots", "write"} /\ (op[s].kind = "update" => pc[s] = "guard")
          /\ (op[s].kind = "update" => pc'[s] = "write")
      BY <1>1, <2>3
    <3> QED BY <1>1, <2>1, <2>5, <3>1, <3>2, <3>3 DEF SessionFits, PinsAreGated
  <2>8. QuerysetsAreGated(s)'
    <3>1. Statement(s)' = Statement(s) /\ Scoped(s)' = Scoped(s)
      BY <2>1, StatementStays DEF Scoped
    <3>2. Scoped(s) /\ op[s].kind = "update" =>
             \A r \in pinned[s] \cap Statement(s) : r \in guarded'[s]
      BY <1>1, <2>2, <2>5 DEF SessionFits, QuerysetsAreGated
    <3>3. Scoped(s) /\ op[s].kind = "delete" /\ pc'[s] = "write" => scanned[s] \subseteq keys[s]
      BY <1>1, <2>3, <2>5 DEF SessionFits, QuerysetsAreGated
    <3>4. pc'[s] \in {"roots", "write"} BY <2>3
    <3> QED BY <1>1, <2>1, <3>1, <3>2, <3>3, <3>4 DEF QuerysetsAreGated
  <2>9. PairsAreGated(s)' BY <1>1, <2>1, <2>3, <2>5 DEF PairsAreGated
  <2> HIDE DEF B, label
  <2> QED BY <1>1, <2>1, <2>2, <2>3, <2>4, <2>6, <2>7, <2>8, <2>9, InsideFits
<1> QED BY <1>3, <1>4

-----------------------------------------------------------------------------
(* The steps of related managers.                                          *)

\* A call of a related manager pins and drafts nothing.
LEMMA LinkParts ==
    ASSUME IInv, NEW s \in Sessions,
           pc[s] \in Related \/ (pc[s] = "write" /\ op[s].kind = "links")
    PROVE  /\ SessionFits(s) /\ op[s].kind = "links" /\ ~Dry(s) /\ op[s] # Nothing
           /\ ~MovesEdge(s) /\ pinned[s] = {} /\ draft[s] = << >> /\ moved[s] = {}
           /\ op[s].with \subseteq Containers /\ op[s].verb \in {"add", "remove", "clear"}
           /\ pc[s] \in {"wrapper", "wrapped", "signal", "signalled"} => crossed[s] = {}
<1>1. SessionFits(s) /\ op[s] \in Operations \cup {Nothing} BY DEF IInv, TypeOK, Kept
<1>2. op[s].kind = "links" BY <1>1 DEF SessionFits, PhaseFits
<1>3. pc[s] \notin {"commit", "done", "idle"} BY DEF Related
<1> QED BY <1>1, <1>2, <1>3, OperationParts
    DEF SessionFits, PhaseFits, PinsAreGated, PairsAreGated, WritesComeLast, Dry, MovesEdge

\* Such a step is right if it keeps what is exempt, crossed and asked in order.
LEMMA LinkFits ==
    ASSUME IInv, NEW s \in Sessions, NEW label \in Related \cup {"write"}, pc[s] \in Related,
           pc' = [pc EXCEPT ![s] = label],
           UNCHANGED <<rows, links, grants, policy, changes, lock, writes, op, scanned, roots,
                       draft, guarded, pinned, moved, refused, trail>>,
           held' \in [Sessions -> Policies \cup {None}], keys' \in [Sessions -> SUBSET Places],
           exempt' \in [Sessions -> SUBSET Containers], asked' \in [Sessions -> SUBSET Containers],
           crossed' \in [Sessions -> SUBSET Containers], present' \in [Sessions -> SUBSET Containers],
           judged' \in [Sessions -> SUBSET Containers],
           \A u \in Sessions \ {s} :
              /\ held'[u] = held[u] /\ keys'[u] = keys[u] /\ exempt'[u] = exempt[u]
              /\ asked'[u] = asked[u] /\ crossed'[u] = crossed[u] /\ judged'[u] = judged[u],
           label \in {"signalled", "through", "throughGate", "write"} => keys'[s] \subseteq Containers,
           PairsAreGated(s)'
    PROVE  IInv'
<1>1. /\ SessionFits(s) /\ op[s].kind = "links" /\ ~Dry(s) /\ op[s] # Nothing
      /\ ~MovesEdge(s) /\ pinned[s] = {}
  BY LinkParts
<1>2. pc'[s] = label /\ \A u \in Sessions \ {s} : pc'[u] = pc[u] BY DEF IInv, TypeOK
<1>3. TypeOK' BY DEF IInv, TypeOK, Labels, Related
<1>4. label \in {"wrapper", "wrapped", "signal", "signalled", "through", "throughGate", "write"}
      /\ pc[s] \notin {"commit", "done", "denied"}
  BY DEF Related
<1>5. PhaseFits(s)' BY <1>1, <1>2, <1>4 DEF PhaseFits, Dry, Fetching, Related
<1>6. PinsAreGated(s)' /\ QuerysetsAreGated(s)'
  BY <1>1, <1>2, <1>4 DEF PinsAreGated, QuerysetsAreGated, MovesEdge
<1> QED BY <1>2, <1>3, <1>4, <1>5, <1>6, InsideFits

\* What the wrapper exempts, it asks of.
LEMMA WrapperFits ==
    ASSUME IInv, NEW s \in Sessions, Wrapper(s)
    PROVE  IInv'
<1>1. /\ pc[s] = "wrapper" /\ pc[s] \in Related /\ pc' = [pc EXCEPT ![s] = "wrapped"]
      /\ asked' = [asked EXCEPT ![s] = Named(s)] /\ exempt' = [exempt EXCEPT ![s] = Named(s)]
      /\ UNCHANGED <<rows, links, grants, policy, changes, lock, writes, op, held, keys, scanned,
                     roots, draft, crossed, present, judged, guarded, pinned, moved, refused, trail>>
  BY DEF Wrapper, db, history, Related
<1>2. op[s].with \subseteq Containers /\ crossed[s] = {} BY <1>1, LinkParts
<1>3. Named(s) \subseteq Containers BY <1>2, ScanTypes DEF Named, IInv
<1>4. pc'[s] = "wrapped" /\ asked'[s] = Named(s) /\ exempt'[s] = Named(s)
  BY <1>1 DEF IInv, TypeOK
<1>5. PairsAreGated(s)' BY <1>1, <1>2, <1>4 DEF PairsAreGated
<1>6. "wrapped" \in Related BY DEF Related
<1> QED BY <1>1, <1>3, <1>5, <1>6, LinkFits DEF IInv, TypeOK

\* The signal's pairs are containers.
LEMMA SignalFits ==
    ASSUME IInv, NEW s \in Sessions, Signal(s)
    PROVE  IInv'
<1> DEFINE more == IF Signalled(s) \subseteq exempt[s] \/ ~Scoped(s) \/ policy = "none"
                   THEN {} ELSE Signalled(s)
<1>1. /\ pc[s] = "signal" /\ pc[s] \in Related /\ pc' = [pc EXCEPT ![s] = "signalled"]
      /\ keys' = [keys EXCEPT ![s] = Signalled(s)] /\ asked' = [asked EXCEPT ![s] = more]
      /\ UNCHANGED <<rows, links, grants, policy, changes, lock, writes, op, held, scanned,
                     roots, exempt, draft, crossed, present, judged, guarded, pinned, moved,
                     refused, trail>>
  BY DEF Signal, db, history, Related
<1>2. /\ op[s].with \subseteq Containers /\ op[s].verb \in {"add", "remove", "clear"}
      /\ crossed[s] = {} /\ SessionFits(s)
  BY <1>1, LinkParts
<1>3. Signalled(s) \subseteq Containers /\ more \subseteq Containers
  BY <1>2, ScanTypes DEF Signalled, IInv
<1>4. pc'[s] = "signalled" /\ keys'[s] = Signalled(s) BY <1>1 DEF IInv, TypeOK
<1>5. PairsAreGated(s)'
  BY <1>1, <1>2, <1>4 DEF SessionFits, PairsAreGated, Scoped
<1>6. "signalled" \in Related BY DEF Related
<1>7. keys' \in [Sessions -> SUBSET Places] /\ asked' \in [Sessions -> SUBSET Containers]
  BY <1>1, <1>3 DEF IInv, TypeOK, Places
<1> HIDE DEF more
<1> QED BY <1>1, <1>3, <1>4, <1>5, <1>6, <1>7, LinkFits DEF IInv, TypeOK

\* What is asked of is judged, or denied.
LEMMA JudgeLinksFits ==
    ASSUME IInv, NEW s \in Sessions, Wrapped(s) \/ Receiver(s) \/ ThroughGate(s)
    PROVE  IInv'
<1> DEFINE label == IF pc[s] = "wrapped" THEN "signal"
                    ELSE IF pc[s] = "signalled" THEN "through" ELSE "write"
<1>1. pc[s] \in {"wrapped", "signalled", "throughGate"} /\ JudgeLinks(s, label)
  BY DEF Wrapped, Receiver, ThroughGate
<1>2. pc[s] \in Related /\ pc[s] # "idle" BY <1>1 DEF Related
<1>3. SessionFits(s) /\ op[s].kind = "links" /\ (pc[s] \in {"wrapped", "signalled"} => crossed[s] = {})
  BY <1>2, LinkParts
<1>4. CASE Denied(s) # {}
  <2>1. PICK c \in Denied(s) : Refuse(s, c, TRUE) BY <1>1, <1>4 DEF JudgeLinks
  <2>2. c \in Places BY DEF Denied, IInv, TypeOK, Places
  <2> QED BY <1>2, <2>1, <2>2, RefuseFits
<1>5. CASE Denied(s) = {}
  <2>1. /\ judged' = [judged EXCEPT ![s] = judged[s] \cup asked[s]]
        /\ asked' = [asked EXCEPT ![s] = {}] /\ pc' = [pc EXCEPT ![s] = label]
        /\ UNCHANGED <<rows, links, grants, policy, changes, lock, writes, op, held, keys, scanned,
                       roots, exempt, draft, crossed, present, guarded, pinned, moved,
                       refused, trail>>
    BY <1>1, <1>5 DEF JudgeLinks, db, scope
  <2>2. judged'[s] = judged[s] \cup asked[s] /\ pc'[s] = label
    BY <2>1 DEF IInv, TypeOK
  <2>3. PairsAreGated(s)'
    BY <1>1, <1>3, <2>1, <2>2 DEF SessionFits, PairsAreGated, Scoped, Gating
  <2>4. label \in Related \cup {"write"} BY DEF Related
  <2>5. label \in {"signalled", "through", "throughGate", "write"} => keys'[s] \subseteq Containers
    BY <1>1, <1>3, <2>1 DEF SessionFits, PhaseFits
  <2> HIDE DEF label
  <2> QED BY <1>2, <2>1, <2>3, <2>4, <2>5, LinkFits DEF IInv, TypeOK
<1> QED BY <1>4, <1>5

\* A pair a handler inserts was gated by the wrapper, or is gated now.
LEMMA HandlerFits ==
    ASSUME IInv, NEW s \in Sessions, Handler(s)
    PROVE  IInv'
<1>1. PICK c \in Containers \ Linked(s) :
         IF \E d \in Ungated(s, {c}) : ~CanWrite(d)
         THEN Refuse(s, c, TRUE)
         ELSE /\ crossed' = [crossed EXCEPT ![s] = {c}]
              /\ present' = [present EXCEPT ![s] = {c}]
              /\ judged' = [judged EXCEPT ![s] = judged[s] \cup Ungated(s, {c})]
              /\ UNCHANGED <<db, lock, writes, pc, op, held, scope, asked, draft,
                             guarded, pinned, moved, refused, trail>>
  BY DEF Handler
<1>2. pc[s] = "through" /\ pc[s] \in Related BY DEF Handler, Related
<1>3. SessionFits(s) BY DEF IInv, Kept
<1>4. CASE \E d \in Ungated(s, {c}) : ~CanWrite(d)
  <2>1. Refuse(s, c, TRUE) BY <1>1, <1>4
  <2> QED BY <1>2, <2>1, RefuseFits DEF Places
<1>5. CASE ~ \E d \in Ungated(s, {c}) : ~CanWrite(d)
  <2>1. /\ crossed' = [crossed EXCEPT ![s] = {c}]
        /\ present' = [present EXCEPT ![s] = {c}]
        /\ judged' = [judged EXCEPT ![s] = judged[s] \cup Ungated(s, {c})]
        /\ UNCHANGED <<rows, links, grants, policy, changes, lock, writes, pc, op, held, keys,
                       scanned, roots, exempt, asked, draft, guarded, pinned, moved, refused, trail>>
    BY <1>1, <1>5 DEF db, scope
  <2>2. pc' = [pc EXCEPT ![s] = "through"] BY <1>2, <2>1 DEF IInv, TypeOK
  <2>3. crossed'[s] = {c} /\ judged'[s] = judged[s] \cup Ungated(s, {c})
    BY <2>1 DEF IInv, TypeOK
  <2>4. Scoped(s) => c \in exempt[s] \cup Ungated(s, {c}) BY DEF Ungated, IInv, Kept
  <2>5. PairsAreGated(s)'
    BY <1>2, <1>3, <2>1, <2>3, <2>4 DEF SessionFits, PairsAreGated, Scoped
  <2>6. Ungated(s, {c}) \subseteq Containers BY DEF Ungated
  <2>7. /\ crossed' \in [Sessions -> SUBSET Containers] /\ present' \in [Sessions -> SUBSET Containers]
        /\ judged' \in [Sessions -> SUBSET Containers]
        /\ \A u \in Sessions \ {s} : crossed'[u] = crossed[u] /\ judged'[u] = judged[u]
    BY <2>1, <2>6 DEF IInv, TypeOK
  <2>8. keys'[s] \subseteq Containers
    BY <1>2, <1>3, <2>1, LinkParts DEF SessionFits, PhaseFits
  <2>9. "through" \in Related BY DEF Related
  <2> QED BY <1>2, <2>1, <2>2, <2>5, <2>7, <2>8, <2>9, LinkFits DEF IInv, TypeOK
<1> QED BY <1>4, <1>5

\* What the manager will write is exempt, and judged, or it is asked of.
LEMMA OpenThroughFits ==
    ASSUME IInv, NEW s \in Sessions, OpenThrough(s)
    PROVE  IInv'
<1> DEFINE more == IF op[s].verb = "add" \/ policy = "backed" THEN Ungated(s, Written(s)) ELSE {}
<1>1. /\ pc[s] = "through" /\ pc[s] \in Related /\ pc' = [pc EXCEPT ![s] = "throughGate"]
      /\ held' = [held EXCEPT ![s] = policy] /\ keys' = [keys EXCEPT ![s] = Written(s)]
      /\ asked' = [asked EXCEPT ![s] = more]
      /\ UNCHANGED <<rows, links, grants, policy, changes, lock, writes, op, scanned,
                     roots, exempt, draft, crossed, present, judged, guarded, pinned, moved,
                     refused, trail>>
  BY DEF OpenThrough, db, history, Related
<1>2. /\ SessionFits(s) /\ op[s].kind = "links"
      /\ op[s].with \subseteq Containers /\ op[s].verb \in {"add", "remove", "clear"}
  BY <1>1, LinkParts
<1>3. keys[s] \subseteq Containers BY <1>1, <1>2 DEF SessionFits, PhaseFits
<1>4. Written(s) \subseteq Containers /\ more \subseteq Containers
  BY <1>2, <1>3, ScanTypes DEF Written, Ungated, IInv
<1>5. /\ pc'[s] = "throughGate" /\ held'[s] = policy /\ keys'[s] = Written(s) /\ asked'[s] = more
  BY <1>1 DEF IInv, TypeOK
<1>6. policy # "none" BY DEF IInv, Kept
<1>7. PairsAreGated(s)'
  <2>1. Scoped(s) => exempt[s] \subseteq judged[s] /\ crossed[s] \subseteq judged[s]
    BY <1>1, <1>2 DEF SessionFits, PairsAreGated
  <2>2. Scoped(s) /\ (policy = "backed" \/ op[s].verb = "add") =>
           Written(s) \subseteq more \cup exempt[s]
    BY <1>6 DEF Ungated
  <2> HIDE DEF more
  <2> QED BY <1>1, <1>5, <2>1, <2>2 DEF PairsAreGated, Gating, Scoped
<1>8. /\ keys' \in [Sessions -> SUBSET Places] /\ asked' \in [Sessions -> SUBSET Containers]
      /\ held' \in [Sessions -> Policies \cup {None}]
  BY <1>1, <1>4 DEF IInv, TypeOK, Places
<1>9. "throughGate" \in Related BY DEF Related
<1> HIDE DEF more
<1> QED BY <1>1, <1>4, <1>5, <1>7, <1>8, <1>9, LinkFits DEF IInv, TypeOK

\* The pairs a manager writes were judged.
LEMMA WriteLinksFits ==
    ASSUME IInv, NEW s \in Sessions, WriteLinks(s)
    PROVE  IInv'
<1>1. /\ pc[s] = "write" /\ op[s].kind = "links" /\ pc' = [pc EXCEPT ![s] = "commit"]
      /\ UNCHANGED <<rows, links, grants, policy, changes, lock, writes, op, held, keys, scanned,
                     roots, exempt, asked, draft, judged, guarded, pinned, moved, refused, trail>>
  BY DEF WriteLinks, db, scope, history
<1>2. /\ SessionFits(s) /\ ~Dry(s) /\ op[s] # Nothing /\ ~MovesEdge(s) /\ pinned[s] = {}
      /\ draft[s] = << >> /\ moved[s] = {}
  BY <1>1, LinkParts
<1>3. keys[s] \subseteq Containers BY <1>1, <1>2 DEF SessionFits, PhaseFits
<1>4. /\ crossed' \in [Sessions -> SUBSET Containers] /\ present' \in [Sessions -> SUBSET Containers]
      /\ crossed'[s] \subseteq crossed[s] \cup keys[s]
      /\ \A u \in Sessions \ {s} : crossed'[u] = crossed[u]
  BY <1>3 DEF WriteLinks, IInv, TypeOK
<1>5. pc'[s] = "commit" /\ \A u \in Sessions \ {s} : pc'[u] = pc[u] BY <1>1 DEF IInv, TypeOK
<1>6. TypeOK' BY <1>1, <1>4 DEF IInv, TypeOK, Labels
<1>7. \A u \in Sessions \ {s} : Rests(u) /\ Respects(u) BY <1>1, <1>4, <1>5 DEF Rests, Respects
<1>8. DOMAIN << >> = {} OBVIOUS
<1>9. SessionFits(s)'
  BY <1>1, <1>2, <1>5, <1>8 DEF SessionFits, PhaseFits, WritesComeLast, LocksHold, PinsAreGated,
     QuerysetsAreGated, PairsAreGated, Dry, MovesEdge, Related, Fetching
<1>10. Honest(s)'
  <2>1. PairsJudged(s)'
    BY <1>1, <1>2, <1>4 DEF PairsJudged, SessionFits, PairsAreGated, Gating, Scoped
  <2> QED BY <1>1, <1>2, <1>5, <2>1 DEF Honest, EdgesJudged, EntriesJudged, KeysBound,
         UpdatesGuarded, DenialAudited, WritesNothing
<1> QED BY <1>1, <1>6, <1>7, <1>9, <1>10, StepFits DEF IInv, Kept

-----------------------------------------------------------------------------
(* The environment.                                                        *)

\* Other transactions change no row a session has locked, grants and policies
\* may change at any time.
LEMMA EnvironmentFits ==
    ASSUME IInv, Grant \/ Publish \/ OtherWrite \/ OtherLink
    PROVE  IInv'
<1>1. /\ changes < MaxChanges /\ changes' = changes + 1
      /\ UNCHANGED <<lock, writes, pc, op, held, keys, scanned, roots, exempt, asked, draft, crossed,
                     present, judged, guarded, pinned, moved, refused, trail>>
  BY DEF Grant, Publish, OtherWrite, OtherLink, Changing, scope, history
<1>2. rows' \in [Rows -> Row \cup {Gone}] /\ links' \subseteq Containers
      /\ grants' \in [Containers -> Grants] /\ policy' \in Policies /\ policy' # "none"
  <2>1. CASE Grant BY <2>1 DEF Grant, Changing, IInv, TypeOK, Kept
  <2>2. CASE Publish BY <2>2 DEF Publish, Changing, IInv, TypeOK, Kept
  <2>3. CASE OtherWrite BY <2>3 DEF OtherWrite, Changing, IInv, TypeOK, Kept
  <2>4. CASE OtherLink
    <3>1. links \subseteq Containers BY DEF IInv, TypeOK
    <3>2. links' \subseteq Containers BY <2>4, <3>1 DEF OtherLink
    <3> QED BY <2>4, <3>2 DEF OtherLink, Changing, IInv, TypeOK, Kept
  <2> QED BY <2>1, <2>2, <2>3, <2>4
<1>3. changes' \in 0..MaxChanges
  BY <1>1, GatedAssumption DEF GatedAssumption, IInv, TypeOK
<1>4. TypeOK' BY <1>1, <1>2, <1>3 DEF IInv, TypeOK
<1>5. \A r \in Rows : lock[r] # None => rows'[r] = rows[r]
  BY DEF Grant, Publish, OtherWrite, OtherLink, Changing, IInv, TypeOK
<1>6. None \notin Sessions BY GatedAssumption DEF GatedAssumption
<1>7. \A u \in Sessions : Rests(u) /\ Respects(u) BY <1>1, <1>5, <1>6 DEF Rests, Respects
<1>8. \A u \in Sessions : SessionFits(u)' /\ Honest(u)' BY <1>7, RestingFits
<1> QED BY <1>1, <1>2, <1>4, <1>8, PropertiesBySessionAfter DEF IInv, Kept

-----------------------------------------------------------------------------
(* The theorems.                                                           *)

LEMMA InitFits ==
    ASSUME Init, "none" \notin FirstPolicies
    PROVE  IInv
<1>1. DOMAIN << >> = {} OBVIOUS
<1>2. TypeOK
  BY <1>1, GatedAssumption DEF GatedAssumption, Init, TypeOK, Labels
<1>3. \A s \in Sessions :
         /\ pc[s] = "idle" /\ op[s] = Nothing /\ draft[s] = << >> /\ moved[s] = {}
         /\ pinned[s] = {} /\ crossed[s] = {}
  BY DEF Init
<1>4. \A s \in Sessions : SessionFits(s)
  BY <1>1, <1>3 DEF SessionFits, PhaseFits, WritesComeLast, LocksHold, PinsAreGated,
     QuerysetsAreGated, PairsAreGated, Related, Fetching, Dry, Nothing
<1>5. \A s \in Sessions : Honest(s)
  BY <1>3 DEF Honest, EdgesJudged, EntriesJudged, KeysBound, UpdatesGuarded, PairsJudged,
     DenialAudited, WritesNothing
<1>6. policy # "none" /\ DOMAIN draft = Sessions BY DEF Init
<1> QED BY <1>2, <1>4, <1>5, <1>6, PropertiesBySession DEF IInv, Kept

\* Every step of a session, and of the environment, keeps the invariant.
LEMMA StepKeeps == IInv /\ [Next]_vars => IInv'
<1> SUFFICES ASSUME IInv, [Next]_vars PROVE IInv' OBVIOUS
<1>1. ASSUME NEW s \in Sessions, SessionStep(s) PROVE IInv'
  <2>1. CASE Start(s) \/ Commit(s) \/ DatabaseError(s) \/ Finish(s)
    BY <2>1, StartFits, CommitFits, DatabaseErrorFits, FinishFits
  <2>2. CASE SaveStep(s)
    BY <2>2, CheckFits, ReadEdgeFits, JudgeFits, DatabaseErrorFits, WriteRowFits DEF SaveStep
  <2>3. CASE QuerysetStep(s)
    BY <2>3, SelectKeysFits, ScanFits, GuardFits, WriteUpdateFits, CaptureRootsFits,
       WriteDeleteFits DEF QuerysetStep
  <2>4. CASE LinksStep(s)
    BY <2>4, WrapperFits, SignalFits, JudgeLinksFits, HandlerFits, OpenThroughFits,
       WriteLinksFits DEF LinksStep
  <2> QED BY <1>1, <2>1, <2>2, <2>3, <2>4 DEF SessionStep
<1>2. CASE Grant \/ Publish \/ OtherWrite \/ OtherLink BY <1>2, EnvironmentFits
<1>3. CASE UNCHANGED vars
  <2>1. TypeOK' BY <1>3 DEF IInv, TypeOK, vars, db, scope, history
  <2>2. \A u \in Sessions : Rests(u) /\ Respects(u)
    BY <1>3 DEF Rests, Respects, vars, db, scope, history
  <2>3. \A u \in Sessions : SessionFits(u)' /\ Honest(u)' BY <2>2, RestingFits
  <2>4. policy' # "none" /\ DOMAIN draft' = Sessions BY <1>3 DEF IInv, Kept, vars, db
  <2> QED BY <2>1, <2>3, <2>4, PropertiesBySessionAfter DEF IInv, Kept
<1> QED BY <1>1, <1>2, <1>3 DEF Next

\* Once a policy is published, every session is gated as its next step needs,
\* whatever the other sessions, the admin and the database do in between.
THEOREM Invariance ==
    ASSUME "none" \notin FirstPolicies
    PROVE  Spec => []IInv
<1>1. Init => IInv BY InitFits
<1>2. IInv /\ [Next]_vars => IInv' BY StepKeeps
<1> QED BY <1>1, <1>2, PTL DEF Spec

\* Every variable has its type.
THEOREM TypeCorrectness ==
    ASSUME "none" \notin FirstPolicies
    PROVE  Spec => []TypeOK
<1>1. IInv => TypeOK BY DEF IInv
<1> QED BY <1>1, Invariance, PTL

\* No actor's write moves a row, puts one into a container or links a pair
\* that was not checked for it: the lock between the gate and the statement,
\* and the policy held since the start, are enough for any number of sessions
\* (_gate_backed_field_change, _gate_m2m, covers_row).
THEOREM NothingIsWrittenUnjudged ==
    ASSUME "none" \notin FirstPolicies
    PROVE  Spec => []WritesAreJudged
<1>1. IInv => WritesAreJudged BY DEF IInv
<1> QED BY <1>1, Invariance, PTL

\* No queryset write reaches a row its scope did not admit, nor an update of a
\* column the policy reads one its guard did not check (by_key).
THEOREM QuerysetWritesStayBounded ==
    ASSUME "none" \notin FirstPolicies
    PROVE  Spec => []QuerysetWritesAreBounded
<1>1. IInv => QuerysetWritesAreBounded BY DEF IInv
<1> QED BY <1>1, Invariance, PTL

\* A denial leaves its audit row and nothing else, and a rehearsal nothing.
THEOREM DenialsLeaveTheirAudit ==
    ASSUME "none" \notin FirstPolicies
    PROVE  Spec => []OnlyAuditRowsRemain
<1>1. IInv => OnlyAuditRowsRemain BY DEF IInv
<1> QED BY <1>1, Invariance, PTL
=============================================================================
