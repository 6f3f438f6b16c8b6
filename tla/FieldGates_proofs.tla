-------------------------- MODULE FieldGates_proofs --------------------------
(***************************************************************************)
(* HiddenValuesStayHidden and WritesKeepTheFieldGates for any rows,        *)
(* values, queries, tuples and number of operations.                       *)
(***************************************************************************)
EXTENDS FieldGates, TLAPS

USE DEF Querying, Delivering, Writable, Validating

\* The records of a state, by what their fields are.
LEMMA FactsAreRecords ==
    ASSUME NEW f \in Facts
    PROVE f.readers \subseteq Rows /\ f.writers \subseteq Rows /\ Shown(f) \subseteq Rows
BY DEF Facts, Shown

LEMMA HoldingIsTyped ==
    ASSUME NEW f \in Facts, NEW w \in Held3
    PROVE Holding(f) \in Held3 /\ And(w, f) \in Held3 /\ Never \in Held3
BY FactsAreRecords DEF Holding, And, Never, Held3

LEMMA WindowsGrow ==
    ASSUME NEW f \in Facts, NEW w \in Held3
    PROVE Within(Holding(f), And(w, f)) /\ Within(w, And(w, f))
BY DEF Within, Holding, And

LEMMA TargetsAreRows ==
    ASSUME NEW R \in SUBSET Rows PROVE Targets(R) \subseteq Rows
BY FieldAssumption DEF FieldAssumption, Targets

LEMMA Initially == ASSUME Init PROVE IInv
<1>1. TypeOK
  <2>1. PICK s \in Starts : setup = s[1] /\ facts = s[2] BY DEF Init
  <2>2. setup \in Setup /\ facts \in Facts BY <2>1, StartAssumption DEF StartAssumption
  <2>3. stored \in [Rows -> Row]
    BY StartAssumption DEF StartAssumption, Init, Row, Cells
  <2> QED BY <2>2, <2>3, FieldAssumption
          DEF Init, TypeOK, FieldAssumption, Labels, Never, Held3
<1>2. StepsFitTheirOperation BY DEF Init, StepsFitTheirOperation
<1>3. WindowsAreTrue BY DEF Init, WindowsAreTrue
<1>4. AnswersAreWithin BY DEF Init, AnswersAreWithin
<1>5. QueriesAreGuarded BY DEF Init, QueriesAreGuarded
<1>6. RowsAreReadable BY DEF Init, RowsAreReadable
<1>7. WritesAreGated BY DEF Init, WritesAreGated
<1>8. CleansAreGated BY DEF Init, CleansAreGated
<1>9. RedactedInstancesAreEmpty BY DEF Init, RedactedInstancesAreEmpty
<1> QED BY <1>1, <1>2, <1>3, <1>4, <1>5, <1>6, <1>7, <1>8, <1>9 DEF IInv

-----------------------------------------------------------------------------
(* The other sessions.                                                     *)

LEMMA RewriteKeeps ==
    ASSUME IInv, NEW new \in Facts, NEW own \in BOOLEAN, own => memo # Unset, Rewrite(new, own)
    PROVE IInv'
<1> USE DEF Rewrite, statement, seen
<1>0. facts \in Facts /\ window \in Held3 /\ fresh \in Held3 BY DEF IInv, TypeOK
<1>1. TypeOK'
  <2>1. window' \in Held3 /\ fresh' \in Held3 BY <1>0, HoldingIsTyped
  <2>2. /\ changes' \in 0..MaxChanges /\ mark' \in 0..changes'
    BY FieldAssumption DEF IInv, TypeOK, FieldAssumption
  <2>3. \/ memo = Unset
        \/ \A e \in memo : e \in [rows : SUBSET Rows, mark : 0..mark', held : SUBSET Rows]
    <3>1. mark \in Nat /\ (mark' = mark \/ mark' = mark + 1) BY DEF IInv, TypeOK
    <3>2. 0..mark \subseteq 0..mark' BY <3>1
    <3> QED BY <3>2 DEF IInv, TypeOK
  <2> QED BY <2>1, <2>2, <2>3 DEF IInv, TypeOK
<1>2. StepsFitTheirOperation' BY DEF IInv, StepsFitTheirOperation
<1>3. WindowsAreTrue'
  <2>1. pc' = "idle" => window' = Never /\ compared' = {} BY DEF IInv, WindowsAreTrue
  <2>2. pc' # "idle" => Within(Holding(facts'), window') BY <1>0, WindowsGrow
  <2>3. ASSUME memo' # Unset PROVE Within(Holding(facts'), fresh')
    BY <1>0, <2>3, WindowsGrow DEF Within
  <2>4. ASSUME memo' # Unset, pc' # "idle" PROVE Within(fresh', window')
    <3>1. CASE own BY <3>1, <2>4, <2>2
    <3>2. CASE ~own
      BY <3>2, <2>4 DEF IInv, WindowsAreTrue, Within, And
    <3> QED BY <3>1, <3>2
  <2>5. ASSUME memo' # Unset, NEW e \in memo', e.mark = mark' PROVE e.held \subseteq fresh'.readable
    <3>1. e.mark \in 0..mark BY <2>5 DEF IInv, TypeOK
    <3>2. ~own BY <3>1, <2>5 DEF IInv, TypeOK
    <3> QED BY <3>2, <2>5 DEF IInv, WindowsAreTrue, And
  <2>6. Holding(facts)' = Holding(facts') BY DEF Holding, Shown, Level
  <2> QED BY <2>1, <2>2, <2>3, <2>4, <2>5, <2>6 DEF WindowsAreTrue
<1>4. pc # "idle" => Within(window, window') BY <1>0, WindowsGrow
<1>5. AnswersAreWithin'
  BY <1>4 DEF IInv, AnswersAreWithin, WindowsAreTrue, Within
<1>6. QueriesAreGuarded'
  <2>1. window'.readable \subseteq Rows BY <1>1 DEF TypeOK, Held3
  <2> QED BY <1>4, <2>1 DEF IInv, QueriesAreGuarded, Within, Enforced, Mode
<1>7. RowsAreReadable'
  BY <1>4 DEF IInv, StepsFitTheirOperation, RowsAreReadable, Within, Enforced, Mode
<1>8. WritesAreGated'
  BY <1>4 DEF IInv, WritesAreGated, Within, Enforced, Mode, Dirty, NewValue
<1>9. CleansAreGated'
  BY <1>4 DEF IInv, CleansAreGated, MayBeSaved, Within, Enforced, Mode, Dirty, Requested
<1>10. RedactedInstancesAreEmpty' BY DEF IInv, RedactedInstancesAreEmpty
<1> QED BY <1>1, <1>2, <1>3, <1>5, <1>6, <1>7, <1>8, <1>9, <1>10 DEF IInv

LEMMA ChangeTuplesKeeps ==
    ASSUME IInv, ChangeTuples PROVE IInv'
<1>1. PICK own \in {FALSE, memo # Unset}, r \in Rows :
        \/ Rewrite([facts EXCEPT !.role = ~@], own)
        \/ Rewrite([facts EXCEPT !.owner[r] = IF @ = "no" THEN "yes" ELSE "no"], own)
        \/ Rewrite([facts EXCEPT !.readers = @ \ {r}], own)
        \/ Rewrite([facts EXCEPT !.writers = @ \ {r}], own)
        \/ setup.excludes /\ Rewrite([facts EXCEPT !.blocked = @ \cup {r}], own)
  BY DEF ChangeTuples
<1>2. own \in BOOLEAN /\ (own => memo # Unset) BY <1>1
<1>3. facts \in Facts BY DEF IInv, TypeOK
<1>4. /\ [facts EXCEPT !.role = ~@] \in Facts
      /\ [facts EXCEPT !.owner[r] = IF @ = "no" THEN "yes" ELSE "no"] \in Facts
      /\ [facts EXCEPT !.readers = @ \ {r}] \in Facts
      /\ [facts EXCEPT !.writers = @ \ {r}] \in Facts
      /\ [facts EXCEPT !.blocked = @ \cup {r}] \in Facts
  BY <1>3 DEF Facts
<1> QED BY <1>1, <1>2, <1>4, RewriteKeeps

LEMMA ChangeRowKeeps ==
    ASSUME IInv, NEW r \in Rows, ChangeRow(r) PROVE IInv'
<1> USE DEF ChangeRow, statement, seen
<1>1. TypeOK'
  <2>1. stored' \in [Rows -> Row]
    BY DEF IInv, TypeOK, Row, Cells
  <2>2. changes' \in 0..MaxChanges /\ mark \in 0..changes'
    BY FieldAssumption DEF IInv, TypeOK, FieldAssumption
  <2> QED BY <2>1, <2>2 DEF IInv, TypeOK
<1>2. StepsFitTheirOperation' BY DEF IInv, StepsFitTheirOperation
<1>3. WindowsAreTrue' BY DEF IInv, WindowsAreTrue, Holding, Shown, Level
<1>4. AnswersAreWithin' BY DEF IInv, AnswersAreWithin
<1>5. QueriesAreGuarded' BY DEF IInv, QueriesAreGuarded, Enforced, Mode
<1>6. RowsAreReadable' BY DEF IInv, RowsAreReadable, Enforced, Mode
<1>7. WritesAreGated' BY DEF IInv, WritesAreGated, Enforced, Mode, Dirty, NewValue
<1>8. CleansAreGated'
  BY DEF IInv, CleansAreGated, MayBeSaved, Enforced, Mode, Dirty, Requested
<1>9. RedactedInstancesAreEmpty' BY DEF IInv, RedactedInstancesAreEmpty
<1> QED BY <1>1, <1>2, <1>3, <1>4, <1>5, <1>6, <1>7, <1>8, <1>9 DEF IInv

-----------------------------------------------------------------------------
(* How operations begin and end.                                           *)

\* What a step leaves of the windows, when it touches none of what they are made of.
LEMMA WindowsStay ==
    ASSUME WindowsAreTrue, UNCHANGED <<setup, facts, mark, memo, fresh, window>>,
           pc # "idle", pc' # "idle"
    PROVE WindowsAreTrue'
BY DEF WindowsAreTrue, Holding, Shown, Level

LEMMA EndKeeps ==
    ASSUME IInv, pc # "idle", NEW rows, NEW shown, End(rows, shown),
           rows \subseteq window.readers, shown \subseteq window.readable,
           memo' = memo, stored' \in [Rows -> Row], object' \in Instance \cup {Unset},
           RedactedInstancesAreEmpty'
    PROVE IInv'
<1> USE DEF End
<1>1. TypeOK'
  <2>1. rows \subseteq Rows /\ shown \subseteq Rows BY DEF IInv, TypeOK, Held3
  <2>2. op # Nothing BY DEF IInv, TypeOK
  <2> QED BY <2>1, <2>2 DEF IInv, TypeOK, Labels
<1>2. StepsFitTheirOperation' BY DEF StepsFitTheirOperation
<1>3. WindowsAreTrue' BY WindowsStay DEF IInv
<1>4. AnswersAreWithin' BY DEF AnswersAreWithin
<1>5. QueriesAreGuarded' BY DEF QueriesAreGuarded
<1>6. RowsAreReadable' BY DEF RowsAreReadable
<1>7. WritesAreGated' BY DEF WritesAreGated
<1>8. CleansAreGated' BY DEF CleansAreGated
<1> QED BY <1>1, <1>2, <1>3, <1>4, <1>5, <1>6, <1>7, <1>8 DEF IInv

LEMMA RefuseKeeps == ASSUME IInv, pc # "idle", Refuse PROVE IInv'
<1>1. stored' \in [Rows -> Row] /\ object' \in Instance \cup {Unset}
  BY DEF Refuse, IInv, TypeOK
<1>2. RedactedInstancesAreEmpty' BY DEF Refuse, IInv, RedactedInstancesAreEmpty
<1> QED BY <1>1, <1>2, EndKeeps DEF Refuse

LEMMA BeginKeeps ==
    ASSUME IInv, NEW o, NEW label, Begin(o, label),
           \/ label = "guard" /\ o \in Queries
           \/ label = "keys" /\ o \in Updates
           \/ label = "keys" /\ o \in Batches /\ object # Unset
           \/ label = "gate" /\ o \in Saves /\ object # Unset
              /\ (o.fields = Unset => object.redacted = {})
           \/ label = "unique" /\ o \in Cleans /\ object # Unset
    PROVE IInv'
<1> USE DEF Begin, world, statement, seen
<1>0. facts \in Facts /\ window \in Held3 /\ fresh \in Held3 BY DEF IInv, TypeOK
<1>1. TypeOK'
  <2>1. window' \in Held3 BY <1>0, HoldingIsTyped
  <2>2. o \in Query \cup Saves \cup Updates \cup Batches \cup Cleans /\ o # Nothing
    BY StartAssumption DEF StartAssumption, Query, Saves, Updates, Batches, Cleans, Nothing
  <2>3. ops' \in 0..MaxOps BY FieldAssumption DEF FieldAssumption, IInv, TypeOK
  <2> QED BY <2>1, <2>2, <2>3 DEF IInv, TypeOK, Labels
<1>2. StepsFitTheirOperation'
  BY DEF IInv, StepsFitTheirOperation, Updates, Batches, Saves
<1>3. WindowsAreTrue'
  <2>1. Holding(facts)' = Holding(facts) BY DEF Holding, Shown, Level
  <2>2. pc = "idle" /\ pc' # "idle" OBVIOUS
  <2> QED BY <2>1, <2>2 DEF IInv, WindowsAreTrue, Within
<1>4. AnswersAreWithin' BY DEF IInv, AnswersAreWithin, WindowsAreTrue, Never
<1>5. QueriesAreGuarded' BY DEF QueriesAreGuarded
<1>6. RowsAreReadable' BY DEF IInv, RowsAreReadable, StepsFitTheirOperation
<1>7. WritesAreGated' BY DEF WritesAreGated
<1>8. CleansAreGated'
  BY DEF IInv, CleansAreGated, WindowsAreTrue, StepsFitTheirOperation
<1>9. RedactedInstancesAreEmpty' BY DEF IInv, RedactedInstancesAreEmpty
<1> QED BY <1>1, <1>2, <1>3, <1>4, <1>5, <1>6, <1>7, <1>8, <1>9 DEF IInv

LEMMA ScopeKeeps == ASSUME IInv, OpenScope \/ CloseScope PROVE IInv'
<1> USE DEF OpenScope, CloseScope, world, statement, seen
<1>1. TypeOK'
  <2>1. fresh' \in Held3 BY HoldingIsTyped DEF IInv, TypeOK
  <2> QED BY <2>1 DEF IInv, TypeOK
<1>2. StepsFitTheirOperation' BY DEF IInv, StepsFitTheirOperation
<1>3. WindowsAreTrue'
  <2>1. Holding(facts)' = Holding(facts) BY DEF Holding, Shown, Level
  <2> QED BY <2>1 DEF IInv, WindowsAreTrue, Within
<1>4. AnswersAreWithin' BY DEF IInv, AnswersAreWithin
<1>5. QueriesAreGuarded' BY DEF QueriesAreGuarded
<1>6. RowsAreReadable' BY DEF IInv, RowsAreReadable, StepsFitTheirOperation
<1>7. WritesAreGated' BY DEF WritesAreGated
<1>8. CleansAreGated' BY DEF CleansAreGated
<1>9. RedactedInstancesAreEmpty' BY DEF IInv, RedactedInstancesAreEmpty
<1> QED BY <1>1, <1>2, <1>3, <1>4, <1>5, <1>6, <1>7, <1>8, <1>9 DEF IInv

LEMMA ReturnKeeps == ASSUME IInv, Return PROVE IInv'
<1> USE DEF Return, world, statement, seen
<1>1. TypeOK' BY HoldingIsTyped DEF IInv, TypeOK, Labels
<1>2. StepsFitTheirOperation' BY DEF IInv, StepsFitTheirOperation
<1>3. WindowsAreTrue'
  <2>1. Holding(facts)' = Holding(facts) BY DEF Holding, Shown, Level
  <2> QED BY <2>1 DEF IInv, WindowsAreTrue
<1>4. AnswersAreWithin' BY DEF AnswersAreWithin
<1>5. QueriesAreGuarded' BY DEF QueriesAreGuarded
<1>6. RowsAreReadable' BY DEF IInv, RowsAreReadable, StepsFitTheirOperation
<1>7. WritesAreGated' BY DEF WritesAreGated
<1>8. CleansAreGated' BY DEF CleansAreGated
<1>9. RedactedInstancesAreEmpty' BY DEF IInv, RedactedInstancesAreEmpty
<1> QED BY <1>1, <1>2, <1>3, <1>4, <1>5, <1>6, <1>7, <1>8, <1>9 DEF IInv

LEMMA InMemoryKeeps ==
    ASSUME IInv, NEW new \in Instance, InMemory(new), RedactedInstancesAreEmpty'
    PROVE IInv'
<1> USE DEF InMemory, world, statement, seen
<1>1. TypeOK' BY FieldAssumption DEF FieldAssumption, IInv, TypeOK
<1>2. StepsFitTheirOperation' BY DEF IInv, StepsFitTheirOperation
<1>3. WindowsAreTrue'
  <2>1. Holding(facts)' = Holding(facts) BY DEF Holding, Shown, Level
  <2> QED BY <2>1 DEF IInv, WindowsAreTrue
<1>4. AnswersAreWithin' BY DEF IInv, AnswersAreWithin
<1>5. QueriesAreGuarded' BY DEF QueriesAreGuarded
<1>6. RowsAreReadable' BY DEF IInv, RowsAreReadable, StepsFitTheirOperation
<1>7. WritesAreGated' BY DEF WritesAreGated
<1>8. CleansAreGated' BY DEF CleansAreGated
<1> QED BY <1>1, <1>2, <1>3, <1>4, <1>5, <1>6, <1>7, <1>8 DEF IInv

-----------------------------------------------------------------------------
(* Queries.                                                                *)

\* Who holds a field shows it, and a grant on every row shows every row.
LEMMA HeldIsShown ==
    ASSUME NEW R \in SUBSET Rows
    PROVE HeldMany(R) \subseteq Shown(facts) /\ HeldMany(R) \subseteq R
BY DEF HeldMany, Held, Shown

LEMMA GrantsShowEveryRow == ASSUME GrantsAll PROVE Shown(facts) = Rows
BY DEF GrantsAll, Shown, Level

\* The guards look at all that a statement evaluates.
LEMMA EvaluatedIsInspected ==
    ASSUME NEW q \in Queries
    PROVE /\ Evaluated(q) \subseteq Clauses(q) \cup Selections(q)
          /\ "joined" \in Evaluated(q) => q.related /\ "joined" \in Selections(q)
<1>1. Evaluated(q) \subseteq Clauses(q) \cup Selections(q)
  <2>1. In(q, {"operand"}) # {} => In(q, {"operand"}) \subseteq Selections(q)
    BY DEF Selections, Combined, In
  <2>2. In(q, {"select"}) \subseteq In(q, {"select", "operand"}) BY DEF In
  <2> QED BY <2>1, <2>2 DEF Evaluated, Selections
<1>2. ASSUME NEW places, "joined" \in In(q, places) PROVE "select" \in places /\ q.related
  BY <1>2, StartAssumption DEF StartAssumption, In, Query, Places, Columns
<1>3. "joined" \notin Clauses(q) /\ "joined" \notin In(q, {"operand"})
  BY <1>2 DEF Clauses
<1>4. ASSUME "joined" \in Evaluated(q) PROVE q.related
  <2>1. "joined" \in In(q, {"select"}) BY <1>3, <1>4 DEF Evaluated
  <2> QED BY <2>1, <1>2
<1> QED BY <1>1, <1>3, <1>4

LEMMA GuardKeeps == ASSUME IInv, Guard PROVE IInv'
<1> USE DEF Guard
<1>1. CASE GuardClauses(op) \/ GuardSelections(op) \/ GuardRelated(op)
  BY <1>1, RefuseKeeps
<1>2. CASE ~(GuardClauses(op) \/ GuardSelections(op) \/ GuardRelated(op))
  <2> USE <1>2 DEF Goto, world, statement, seen
  <2>0. op \in Queries BY DEF IInv, StepsFitTheirOperation
  <2>1. TypeOK' BY DEF IInv, TypeOK, Labels
  <2>2. StepsFitTheirOperation' BY DEF IInv, StepsFitTheirOperation
  <2>3. WindowsAreTrue' BY WindowsStay DEF IInv
  <2>4. AnswersAreWithin' BY DEF IInv, AnswersAreWithin
  <2>5. QueriesAreGuarded'
    <3>1. "joined" \notin Evaluated(op) BY <2>0, EvaluatedIsInspected DEF GuardRelated
    <3>2. ASSUME Enforced(op.mode), Evaluated(op) \cap {"gated", "raw"} # {}
          PROVE window.readable = Rows
      <4>1. GrantsAll
        BY <2>0, <3>2, EvaluatedIsInspected DEF GuardClauses, GuardSelections, HiddenFrom
      <4>2. Shown(facts) = Rows BY <4>1, GrantsShowEveryRow
      <4> QED BY <4>2 DEF IInv, TypeOK, Held3, WindowsAreTrue, Within, Holding
    <3> QED BY <3>1, <3>2 DEF QueriesAreGuarded, Enforced, Mode
  <2>6. RowsAreReadable' BY DEF IInv, RowsAreReadable, StepsFitTheirOperation
  <2>7. WritesAreGated' BY DEF WritesAreGated
  <2>8. CleansAreGated' BY DEF CleansAreGated
  <2>9. RedactedInstancesAreEmpty' BY DEF IInv, RedactedInstancesAreEmpty
  <2> QED BY <2>1, <2>2, <2>3, <2>4, <2>5, <2>6, <2>7, <2>8, <2>9 DEF IInv
<1> QED BY <1>1, <1>2

\* What a statement depends on was readable, by its guards or row by row.
LEMMA DependsAreReadable ==
    ASSUME IInv, pc = "statement"
    PROVE Depends(op, facts.readers) \subseteq window.readable
<1>1. facts.readers \subseteq Rows BY FactsAreRecords DEF IInv, TypeOK
<1>2. Shown(facts) \subseteq window.readable BY DEF IInv, WindowsAreTrue, Within, Holding
<1>3. HeldMany(facts.readers) \subseteq window.readable BY <1>1, <1>2, HeldIsShown
<1>4. ASSUME Enforced(op.mode), Evaluated(op) \cap {"gated", "raw"} # {}
      PROVE facts.readers \subseteq window.readable
  BY <1>1, <1>4 DEF IInv, QueriesAreGuarded
<1> QED BY <1>3, <1>4 DEF Depends

LEMMA SelectKeeps == ASSUME IInv, Select PROVE IInv'
<1> DEFINE R == facts.readers
<1>1. pc = "statement" /\ op \in Queries BY DEF Select, IInv, StepsFitTheirOperation
<1>2. R \subseteq Rows /\ R \subseteq window.readers
  BY <1>1, FactsAreRecords DEF IInv, TypeOK, WindowsAreTrue, Within, Holding
<1>3. Depends(op, R) \subseteq window.readable BY <1>1, DependsAreReadable
<1>4. "joined" \notin Evaluated(op) BY <1>1 DEF IInv, QueriesAreGuarded
<1>5. CASE op.terminal # "iterate"
  <2>1. End(R, Depends(op, R)) /\ UNCHANGED <<stored, memo, object>>
    BY <1>4, <1>5 DEF Select
  <2>2. stored' \in [Rows -> Row] /\ object' \in Instance \cup {Unset}
    BY <2>1 DEF IInv, TypeOK
  <2>3. RedactedInstancesAreEmpty' BY <2>1 DEF IInv, RedactedInstancesAreEmpty
  <2> QED BY <1>1, <1>2, <1>3, <2>1, <2>2, <2>3, EndKeeps
<1>6. CASE op.terminal = "iterate"
  <2>1. /\ pc' = "visibility" /\ op' = op /\ keys' = R
        /\ fetched' = [r \in R \cup (IF op.related THEN Targets(R) ELSE {}) |-> stored[r]]
        /\ exposed' = Depends(op, R) /\ revealed' = R
        /\ UNCHANGED <<setup, stored, facts, changes, mark, ops, memo, object, batch, visible,
                       verdict, window, fresh, compared>>
    BY <1>4, <1>6 DEF Select, Goto, world
  <2>2. /\ DOMAIN fetched' = R \cup (IF op.related THEN Targets(R) ELSE {})
        /\ DOMAIN fetched' \subseteq Rows
        /\ \A r \in DOMAIN fetched' : fetched'[r] \in Row
    BY <1>2, <2>1, TargetsAreRows DEF IInv, TypeOK
  <2>3. TypeOK'
    <3>1. exposed' \subseteq Rows /\ revealed' \subseteq Rows
      BY <1>2, <1>3, <2>1 DEF IInv, TypeOK, Held3
    <3> QED BY <1>1, <1>2, <2>1, <2>2, <3>1 DEF IInv, TypeOK, Labels
  <2>4. StepsFitTheirOperation' BY <1>1, <2>1 DEF IInv, StepsFitTheirOperation
  <2>5. WindowsAreTrue' BY <1>1, <2>1, WindowsStay DEF IInv
  <2>6. AnswersAreWithin' BY <1>2, <1>3, <2>1 DEF AnswersAreWithin
  <2>7. QueriesAreGuarded' BY <2>1 DEF QueriesAreGuarded
  <2>8. RowsAreReadable'
    <3>1. visible' = {} /\ batch' # "related"
      BY <1>1, <2>1 DEF IInv, StepsFitTheirOperation
    <3>2. Targets(keys)' = Targets(R) BY <2>1 DEF Targets
    <3> QED BY <1>2, <2>1, <2>2, <3>1, <3>2 DEF RowsAreReadable
  <2>9. WritesAreGated' BY <2>1 DEF WritesAreGated
  <2>10. CleansAreGated' BY <2>1 DEF CleansAreGated
  <2>11. RedactedInstancesAreEmpty' BY <2>1 DEF IInv, RedactedInstancesAreEmpty
  <2> QED BY <2>3, <2>4, <2>5, <2>6, <2>7, <2>8, <2>9, <2>10, <2>11 DEF IInv
<1> QED BY <1>5, <1>6

\* The rows of the batch in hand were readable rows.
LEMMA CandidatesAreRows ==
    ASSUME IInv, pc \in Delivering
    PROVE Candidates \subseteq Rows
BY TargetsAreRows DEF IInv, TypeOK, Candidates

\* Rows are marked visible that could be read, and the operation goes on.
LEMMA MarkKeeps ==
    ASSUME IInv, NEW R \in SUBSET Rows, Mark(R),
           Enforced(op.mode) => R \subseteq window.readable,
           \/ pc \in {"visibility", "conditional"} /\ pc' = Decided
           \/ /\ pc = "visibility" /\ pc' = "conditional"
              /\ ~setup.failClosed /\ Enforced(op.mode),
           UNCHANGED <<world, ops, op, object, keys, fetched, batch, verdict, window, fresh, seen>>,
           WindowsAreTrue',
           memo' = Unset \/ \A e \in memo' :
               e \in [rows : SUBSET Rows, mark : 0..mark, held : SUBSET Rows]
    PROVE IInv'
<1> USE DEF Mark, world, seen
<1>1. pc' \in {"related", "deliver", "conditional"} BY DEF Decided
<1>2. TypeOK'
  <2>1. visible' \subseteq {"roots", "related"} \X Rows BY DEF IInv, TypeOK
  <2>2. pc' \in Labels /\ (pc' = "idle" <=> op' = Nothing)
    BY <1>1 DEF IInv, TypeOK, Labels
  <2> QED BY <2>1, <2>2 DEF IInv, TypeOK
<1>3. StepsFitTheirOperation'
  <2>1. batch = "related" => pc' # "related" BY DEF Decided
  <2> QED BY <1>1, <2>1 DEF IInv, StepsFitTheirOperation
<1>4. AnswersAreWithin' BY DEF IInv, AnswersAreWithin
<1>5. QueriesAreGuarded' BY <1>1 DEF QueriesAreGuarded
<1>6. RowsAreReadable'
  <2>1. Targets(keys)' = Targets(keys) BY DEF Targets
  <2>2. Enforced(op.mode)' = Enforced(op.mode) BY DEF Enforced, Mode
  <2>3. Enforced(op.mode) => \A i \in visible' : i[2] \in window.readable
    BY DEF IInv, RowsAreReadable
  <2>4. /\ pc' = "related" => op.related
        /\ pc' = "deliver" /\ op.related => batch = "related"
    BY DEF Decided, IInv, TypeOK
  <2>5. pc' = "conditional" => ~setup.failClosed /\ Enforced(op.mode)
    BY <1>1 DEF Decided
  <2> QED BY <2>1, <2>2, <2>3, <2>4, <2>5 DEF IInv, RowsAreReadable
<1>7. WritesAreGated' BY <1>1 DEF WritesAreGated
<1>8. CleansAreGated' BY <1>1 DEF CleansAreGated
<1>9. RedactedInstancesAreEmpty' BY DEF IInv, RedactedInstancesAreEmpty
<1> QED BY <1>2, <1>3, <1>4, <1>5, <1>6, <1>7, <1>8, <1>9 DEF IInv

LEMMA VisibilityKeeps == ASSUME IInv, Visibility PROVE IInv'
<1> USE DEF Goto
<1> DEFINE R == Candidates
<1>1. pc = "visibility" /\ pc' \in {Decided, "conditional"} BY DEF Visibility
<1>2. R \subseteq Rows BY <1>1, CandidatesAreRows
<1>3. UNCHANGED <<world, ops, op, object, keys, fetched, batch, verdict, window, fresh, seen>>
  BY DEF Visibility
<1>4. Shown(facts) \subseteq window.readable
  BY <1>1 DEF IInv, WindowsAreTrue, Within, Holding
<1>5. HeldMany(R) \subseteq Shown(facts) BY <1>2, HeldIsShown
<1>6. pc' # "idle" BY <1>1 DEF Decided
<1>7. CASE memo' = memo
  <2>1. WindowsAreTrue' BY <1>1, <1>3, <1>6, <1>7, WindowsStay DEF IInv, world
  <2>2. memo' = Unset \/ \A e \in memo' :
            e \in [rows : SUBSET Rows, mark : 0..mark, held : SUBSET Rows]
    BY <1>7 DEF IInv, TypeOK
  <2>3. CASE ~Enforced(op.mode)
    <3>1. Mark(R) /\ pc' = Decided BY <2>3 DEF Visibility
    <3> QED BY <1>1, <1>2, <1>3, <2>1, <2>2, <2>3, <3>1, MarkKeeps
  <2>4. CASE Enforced(op.mode)
    <3>1. PICK H : Mark(H) /\ (H = HeldMany(R) \/
              (memo # Unset /\ \E e \in memo : e.mark = mark /\ H = e.held))
      BY <2>4 DEF Visibility, Kept, Remembers
    <3>2. H \subseteq Rows /\ H \subseteq window.readable
      <4>1. CASE H = HeldMany(R) BY <1>2, <1>4, <1>5, <4>1, HeldIsShown
      <4>2. CASE memo # Unset /\ \E e \in memo : e.mark = mark /\ H = e.held
        BY <1>1, <4>2 DEF IInv, TypeOK, WindowsAreTrue, Within
      <4> QED BY <3>1, <4>1, <4>2
    <3>3. pc' = IF setup.failClosed THEN Decided ELSE "conditional"
      BY <2>4 DEF Visibility
    <3> QED BY <1>1, <1>3, <2>1, <2>2, <2>4, <3>1, <3>2, <3>3, MarkKeeps
  <2> QED BY <2>3, <2>4
<1>8. CASE memo' # memo
  <2>1. /\ Enforced(op.mode) /\ memo # Unset /\ Mark(HeldMany(R))
        /\ memo' = memo \cup {[rows |-> R, mark |-> mark, held |-> HeldMany(R)]}
        /\ pc' = IF setup.failClosed THEN Decided ELSE "conditional"
    BY <1>8 DEF Visibility, Remembers
  <2>2. HeldMany(R) \subseteq Rows /\ HeldMany(R) \subseteq window.readable
    BY <1>2, <1>4, <1>5, HeldIsShown
  <2>3. mark \in 0..mark BY DEF IInv, TypeOK
  <2>4. \A e \in memo' : e \in [rows : SUBSET Rows, mark : 0..mark, held : SUBSET Rows]
    BY <1>2, <2>1, <2>2, <2>3 DEF IInv, TypeOK
  <2>5. WindowsAreTrue'
    <3>1. Holding(facts)' = Holding(facts) BY <1>3 DEF Holding, Shown, Level, world
    <3>2. Within(Holding(facts), fresh) BY <2>1 DEF IInv, WindowsAreTrue
    <3>3. \A e \in memo' : e.mark = mark => e.held \subseteq fresh.readable
      BY <1>5, <2>1, <3>2 DEF IInv, WindowsAreTrue, Within, Holding
    <3> QED BY <1>1, <1>3, <1>6, <2>1, <3>1, <3>2, <3>3 DEF IInv, WindowsAreTrue, world
  <2> QED BY <1>1, <1>3, <2>1, <2>2, <2>4, <2>5, MarkKeeps
<1> QED BY <1>7, <1>8

LEMMA ConditionalKeeps == ASSUME IInv, Conditional PROVE IInv'
<1> DEFINE R == {r \in Candidates : Held(r) \/ Undecided(r)}
<1>1. pc = "conditional" /\ pc' = Decided /\ Mark(R) BY DEF Conditional, Goto
<1>2. UNCHANGED <<world, ops, op, memo, object, keys, fetched, batch, verdict, window, fresh, seen>>
  BY DEF Conditional, Goto
<1>3. Candidates \subseteq Rows BY <1>1, CandidatesAreRows
<1>4. Shown(facts) \subseteq window.readable
  BY <1>1 DEF IInv, WindowsAreTrue, Within, Holding
<1>5. ~setup.failClosed BY <1>1 DEF IInv, RowsAreReadable
<1>6. R \subseteq Rows /\ R \subseteq window.readable
  BY <1>3, <1>4, <1>5 DEF Held, Undecided, Shown
<1>7. pc' # "idle" BY <1>1 DEF Decided
<1>8. WindowsAreTrue' BY <1>1, <1>2, <1>7, WindowsStay DEF IInv, world
<1>9. memo' = Unset \/ \A e \in memo' :
          e \in [rows : SUBSET Rows, mark : 0..mark, held : SUBSET Rows]
  BY <1>2 DEF IInv, TypeOK
<1> QED BY <1>1, <1>2, <1>6, <1>8, <1>9, MarkKeeps

LEMMA SelectedRelatedKeeps == ASSUME IInv, SelectedRelated PROVE IInv'
<1>1. pc = "related" BY DEF SelectedRelated
<1>2. CASE ~(Targets(keys) \subseteq facts.readers)
  BY <1>1, <1>2, RefuseKeeps DEF SelectedRelated
<1>3. CASE Targets(keys) \subseteq facts.readers
  <2> USE <1>1, <1>3 DEF SelectedRelated, Goto, world, seen
  <2>1. TypeOK' BY DEF IInv, TypeOK, Labels
  <2>2. StepsFitTheirOperation' BY DEF IInv, StepsFitTheirOperation
  <2>3. WindowsAreTrue' BY WindowsStay DEF IInv
  <2>4. AnswersAreWithin' BY DEF IInv, AnswersAreWithin
  <2>5. QueriesAreGuarded' BY DEF QueriesAreGuarded
  <2>6. RowsAreReadable'
    <3>1. Targets(keys)' = Targets(keys) BY DEF Targets
    <3>2. facts.readers \subseteq window.readers
      BY DEF IInv, WindowsAreTrue, Within, Holding
    <3>3. Enforced(op.mode)' = Enforced(op.mode) BY DEF Enforced, Mode
    <3> QED BY <3>1, <3>2, <3>3 DEF IInv, RowsAreReadable
  <2>7. WritesAreGated' BY DEF WritesAreGated
  <2>8. CleansAreGated' BY DEF CleansAreGated
  <2>9. RedactedInstancesAreEmpty' BY DEF IInv, RedactedInstancesAreEmpty
  <2> QED BY <2>1, <2>2, <2>3, <2>4, <2>5, <2>6, <2>7, <2>8, <2>9 DEF IInv
<1> QED BY <1>2, <1>3

-----------------------------------------------------------------------------
(* The instance in memory.                                                 *)

\* RedactedInstancesAreEmpty of one instance.
Emptied(i) ==
    \A f \in i.redacted :
        /\ f \in i.assigned \/ i.now[f] = Null
        /\ i.loaded = Unset \/ i.loaded[f] = Absent

LEMMA WithoutEmpties ==
    ASSUME NEW i \in Instance, NEW hidden \in SUBSET Fields,
           \A f \in i.redacted \ hidden :
               /\ f \in i.assigned \/ i.now[f] = Null
               /\ i.loaded = Unset \/ i.loaded[f] = Absent
    PROVE Without(i, hidden) \in Instance /\ Emptied(Without(i, hidden))
<1> DEFINE now == [f \in Fields |-> IF f \in hidden THEN Null ELSE i.now[f]]
           loaded == IF i.loaded = Unset THEN Unset
                     ELSE [f \in Fields |-> IF f \in hidden THEN Absent ELSE i.loaded[f]]
           w == Without(i, hidden)
<1>1. /\ w.row = i.row /\ w.now = now /\ w.loaded = loaded /\ w.mode = i.mode
      /\ w.redacted = i.redacted \cup hidden /\ w.assigned = i.assigned \ hidden
      /\ w = [row |-> i.row, now |-> now, loaded |-> loaded, redacted |-> i.redacted \cup hidden,
              mode |-> i.mode, assigned |-> i.assigned \ hidden]
  <2>1. w = [i EXCEPT !.now = now, !.loaded = loaded,
                      !.redacted = i.redacted \cup hidden, !.assigned = i.assigned \ hidden]
    BY DEF Without
  <2> HIDE DEF now, loaded, w
  <2> QED BY <2>1 DEF Instance
<1>2. now \in [Fields -> Cells \cup {Copy}] BY DEF Instance, Cells
<1>3. loaded \in {Unset} \cup [Fields -> Cells \cup {Absent}] BY DEF Instance
<1>4. w \in Instance BY <1>1, <1>2, <1>3 DEF Instance
<1>5. ASSUME NEW f \in w.redacted
      PROVE /\ f \in w.assigned \/ w.now[f] = Null
            /\ w.loaded = Unset \/ w.loaded[f] = Absent
  <2>1. f \in Fields /\ (f \in i.redacted \ hidden \/ f \in hidden)
    BY <1>1, <1>5 DEF Instance
  <2>2. now[f] = IF f \in hidden THEN Null ELSE i.now[f] BY <2>1
  <2>3. loaded # Unset => loaded[f] = IF f \in hidden THEN Absent ELSE i.loaded[f]
    BY <2>1
  <2>4. loaded # Unset => i.loaded # Unset OBVIOUS
  <2> HIDE DEF now, loaded
  <2> QED BY <1>1, <2>1, <2>2, <2>3, <2>4
<1> QED BY <1>4, <1>5 DEF Emptied

LEMMA EmptiedObject ==
    ASSUME object' # Unset => Emptied(object') PROVE RedactedInstancesAreEmpty'
BY DEF RedactedInstancesAreEmpty, Emptied

LEMMA DeliverKeeps == ASSUME IInv, Deliver PROVE IInv'
<1> DEFINE all == ({"roots"} \X keys)
                    \cup (IF op.related THEN {"related"} \X Targets(keys) ELSE {})
           rows == revealed \cup {i[2] : i \in all}
           shown == exposed \cup (IF Enforced(op.mode) THEN {i[2] : i \in visible} ELSE {})
<1>1. /\ pc = "deliver" /\ op \in Query
      /\ \/ object' = object
         \/ \E i \in all :
               object' = Without(Loaded(i[1], i[2]), IF i \in visible THEN {} ELSE {"salary"})
      /\ End(rows, shown) /\ stored' = stored /\ memo' = memo
  BY StartAssumption DEF Deliver, IInv, StepsFitTheirOperation, StartAssumption
<1>2. /\ keys \subseteq window.readers
      /\ op.related => Targets(keys) \subseteq window.readers
      /\ Enforced(op.mode) => \A i \in visible : i[2] \in window.readable
      /\ DOMAIN fetched = keys \cup (IF op.related THEN Targets(keys) ELSE {})
      /\ \A r \in DOMAIN fetched : fetched[r] \in Row
  BY <1>1 DEF IInv, RowsAreReadable
<1>3. \A i \in all : i[2] \in window.readers /\ i[2] \in DOMAIN fetched
  BY <1>2
<1>4. rows \subseteq window.readers BY <1>3 DEF IInv, AnswersAreWithin
<1>5. shown \subseteq window.readable BY <1>2 DEF IInv, AnswersAreWithin
<1>6. stored' \in [Rows -> Row] BY <1>1 DEF IInv, TypeOK
<1>7. CASE object' = object
  <2>1. object' \in Instance \cup {Unset} BY <1>7 DEF IInv, TypeOK
  <2>2. RedactedInstancesAreEmpty' BY <1>7 DEF IInv, RedactedInstancesAreEmpty
  <2> HIDE DEF rows, shown, all
  <2> QED BY <1>1, <1>4, <1>5, <1>6, <2>1, <2>2, EndKeeps
<1>8. CASE object' # object
  <2>1. PICK i \in all :
          object' = Without(Loaded(i[1], i[2]), IF i \in visible THEN {} ELSE {"salary"})
    BY <1>1, <1>8
  <2>2. Mode(op.mode) \in {"allow", "enforce"} /\ op.mode \in {Unset, "allow"}
    BY <1>1 DEF Mode, IInv, TypeOK, Setup, Query
  <2>3. i[2] \in Rows /\ fetched[i[2]] \in Row
    BY <1>2, <1>3 DEF IInv, TypeOK, Held3
  <2>4. Loaded(i[1], i[2]) \in Instance BY <2>2, <2>3 DEF Loaded, Instance, Row
  <2>5. Loaded(i[1], i[2]).redacted = {} BY DEF Loaded
  <2>6. object' \in Instance /\ Emptied(object')
    BY <2>1, <2>4, <2>5, WithoutEmpties DEF Fields
  <2> HIDE DEF rows, shown, all
  <2> QED BY <1>1, <1>4, <1>5, <1>6, <2>6, EmptiedObject, EndKeeps
<1> QED BY <1>7, <1>8

LEMMA AssignKeeps ==
    ASSUME IInv, NEW f \in Fields, NEW v \in Values \cup {Copy}, Assign(f, v) PROVE IInv'
<1> DEFINE new == [object EXCEPT !.now[f] = v, !.assigned = @ \cup {f}]
<1>1. object \in Instance /\ Emptied(object)
  BY DEF Assign, InMemory, IInv, TypeOK, RedactedInstancesAreEmpty, Emptied
<1>2. new \in Instance BY <1>1 DEF Instance, Cells
<1>3. Emptied(new) BY <1>1 DEF Instance, Emptied
<1> QED BY <1>2, <1>3, EmptiedObject, InMemoryKeeps DEF Assign, InMemory

LEMMA RedactKeeps == ASSUME IInv, Redact PROVE IInv'
<1>1. object \in Instance /\ Emptied(object)
  BY DEF Redact, InMemory, IInv, TypeOK, RedactedInstancesAreEmpty, Emptied
<1>2. PICK new : InMemory(new) /\ new \in {object, Without(object, {"salary"})}
  BY DEF Redact
<1>3. new \in Instance /\ Emptied(new)
  BY <1>1, <1>2, WithoutEmpties DEF Emptied, Fields
<1> QED BY <1>2, <1>3, EmptiedObject, InMemoryKeeps DEF InMemory

LEMMA RefreshKeeps == ASSUME IInv, Refresh PROVE IInv'
<1> DEFINE read == [object EXCEPT !.now = stored[object.row], !.assigned = {}]
           new == Without(read, object.redacted)
<1>1. object \in Instance /\ stored \in [Rows -> Row]
  BY DEF Refresh, InMemory, IInv, TypeOK
<1>2. read \in Instance /\ read.redacted = object.redacted /\ object.redacted \subseteq Fields
  <2>1. stored[object.row] \in [Fields -> Cells \cup {Copy}] BY <1>1 DEF Instance, Row
  <2> QED BY <1>1, <2>1 DEF Instance
<1>3. new \in Instance /\ Emptied(new) BY <1>2, WithoutEmpties
<1>4. InMemory(new) BY DEF Refresh
<1> HIDE DEF new
<1> QED BY <1>3, <1>4, EmptiedObject, InMemoryKeeps DEF InMemory

LEMMA PickleKeeps == ASSUME IInv, Pickle PROVE IInv'
<1> DEFINE new == [object EXCEPT !.loaded = Unset, !.mode = Unset]
<1>1. object \in Instance /\ Emptied(object)
  BY DEF Pickle, InMemory, IInv, TypeOK, RedactedInstancesAreEmpty, Emptied
<1>2. new \in Instance BY <1>1 DEF Instance
<1>3. Emptied(new) BY <1>1 DEF Instance, Emptied
<1> QED BY <1>2, <1>3, EmptiedObject, InMemoryKeeps DEF Pickle, InMemory

-----------------------------------------------------------------------------
(* Writes.                                                                 *)

\* A full save of a redacted instance is not a full save any more.
LEMMA RequestedIsPartial ==
    ASSUME object # Unset, IInv, NEW fields \in {Unset} \cup SUBSET Fields
    PROVE /\ Requested(fields) \in {Unset} \cup SUBSET Fields
          /\ Requested(fields) = Unset => object.redacted = {}
BY FieldAssumption DEF FieldAssumption, Requested, Fields

LEMMA WritingBegins ==
    ASSUME IInv,
           \/ \E fields \in {Unset} \cup SUBSET Fields : Save(fields)
           \/ \E u \in Updates : Update(u)
           \/ \E f \in Fields : BulkUpdate(f)
    PROVE IInv'
<1>1. ASSUME NEW fields \in {Unset} \cup SUBSET Fields, Save(fields) PROVE IInv'
  <2>1. [kind |-> "save", fields |-> Requested(fields)] \in Saves
    BY <1>1, RequestedIsPartial DEF Save, Saves
  <2>2. Requested(fields) = Unset => object.redacted = {}
    BY <1>1, RequestedIsPartial DEF Save
  <2> QED BY <1>1, <2>1, <2>2, BeginKeeps DEF Save
<1>2. ASSUME NEW u \in Updates, Update(u) PROVE IInv' BY <1>2, BeginKeeps DEF Update
<1>3. ASSUME NEW f \in Fields, BulkUpdate(f) PROVE IInv'
  <2>1. [kind |-> "bulk_update", field |-> f, mode |-> Unset] \in Batches BY DEF Batches
  <2> QED BY <1>3, <2>1, BeginKeeps DEF BulkUpdate
<1> QED BY <1>1, <1>2, <1>3

LEMMA SelectKeysKeeps == ASSUME IInv, SelectKeys PROVE IInv'
<1> USE DEF SelectKeys, Goto, world, seen
<1>1. op \in Updates \cup Batches BY DEF IInv, StepsFitTheirOperation
<1>2. TypeOK'
  <2>1. keys' \subseteq Rows BY FactsAreRecords DEF IInv, TypeOK
  <2> QED BY <2>1 DEF IInv, TypeOK, Labels
<1>3. StepsFitTheirOperation' BY <1>1 DEF IInv, StepsFitTheirOperation
<1>4. WindowsAreTrue' BY WindowsStay DEF IInv
<1>5. AnswersAreWithin' BY DEF IInv, AnswersAreWithin
<1>6. QueriesAreGuarded' BY DEF QueriesAreGuarded
<1>7. RowsAreReadable' BY DEF IInv, RowsAreReadable, StepsFitTheirOperation
<1>8. WritesAreGated' BY <1>1 DEF WritesAreGated, Updates, Batches
<1>9. CleansAreGated' BY DEF CleansAreGated
<1>10. RedactedInstancesAreEmpty' BY DEF IInv, RedactedInstancesAreEmpty
<1> QED BY <1>2, <1>3, <1>4, <1>5, <1>6, <1>7, <1>8, <1>9, <1>10 DEF IInv

LEMMA GateKeeps == ASSUME IInv, Gate PROVE IInv'
<1> DEFINE refused == IF op.kind = "save" THEN SaveRefused(op.fields) ELSE UpdateRefused
<1>1. pc = "gate" /\ op \in Saves \cup Updates \cup Batches
  BY DEF Gate, IInv, StepsFitTheirOperation
<1>2. CASE refused BY <1>1, <1>2, RefuseKeeps DEF Gate
<1>3. CASE ~refused
  <2>1. /\ pc' = "write"
        /\ UNCHANGED <<world, ops, op, memo, object, statement, window, fresh, seen>>
    BY <1>3 DEF Gate, Goto
  <2>2. Holding(facts) \in Held3 /\ Within(Holding(facts), window)
    BY <1>1, HoldingIsTyped DEF IInv, TypeOK, WindowsAreTrue
  <2>3. Shown(facts) \subseteq window.readable /\ facts.writers \subseteq window.writers
    BY <2>2 DEF Within, Holding
  <2> USE <2>1 DEF world, statement, seen
  <2>4. TypeOK' BY <1>1 DEF IInv, TypeOK, Labels
  <2>5. StepsFitTheirOperation' BY <1>1 DEF IInv, StepsFitTheirOperation
  <2>6. WindowsAreTrue' BY <1>1, WindowsStay DEF IInv
  <2>7. AnswersAreWithin' BY DEF IInv, AnswersAreWithin
  <2>8. QueriesAreGuarded' BY DEF QueriesAreGuarded
  <2>9. RowsAreReadable' BY <1>1 DEF IInv, RowsAreReadable, StepsFitTheirOperation
  <2>10. WritesAreGated'
    <3>1. CASE op.kind = "save"
      <4>1. object \in Instance /\ object # Unset
        BY <1>1, <3>1 DEF IInv, StepsFitTheirOperation, TypeOK
      <4>2. ~SaveRefused(op.fields) BY <1>3, <3>1
      <4>3. Writes(op.fields) \cap object.redacted = {}
        BY <1>1, <3>1, <4>2 DEF SaveRefused, Writes, IInv, WritesAreGated
      <4>4. "salary" \in Dirty(op.fields) => object.row \in window.writers
        BY <2>3, <4>2 DEF SaveRefused
      <4>5. Enforced(object.mode) /\ (\E f \in Writes(op.fields) : object.now[f] = Copy) =>
                object.row \in window.readable
        BY <2>3, <4>1, <4>2 DEF SaveRefused, Held, Shown, Instance
      <4>6. /\ Dirty(op.fields)' = Dirty(op.fields)
            /\ Enforced(object.mode)' = Enforced(object.mode)
        BY DEF Dirty, Enforced, Mode
      <4> QED BY <3>1, <4>3, <4>4, <4>5, <4>6 DEF WritesAreGated, Writes
    <3>2. CASE op.kind # "save"
      <4>1. ~UpdateRefused BY <1>3, <3>2
      <4>2. op.field = "salary" => keys \subseteq window.writers
        BY <2>3, <4>1 DEF UpdateRefused
      <4>3. NewValue = Copy /\ Enforced(op.mode) => keys \subseteq window.readable
        <5>1. HeldMany(keys) \subseteq Shown(facts) BY HeldIsShown DEF IInv, TypeOK
        <5> QED BY <2>3, <4>1, <5>1 DEF UpdateRefused
      <4>4. NewValue' = NewValue /\ Enforced(op.mode)' = Enforced(op.mode)
        BY DEF NewValue, Enforced, Mode
      <4> QED BY <3>2, <4>2, <4>3, <4>4 DEF WritesAreGated
    <3> QED BY <3>1, <3>2
  <2>11. CleansAreGated' BY DEF CleansAreGated
  <2>12. RedactedInstancesAreEmpty' BY DEF IInv, RedactedInstancesAreEmpty
  <2> QED BY <2>4, <2>5, <2>6, <2>7, <2>8, <2>9, <2>10, <2>11, <2>12 DEF IInv
<1> QED BY <1>2, <1>3

LEMMA PutIsACell ==
    ASSUME IInv, NEW r \in Rows, NEW v \in Cells \cup {Copy} PROVE Put(v, r) \in Cells
BY DEF IInv, TypeOK, Row, Put, Fields

LEMMA WriteSaveKeeps == ASSUME IInv, WriteSave PROVE IInv'
<1> DEFINE W == Writes(op.fields)
           copies == {f \in W : object.now[f] = Copy}
           now == [f \in Fields |-> IF f \in copies THEN Put(Copy, object.row) ELSE object.now[f]]
           new == [object EXCEPT !.now = now]
<1>1. pc = "write" /\ op.kind = "save" BY DEF WriteSave
<1>2. object # Unset /\ object \in Instance /\ Emptied(object)
  BY <1>1 DEF IInv, StepsFitTheirOperation, TypeOK, RedactedInstancesAreEmpty, Emptied
<1>3. /\ W \cap object.redacted = {}
      /\ Enforced(object.mode) /\ copies # {} => object.row \in window.readable
  BY <1>1 DEF IInv, WritesAreGated
<1>4. object' = new /\ memo' = memo BY DEF WriteSave
<1>5. End({}, IF copies # {} /\ Enforced(object.mode) THEN {object.row} ELSE {})
  BY DEF WriteSave
<1>6. stored' = [stored EXCEPT ![object.row] =
                   [f \in Fields |-> IF f \in W THEN Put(object.now[f], object.row) ELSE @[f]]]
  BY DEF WriteSave
<1>7. \A f \in Fields : Put(object.now[f], object.row) \in Cells
                          /\ Put(Copy, object.row) \in Cells
  BY <1>2, PutIsACell DEF Instance
<1>8. stored' \in [Rows -> Row] BY <1>2, <1>6, <1>7 DEF IInv, TypeOK, Row, Instance
<1>9. now \in [Fields -> Cells \cup {Copy}] BY <1>2, <1>7 DEF Instance
<1>10. new \in Instance /\ new.now = now /\ new.redacted = object.redacted
       /\ new.assigned = object.assigned /\ new.loaded = object.loaded
  BY <1>2, <1>9 DEF Instance
<1>11. \A f \in object.redacted : now[f] = object.now[f] BY <1>2, <1>3 DEF Instance
<1>12. Emptied(new) BY <1>2, <1>10, <1>11 DEF Emptied
<1>13. RedactedInstancesAreEmpty' BY <1>4, <1>12, EmptiedObject
<1> HIDE DEF W, copies, now, new
<1> QED BY <1>1, <1>3, <1>4, <1>5, <1>8, <1>10, <1>13, EndKeeps

LEMMA WriteUpdateKeeps == ASSUME IInv, WriteUpdate PROVE IInv'
<1>1. pc = "write" /\ op.kind # "save" BY DEF WriteUpdate
<1>2. op \in Updates \cup Batches
  BY <1>1 DEF IInv, StepsFitTheirOperation, Saves
<1>3. op.field \in Fields /\ NewValue \in Cells \cup {Copy}
  <2>1. CASE op.kind = "update" BY <1>2, <2>1 DEF Updates, Batches, NewValue, Cells
  <2>2. CASE op.kind # "update"
    <3>1. object \in Instance BY <1>1, <2>2 DEF IInv, StepsFitTheirOperation, TypeOK
    <3> QED BY <1>2, <2>2, <3>1 DEF Updates, Batches, NewValue, Instance
  <2> QED BY <2>1, <2>2
<1>4. stored' \in [Rows -> Row]
  <2>1. \A r \in Rows : stored[r] \in Row /\ Put(NewValue, r) \in Cells
    BY <1>3, PutIsACell DEF IInv, TypeOK
  <2>2. \A r \in Rows : [stored[r] EXCEPT ![op.field] = Put(NewValue, r)] \in Row
    BY <1>3, <2>1 DEF Row
  <2> QED BY <2>1, <2>2 DEF WriteUpdate
<1>5. NewValue = Copy /\ Enforced(op.mode) => keys \subseteq window.readable
  BY <1>1 DEF IInv, WritesAreGated
<1>6. object' \in Instance \cup {Unset} /\ memo' = memo /\ RedactedInstancesAreEmpty'
  BY DEF WriteUpdate, IInv, TypeOK, RedactedInstancesAreEmpty
<1>7. End({}, IF NewValue = Copy /\ Enforced(op.mode) THEN keys ELSE {}) BY DEF WriteUpdate
<1> QED BY <1>1, <1>4, <1>5, <1>6, <1>7, EndKeeps

-----------------------------------------------------------------------------
(* Cleans.                                                                 *)

LEMMA CleanKeeps == ASSUME IInv, Clean PROVE IInv'
<1>1. [kind |-> "clean"] \in Cleans BY DEF Cleans
<1> QED BY <1>1, BeginKeeps DEF Clean

\* What the gates let pass may be saved.
LEMMA AdmittedMayBeSaved ==
    ASSUME IInv, pc \in Validating,
           Requested(Unset) = {} \/ ~SaveRefused(Requested(Unset))
    PROVE MayBeSaved
<1>1. facts.writers \subseteq window.writers
  BY DEF IInv, WindowsAreTrue, Within, Holding
<1>2. CASE Requested(Unset) = {}
  BY <1>2, FieldAssumption DEF FieldAssumption, MayBeSaved, Dirty
<1>3. CASE ~SaveRefused(Requested(Unset)) BY <1>1, <1>3 DEF SaveRefused, MayBeSaved
<1> QED BY <1>2, <1>3

LEMMA RehearseKeeps == ASSUME IInv, Rehearse PROVE IInv'
<1> USE DEF Rehearse, world, seen
<1>1. pc \in Validating BY DEF Asks
<1>2. verdict' \in {"admits", "refuses"} BY <1>1
<1>3. TypeOK' BY <1>2 DEF IInv, TypeOK
<1>4. StepsFitTheirOperation' BY <1>1 DEF IInv, StepsFitTheirOperation
<1>5. WindowsAreTrue' BY <1>1, WindowsStay DEF IInv
<1>6. AnswersAreWithin' BY DEF IInv, AnswersAreWithin
<1>7. QueriesAreGuarded' BY <1>1 DEF QueriesAreGuarded
<1>8. RowsAreReadable' BY <1>1 DEF IInv, RowsAreReadable, StepsFitTheirOperation
<1>9. WritesAreGated' BY <1>1 DEF WritesAreGated
<1>10. CleansAreGated'
  <2>1. verdict' = "admits" => MayBeSaved BY <1>1, AdmittedMayBeSaved
  <2>2. MayBeSaved' = MayBeSaved /\ Enforced(object.mode)' = Enforced(object.mode)
    BY DEF MayBeSaved, Requested, Dirty, Enforced, Mode
  <2> QED BY <1>1, <2>1, <2>2 DEF IInv, CleansAreGated
<1>11. RedactedInstancesAreEmpty' BY DEF IInv, RedactedInstancesAreEmpty
<1> QED BY <1>3, <1>4, <1>5, <1>6, <1>7, <1>8, <1>9, <1>10, <1>11 DEF IInv

LEMMA CleanStepKeeps == ASSUME IInv, CleanStep PROVE IInv'
<1> USE DEF CleanStep, Goto, world, statement
<1>1. /\ pc \in {"unique", "constraints"} /\ pc' \in {"constraints", "cleaned"}
      /\ compared' = compared \cup Compares
  OBVIOUS
<1>2. object # Unset /\ object \in Instance
  BY <1>1 DEF IInv, StepsFitTheirOperation, TypeOK
<1>3. facts.readers \subseteq Rows BY FactsAreRecords DEF IInv, TypeOK
<1>4. TypeOK'
  <2>1. Compares \subseteq Rows BY <1>3 DEF Compares
  <2> QED BY <1>1, <2>1 DEF IInv, TypeOK, Labels
<1>5. StepsFitTheirOperation' BY <1>1 DEF IInv, StepsFitTheirOperation
<1>6. WindowsAreTrue' BY <1>1, WindowsStay DEF IInv
<1>7. AnswersAreWithin' BY DEF IInv, AnswersAreWithin
<1>8. QueriesAreGuarded' BY <1>1 DEF QueriesAreGuarded
<1>9. RowsAreReadable' BY <1>1 DEF IInv, RowsAreReadable, StepsFitTheirOperation
<1>10. WritesAreGated' BY <1>1 DEF WritesAreGated
<1>11. CleansAreGated'
  <2>1. MayBeSaved' = MayBeSaved /\ Enforced(object.mode)' = Enforced(object.mode)
    BY DEF MayBeSaved, Requested, Dirty, Enforced, Mode
  <2>2. verdict = "admits" => MayBeSaved BY <1>1 DEF IInv, CleansAreGated
  <2>3. \/ /\ compared' \subseteq window.readers
           /\ Enforced(object.mode) => compared' \subseteq window.readable
        \/ "salary" \notin object.redacted /\ MayBeSaved
    <3>1. CASE Compares = {} BY <1>1, <3>1 DEF IInv, CleansAreGated
    <3>2. CASE Compares # {} /\ verdict = "admits"
      BY <2>2, <3>2 DEF Compares, LeftOut
    <3>3. CASE Compares # {} /\ verdict # "admits"
      <4>1. object.now["salary"] # Null /\ "salary" \notin LeftOut BY <3>3 DEF Compares
      <4>2. verdict = "refuses" BY <1>1, <3>3, <4>1 DEF Asks, IInv, TypeOK
      <4>3. Compares \subseteq facts.readers BY <3>3 DEF Compares
      <4>4. facts.readers \subseteq window.readers /\ Shown(facts) \subseteq window.readable
        BY <1>1 DEF IInv, WindowsAreTrue, Within, Holding
      <4>5. Enforced(object.mode) => Shown(facts) = Rows
        BY <4>1, <4>2, GrantsShowEveryRow DEF LeftOut, Gated
      <4>6. Enforced(object.mode) => Compares \subseteq window.readable
        BY <1>3, <4>3, <4>4, <4>5
      <4> QED BY <1>1, <4>3, <4>4, <4>6 DEF IInv, CleansAreGated
    <3> QED BY <3>1, <3>2, <3>3
  <2> QED BY <2>1, <2>2, <2>3 DEF CleansAreGated
<1>12. RedactedInstancesAreEmpty' BY DEF IInv, RedactedInstancesAreEmpty
<1> QED BY <1>4, <1>5, <1>6, <1>7, <1>8, <1>9, <1>10, <1>11, <1>12 DEF IInv

LEMMA CleanedKeeps == ASSUME IInv, Cleaned PROVE IInv'
<1>1. /\ pc # "idle" /\ End({}, {}) /\ memo' = memo
      /\ stored' \in [Rows -> Row] /\ object' \in Instance \cup {Unset}
  BY DEF Cleaned, IInv, TypeOK
<1>2. RedactedInstancesAreEmpty' BY DEF Cleaned, IInv, RedactedInstancesAreEmpty
<1> QED BY <1>1, <1>2, EndKeeps

-----------------------------------------------------------------------------
(* The theorems.                                                           *)

LEMMA Inductive == ASSUME IInv, [Next]_vars PROVE IInv'
<1>1. CASE Others BY <1>1, ChangeTuplesKeeps, ChangeRowKeeps DEF Others
<1>2. CASE OpenScope \/ CloseScope \/ Return BY <1>2, ScopeKeeps, ReturnKeeps
<1>3. CASE Reads
  <2>1. ASSUME NEW q \in Queries, Ask(q) PROVE IInv' BY <2>1, BeginKeeps DEF Ask
  <2> QED BY <1>3, <2>1, GuardKeeps, SelectKeeps, VisibilityKeeps, ConditionalKeeps,
             SelectedRelatedKeeps, DeliverKeeps
          DEF Reads
<1>4. CASE Edits
  <2>1. "title" \in Fields BY DEF Fields
  <2> QED BY <1>4, <2>1, AssignKeeps, RedactKeeps, RefreshKeeps, PickleKeeps DEF Edits
<1>5. CASE Writing
  BY <1>5, WritingBegins, SelectKeysKeeps, GateKeeps, WriteSaveKeeps, WriteUpdateKeeps
  DEF Writing
<1>6. CASE Cleaning
  BY <1>6, CleanKeeps, RehearseKeeps, CleanStepKeeps, CleanedKeeps DEF Cleaning
<1>7. CASE UNCHANGED vars
  <2> USE <1>7 DEF vars
  <2>1. TypeOK' BY DEF IInv, TypeOK
  <2>2. StepsFitTheirOperation' BY DEF IInv, StepsFitTheirOperation
  <2>3. WindowsAreTrue' BY DEF IInv, WindowsAreTrue, Holding, Shown, Level
  <2>4. AnswersAreWithin' BY DEF IInv, AnswersAreWithin
  <2>5. QueriesAreGuarded' BY DEF IInv, QueriesAreGuarded, Enforced, Mode
  <2>6. RowsAreReadable' BY DEF IInv, RowsAreReadable, Enforced, Mode
  <2>7. WritesAreGated' BY DEF IInv, WritesAreGated, Enforced, Mode, Dirty, NewValue
  <2>8. CleansAreGated'
    BY DEF IInv, CleansAreGated, MayBeSaved, Enforced, Mode, Dirty, Requested
  <2>9. RedactedInstancesAreEmpty' BY DEF IInv, RedactedInstancesAreEmpty
  <2> QED BY <2>1, <2>2, <2>3, <2>4, <2>5, <2>6, <2>7, <2>8, <2>9 DEF IInv
<1> QED BY <1>1, <1>2, <1>3, <1>4, <1>5, <1>6, <1>7 DEF Next

\* In every reachable state, whatever an operation holds in hand could be read, and
\* what it is about to write passed the gates of write__salary.
THEOREM Invariance == Spec => []IInv
<1>1. Init => IInv BY Initially
<1>2. IInv /\ [Next]_vars => IInv' BY Inductive
<1> QED BY <1>1, <1>2, PTL DEF Spec

\* Every variable of FieldGates keeps its type.
THEOREM TypeCorrectness == Spec => []TypeOK
<1>1. IInv => TypeOK BY DEF IInv
<1> QED BY <1>1, Invariance, PTL

\* No answer under enforcement depends on a salary that could not be read, a redacted
\* instance holds nothing of the row, and a clean tells no more than a save would.
THEOREM HiddenStaysHidden == Spec => []HiddenValuesStayHidden
<1>1. IInv => HiddenValuesStayHidden
  BY DEF IInv, HiddenValuesStayHidden, AnswersRestOnReadableFields, AnswersAreWithin,
         CleansTellWhatASaveWould, CleansAreGated, MayBeSaved
<1> QED BY <1>1, Invariance, PTL

\* Only the two writes go from "write" to "ended".
LEMMA OnlyWritesEnd == ASSUME Next, Ends PROVE WriteSave \/ WriteUpdate
<1> USE DEF Ends
<1>1. ~Others BY DEF Others, ChangeTuples, Rewrite, ChangeRow
<1>2. ~(OpenScope \/ CloseScope \/ Return) BY DEF OpenScope, CloseScope, Return
<1>3. ~Reads
  BY DEF Reads, Ask, Begin, Guard, Select, Visibility, Conditional, SelectedRelated, Deliver
<1>4. ~Edits BY DEF Edits, Assign, Redact, Refresh, Pickle, InMemory
<1>5. ~Cleaning BY DEF Cleaning, Clean, Begin, Rehearse, Asks, CleanStep, Cleaned
<1>6. CASE Writing BY <1>6 DEF Writing, Save, Update, BulkUpdate, Begin, SelectKeys, Gate
<1> QED BY <1>1, <1>2, <1>3, <1>4, <1>5, <1>6 DEF Next

LEMMA SaveKeepsTheGates ==
    ASSUME IInv, WriteSave PROVE SavesKeepWhatIsHidden /\ SalariesChangeUnderTheirGate
<1> DEFINE W == Writes(op.fields)
<1>1. /\ pc = "write" /\ op.kind = "save" /\ op \in Saves
      /\ object # Unset /\ object \in Instance /\ stored \in [Rows -> Row]
  BY DEF WriteSave, IInv, StepsFitTheirOperation, TypeOK, Updates, Batches
<1>2. stored' = [stored EXCEPT ![object.row] =
                   [f \in Fields |-> IF f \in W THEN Put(object.now[f], object.row) ELSE @[f]]]
  BY DEF WriteSave
<1>3. W \cap object.redacted = {} BY <1>1 DEF IInv, WritesAreGated
<1>4. \A f \in Fields \ W : stored'[object.row][f] = stored[object.row][f]
  BY <1>1, <1>2 DEF Instance
<1>5. SavesKeepWhatIsHidden BY <1>1, <1>3, <1>4 DEF SavesKeepWhatIsHidden, Instance
<1>6. ASSUME NEW r \in Rows, stored'[r].salary # stored[r].salary
      PROVE r \in window.writers \/ WritesBack(r)
  <2>1. r = object.row /\ "salary" \in W
    BY <1>1, <1>2, <1>4, <1>6 DEF Instance, Fields
  <2>2. CASE "salary" \in Dirty(op.fields)
    BY <1>1, <2>1, <2>2 DEF IInv, WritesAreGated
  <2>3. CASE "salary" \notin Dirty(op.fields)
    BY <1>1, <2>1, <2>3 DEF Dirty, Writes, WritesBack, Fields
  <2> QED BY <2>2, <2>3
<1> QED BY <1>5, <1>6 DEF SalariesChangeUnderTheirGate

LEMMA UpdateKeepsTheGates ==
    ASSUME IInv, WriteUpdate PROVE SavesKeepWhatIsHidden /\ SalariesChangeUnderTheirGate
<1>1. /\ pc = "write" /\ op.kind # "save" /\ op \in Updates \cup Batches
      /\ stored \in [Rows -> Row]
  BY DEF WriteUpdate, IInv, StepsFitTheirOperation, TypeOK, Saves
<1>2. op.field \in Fields BY <1>1 DEF Updates, Batches
<1>3. ASSUME NEW r \in Rows, stored'[r].salary # stored[r].salary
      PROVE r \in window.writers
  <2>1. r \in keys /\ op.field = "salary"
    BY <1>1, <1>2, <1>3 DEF WriteUpdate, Row, Fields
  <2> QED BY <1>1, <2>1 DEF IInv, WritesAreGated
<1>4. SalariesChangeUnderTheirGate BY <1>3 DEF SalariesChangeUnderTheirGate
<1> QED BY <1>1, <1>4 DEF SavesKeepWhatIsHidden, Saved

\* A save leaves a redacted field as it is stored, and a salary changes only if
\* write__salary held during the operation, or a save writes back what it loaded.
THEOREM WritesAreGatedByField == Spec => WritesKeepTheFieldGates
<1>1. IInv /\ [Next]_vars => [SavesKeepWhatIsHidden /\ SalariesChangeUnderTheirGate]_vars
  <2> SUFFICES ASSUME IInv, Next
               PROVE SavesKeepWhatIsHidden /\ SalariesChangeUnderTheirGate
    OBVIOUS
  <2>1. CASE Ends BY <2>1, OnlyWritesEnd, SaveKeepsTheGates, UpdateKeepsTheGates
  <2>2. CASE ~Ends BY <2>2 DEF SavesKeepWhatIsHidden, SalariesChangeUnderTheirGate, Saved
  <2> QED BY <2>1, <2>2
<1> QED BY <1>1, Invariance, PTL DEF Spec, WritesKeepTheFieldGates
=============================================================================
