------------------------ MODULE DecisionCache_proofs ------------------------
(***************************************************************************)
(* For any number of threads, evaluators, questions and writes: the types, *)
(* AnswersRestOnKnownFacts and AnswersSeeOwnWrites; and KeptAnswersFit     *)
(* when no write is inside a caller's transaction and no two threads share *)
(* an evaluator.                                                           *)
(***************************************************************************)
EXTENDS DecisionCache, TLAPS

USE DEF Changes, Idle, InTransaction, InScope

-----------------------------------------------------------------------------
(* The types.                                                              *)

\* Initially nothing is asked, cached or written.
LEMMA InitiallyTyped ==
    ASSUME Init PROVE TypedInv
<1>1. TypeOK
  BY BoundAssumption DEF Init, TypeOK, DatabaseTypeOK, ProcessTypeOK, EvaluatorsTypeOK,
     LocalsTypeOK, Phases
<1> QED BY <1>1 DEF Init, TypedInv, ThreadIsTyped, Asking

\* What a thread has stays typed as long as its own part of the state stays.
LEMMA KeepsTypes ==
    ASSUME TypedInv, TypeOK', NEW t \in Threads, ThreadIsTyped(t)',
           \A u \in Threads \ {t} :
               /\ pc'[u] = pc[u] /\ asked'[u] = asked[u] /\ since'[u] = since[u]
               /\ key'[u] = key[u] /\ compiled'[u] = compiled[u] /\ answer'[u] = answer[u]
               /\ scopes'[u] = scopes[u]
    PROVE TypedInv'
<1>1. ASSUME NEW u \in Threads \ {t} PROVE ThreadIsTyped(u)'
  <2>1. ThreadIsTyped(u) BY DEF TypedInv
  <2> QED BY <2>1 DEF ThreadIsTyped, Asking
<1> QED BY <1>1 DEF TypedInv

\* Where the evaluator of a question is.
LEMMA ActiveIsTyped ==
    ASSUME TypeOK, NEW t \in Threads, InScope(t)
    PROVE scopes[t] \in Seq(Evaluators) /\ scopes[t] # << >> /\ Active(t) \in Evaluators
<1>1. scopes[t] \in Seq(Evaluators) /\ scopes[t] # << >>
  BY DEF TypeOK, EvaluatorsTypeOK
<1> QED BY <1>1 DEF Active, Last

\* What a thread that asks has, by what it is doing.
LEMMA AskingHas ==
    ASSUME TypedInv, NEW t \in Threads, pc[t] \in Asking
    PROVE /\ InScope(t) /\ Active(t) \in Evaluators
          /\ asked[t] \in Questions /\ since[t] \in Starts
          /\ pc[t] \in {"generation", "execute"} => compiled[t] \in Snapshots
          /\ pc[t] \in {"lookup", "found", "store"} => key[t] \in Keys \ {None}
          /\ pc[t] \in {"store", "answered"} => answer[t] \in Answers
<1> QED BY ActiveIsTyped DEF TypedInv, ThreadIsTyped

\* Relationship and policy writers, other processes and live rows.
LEMMA WriterIsTyped ==
    ASSUME TypedInv, NEW t \in Threads, WriterStep(t)
    PROVE TypedInv'
<1> USE DEF process, evaluators, locals, EndTransaction
<1>a. /\ \A u \in Threads \ {t} : pc'[u] = pc[u]
      /\ pc'[t] = pc[t] \/ pc'[t] \in {"idle", "commit", "mark", "policy"}
      /\ pc[t] \notin Asking
      /\ UNCHANGED <<scopes, asked, since, key, compiled, answer>>
  BY DEF TypedInv, TypeOK, LocalsTypeOK, WriterStep, BeginTransaction, CommitTransaction,
     RollbackTransaction, WriteRelationships, CommitWrite, FailWrite, MarkChanged,
     AdvancePolicy, CommitPolicy, Asking
<1>1. TypeOK'
  <2> SUFFICES ASSUME TypeOK PROVE TypeOK' BY DEF TypedInv
  <2> USE DEF TypeOK, DatabaseTypeOK, ProcessTypeOK, EvaluatorsTypeOK, LocalsTypeOK, Phases
  <2>1. CASE BeginTransaction(t) BY <2>1 DEF BeginTransaction
  <2>2. CASE CommitTransaction(t) BY <2>2 DEF CommitTransaction
  <2>3. CASE RollbackTransaction(t) BY <2>3 DEF RollbackTransaction
  <2>4. ASSUME NEW c \in OwnChanges, WriteRelationships(t, c) PROVE TypeOK'
    BY <2>4 DEF WriteRelationships
  <2>5. CASE CommitWrite(t) BY <2>5 DEF CommitWrite
  <2>6. CASE FailWrite(t) BY <2>6 DEF FailWrite
  <2>7. CASE MarkChanged(t)
    <3>1. DatabaseTypeOK' /\ EvaluatorsTypeOK' BY <2>7 DEF MarkChanged
    <3>2. marked' \in Nat /\ markOf' \in [Changes -> Nat]
      <4>1. marked \in Nat /\ marked' = marked + 1 /\ markOf \in [Changes -> Nat]
        BY <2>7 DEF MarkChanged
      <4>2. \/ markOf' = markOf
            \/ markOf' = [c \in Changes |-> IF c \in wrote[t] THEN marked + 1 ELSE markOf[c]]
        BY <2>7 DEF MarkChanged
      <4> HIDE DEF TypeOK, Changes
      <4> QED BY <4>1, <4>2
    <3>3. completed' \subseteq OwnChanges BY <2>7 DEF MarkChanged
    <3>4. LocalsTypeOK' BY <2>7 DEF MarkChanged
    <3>5. ProcessTypeOK' BY <2>7, <3>2, <3>3 DEF MarkChanged
    <3> QED BY <3>1, <3>4, <3>5
  <2>8. CASE AdvancePolicy(t) BY <2>8 DEF AdvancePolicy
  <2>9. CASE CommitPolicy(t) BY <2>9, BoundAssumption DEF CommitPolicy
  <2> QED BY <2>1, <2>2, <2>3, <2>4, <2>5, <2>6, <2>7, <2>8, <2>9 DEF WriterStep
<1>2. ThreadIsTyped(t)'
  BY <1>a DEF TypedInv, ThreadIsTyped, Asking
<1> QED BY <1>a, <1>1, <1>2, KeepsTypes

LEMMA ElsewhereIsTyped ==
    ASSUME TypedInv, Elsewhere
    PROVE TypedInv'
<1> USE DEF process, evaluators, locals
<1>1. TypeOK'
  BY BoundAssumption DEF TypedInv, TypeOK, DatabaseTypeOK, ProcessTypeOK, EvaluatorsTypeOK,
     LocalsTypeOK, Elsewhere, RemoteWrite, ChangeLiveRows, RemotePolicy
<1>2. UNCHANGED <<pc, asked, since, key, compiled, answer, scopes>>
  BY DEF Elsewhere, RemoteWrite, ChangeLiveRows, RemotePolicy
<1>3. ASSUME NEW u \in Threads PROVE ThreadIsTyped(u)'
  <2>1. ThreadIsTyped(u) BY DEF TypedInv
  <2> QED BY <1>2, <2>1 DEF ThreadIsTyped, Asking
<1> QED BY <1>1, <1>3 DEF TypedInv

\* Evaluator scopes.
LEMMA ScopeIsTyped ==
    ASSUME TypedInv, NEW t \in Threads, ScopeStep(t)
    PROVE TypedInv'
<1> USE DEF database, process, locals
<1>0. /\ pc[t] = "idle" /\ UNCHANGED <<pc, asked, since, key, compiled, answer>>
      /\ DatabaseTypeOK' /\ ProcessTypeOK' /\ LocalsTypeOK'
  BY DEF TypedInv, TypeOK, DatabaseTypeOK, ProcessTypeOK, LocalsTypeOK, ScopeStep, OpenScope,
     CloseScope, Invalidate
<1>1. EvaluatorsTypeOK' /\ \A u \in Threads \ {t} : scopes'[u] = scopes[u]
  <2>1. ASSUME NEW e \in Evaluators, OpenScope(t, e)
        PROVE EvaluatorsTypeOK' /\ \A u \in Threads \ {t} : scopes'[u] = scopes[u]
    BY <2>1 DEF OpenScope, TypedInv, TypeOK, EvaluatorsTypeOK
  <2>2. CASE CloseScope(t)
    <3>0. TypeOK /\ InScope(t) BY <2>2 DEF TypedInv, CloseScope
    <3>1. scopes[t] \in Seq(Evaluators) /\ scopes[t] # << >>
      BY <3>0, ActiveIsTyped
    <3>2. Front(scopes[t]) \in Seq(Evaluators)
      BY <3>1 DEF Front
    <3>3. pins' \in [Evaluators -> [Threads -> Snapshots \cup {None}]]
      BY <2>2 DEF CloseScope, NoPins, TypedInv, TypeOK, EvaluatorsTypeOK
    <3> QED BY <2>2, <3>2, <3>3 DEF CloseScope, TypedInv, TypeOK, EvaluatorsTypeOK
  <2>3. CASE Invalidate(t)
    <3>1. TypeOK /\ Active(t) \in Evaluators
      BY <2>3, ActiveIsTyped DEF TypedInv, Invalidate
    <3>2. /\ cache' \in [Evaluators -> SUBSET Entries] /\ order' \in [Evaluators -> Seq(Keys)]
          /\ forgotten' \in [Evaluators -> SUBSET Changes]
      BY <2>3, <3>1 DEF Invalidate, TypeOK, DatabaseTypeOK, EvaluatorsTypeOK
    <3>3. pins' \in [Evaluators -> [Threads -> Snapshots \cup {None}]]
      BY <2>3, <3>1 DEF Invalidate, NoPins, TypeOK, EvaluatorsTypeOK
    <3> QED BY <2>3, <3>1, <3>2, <3>3 DEF Invalidate, TypeOK, EvaluatorsTypeOK
  <2> QED BY <2>1, <2>2, <2>3 DEF ScopeStep
<1>2. ThreadIsTyped(t)'
  BY <1>0 DEF TypedInv, ThreadIsTyped, Asking
<1> QED BY <1>0, <1>1, <1>2, KeepsTypes DEF TypeOK

\* A question that starts notes what is completed, forgotten and live.
LEMMA AskIsTyped ==
    ASSUME TypedInv, NEW t \in Threads, NEW q \in Questions, Ask(t, q)
    PROVE TypedInv' /\ since'[t].completed = completed
<1> USE DEF Ask, database, process, evaluators
<1>0. TypeOK BY DEF TypedInv
<1>1. Active(t) \in Evaluators BY <1>0, ActiveIsTyped
<1>2. [completed |-> completed, carried |-> carried, forgotten |-> forgotten[Active(t)],
       live |-> live] \in Starts
  BY <1>0, <1>1 DEF Starts, TypeOK, DatabaseTypeOK, ProcessTypeOK, EvaluatorsTypeOK
<1>3. since'[t] = [completed |-> completed, carried |-> carried,
                   forgotten |-> forgotten[Active(t)], live |-> live]
  BY <1>0 DEF TypeOK, LocalsTypeOK
<1>4. TypeOK'
  BY <1>0, <1>2 DEF TypeOK, DatabaseTypeOK, ProcessTypeOK, EvaluatorsTypeOK, LocalsTypeOK, Phases
<1>5. ThreadIsTyped(t)'
  BY <1>0, <1>2, <1>3 DEF TypeOK, LocalsTypeOK, TypedInv, ThreadIsTyped, Asking
<1> QED BY <1>0, <1>3, <1>4, <1>5, KeepsTypes DEF TypeOK, LocalsTypeOK

\* What asking for the policy leaves: a snapshot for the thread, typed pins.
LEMMA ResolvePolicyTypes ==
    ASSUME TypeOK, NEW t \in Threads, InScope(t), ResolvePolicy(t)
    PROVE /\ shared' \in Snapshots \cup {None} /\ published' \in Nat
          /\ pins' \in [Evaluators -> [Threads -> Snapshots \cup {None}]]
          /\ compiled' \in [Threads -> Snapshots \cup {None}]
          /\ compiled'[t] \in Snapshots
          /\ \A u \in Threads \ {t} : compiled'[u] = compiled[u]
<1> DEFINE e == Active(t)
<1>2. e \in Evaluators
  BY ActiveIsTyped
<1>3. /\ invalidation \in Nat /\ published \in Nat /\ policy \in 0..MaxRevision
      /\ shared \in Snapshots \cup {None}
      /\ pins \in [Evaluators -> [Threads -> Snapshots \cup {None}]]
      /\ compiled \in [Threads -> Snapshots \cup {None}]
  BY DEF TypeOK, DatabaseTypeOK, ProcessTypeOK, EvaluatorsTypeOK, LocalsTypeOK
<1>4. CASE /\ ~InTransaction(t) /\ Honoured(pins[e][t])
           /\ compiled' = [compiled EXCEPT ![t] = pins[e][t]]
           /\ UNCHANGED <<pins, shared, published>>
  BY <1>2, <1>3, <1>4 DEF Honoured
<1>5. CASE /\ SharePolicy
           /\ compiled' = [compiled EXCEPT ![t] = [shared' EXCEPT !.invalidation = invalidation]]
           /\ pins' = [pins EXCEPT ![e][t] = IF InTransaction(t) THEN None ELSE compiled'[t]]
  <2>1. shared' \in Snapshots /\ published' \in Nat
    <3>1. CASE shared # None /\ shared.revision = policy
      BY <1>3, <1>5, <3>1 DEF SharePolicy
    <3>2. CASE ~(shared # None /\ shared.revision = policy)
      BY <1>3, <1>5, <3>2 DEF SharePolicy, NextGeneration, Snapshots
    <3> QED BY <3>1, <3>2
  <2>2. [shared' EXCEPT !.invalidation = invalidation] \in Snapshots
    BY <1>3, <2>1 DEF Snapshots
  <2>3. /\ compiled' \in [Threads -> Snapshots \cup {None}] /\ compiled'[t] \in Snapshots
        /\ \A u \in Threads \ {t} : compiled'[u] = compiled[u]
    BY <1>3, <1>5, <2>2
  <2>4. pins' \in [Evaluators -> [Threads -> Snapshots \cup {None}]]
    BY <1>2, <1>3, <1>5, <2>3
  <2> QED BY <2>1, <2>3, <2>4
<1> QED BY <1>4, <1>5 DEF ResolvePolicy

\* A transaction that bypasses the cache has no snapshot yet.
LEMMA ResolveIsTyped ==
    ASSUME TypedInv, NEW t \in Threads, Resolve(t)
    PROVE TypedInv'
<1> USE DEF Resolve, database
<1>0. TypeOK /\ InScope(t) /\ asked[t] \in Questions /\ since[t] \in Starts /\ key[t] = None
  BY AskingHas DEF TypedInv, ThreadIsTyped, Asking
<1>1. /\ shared' \in Snapshots \cup {None} /\ published' \in Nat
      /\ pins' \in [Evaluators -> [Threads -> Snapshots \cup {None}]]
      /\ compiled' \in [Threads -> Snapshots \cup {None}]
      /\ \A u \in Threads \ {t} : compiled'[u] = compiled[u]
      /\ ~Bypassed(t) => compiled'[t] \in Snapshots
  <2>1. CASE InTransaction(t) /\ Bypassed(t)
    BY <1>0, <2>1 DEF TypeOK, ProcessTypeOK, EvaluatorsTypeOK, LocalsTypeOK
  <2>2. CASE ResolvePolicy(t) BY <1>0, <2>2, ResolvePolicyTypes
  <2> QED BY <2>1, <2>2
<1>2. TypeOK'
  BY <1>0, <1>1 DEF TypeOK, DatabaseTypeOK, ProcessTypeOK, EvaluatorsTypeOK, LocalsTypeOK, Phases
<1>3. ThreadIsTyped(t)'
  BY <1>0, <1>1 DEF TypeOK, LocalsTypeOK, ThreadIsTyped, Asking
<1> QED BY <1>0, <1>1, <1>2, <1>3, KeepsTypes DEF TypeOK, LocalsTypeOK

LEMMA CompileIsTyped ==
    ASSUME TypedInv, NEW t \in Threads, Compile(t)
    PROVE TypedInv'
<1> USE DEF Compile, database
<1>0. TypeOK /\ InScope(t) /\ asked[t] \in Questions /\ since[t] \in Starts
  BY AskingHas DEF TypedInv, Asking
<1>1. /\ shared' \in Snapshots \cup {None} /\ published' \in Nat
      /\ pins' \in [Evaluators -> [Threads -> Snapshots \cup {None}]]
      /\ compiled' \in [Threads -> Snapshots \cup {None}]
      /\ \A u \in Threads \ {t} : compiled'[u] = compiled[u]
      /\ compiled'[t] \in Snapshots
  BY <1>0, ResolvePolicyTypes
<1>2. TypeOK'
  BY <1>0, <1>1 DEF TypeOK, DatabaseTypeOK, ProcessTypeOK, EvaluatorsTypeOK, LocalsTypeOK, Phases
<1>3. ThreadIsTyped(t)'
  BY <1>0, <1>1 DEF TypeOK, LocalsTypeOK, ThreadIsTyped, Asking
<1> QED BY <1>0, <1>1, <1>2, <1>3, KeepsTypes DEF TypeOK, LocalsTypeOK

\* A key names the question, the policy and what had marked.
LEMMA ReadGenerationIsTyped ==
    ASSUME TypedInv, NEW t \in Threads, ReadGeneration(t)
    PROVE TypedInv' /\ key'[t].relationships = marked
<1> USE DEF ReadGeneration, database, process, evaluators
<1>0. /\ TypeOK /\ InScope(t) /\ asked[t] \in Questions /\ since[t] \in Starts
      /\ compiled[t] \in Snapshots
  BY AskingHas DEF TypedInv, Asking
<1>1. [question |-> asked[t], schema |-> compiled[t].generation, relationships |-> marked]
         \in Keys \ {None}
  BY <1>0, NoneAssumption DEF TypeOK, ProcessTypeOK, Keys, Snapshots
<1>2. key'[t] = [question |-> asked[t], schema |-> compiled[t].generation,
                 relationships |-> marked]
  BY <1>0 DEF TypeOK, LocalsTypeOK
<1>3. TypeOK'
  BY <1>0, <1>1 DEF TypeOK, DatabaseTypeOK, ProcessTypeOK, EvaluatorsTypeOK, LocalsTypeOK, Phases
<1>4. ThreadIsTyped(t)'
  BY <1>0, <1>1, <1>2 DEF TypeOK, LocalsTypeOK, ThreadIsTyped, Asking
<1> QED BY <1>0, <1>2, <1>3, <1>4, KeepsTypes DEF TypeOK, LocalsTypeOK

\* Looking only looks; a question that ends leaves nothing behind.
LEMMA LookupIsTyped ==
    ASSUME TypedInv, NEW t \in Threads, Lookup(t) \/ Return(t)
    PROVE TypedInv'
<1> USE DEF Lookup, Return, database, process, evaluators
<1>1. TypeOK'
  BY DEF TypedInv, TypeOK, DatabaseTypeOK, ProcessTypeOK, EvaluatorsTypeOK, LocalsTypeOK, Phases
<1>2. ThreadIsTyped(t)'
  BY DEF TypedInv, TypeOK, LocalsTypeOK, ThreadIsTyped, Asking
<1> QED BY <1>1, <1>2, KeepsTypes DEF TypedInv, TypeOK, LocalsTypeOK

\* An answer taken from the cache is that of an entry under the key.
LEMMA TakeIsTyped ==
    ASSUME TypedInv, NEW t \in Threads, Take(t)
    PROVE /\ TypedInv'
          /\ pc'[t] \in {"answered", "raised"}
          /\ pc'[t] = "answered" =>
                \E x \in cache[Active(t)] : x.key = key[t] /\ answer'[t] = x.answer
<1> USE DEF Take, database, process
<1>0. /\ TypeOK /\ InScope(t) /\ Active(t) \in Evaluators
      /\ asked[t] \in Questions /\ since[t] \in Starts
  BY AskingHas DEF TypedInv, Asking
<1>1. order' \in [Evaluators -> Seq(Keys)]
  <2>1. ASSUME NEW i \in DOMAIN order[Active(t)]
        PROVE Moved(order[Active(t)], i) \in Seq(Keys)
    <3>1. order[Active(t)] \in Seq(Keys) BY <1>0 DEF TypeOK, EvaluatorsTypeOK
    <3>2. RemoveAt(order[Active(t)], i) \in Seq(Keys) BY <3>1 DEF RemoveAt
    <3> QED BY <3>1, <3>2 DEF Moved
  <2>2. \/ order' = order
        \/ \E i \in DOMAIN order[Active(t)] :
              order' = [order EXCEPT ![Active(t)] = Moved(order[Active(t)], i)]
    OBVIOUS
  <2>3. order \in [Evaluators -> Seq(Keys)] BY <1>0 DEF TypeOK, EvaluatorsTypeOK
  <2> HIDE DEF Take
  <2> QED BY <1>0, <2>1, <2>2, <2>3
<1>2. \A x \in cache[Active(t)] : x.answer \in Answers
  BY <1>0 DEF TypeOK, EvaluatorsTypeOK, Entries
<1>3. /\ pc'[t] \in {"answered", "raised"}
      /\ pc'[t] = "answered" =>
            \E x \in cache[Active(t)] : x.key = key[t] /\ answer'[t] = x.answer
      /\ answer' \in [Threads -> Answers \cup {None}]
      /\ \A u \in Threads \ {t} : answer'[u] = answer[u]
  BY <1>0, <1>2 DEF TypeOK, LocalsTypeOK, Kept
<1>4. TypeOK'
  <2>1. DatabaseTypeOK' /\ ProcessTypeOK'
    BY <1>0 DEF TypeOK, DatabaseTypeOK, ProcessTypeOK
  <2>2. EvaluatorsTypeOK'
    BY <1>0, <1>1 DEF TypeOK, EvaluatorsTypeOK
  <2>3. pc' \in [Threads -> Phases]
    BY <1>0 DEF TypeOK, LocalsTypeOK, Phases
  <2>4. LocalsTypeOK'
    BY <1>0, <1>3, <2>3 DEF TypeOK, LocalsTypeOK
  <2> QED BY <2>1, <2>2, <2>4 DEF TypeOK
<1>5. ThreadIsTyped(t)'
  BY <1>0, <1>2, <1>3 DEF ThreadIsTyped, Asking
<1>6. TypedInv'
  BY <1>0, <1>3, <1>4, <1>5, KeepsTypes DEF TypeOK, LocalsTypeOK
<1> QED BY <1>3, <1>6

\* A statement answers from what is committed and what its transaction wrote.
LEMMA ExecuteIsTyped ==
    ASSUME TypedInv, NEW t \in Threads, Execute(t)
    PROVE /\ TypedInv'
          /\ pc'[t] \in {"store", "answered"} /\ (pc'[t] = "store" => key[t] # None)
          /\ answer'[t].seen = committed \cup wrote[t] /\ answer'[t].live = live
          /\ \A u \in Threads \ {t} : answer'[u] = answer[u]
<1> USE DEF Execute, database, process, evaluators, Keepable
<1>0. /\ TypeOK /\ InScope(t) /\ asked[t] \in Questions /\ since[t] \in Starts
      /\ compiled[t] \in Snapshots
  BY AskingHas DEF TypedInv, Asking
<1>1. PICK v \in {"decided", "conditional", "fenced"} :
         /\ answer' = [answer EXCEPT ![t] =
             [seen |-> committed \cup wrote[t], live |-> live,
              revision |-> compiled[t].revision, verdict |-> v]]
         /\ pc' = [pc EXCEPT ![t] = IF Keepable(t, v) THEN "store" ELSE "answered"]
  OBVIOUS
<1>2. [seen |-> committed \cup wrote[t], live |-> live,
       revision |-> compiled[t].revision, verdict |-> v] \in Answers
  BY <1>0 DEF TypeOK, DatabaseTypeOK, Answers, Snapshots
<1>3. /\ answer' \in [Threads -> Answers \cup {None}] /\ answer'[t] \in Answers
      /\ answer'[t].seen = committed \cup wrote[t] /\ answer'[t].live = live
      /\ \A u \in Threads \ {t} : answer'[u] = answer[u]
  BY <1>0, <1>1, <1>2 DEF TypeOK, LocalsTypeOK
<1>4. pc'[t] \in {"store", "answered"} /\ (pc'[t] = "store" => key[t] # None)
  BY <1>0, <1>1 DEF TypeOK, LocalsTypeOK
<1>5. TypeOK'
  BY <1>0, <1>3 DEF TypeOK, DatabaseTypeOK, ProcessTypeOK, EvaluatorsTypeOK, LocalsTypeOK, Phases
<1>6. ThreadIsTyped(t)'
  BY <1>0, <1>3, <1>4 DEF TypeOK, LocalsTypeOK, ThreadIsTyped, Asking
<1>7. TypedInv'
  BY <1>0, <1>3, <1>5, <1>6, KeepsTypes DEF TypeOK, LocalsTypeOK
<1> QED BY <1>3, <1>4, <1>7

\* What is filed is the answer under its key; others may be evicted.
LEMMA StoreIsTyped ==
    ASSUME TypedInv, NEW t \in Threads, Store(t)
    PROVE /\ TypedInv'
          /\ Active(t) \in Evaluators
          /\ Entry(t) \in Entries
          /\ \A f \in Evaluators \ {Active(t)} : cache'[f] = cache[f]
          /\ cache'[Active(t)] \subseteq cache[Active(t)] \cup {Entry(t)}
<1> USE DEF Store, database, process
<1> DEFINE e == Active(t)
           keys == IF Kept(e, key[t]) # {} THEN order[e] ELSE Append(order[e], key[t])
           over == IF Len(keys) > MaxSize THEN Len(keys) - MaxSize ELSE 0
<1>0. /\ TypeOK /\ InScope(t) /\ e \in Evaluators /\ asked[t] \in Questions /\ since[t] \in Starts
      /\ key[t] \in Keys \ {None} /\ answer[t] \in Answers
  BY AskingHas DEF TypedInv, Asking
<1>1. Entry(t) \in Entries /\ Entry(t).key = key[t]
  BY <1>0 DEF Entries, Entry
<1>2. /\ \A f \in Evaluators \ {e} : cache'[f] = cache[f]
      /\ cache'[e] \subseteq cache[e] \cup {Entry(t)}
      /\ cache' \in [Evaluators -> SUBSET Entries]
  BY <1>0, <1>1 DEF TypeOK, EvaluatorsTypeOK
<1>3. order' \in [Evaluators -> Seq(Keys)]
  <2>1. keys \in Seq(Keys)
    BY <1>0 DEF TypeOK, EvaluatorsTypeOK
  <2>2. over \in Nat /\ over <= Len(keys)
    BY <2>1, BoundAssumption
  <2>3. SubSeq(keys, over + 1, Len(keys)) \in Seq(Keys)
    BY <2>1, <2>2
  <2>4. order' = [order EXCEPT ![e] = SubSeq(keys, over + 1, Len(keys))]
    BY <1>1
  <2> QED BY <1>0, <2>3, <2>4 DEF TypeOK, EvaluatorsTypeOK
<1>4. TypeOK'
  BY <1>0, <1>2, <1>3 DEF TypeOK, DatabaseTypeOK, ProcessTypeOK, EvaluatorsTypeOK, LocalsTypeOK,
     Phases
<1>5. ThreadIsTyped(t)'
  BY <1>0 DEF TypeOK, LocalsTypeOK, ThreadIsTyped, Asking
<1>6. TypedInv'
  BY <1>0, <1>4, <1>5, KeepsTypes DEF TypeOK, LocalsTypeOK
<1> QED BY <1>0, <1>1, <1>2, <1>6

LEMMA StepIsTyped ==
    ASSUME TypedInv, [Next]_vars
    PROVE TypedInv'
<1>1. ASSUME NEW t \in Threads, QuestionStep(t) PROVE TypedInv'
  BY <1>1, AskIsTyped, ResolveIsTyped, ReadGenerationIsTyped, LookupIsTyped, TakeIsTyped,
     CompileIsTyped, ExecuteIsTyped, StoreIsTyped DEF QuestionStep
<1>2. CASE UNCHANGED vars
  BY <1>2 DEF vars, TypedInv, TypeOK, DatabaseTypeOK, ProcessTypeOK, EvaluatorsTypeOK,
     LocalsTypeOK, ThreadIsTyped
<1> QED BY <1>1, <1>2, WriterIsTyped, ScopeIsTyped, ElsewhereIsTyped DEF Next

\* Whatever transactions there are, what a question needs is there when it needs it.
THEOREM TypesInvariance == Spec => []TypedInv
<1>1. Init => TypedInv BY InitiallyTyped
<1>2. TypedInv /\ [Next]_vars => TypedInv' BY StepIsTyped
<1> QED BY <1>1, <1>2, PTL DEF Spec

\* Every variable keeps its type.
THEOREM TypeCorrectness == Spec => []TypeOK
<1>1. TypedInv => TypeOK BY DEF TypedInv
<1> QED BY <1>1, TypesInvariance, PTL

-----------------------------------------------------------------------------
(* What an answer counts (IInv).                                           *)

LEMMA IInvIsTyped ==
    ASSUME IInv PROVE TypedInv
BY DEF IInv, ThreadsAreConsistent, ThreadIsConsistent, TypedInv

\* Initially nothing is asked, cached or written.
LEMMA Initially ==
    ASSUME Init PROVE IInv
<1>1. TypeOK
  BY InitiallyTyped DEF TypedInv
<1>2. ThreadsAreConsistent
  BY InitiallyTyped DEF TypedInv, Init, ThreadsAreConsistent, ThreadIsConsistent
<1>3. MarksFollowCommits
  BY DEF Init, MarksFollowCommits
<1>4. AnswersCountTheirMarks
  BY DEF Init, AnswersCountTheirMarks, AnswerCountsItsMarks, Asking
<1> QED BY <1>1, <1>2, <1>3, <1>4 DEF IInv

-----------------------------------------------------------------------------
(* What a step leaves alone.                                               *)

\* What a thread has and does keeps it consistent as long as its own part of the
\* state stays and nothing committed is taken back.
LEMMA KeepsThread ==
    ASSUME IInv, NEW t \in Threads,
           pc'[t] = pc[t], asked'[t] = asked[t], since'[t] = since[t], key'[t] = key[t],
           compiled'[t] = compiled[t], answer'[t] = answer[t],
           transaction'[t] = transaction[t], wrote'[t] = wrote[t],
           scopes'[t] = scopes[t], committed \subseteq committed'
    PROVE ThreadIsConsistent(t)'
<1> QED BY DEF IInv, ThreadsAreConsistent, ThreadIsConsistent, ThreadIsTyped, Asking

\* A step of t keeps everyone consistent when it keeps t so.
LEMMA KeepsThreads ==
    ASSUME IInv, NEW t \in Threads,
           ThreadIsConsistent(t)',
           committed \subseteq committed',
           \A u \in Threads \ {t} :
               /\ pc'[u] = pc[u] /\ asked'[u] = asked[u] /\ since'[u] = since[u]
               /\ key'[u] = key[u] /\ compiled'[u] = compiled[u] /\ answer'[u] = answer[u]
               /\ transaction'[u] = transaction[u] /\ wrote'[u] = wrote[u]
               /\ scopes'[u] = scopes[u]
    PROVE ThreadsAreConsistent'
<1>1. ASSUME NEW u \in Threads PROVE ThreadIsConsistent(u)'
  <2>1. CASE u = t BY <2>1
  <2>2. CASE u # t BY <2>2, KeepsThread
  <2> QED BY <2>1, <2>2
<1> QED BY <1>1 DEF ThreadsAreConsistent

\* A step that raises no generation and only adds to what is committed.
LEMMA KeepsMarks ==
    ASSUME IInv, UNCHANGED <<marked, markOf, completed>>, committed \subseteq committed',
           \A t \in Threads : wrote'[t] \subseteq wrote[t]
    PROVE MarksFollowCommits'
<1> QED BY DEF IInv, MarksFollowCommits

\* What the answer of one thread counts.
LEMMA KeepsAnswer ==
    ASSUME IInv, NEW t \in Threads, UNCHANGED <<marked, markOf>>,
           pc'[t] = pc[t], since'[t] = since[t], key'[t] = key[t], answer'[t] = answer[t]
    PROVE AnswerCountsItsMarks(t)'
<1> QED BY DEF IInv, AnswersCountTheirMarks, AnswerCountsItsMarks, MarkedBy, Asking

\* A step of t that raises no generation and files nothing.
LEMMA KeepsAnswers ==
    ASSUME IInv, NEW t \in Threads, UNCHANGED <<marked, markOf>>,
           AnswerCountsItsMarks(t)',
           \A e \in Evaluators : cache'[e] \subseteq cache[e],
           \A u \in Threads \ {t} :
               pc'[u] = pc[u] /\ since'[u] = since[u] /\ key'[u] = key[u] /\ answer'[u] = answer[u]
    PROVE AnswersCountTheirMarks'
<1>1. ASSUME NEW u \in Threads PROVE AnswerCountsItsMarks(u)'
  <2>1. CASE u = t BY <2>1
  <2>2. CASE u # t BY <2>2, KeepsAnswer
  <2> QED BY <2>1, <2>2
<1>2. ASSUME NEW e \in Evaluators, NEW x \in cache'[e] PROVE EntryCountsItsMarks(x)'
  <2>1. x \in cache[e] BY <1>2
  <2>2. EntryCountsItsMarks(x) BY <2>1 DEF IInv, AnswersCountTheirMarks
  <2> QED BY <2>2 DEF EntryCountsItsMarks, MarkedBy
<1> QED BY <1>1, <1>2 DEF AnswersCountTheirMarks

-----------------------------------------------------------------------------
(* Relationship writers.                                                   *)

\* The caller opens a transaction, in which nothing is written yet.
LEMMA BeginTransactionKeeps ==
    ASSUME IInv, NEW t \in Threads, BeginTransaction(t)
    PROVE IInv'
<1> USE DEF BeginTransaction, process, evaluators, locals
<1>1. TypeOK'
  BY IInvIsTyped, WriterIsTyped DEF TypedInv, WriterStep
<1>2. ThreadsAreConsistent'
  <2>1. ThreadIsConsistent(t)'
    BY DEF IInv, TypeOK, DatabaseTypeOK, ThreadsAreConsistent, ThreadIsConsistent,
       ThreadIsTyped, Asking
  <2> QED BY <2>1, KeepsThreads DEF IInv, TypeOK, DatabaseTypeOK
<1>3. MarksFollowCommits'
  BY KeepsMarks
<1>4. AnswersCountTheirMarks'
  <2>1. AnswerCountsItsMarks(t)' BY KeepsAnswer
  <2> QED BY <2>1, KeepsAnswers
<1> QED BY <1>1, <1>2, <1>3, <1>4 DEF IInv

\* Its commit publishes what the writes inside it wrote.  These marked before and
\* do not mark again: no mark counts them.
LEMMA CommitTransactionKeeps ==
    ASSUME IInv, NEW t \in Threads, CommitTransaction(t)
    PROVE IInv'
<1> USE DEF CommitTransaction, EndTransaction, evaluators, locals
<1>1. TypeOK'
  BY IInvIsTyped, WriterIsTyped DEF TypedInv, WriterStep
<1>2. ThreadsAreConsistent'
  <2>1. ThreadIsConsistent(t)'
    BY DEF IInv, TypeOK, DatabaseTypeOK, ThreadsAreConsistent, ThreadIsConsistent,
       ThreadIsTyped, Asking
  <2> QED BY <2>1, KeepsThreads DEF IInv, TypeOK, DatabaseTypeOK
<1>3. MarksFollowCommits'
  BY KeepsMarks DEF IInv, TypeOK, DatabaseTypeOK
<1>4. AnswersCountTheirMarks'
  <2>1. AnswerCountsItsMarks(t)' BY KeepsAnswer
  <2> QED BY <2>1, KeepsAnswers
<1> QED BY <1>1, <1>2, <1>3, <1>4 DEF IInv

\* Its rollback leaves nothing of it.
LEMMA RollbackTransactionKeeps ==
    ASSUME IInv, NEW t \in Threads, RollbackTransaction(t)
    PROVE IInv'
<1> USE DEF RollbackTransaction, EndTransaction, process, evaluators, locals
<1>1. TypeOK'
  BY IInvIsTyped, WriterIsTyped DEF TypedInv, WriterStep
<1>2. ThreadsAreConsistent'
  <2>1. ThreadIsConsistent(t)'
    BY DEF IInv, TypeOK, DatabaseTypeOK, ThreadsAreConsistent, ThreadIsConsistent,
       ThreadIsTyped, Asking
  <2> QED BY <2>1, KeepsThreads DEF IInv, TypeOK, DatabaseTypeOK
<1>3. MarksFollowCommits'
  BY KeepsMarks DEF IInv, TypeOK, DatabaseTypeOK
<1>4. AnswersCountTheirMarks'
  <2>1. AnswerCountsItsMarks(t)' BY KeepsAnswer
  <2> QED BY <2>1, KeepsAnswers
<1> QED BY <1>1, <1>2, <1>3, <1>4 DEF IInv

\* write_relationships writes its rows and raises nothing: until they are
\* committed no mark is owed for them, and the invariant stands.
LEMMA WriteRelationshipsKeeps ==
    ASSUME IInv, NEW t \in Threads, NEW c \in OwnChanges, WriteRelationships(t, c)
    PROVE IInv'
<1> USE DEF WriteRelationships
<1>1. TypeOK'
  BY IInvIsTyped, WriterIsTyped DEF TypedInv, WriterStep
<1>2. ThreadsAreConsistent'
  <2>1. ThreadIsConsistent(t)'
    BY DEF IInv, TypeOK, DatabaseTypeOK, LocalsTypeOK, ThreadsAreConsistent,
       ThreadIsConsistent, ThreadIsTyped, Asking
  <2> QED BY <2>1, KeepsThreads DEF IInv, TypeOK, DatabaseTypeOK, LocalsTypeOK, evaluators
<1>3. MarksFollowCommits'
  <2>1. markOf[c] = 0
    BY DEF IInv, TypeOK, ProcessTypeOK, MarksFollowCommits, Untouched
  <2>2. \A u \in Threads : u # t => wrote'[u] = wrote[u] /\ c \notin wrote[u]
    BY DEF IInv, TypeOK, DatabaseTypeOK, Untouched
  <2>3. wrote'[t] = wrote[t] \cup {c}
    BY DEF IInv, TypeOK, DatabaseTypeOK
  <2>4. \A u \in Threads : \A d \in wrote'[u] : markOf'[d] = 0
    BY <2>1, <2>2, <2>3 DEF IInv, MarksFollowCommits, process
  <2>5. \A u, v \in Threads : wrote'[u] \cap wrote'[v] # {} => u = v
    BY <2>2, <2>3 DEF IInv, MarksFollowCommits
  <2> QED BY <2>4, <2>5 DEF IInv, MarksFollowCommits, process
<1>4. AnswersCountTheirMarks'
  <2>1. AnswerCountsItsMarks(t)'
    BY DEF IInv, TypeOK, LocalsTypeOK, AnswerCountsItsMarks, Asking
  <2> QED BY <2>1, KeepsAnswers DEF IInv, TypeOK, LocalsTypeOK, process, evaluators
<1> QED BY <1>1, <1>2, <1>3, <1>4 DEF IInv

\* The commit of a write publishes what it wrote, not yet marked.
LEMMA CommitWriteKeeps ==
    ASSUME IInv, NEW t \in Threads, CommitWrite(t)
    PROVE IInv'
<1> USE DEF CommitWrite, EndTransaction, process, evaluators
<1>1. TypeOK'
  BY IInvIsTyped, WriterIsTyped DEF TypedInv, WriterStep
<1>2. ThreadsAreConsistent'
  <2>1. ThreadIsConsistent(t)'
    BY DEF IInv, TypeOK, DatabaseTypeOK, LocalsTypeOK, EvaluatorsTypeOK,
       ThreadsAreConsistent, ThreadIsConsistent, ThreadIsTyped, Asking
  <2> QED BY <2>1, KeepsThreads DEF IInv, TypeOK, DatabaseTypeOK, LocalsTypeOK,
             EvaluatorsTypeOK
<1>3. MarksFollowCommits'
  BY KeepsMarks DEF IInv, TypeOK, DatabaseTypeOK
<1>4. AnswersCountTheirMarks'
  <2>1. AnswerCountsItsMarks(t)'
    BY DEF IInv, TypeOK, LocalsTypeOK, AnswersCountTheirMarks,
       AnswerCountsItsMarks, MarkedBy, Asking
  <2> QED BY <2>1, KeepsAnswers DEF IInv, TypeOK, LocalsTypeOK, EvaluatorsTypeOK
<1> QED BY <1>1, <1>2, <1>3, <1>4 DEF IInv

\* A write that raises leaves nothing.
LEMMA FailWriteKeeps ==
    ASSUME IInv, NEW t \in Threads, FailWrite(t)
    PROVE IInv'
<1> USE DEF FailWrite, EndTransaction, process, evaluators
<1>1. TypeOK'
  BY IInvIsTyped, WriterIsTyped DEF TypedInv, WriterStep
<1>2. ThreadsAreConsistent'
  <2>1. ThreadIsConsistent(t)'
    BY DEF IInv, TypeOK, DatabaseTypeOK, LocalsTypeOK, EvaluatorsTypeOK,
       ThreadsAreConsistent, ThreadIsConsistent, ThreadIsTyped, Asking
  <2> QED BY <2>1, KeepsThreads DEF IInv, TypeOK, DatabaseTypeOK, LocalsTypeOK,
             EvaluatorsTypeOK
<1>3. MarksFollowCommits'
  BY KeepsMarks DEF IInv, TypeOK, DatabaseTypeOK
<1>4. AnswersCountTheirMarks'
  <2>1. AnswerCountsItsMarks(t)'
    BY DEF IInv, TypeOK, LocalsTypeOK, AnswersCountTheirMarks,
       AnswerCountsItsMarks, MarkedBy, Asking
  <2> QED BY <2>1, KeepsAnswers DEF IInv, TypeOK, LocalsTypeOK, EvaluatorsTypeOK
<1> QED BY <1>1, <1>2, <1>3, <1>4 DEF IInv

\* A write inside a caller's transaction raises the generation, for changes that
\* nobody else sees: no change is counted by it.
LEMMA MarkInTransactionKeeps ==
    ASSUME IInv, NEW t \in Threads, MarkChanged(t), InTransaction(t)
    PROVE IInv'
<1> USE DEF MarkChanged, evaluators
<1>0. /\ UNCHANGED <<markOf, completed, wrote, committed, transaction, since, key, answer, cache>>
      /\ marked \in Nat /\ marked' = marked + 1
      /\ pc'[t] = "idle" /\ \A u \in Threads \ {t} : pc'[u] = pc[u]
  BY DEF IInv, TypeOK, ProcessTypeOK, LocalsTypeOK
<1>1. TypeOK'
  BY IInvIsTyped, WriterIsTyped DEF TypedInv, WriterStep
<1>2. ThreadsAreConsistent'
  <2>1. ThreadIsConsistent(t)'
    BY <1>0 DEF IInv, ThreadsAreConsistent, ThreadIsConsistent, ThreadIsTyped, Asking
  <2> QED BY <1>0, <2>1, KeepsThreads
<1>3. MarksFollowCommits'
  BY <1>0 DEF IInv, TypeOK, ProcessTypeOK, MarksFollowCommits
<1>4. AnswersCountTheirMarks'
  <2>1. ASSUME NEW e \in Evaluators, NEW x \in cache'[e] PROVE EntryCountsItsMarks(x)'
    <3>1. EntryCountsItsMarks(x) /\ x.key.relationships \in Nat
      BY <1>0, <2>1 DEF IInv, TypeOK, EvaluatorsTypeOK, Entries, Keys, AnswersCountTheirMarks
    <3> QED BY <1>0, <3>1 DEF EntryCountsItsMarks, MarkedBy
  <2>2. ASSUME NEW u \in Threads PROVE AnswerCountsItsMarks(u)'
    <3>1. AnswerCountsItsMarks(u) /\ (key[u] # None => key[u].relationships \in Nat)
      BY DEF IInv, TypeOK, LocalsTypeOK, Keys, AnswersCountTheirMarks
    <3> QED BY <1>0, <3>1 DEF AnswerCountsItsMarks, MarkedBy, Asking
  <2> QED BY <2>1, <2>2 DEF AnswersCountTheirMarks
<1> QED BY <1>1, <1>2, <1>3, <1>4 DEF IInv

\* Marking gives the changes of a write the newest generation, which no entry and
\* no key has yet.
LEMMA MarkAfterCommitKeeps ==
    ASSUME IInv, NEW t \in Threads, MarkChanged(t), ~InTransaction(t)
    PROVE IInv'
<1> USE DEF MarkChanged, evaluators
<1>0. transaction[t] = "none" /\ wrote[t] \subseteq committed
  BY DEF IInv, TypeOK, DatabaseTypeOK, ThreadsAreConsistent, ThreadIsConsistent, ThreadIsTyped
<1>1. TypeOK'
  BY IInvIsTyped, WriterIsTyped DEF TypedInv, WriterStep
<1>2. ThreadsAreConsistent'
  <2>1. ThreadIsConsistent(t)'
    BY <1>0 DEF IInv, TypeOK, DatabaseTypeOK, LocalsTypeOK, ThreadsAreConsistent,
       ThreadIsConsistent, ThreadIsTyped, Asking
  <2> QED BY <1>0, <2>1, KeepsThreads DEF IInv, TypeOK, DatabaseTypeOK, LocalsTypeOK
<1>3. MarksFollowCommits'
  <2>1. marked \in Nat /\ markOf \in [Changes -> Nat]
    BY DEF IInv, TypeOK, ProcessTypeOK
  <2>2. ASSUME NEW c \in Changes
        PROVE markOf'[c] <= marked' /\ (markOf'[c] > 0 => c \in committed')
    BY <1>0, <2>1 DEF IInv, MarksFollowCommits
  <2>3. ASSUME NEW c \in completed' PROVE markOf'[c] > 0
    BY <1>0, <2>1 DEF IInv, TypeOK, DatabaseTypeOK, ProcessTypeOK, MarksFollowCommits
  <2>4. ASSUME NEW u \in Threads, NEW c \in wrote'[u] PROVE markOf'[c] = 0
    BY <1>0, <2>1 DEF IInv, TypeOK, DatabaseTypeOK, MarksFollowCommits
  <2>5. ASSUME NEW u \in Threads, NEW v \in Threads, wrote'[u] \cap wrote'[v] # {}
        PROVE u = v
    BY <1>0, <2>5 DEF IInv, TypeOK, DatabaseTypeOK, MarksFollowCommits
  <2> QED BY <2>2, <2>3, <2>4, <2>5 DEF MarksFollowCommits
<1>4. AnswersCountTheirMarks'
  <2>1. /\ marked \in Nat /\ markOf \in [Changes -> Nat] /\ marked' = marked + 1
        /\ \A c \in Changes : markOf'[c] = IF c \in wrote[t] THEN marked + 1 ELSE markOf[c]
        /\ \A c \in wrote[t] : markOf[c] = 0
    BY DEF IInv, TypeOK, ProcessTypeOK, MarksFollowCommits
  <2>2. ASSUME NEW c \in Changes, NEW g \in Nat, g <= marked
        PROVE MarkedBy(c, g)' <=> MarkedBy(c, g)
    BY <2>1, <2>2 DEF MarkedBy
  <2>3. ASSUME NEW e \in Evaluators, NEW x \in cache'[e] PROVE EntryCountsItsMarks(x)'
    <3>1. EntryCountsItsMarks(x) /\ x \in Entries
      BY <2>3 DEF IInv, TypeOK, EvaluatorsTypeOK, AnswersCountTheirMarks
    <3> QED BY <2>1, <2>2, <3>1 DEF EntryCountsItsMarks, Entries, Keys
  <2>4. ASSUME NEW u \in Threads PROVE AnswerCountsItsMarks(u)'
    <3>1. CASE u = t
      BY <3>1 DEF IInv, TypeOK, LocalsTypeOK, AnswerCountsItsMarks, Asking
    <3>2. CASE u # t
      <4>1. /\ AnswerCountsItsMarks(u)
            /\ pc'[u] = pc[u] /\ since' = since /\ key' = key /\ answer' = answer
        BY <3>2 DEF IInv, TypeOK, LocalsTypeOK, AnswersCountTheirMarks
      <4>2. key[u] # None => key[u].relationships \in Nat
        BY DEF IInv, TypeOK, LocalsTypeOK, Keys
      <4>3. pc[u] \in Asking => since[u].completed \subseteq Changes
        BY DEF IInv, ThreadsAreConsistent, ThreadIsConsistent, ThreadIsTyped, Starts
      <4>4. \A c \in Changes : markOf[c] > 0 => markOf'[c] > 0
        BY <2>1
      <4>5. pc[u] = "store" => key[u] \in Keys \ {None}
        BY DEF IInv, ThreadsAreConsistent, ThreadIsConsistent, ThreadIsTyped
      <4>6. pc[u] = "store" => key[u].relationships \in Nat /\ key[u].relationships <= marked
        BY <4>1, <4>5 DEF Keys, AnswerCountsItsMarks, Asking
      <4> QED BY <2>1, <2>2, <4>1, <4>2, <4>3, <4>4, <4>6 DEF AnswerCountsItsMarks, Asking
    <3> QED BY <3>1, <3>2
  <2> QED BY <2>3, <2>4 DEF AnswersCountTheirMarks
<1> QED BY <1>1, <1>2, <1>3, <1>4 DEF IInv

-----------------------------------------------------------------------------
(* Policy writers, other processes and live rows.                          *)

\* A policy write invalidates the shared snapshot.
LEMMA AdvancePolicyKeeps ==
    ASSUME IInv, NEW t \in Threads, AdvancePolicy(t)
    PROVE IInv'
<1> USE DEF AdvancePolicy, evaluators
<1>1. TypeOK'
  BY IInvIsTyped, WriterIsTyped DEF TypedInv, WriterStep
<1>2. ThreadsAreConsistent'
  <2>1. ThreadIsConsistent(t)'
    BY DEF IInv, TypeOK, DatabaseTypeOK, LocalsTypeOK, EvaluatorsTypeOK,
       ThreadsAreConsistent, ThreadIsConsistent, ThreadIsTyped, Asking
  <2> QED BY <2>1, KeepsThreads DEF IInv, TypeOK, DatabaseTypeOK, LocalsTypeOK,
             EvaluatorsTypeOK
<1>3. MarksFollowCommits'
  BY KeepsMarks DEF IInv, TypeOK, DatabaseTypeOK
<1>4. AnswersCountTheirMarks'
  <2>1. AnswerCountsItsMarks(t)'
    BY DEF IInv, TypeOK, LocalsTypeOK, AnswersCountTheirMarks,
       AnswerCountsItsMarks, MarkedBy, Asking
  <2> QED BY <2>1, KeepsAnswers DEF IInv, TypeOK, LocalsTypeOK, EvaluatorsTypeOK
<1> QED BY <1>1, <1>2, <1>3, <1>4 DEF IInv

\* Its commit.
LEMMA CommitPolicyKeeps ==
    ASSUME IInv, NEW t \in Threads, CommitPolicy(t)
    PROVE IInv'
<1> USE DEF CommitPolicy, process, evaluators
<1>1. TypeOK'
  BY IInvIsTyped, WriterIsTyped DEF TypedInv, WriterStep
<1>2. ThreadsAreConsistent'
  <2>1. ThreadIsConsistent(t)'
    BY DEF IInv, TypeOK, DatabaseTypeOK, LocalsTypeOK, EvaluatorsTypeOK,
       ThreadsAreConsistent, ThreadIsConsistent, ThreadIsTyped, Asking
  <2> QED BY <2>1, KeepsThreads DEF IInv, TypeOK, DatabaseTypeOK, LocalsTypeOK,
             EvaluatorsTypeOK
<1>3. MarksFollowCommits'
  BY KeepsMarks DEF IInv, TypeOK, DatabaseTypeOK
<1>4. AnswersCountTheirMarks'
  <2>1. AnswerCountsItsMarks(t)'
    BY DEF IInv, TypeOK, LocalsTypeOK, AnswersCountTheirMarks,
       AnswerCountsItsMarks, MarkedBy, Asking
  <2> QED BY <2>1, KeepsAnswers DEF IInv, TypeOK, LocalsTypeOK, EvaluatorsTypeOK
<1> QED BY <1>1, <1>2, <1>3, <1>4 DEF IInv

\* Another process only adds to what is committed.
LEMMA RemoteWriteKeeps ==
    ASSUME IInv, NEW c \in RemoteChanges, RemoteWrite(c)
    PROVE IInv'
<1> USE DEF RemoteWrite, process, evaluators, locals
<1>1. TypeOK'
  BY IInvIsTyped, ElsewhereIsTyped DEF TypedInv, Elsewhere
<1>2. ThreadsAreConsistent'
  BY KeepsThread DEF ThreadsAreConsistent
<1>3. MarksFollowCommits'
  BY KeepsMarks
<1>4. AnswersCountTheirMarks'
  BY DEF IInv, AnswersCountTheirMarks, AnswerCountsItsMarks, EntryCountsItsMarks, MarkedBy
<1> QED BY <1>1, <1>2, <1>3, <1>4 DEF IInv

\* Live rows are no part of the argument.
LEMMA ChangeLiveRowsKeeps ==
    ASSUME IInv, ChangeLiveRows
    PROVE IInv'
<1> USE DEF ChangeLiveRows, process, evaluators, locals
<1>1. TypeOK'
  BY IInvIsTyped, ElsewhereIsTyped DEF TypedInv, Elsewhere
<1>2. ThreadsAreConsistent'
  BY KeepsThread DEF ThreadsAreConsistent
<1>3. MarksFollowCommits'
  BY KeepsMarks
<1>4. AnswersCountTheirMarks'
  BY DEF IInv, AnswersCountTheirMarks, AnswerCountsItsMarks, EntryCountsItsMarks, MarkedBy
<1> QED BY <1>1, <1>2, <1>3, <1>4 DEF IInv

\* Nor is the policy.
LEMMA RemotePolicyKeeps ==
    ASSUME IInv, RemotePolicy
    PROVE IInv'
<1> USE DEF RemotePolicy, process, evaluators, locals
<1>1. TypeOK'
  BY IInvIsTyped, ElsewhereIsTyped DEF TypedInv, Elsewhere
<1>2. ThreadsAreConsistent'
  BY KeepsThread DEF ThreadsAreConsistent
<1>3. MarksFollowCommits'
  BY KeepsMarks
<1>4. AnswersCountTheirMarks'
  BY DEF IInv, AnswersCountTheirMarks, AnswerCountsItsMarks, EntryCountsItsMarks, MarkedBy
<1> QED BY <1>1, <1>2, <1>3, <1>4 DEF IInv

-----------------------------------------------------------------------------
(* Evaluator scopes.                                                       *)

\* Opening a scope touches no answer.
LEMMA OpenScopeKeeps ==
    ASSUME IInv, NEW t \in Threads, NEW e \in Evaluators, OpenScope(t, e)
    PROVE IInv'
<1> USE DEF OpenScope, database, process, locals
<1>1. TypeOK'
  BY IInvIsTyped, ScopeIsTyped DEF TypedInv, ScopeStep
<1>2. ThreadsAreConsistent'
  <2>1. ThreadIsConsistent(t)'
    BY DEF IInv, TypeOK, DatabaseTypeOK, LocalsTypeOK, EvaluatorsTypeOK,
       ThreadsAreConsistent, ThreadIsConsistent, ThreadIsTyped, Asking
  <2> QED BY <2>1, KeepsThreads DEF IInv, TypeOK, DatabaseTypeOK, LocalsTypeOK,
             EvaluatorsTypeOK
<1>3. MarksFollowCommits'
  BY KeepsMarks DEF IInv, TypeOK, DatabaseTypeOK
<1>4. AnswersCountTheirMarks'
  <2>1. AnswerCountsItsMarks(t)'
    BY DEF IInv, TypeOK, LocalsTypeOK, AnswersCountTheirMarks,
       AnswerCountsItsMarks, MarkedBy, Asking
  <2> QED BY <2>1, KeepsAnswers DEF IInv, TypeOK, LocalsTypeOK, EvaluatorsTypeOK
<1> QED BY <1>1, <1>2, <1>3, <1>4 DEF IInv

\* Nor does leaving one.
LEMMA CloseScopeKeeps ==
    ASSUME IInv, NEW t \in Threads, CloseScope(t)
    PROVE IInv'
<1> USE DEF CloseScope, database, process, locals, NoPins, Active, Front, Last
<1>1. TypeOK'
  BY IInvIsTyped, ScopeIsTyped DEF TypedInv, ScopeStep
<1>2. ThreadsAreConsistent'
  <2>1. ThreadIsConsistent(t)'
    BY DEF IInv, TypeOK, DatabaseTypeOK, LocalsTypeOK, EvaluatorsTypeOK,
       ThreadsAreConsistent, ThreadIsConsistent, ThreadIsTyped, Asking
  <2> QED BY <2>1, KeepsThreads DEF IInv, TypeOK, DatabaseTypeOK, LocalsTypeOK,
             EvaluatorsTypeOK
<1>3. MarksFollowCommits'
  BY KeepsMarks DEF IInv, TypeOK, DatabaseTypeOK
<1>4. AnswersCountTheirMarks'
  <2>1. AnswerCountsItsMarks(t)'
    BY DEF IInv, TypeOK, LocalsTypeOK, AnswersCountTheirMarks,
       AnswerCountsItsMarks, MarkedBy, Asking
  <2> QED BY <2>1, KeepsAnswers DEF IInv, TypeOK, LocalsTypeOK, EvaluatorsTypeOK
<1> QED BY <1>1, <1>2, <1>3, <1>4 DEF IInv

\* Invalidating an evaluator only forgets.
LEMMA InvalidateKeeps ==
    ASSUME IInv, NEW t \in Threads, Invalidate(t)
    PROVE IInv'
<1> USE DEF Invalidate, database, process, locals, NoPins, Active, Last
<1>1. TypeOK'
  BY IInvIsTyped, ScopeIsTyped DEF TypedInv, ScopeStep
<1>2. ThreadsAreConsistent'
  <2>1. ThreadIsConsistent(t)'
    BY DEF IInv, TypeOK, DatabaseTypeOK, LocalsTypeOK, EvaluatorsTypeOK,
       ThreadsAreConsistent, ThreadIsConsistent, ThreadIsTyped, Asking
  <2> QED BY <2>1, KeepsThreads DEF IInv, TypeOK, DatabaseTypeOK, LocalsTypeOK,
             EvaluatorsTypeOK
<1>3. MarksFollowCommits'
  BY KeepsMarks DEF IInv, TypeOK, DatabaseTypeOK
<1>4. AnswersCountTheirMarks'
  <2>1. AnswerCountsItsMarks(t)'
    BY DEF IInv, TypeOK, LocalsTypeOK, AnswersCountTheirMarks,
       AnswerCountsItsMarks, MarkedBy, Asking
  <2> QED BY <2>1, KeepsAnswers DEF IInv, TypeOK, LocalsTypeOK, EvaluatorsTypeOK
<1> QED BY <1>1, <1>2, <1>3, <1>4 DEF IInv

-----------------------------------------------------------------------------
(* Questions.                                                              *)

\* A question starts from what is completed, which has marked.
LEMMA AskKeeps ==
    ASSUME IInv, NEW t \in Threads, NEW q \in Questions, Ask(t, q)
    PROVE IInv'
<1> USE DEF Ask, database, process, evaluators, Active, Last, Starts
<1>0. /\ scopes[t] # << >> /\ Active(t) \in Evaluators
      /\ since'[t] \in Starts /\ since'[t].completed = completed
  <2>1. TypedInv' /\ since'[t].completed = completed BY IInvIsTyped, AskIsTyped
  <2>2. since'[t] \in Starts BY <2>1 DEF IInv, TypeOK, LocalsTypeOK, TypedInv, ThreadIsTyped,
     Asking
  <2> QED BY <2>1, <2>2, ActiveIsTyped DEF IInv
<1>1. TypeOK'
  BY IInvIsTyped, AskIsTyped DEF TypedInv
<1>2. ThreadsAreConsistent'
  <2>1. ThreadIsConsistent(t)'
    BY <1>0 DEF IInv, TypeOK, DatabaseTypeOK, LocalsTypeOK, EvaluatorsTypeOK,
       ThreadsAreConsistent, ThreadIsConsistent, ThreadIsTyped, Asking
  <2> QED BY <2>1, KeepsThreads DEF IInv, TypeOK, DatabaseTypeOK, LocalsTypeOK,
             EvaluatorsTypeOK
<1>3. MarksFollowCommits'
  BY KeepsMarks DEF IInv, TypeOK, DatabaseTypeOK
<1>4. AnswersCountTheirMarks'
  <2>1. AnswerCountsItsMarks(t)'
    BY <1>0 DEF IInv, TypeOK, LocalsTypeOK, AnswersCountTheirMarks,
       AnswerCountsItsMarks, MarkedBy, Asking, MarksFollowCommits, ThreadsAreConsistent,
       ThreadIsConsistent, ThreadIsTyped
  <2> QED BY <2>1, KeepsAnswers DEF IInv, TypeOK, LocalsTypeOK, EvaluatorsTypeOK
<1> QED BY <1>1, <1>2, <1>3, <1>4 DEF IInv

\* The generation of the key counts what had completed at the start.
LEMMA ReadGenerationKeeps ==
    ASSUME IInv, NEW t \in Threads, ReadGeneration(t)
    PROVE IInv'
<1> USE DEF ReadGeneration, database, process, evaluators, Keys, Snapshots
<1>0. key'[t] \in Keys \ {None} /\ key'[t].relationships = marked
  <2>1. TypedInv' /\ key'[t].relationships = marked BY IInvIsTyped, ReadGenerationIsTyped
  <2>2. pc'[t] = "lookup" BY DEF IInv, TypeOK, LocalsTypeOK
  <2> QED BY <2>1, <2>2 DEF TypedInv, ThreadIsTyped
<1>1. TypeOK'
  BY IInvIsTyped, ReadGenerationIsTyped DEF TypedInv
<1>2. ThreadsAreConsistent'
  <2>1. ThreadIsConsistent(t)'
    BY <1>0 DEF IInv, TypeOK, DatabaseTypeOK, LocalsTypeOK, EvaluatorsTypeOK,
       ThreadsAreConsistent, ThreadIsConsistent, ThreadIsTyped, Asking
  <2> QED BY <2>1, KeepsThreads DEF IInv, TypeOK, DatabaseTypeOK, LocalsTypeOK,
             EvaluatorsTypeOK
<1>3. MarksFollowCommits'
  BY KeepsMarks DEF IInv, TypeOK, DatabaseTypeOK
<1>4. AnswersCountTheirMarks'
  <2>1. AnswerCountsItsMarks(t)'
    BY <1>0 DEF IInv, TypeOK, LocalsTypeOK, AnswersCountTheirMarks,
       AnswerCountsItsMarks, MarkedBy, Asking, ThreadsAreConsistent, ThreadIsConsistent,
       ThreadIsTyped, MarksFollowCommits, ProcessTypeOK, Starts
  <2> QED BY <2>1, KeepsAnswers DEF IInv, TypeOK, LocalsTypeOK, EvaluatorsTypeOK
<1> QED BY <1>1, <1>2, <1>3, <1>4 DEF IInv

\* Looking only looks.
LEMMA LookupKeeps ==
    ASSUME IInv, NEW t \in Threads, Lookup(t)
    PROVE IInv'
<1> USE DEF Lookup, database, process, evaluators
<1>1. TypeOK'
  BY IInvIsTyped, LookupIsTyped DEF TypedInv
<1>2. ThreadsAreConsistent'
  <2>1. ThreadIsConsistent(t)'
    BY DEF IInv, TypeOK, DatabaseTypeOK, LocalsTypeOK, EvaluatorsTypeOK,
       ThreadsAreConsistent, ThreadIsConsistent, ThreadIsTyped, Asking
  <2> QED BY <2>1, KeepsThreads DEF IInv, TypeOK, DatabaseTypeOK, LocalsTypeOK,
             EvaluatorsTypeOK
<1>3. MarksFollowCommits'
  BY KeepsMarks DEF IInv, TypeOK, DatabaseTypeOK
<1>4. AnswersCountTheirMarks'
  <2>1. AnswerCountsItsMarks(t)'
    BY DEF IInv, TypeOK, LocalsTypeOK, AnswersCountTheirMarks,
       AnswerCountsItsMarks, MarkedBy, Asking
  <2> QED BY <2>1, KeepsAnswers DEF IInv, TypeOK, LocalsTypeOK, EvaluatorsTypeOK
<1> QED BY <1>1, <1>2, <1>3, <1>4 DEF IInv

\* A question that ends leaves nothing behind.
LEMMA ReturnKeeps ==
    ASSUME IInv, NEW t \in Threads, Return(t)
    PROVE IInv'
<1> USE DEF Return, database, process, evaluators
<1>1. TypeOK'
  BY IInvIsTyped, LookupIsTyped DEF TypedInv
<1>2. ThreadsAreConsistent'
  <2>1. ThreadIsConsistent(t)'
    BY DEF IInv, TypeOK, DatabaseTypeOK, LocalsTypeOK, EvaluatorsTypeOK,
       ThreadsAreConsistent, ThreadIsConsistent, ThreadIsTyped, Asking
  <2> QED BY <2>1, KeepsThreads DEF IInv, TypeOK, DatabaseTypeOK, LocalsTypeOK,
             EvaluatorsTypeOK
<1>3. MarksFollowCommits'
  BY KeepsMarks DEF IInv, TypeOK, DatabaseTypeOK
<1>4. AnswersCountTheirMarks'
  <2>1. AnswerCountsItsMarks(t)'
    BY DEF IInv, TypeOK, LocalsTypeOK, AnswersCountTheirMarks,
       AnswerCountsItsMarks, MarkedBy, Asking
  <2> QED BY <2>1, KeepsAnswers DEF IInv, TypeOK, LocalsTypeOK, EvaluatorsTypeOK
<1> QED BY <1>1, <1>2, <1>3, <1>4 DEF IInv

\* The first look at the policy decides whether the cache is bypassed.
LEMMA ResolveKeeps ==
    ASSUME IInv, NEW t \in Threads, Resolve(t)
    PROVE IInv'
<1> USE DEF Resolve, database
<1>0. /\ pc[t] = "resolve" /\ InScope(t) /\ asked[t] \in Questions /\ key[t] = None
  BY DEF IInv, TypeOK, DatabaseTypeOK, ThreadsAreConsistent, ThreadIsConsistent, ThreadIsTyped,
     Asking
<1>a. /\ compiled' \in [Threads -> Snapshots \cup {None}]
      /\ ~Bypassed(t) => compiled'[t] \in Snapshots
      /\ \A u \in Threads \ {t} : compiled'[u] = compiled[u]
  <2>1. CASE InTransaction(t) /\ Bypassed(t)
    BY <2>1 DEF IInv, TypeOK, LocalsTypeOK
  <2>2. CASE ResolvePolicy(t)
    BY <1>0, <2>2, ResolvePolicyTypes DEF IInv
  <2> QED BY <2>1, <2>2
<1>1. TypeOK'
  BY IInvIsTyped, ResolveIsTyped DEF TypedInv
<1>2. ThreadsAreConsistent'
  <2>1. ThreadIsConsistent(t)'
    BY <1>0, <1>a DEF IInv, TypeOK, DatabaseTypeOK, LocalsTypeOK, EvaluatorsTypeOK,
       ThreadsAreConsistent, ThreadIsConsistent, ThreadIsTyped, Asking
  <2> QED BY <1>0, <1>a, <2>1, KeepsThreads DEF IInv, TypeOK, DatabaseTypeOK, LocalsTypeOK,
             EvaluatorsTypeOK
<1>3. MarksFollowCommits'
  BY KeepsMarks DEF IInv, TypeOK, DatabaseTypeOK
<1>4. AnswersCountTheirMarks'
  <2>1. AnswerCountsItsMarks(t)'
    BY <1>0, <1>a DEF IInv, TypeOK, LocalsTypeOK, AnswersCountTheirMarks,
       AnswerCountsItsMarks, MarkedBy, Asking
  <2> QED BY <1>0, <1>a, <2>1, KeepsAnswers DEF IInv, TypeOK, LocalsTypeOK, EvaluatorsTypeOK
<1> QED BY <1>1, <1>2, <1>3, <1>4 DEF IInv

\* So does the second, on a miss or a bypass.
LEMMA CompileKeeps ==
    ASSUME IInv, NEW t \in Threads, Compile(t)
    PROVE IInv'
<1> USE DEF Compile, database
<1>0. pc[t] = "compile" /\ InScope(t)
  BY DEF IInv, TypeOK, DatabaseTypeOK, ThreadsAreConsistent, ThreadIsConsistent, ThreadIsTyped,
     Asking
<1>a. /\ shared' \in Snapshots \cup {None} /\ published' \in Nat
      /\ pins' \in [Evaluators -> [Threads -> Snapshots \cup {None}]]
      /\ compiled' \in [Threads -> Snapshots \cup {None}]
      /\ compiled'[t] \in Snapshots
      /\ \A u \in Threads \ {t} : compiled'[u] = compiled[u]
  BY <1>0, ResolvePolicyTypes DEF IInv
<1>1. TypeOK'
  BY IInvIsTyped, CompileIsTyped DEF TypedInv
<1>2. ThreadsAreConsistent'
  <2>1. ThreadIsConsistent(t)'
    BY <1>0, <1>a DEF IInv, TypeOK, DatabaseTypeOK, LocalsTypeOK, EvaluatorsTypeOK,
       ThreadsAreConsistent, ThreadIsConsistent, ThreadIsTyped, Asking
  <2> QED BY <1>0, <1>a, <2>1, KeepsThreads DEF IInv, TypeOK, DatabaseTypeOK, LocalsTypeOK,
             EvaluatorsTypeOK
<1>3. MarksFollowCommits'
  BY KeepsMarks DEF IInv, TypeOK, DatabaseTypeOK
<1>4. AnswersCountTheirMarks'
  <2>1. AnswerCountsItsMarks(t)'
    BY <1>0, <1>a DEF IInv, TypeOK, LocalsTypeOK, AnswersCountTheirMarks,
       AnswerCountsItsMarks, MarkedBy, Asking
  <2> QED BY <1>0, <1>a, <2>1, KeepsAnswers DEF IInv, TypeOK, LocalsTypeOK, EvaluatorsTypeOK
<1> QED BY <1>1, <1>2, <1>3, <1>4 DEF IInv

\* An entry taken under the key counts what the question counts.
LEMMA TakeKeeps ==
    ASSUME IInv, NEW t \in Threads, Take(t)
    PROVE IInv'
<1> USE DEF Take, database, process, Kept
<1>0. /\ pc[t] = "found" /\ key[t] \in Keys \ {None}
      /\ scopes[t] \in Seq(Evaluators) /\ scopes[t] # << >>
  BY DEF IInv, TypeOK, EvaluatorsTypeOK, ThreadsAreConsistent, ThreadIsConsistent,
     ThreadIsTyped, Asking
<1>a. Active(t) \in Evaluators
  BY <1>0 DEF Active, Last
<1>c. pc'[t] = "answered" =>
        /\ answer'[t] \in Answers
        /\ \A c \in Changes : MarkedBy(c, key[t].relationships) => c \in answer'[t].seen
  <2>1. ASSUME NEW x \in cache[Active(t)], x.key = key[t], answer'[t] = x.answer
        PROVE /\ answer'[t] \in Answers
              /\ \A c \in Changes : MarkedBy(c, key[t].relationships) => c \in answer'[t].seen
    BY <2>1, <1>a DEF IInv, TypeOK, EvaluatorsTypeOK, Entries, AnswersCountTheirMarks,
       EntryCountsItsMarks
  <2> QED BY <2>1, IInvIsTyped, TakeIsTyped
<1>d. /\ since[t] \in Starts /\ since[t].completed \subseteq Changes
      /\ \A c \in since[t].completed : MarkedBy(c, key[t].relationships)
  BY <1>0 DEF IInv, ThreadsAreConsistent, ThreadIsConsistent, ThreadIsTyped,
     AnswersCountTheirMarks,
     AnswerCountsItsMarks, Asking, Starts
<1>e. pc'[t] \in {"answered", "raised"} /\ answer' \in [Threads -> Answers \cup {None}]
  BY <1>c DEF IInv, TypeOK, LocalsTypeOK
<1>1. TypeOK'
  BY IInvIsTyped, TakeIsTyped DEF TypedInv
<1>2. ThreadsAreConsistent'
  <2>1. ThreadIsConsistent(t)'
    BY <1>0, <1>c, <1>e DEF IInv, TypeOK, DatabaseTypeOK, LocalsTypeOK, EvaluatorsTypeOK,
       ThreadsAreConsistent, ThreadIsConsistent, ThreadIsTyped, Asking
  <2> QED BY <1>0, <1>e, <2>1, KeepsThreads DEF IInv, TypeOK, DatabaseTypeOK, LocalsTypeOK,
             EvaluatorsTypeOK
<1>3. MarksFollowCommits'
  BY KeepsMarks DEF IInv, TypeOK, DatabaseTypeOK
<1>4. AnswersCountTheirMarks'
  <2>1. AnswerCountsItsMarks(t)'
    BY <1>0, <1>c, <1>d, <1>e DEF IInv, TypeOK, LocalsTypeOK, AnswersCountTheirMarks,
       AnswerCountsItsMarks, MarkedBy, Asking
  <2> QED BY <1>0, <1>e, <2>1, KeepsAnswers DEF IInv, TypeOK, LocalsTypeOK, EvaluatorsTypeOK
<1> QED BY <1>1, <1>2, <1>3, <1>4 DEF IInv

\* A statement sees everything that was committed when it marked.
LEMMA ExecuteKeeps ==
    ASSUME IInv, NEW t \in Threads, Execute(t)
    PROVE IInv'
<1> USE DEF Execute, database, process, evaluators, Keepable
<1>0. pc[t] = "execute" /\ compiled[t] \in Snapshots
  BY DEF IInv, ThreadsAreConsistent, ThreadIsConsistent, ThreadIsTyped
<1>a. /\ committed \subseteq answer'[t].seen
      /\ \A u \in Threads \ {t} : answer'[u] = answer[u]
      /\ pc'[t] \in {"store", "answered"} /\ (pc'[t] = "store" => key[t] # None)
  BY <1>0, IInvIsTyped, ExecuteIsTyped
<1>b. \A c \in Changes : markOf[c] > 0 => c \in committed
  BY DEF IInv, MarksFollowCommits
<1>c. since[t].completed \subseteq Changes /\ \A c \in since[t].completed : markOf[c] > 0
  BY <1>0 DEF IInv, ThreadsAreConsistent, ThreadIsConsistent, ThreadIsTyped,
     AnswersCountTheirMarks,
     AnswerCountsItsMarks, Asking, Starts
<1>1. TypeOK' /\ ThreadIsTyped(t)'
  BY IInvIsTyped, ExecuteIsTyped DEF TypedInv
<1>2. ThreadsAreConsistent'
  <2>1. ThreadIsConsistent(t)'
    BY <1>0, <1>1, <1>a DEF IInv, TypeOK, DatabaseTypeOK, LocalsTypeOK, ThreadsAreConsistent,
       ThreadIsConsistent, Asking
  <2> QED BY <1>a, <2>1, KeepsThreads DEF IInv, TypeOK, DatabaseTypeOK, LocalsTypeOK,
             EvaluatorsTypeOK
<1>3. MarksFollowCommits'
  BY KeepsMarks DEF IInv, TypeOK, DatabaseTypeOK
<1>4. AnswersCountTheirMarks'
  <2>1. AnswerCountsItsMarks(t)'
    BY <1>0, <1>a, <1>b, <1>c DEF IInv, TypeOK, LocalsTypeOK, AnswersCountTheirMarks,
       AnswerCountsItsMarks, MarkedBy, Asking
  <2> QED BY <1>a, <2>1, KeepsAnswers DEF IInv, TypeOK, LocalsTypeOK, EvaluatorsTypeOK
<1> QED BY <1>1, <1>2, <1>3, <1>4 DEF IInv

\* What is filed under a key counts its marks.
LEMMA StoreKeeps ==
    ASSUME IInv, NEW t \in Threads, Store(t)
    PROVE IInv'
<1> USE DEF Store, database, process, Kept, Entry
<1> DEFINE e == Active(t)
           new == [key |-> key[t], answer |-> answer[t]]
<1>0. /\ pc[t] = "store" /\ key[t] \in Keys \ {None} /\ answer[t] \in Answers
      /\ scopes[t] \in Seq(Evaluators) /\ scopes[t] # << >>
  BY DEF IInv, TypeOK, EvaluatorsTypeOK, ThreadsAreConsistent, ThreadIsConsistent,
     ThreadIsTyped, Asking
<1>a. e \in Evaluators
  <2>1. Len(scopes[t]) \in 1..Len(scopes[t]) BY <1>0
  <2>2. scopes[t][Len(scopes[t])] \in Evaluators BY <1>0, <2>1
  <2> QED BY <2>2 DEF Active, Last
<1>b. new \in Entries /\ EntryCountsItsMarks(new)
  BY <1>0 DEF Entries, EntryCountsItsMarks, IInv, AnswersCountTheirMarks, AnswerCountsItsMarks,
     Asking
<1>c. /\ \A f \in Evaluators \ {e} : cache'[f] = cache[f]
      /\ cache'[e] \subseteq cache[e] \cup {new}
  BY IInvIsTyped, StoreIsTyped
<1>1. TypeOK'
  BY IInvIsTyped, StoreIsTyped DEF TypedInv
<1>2. ThreadsAreConsistent'
  <2>1. ThreadIsConsistent(t)'
    BY <1>0 DEF IInv, TypeOK, LocalsTypeOK, ThreadsAreConsistent, ThreadIsConsistent,
       ThreadIsTyped, Asking
  <2> QED BY <2>1, KeepsThreads DEF IInv, TypeOK, LocalsTypeOK
<1>3. MarksFollowCommits'
  BY KeepsMarks
<1>4. AnswersCountTheirMarks'
  <2>1. ASSUME NEW f \in Evaluators, NEW x \in cache'[f] PROVE EntryCountsItsMarks(x)'
    <3>1. EntryCountsItsMarks(x)
      BY <1>b, <1>c, <2>1 DEF IInv, AnswersCountTheirMarks
    <3> QED BY <3>1 DEF EntryCountsItsMarks, MarkedBy
  <2>2. AnswerCountsItsMarks(t)'
    BY <1>0 DEF IInv, TypeOK, LocalsTypeOK, AnswersCountTheirMarks, AnswerCountsItsMarks,
       MarkedBy, Asking
  <2>3. ASSUME NEW u \in Threads, u # t PROVE AnswerCountsItsMarks(u)'
    BY <2>3, KeepsAnswer DEF IInv, TypeOK, LocalsTypeOK
  <2> QED BY <2>1, <2>2, <2>3 DEF AnswersCountTheirMarks
<1> QED BY <1>1, <1>2, <1>3, <1>4 DEF IInv

-----------------------------------------------------------------------------
(* The theorems.                                                           *)

\* Every step keeps the invariant.
LEMMA StepKeeps ==
    ASSUME IInv, [Next]_vars
    PROVE IInv'
<1>1. ASSUME NEW t \in Threads, WriterStep(t) PROVE IInv'
  BY <1>1, BeginTransactionKeeps, CommitTransactionKeeps, RollbackTransactionKeeps,
     WriteRelationshipsKeeps, CommitWriteKeeps, FailWriteKeeps, MarkInTransactionKeeps,
     MarkAfterCommitKeeps, AdvancePolicyKeeps, CommitPolicyKeeps DEF WriterStep
<1>2. ASSUME NEW t \in Threads, ScopeStep(t) PROVE IInv'
  BY <1>2, OpenScopeKeeps, CloseScopeKeeps, InvalidateKeeps DEF ScopeStep
<1>3. ASSUME NEW t \in Threads, QuestionStep(t) PROVE IInv'
  BY <1>3, AskKeeps, ResolveKeeps, ReadGenerationKeeps, LookupKeeps, TakeKeeps, CompileKeeps,
     ExecuteKeeps, StoreKeeps, ReturnKeeps DEF QuestionStep
<1>4. ASSUME Elsewhere PROVE IInv'
  BY <1>4, RemoteWriteKeeps, ChangeLiveRowsKeeps, RemotePolicyKeeps DEF Elsewhere
<1>5. CASE UNCHANGED vars
  BY <1>5 DEF vars, IInv, TypeOK, DatabaseTypeOK, ProcessTypeOK, EvaluatorsTypeOK,
     LocalsTypeOK, ThreadsAreConsistent, ThreadIsConsistent, ThreadIsTyped, MarksFollowCommits,
     AnswersCountTheirMarks, AnswerCountsItsMarks, EntryCountsItsMarks, MarkedBy
<1> QED BY <1>1, <1>2, <1>3, <1>4, <1>5 DEF Next

\* The inductive invariant of the decision cache (PermissionEvaluator.check over
\* _cache_generation) holds in every reachable state.
THEOREM Invariance == Spec => []IInv
<1>1. Init => IInv
  BY Initially
<1>2. IInv /\ [Next]_vars => IInv'
  BY StepKeeps
<1> QED BY <1>1, <1>2, PTL DEF Spec

\* An answer sees every relationship write that had a transaction of its own and
\* had returned when the question was asked, whatever evaluator it was kept in,
\* however the write and the check interleaved and whatever other writes did inside
\* transactions of their callers: this is why the key reads
\* _relationship_generation before the statement runs, and why
\* mark_relationships_changed comes after the commit.  Of the writes that a caller's
\* transaction commits it says nothing: they mark before.
THEOREM OwnWritesAreSeen == Spec => []AnswersSeeOwnWrites
<1>1. IInv => AnswersSeeOwnWrites
  BY DEF IInv, AnswersCountTheirMarks, AnswerCountsItsMarks, AnswersSeeOwnWrites
<1> QED BY <1>1, Invariance, PTL

-----------------------------------------------------------------------------
(* What is kept and given fits the snapshot it was made of (FitInv), when  *)
(* no caller opens a transaction.                                          *)

LEMMA NoCallersTransaction ==
    ASSUME ~AmbientWrites, OwnTransactions, NEW t \in Threads
    PROVE ~BeginTransaction(t) /\ ~CommitTransaction(t) /\ ~RollbackTransaction(t)
<1> QED BY DEF OwnTransactions, BeginTransaction, CommitTransaction, RollbackTransaction

LEMMA NobodyOpensOne ==
    ASSUME TypedInv, ~AmbientWrites, OwnTransactions, [Next]_vars
    PROVE OwnTransactions'
<1>0. transaction \in [Threads -> {"none", "own", "caller"}]
  BY DEF TypedInv, TypeOK, DatabaseTypeOK
<1>1. ASSUME NEW t \in Threads, WriterStep(t) PROVE OwnTransactions'
  BY <1>0, <1>1, NoCallersTransaction
  DEF OwnTransactions, WriterStep, WriteRelationships, CommitWrite, FailWrite, MarkChanged,
      AdvancePolicy, CommitPolicy, EndTransaction
<1>2. CASE UNCHANGED transaction BY <1>2 DEF OwnTransactions
<1>3. ASSUME NEW t \in Threads, ScopeStep(t) \/ QuestionStep(t) PROVE UNCHANGED transaction
  BY <1>3 DEF ScopeStep, OpenScope, CloseScope, Invalidate, QuestionStep, Ask, Resolve,
     ReadGeneration, Lookup, Take, Compile, Execute, Store, Return, database
<1>4. Elsewhere \/ UNCHANGED vars => UNCHANGED transaction
  BY DEF Elsewhere, RemoteWrite, ChangeLiveRows, RemotePolicy, vars
<1> QED BY <1>1, <1>2, <1>3, <1>4 DEF Next

\* Nothing is named, kept or answered in the beginning.
LEMMA FitsInitially ==
    ASSUME Init PROVE FitInv
<1>1. InUse = {} BY DEF Init, InUse
<1> QED BY <1>1
     DEF Init, FitInv, PoliciesAreOrdered, EvaluatorsAreApart, AnswersFit, AnswerFits, Asking

\* The snapshots in use are snapshots, and the innermost scope is an evaluator.
LEMMA InUseIsTyped ==
    ASSUME IInv
    PROVE /\ \A s \in InUse : s \in Snapshots
          /\ \A t \in Threads : compiled[t] # None => compiled[t] \in InUse
          /\ \A e \in Evaluators, t \in Threads : pins[e][t] # None => pins[e][t] \in InUse
BY DEF IInv, TypeOK, ProcessTypeOK, EvaluatorsTypeOK, LocalsTypeOK, InUse

LEMMA ActiveIsInstalled ==
    ASSUME IInv, NEW t \in Threads, InScope(t)
    PROVE /\ Active(t) \in Evaluators
          /\ EvaluatorsAreApart => Active(t) \in Installable[t]
<1>1. scopes[t] \in Seq(Evaluators) /\ scopes[t] # << >>
  BY DEF IInv, TypeOK, EvaluatorsTypeOK
<1>2. Len(scopes[t]) \in 1..Len(scopes[t]) BY <1>1
<1> QED BY <1>1, <1>2 DEF Active, Last, EvaluatorsAreApart

\* The answers of a thread, by what they are.
LEMMA AskingIsTyped ==
    ASSUME IInv, NEW t \in Threads
    PROVE /\ pc[t] \in Asking => InScope(t) /\ Active(t) \in Evaluators
          /\ key[t] # None => key[t].schema \in Nat
          /\ compiled[t] # None => compiled[t].revision \in Nat /\ compiled[t].generation \in Nat
          /\ pc[t] \in {"store", "answered"} => answer[t].revision \in Nat
<1>1. pc[t] \in Asking => InScope(t)
  BY DEF IInv, ThreadsAreConsistent, ThreadIsConsistent, ThreadIsTyped
<1> QED BY <1>1, ActiveIsInstalled
    DEF IInv, TypeOK, DatabaseTypeOK, LocalsTypeOK, ThreadsAreConsistent, ThreadIsConsistent,
    ThreadIsTyped,
        Keys, Snapshots, Answers

\* Entries are filed under numbers.
LEMMA EntriesAreTyped ==
    ASSUME IInv, NEW e \in Evaluators, NEW x \in cache[e]
    PROVE x.key.schema \in Nat /\ x.answer.revision \in Nat /\ x.key \in Keys /\ x.answer \in Answers
BY DEF IInv, TypeOK, EvaluatorsTypeOK, Entries, Keys, Answers

-----------------------------------------------------------------------------
(* What a step leaves alone.                                               *)

\* A step that names no snapshot for the first time.
LEMMA NothingIsNamed ==
    ASSUME IInv, FitInv, InUse' \subseteq InUse, published' = published,
           policy' \in Nat, policy <= policy'
    PROVE /\ PoliciesAreOrdered'
          /\ \A g, r \in Nat : Covers(g, r) => Covers(g, r)'
<1>1. \A g, r \in Nat : Covers(g, r) => Covers(g, r)' BY DEF Covers
<1>2. ASSUME NEW s \in InUse' PROVE s.revision <= policy' /\ Covers(s.generation, s.revision)'
  <2>1. s \in Snapshots /\ s.revision <= policy /\ Covers(s.generation, s.revision)
    BY <1>2, InUseIsTyped DEF FitInv, PoliciesAreOrdered
  <2>2. s.revision \in Nat /\ s.generation \in Nat /\ policy \in Nat
    BY <2>1, BoundAssumption DEF Snapshots, IInv, TypeOK, DatabaseTypeOK
  <2> QED BY <1>1, <2>1, <2>2
<1> QED BY <1>1, <1>2 DEF PoliciesAreOrdered

\* Another thread's answer stays fit, when its evaluator forgets nothing.
LEMMA OthersFit ==
    ASSUME IInv, FitInv, NEW u \in Threads,
           \A g, r \in Nat : Covers(g, r) => Covers(g, r)',
           pc'[u] = pc[u], since'[u] = since[u], key'[u] = key[u], compiled'[u] = compiled[u],
           answer'[u] = answer[u], scopes'[u] = scopes[u],
           pc[u] \in Asking =>
               /\ pins'[Active(u)][u] \in {None, pins[Active(u)][u]}
               /\ forgotten'[Active(u)] = forgotten[Active(u)]
    PROVE AnswerFits(u)'
<1>1. AnswerFits(u) BY DEF FitInv, AnswersFit
<1>2. Active(u)' = Active(u) BY DEF Active
<1>3. pc[u] = "execute" /\ key[u] # None /\ Covers(key[u].schema, compiled[u].revision)
         => Covers(key[u].schema, compiled[u].revision)'
  <2> SUFFICES ASSUME pc[u] = "execute", key[u] # None,
                      Covers(key[u].schema, compiled[u].revision)
               PROVE Covers(key[u].schema, compiled[u].revision)'
    OBVIOUS
  <2>1. key[u].schema \in Nat BY AskingIsTyped
  <2>2. compiled[u].revision \in Nat
    BY DEF IInv, ThreadsAreConsistent, ThreadIsConsistent, ThreadIsTyped, Snapshots
  <2> QED BY <2>1, <2>2
<1>4. pc[u] = "store" /\ Covers(key[u].schema, answer[u].revision)
         => Covers(key[u].schema, answer[u].revision)'
  BY AskingIsTyped DEF IInv, ThreadsAreConsistent, ThreadIsConsistent, ThreadIsTyped
<1> HIDE DEF Covers, Active
<1> QED BY <1>1, <1>2, <1>3, <1>4 DEF AnswerFits, Asking

\* A cache that only loses entries still fits.
LEMMA EntriesFit ==
    ASSUME IInv, FitInv, \A g, r \in Nat : Covers(g, r) => Covers(g, r)',
           \A e \in Evaluators : cache'[e] \subseteq cache[e],
           \A e \in Evaluators : forgotten'[e] = forgotten[e] \/ cache'[e] = {}
    PROVE \A e \in Evaluators : \A x \in cache'[e] : EntryFits(e, x)'
<1> TAKE e \in Evaluators
<1> TAKE x \in cache'[e]
<1>1. x \in cache[e] /\ forgotten'[e] = forgotten[e] OBVIOUS
<1>2. EntryFits(e, x) BY <1>1 DEF FitInv, AnswersFit
<1>3. x.key.schema \in Nat /\ x.answer.revision \in Nat BY <1>1, EntriesAreTyped
<1> QED BY <1>1, <1>2, <1>3 DEF EntryFits

\* A step between questions, of a writer or of another process.
LEMMA QuietSteps ==
    ASSUME IInv, FitInv,
           UNCHANGED <<compiled, pins, published, cache, scopes, forgotten, since, key, answer>>,
           shared' \in {shared, None}, policy' \in Nat, policy <= policy',
           committed \subseteq committed',
           \A u \in Threads : pc'[u] = pc[u] \/ pc'[u] \notin Asking
    PROVE FitInv'
<1>1. InUse' \subseteq InUse BY DEF InUse
<1>2. /\ PoliciesAreOrdered'
      /\ \A g, r \in Nat : Covers(g, r) => Covers(g, r)'
  BY <1>1, NothingIsNamed
<1>3. EvaluatorsAreApart' BY DEF FitInv, EvaluatorsAreApart
<1>4. ASSUME NEW u \in Threads PROVE AnswerFits(u)'
  <2>1. CASE pc'[u] = pc[u] BY <1>2, <2>1, OthersFit
  <2>2. CASE pc'[u] \notin Asking BY <2>2 DEF AnswerFits, Asking
  <2> QED BY <2>1, <2>2
<1>5. \A e \in Evaluators : \A x \in cache'[e] : EntryFits(e, x)'
  BY <1>2, EntriesFit
<1> QED BY <1>2, <1>3, <1>4, <1>5 DEF FitInv, AnswersFit

\* A step of t that leaves its evaluators, and all that is named and kept.
LEMMA OwnSteps ==
    ASSUME IInv, FitInv, NEW t \in Threads,
           UNCHANGED <<shared, pins, published, policy, committed, cache, scopes, forgotten>>,
           compiled' = compiled \/ compiled' = [compiled EXCEPT ![t] = None],
           AnswerFits(t)' \/ pc'[t] \notin Asking,
           \A u \in Threads \ {t} :
               pc'[u] = pc[u] /\ since'[u] = since[u] /\ key'[u] = key[u] /\ answer'[u] = answer[u]
    PROVE FitInv'
<1>0. compiled \in [Threads -> Snapshots \cup {None}] BY DEF IInv, TypeOK, LocalsTypeOK
<1>1. InUse' \subseteq InUse BY <1>0 DEF InUse
<1>2. policy \in Nat BY BoundAssumption DEF IInv, TypeOK, DatabaseTypeOK
<1>3. /\ PoliciesAreOrdered'
      /\ \A g, r \in Nat : Covers(g, r) => Covers(g, r)'
  BY <1>1, <1>2, NothingIsNamed
<1>4. EvaluatorsAreApart' BY DEF FitInv, EvaluatorsAreApart
<1>5. ASSUME NEW u \in Threads \ {t} PROVE AnswerFits(u)'
  <2>1. compiled'[u] = compiled[u] BY <1>0
  <2> QED BY <1>3, <2>1, OthersFit
<1>6. AnswerFits(t)' BY DEF AnswerFits, Asking
<1>7. \A e \in Evaluators : \A x \in cache'[e] : EntryFits(e, x)'
  BY <1>3, EntriesFit
<1> QED BY <1>3, <1>4, <1>5, <1>6, <1>7 DEF FitInv, AnswersFit

-----------------------------------------------------------------------------
(* Writers.                                                                *)

LEMMA WriterFits ==
    ASSUME IInv, FitInv, ~AmbientWrites, OwnTransactions, NEW t \in Threads, WriterStep(t)
    PROVE FitInv'
<1> USE DEF process, evaluators, EndTransaction
<1>0. /\ policy \in Nat /\ policy + 1 \in Nat /\ policy <= policy + 1
      /\ pc \in [Threads -> Phases]
  BY BoundAssumption DEF IInv, TypeOK, DatabaseTypeOK, LocalsTypeOK
<1>1. ASSUME NEW c \in OwnChanges, WriteRelationships(t, c) PROVE FitInv'
  BY <1>0, <1>1, QuietSteps DEF WriteRelationships, Asking
<1>2. CASE CommitWrite(t) BY <1>0, <1>2, QuietSteps DEF CommitWrite, Asking
<1>3. CASE FailWrite(t) BY <1>0, <1>3, QuietSteps DEF FailWrite, Asking
<1>4. CASE MarkChanged(t) BY <1>0, <1>4, QuietSteps DEF MarkChanged, Asking
<1>5. CASE AdvancePolicy(t) BY <1>0, <1>5, QuietSteps DEF AdvancePolicy, Asking
<1>6. CASE CommitPolicy(t) BY <1>0, <1>6, QuietSteps DEF CommitPolicy, Asking
<1> QED BY <1>1, <1>2, <1>3, <1>4, <1>5, <1>6, NoCallersTransaction DEF WriterStep

LEMMA ElsewhereFits == ASSUME IInv, FitInv, Elsewhere PROVE FitInv'
<1> USE DEF process, evaluators, locals
<1>0. policy \in Nat /\ policy + 1 \in Nat /\ policy <= policy + 1
  BY BoundAssumption DEF IInv, TypeOK, DatabaseTypeOK
<1>1. ASSUME NEW c \in RemoteChanges, RemoteWrite(c) PROVE FitInv'
  BY <1>0, <1>1, QuietSteps DEF RemoteWrite
<1>2. CASE ChangeLiveRows BY <1>0, <1>2, QuietSteps DEF ChangeLiveRows
<1>3. CASE RemotePolicy BY <1>0, <1>3, QuietSteps DEF RemotePolicy
<1> QED BY <1>1, <1>2, <1>3 DEF Elsewhere

-----------------------------------------------------------------------------
(* Scopes.                                                                 *)

\* Pins may go, and what is kept with them, in an evaluator that t alone may install.
LEMMA ScopeSteps ==
    ASSUME IInv, FitInv, Unshared, NEW t \in Threads, pc[t] = "idle", NEW e \in Evaluators,
           e \in Installable[t],
           UNCHANGED <<shared, compiled, published, policy, committed, pc, since, key, answer>>,
           pins' \in {pins, [pins EXCEPT ![e] = NoPins]},
           \A u \in Threads \ {t} : scopes'[u] = scopes[u],
           \A f \in Evaluators : cache'[f] \subseteq cache[f],
           \A f \in Evaluators : forgotten'[f] = forgotten[f] \/ (f = e /\ cache'[f] = {}),
           EvaluatorsAreApart'
    PROVE FitInv'
<1>0. pins \in [Evaluators -> [Threads -> Snapshots \cup {None}]]
  BY DEF IInv, TypeOK, EvaluatorsTypeOK
<1>1. \A f \in Evaluators, u \in Threads : pins'[f][u] \in {None, pins[f][u]}
  BY <1>0 DEF NoPins
<1>2. InUse' \subseteq InUse BY <1>1 DEF InUse
<1>3. policy \in Nat BY BoundAssumption DEF IInv, TypeOK, DatabaseTypeOK
<1>4. /\ PoliciesAreOrdered'
      /\ \A g, r \in Nat : Covers(g, r) => Covers(g, r)'
  BY <1>2, <1>3, NothingIsNamed
<1>5. ASSUME NEW u \in Threads \ {t} PROVE AnswerFits(u)'
  <2>1. ASSUME pc[u] \in Asking
        PROVE /\ pins'[Active(u)][u] \in {None, pins[Active(u)][u]}
              /\ forgotten'[Active(u)] = forgotten[Active(u)]
    <3>1. InScope(u) BY <2>1, AskingIsTyped
    <3>2. Active(u) \in Evaluators /\ Active(u) \in Installable[u]
      BY <3>1, ActiveIsInstalled DEF FitInv
    <3>3. Active(u) # e BY <3>2 DEF Unshared
    <3> QED BY <1>1, <3>2, <3>3
  <2> QED BY <1>4, <2>1, OthersFit
<1>6. AnswerFits(t)' BY DEF AnswerFits, Asking
<1>7. \A f \in Evaluators : \A x \in cache'[f] : EntryFits(f, x)'
  BY <1>4, EntriesFit
<1> QED BY <1>4, <1>5, <1>6, <1>7 DEF FitInv, AnswersFit

LEMMA ScopeFits ==
    ASSUME IInv, FitInv, Unshared, NEW t \in Threads, ScopeStep(t) PROVE FitInv'
<1> USE DEF database, process, locals
<1>0. /\ scopes \in [Threads -> Seq(Evaluators)]
      /\ forgotten \in [Evaluators -> SUBSET Changes]
      /\ EvaluatorsAreApart
  BY DEF IInv, TypeOK, EvaluatorsTypeOK, FitInv
<1>1. ASSUME NEW e \in Evaluators, OpenScope(t, e) PROVE FitInv'
  <2>1. pc[t] = "idle" /\ e \in Installable[t] /\ scopes' = [scopes EXCEPT ![t] = Append(@, e)]
    BY <1>1 DEF OpenScope
  <2>2. EvaluatorsAreApart'
    BY <1>0, <1>1, <2>1 DEF OpenScope, EvaluatorsAreApart
  <2>3. /\ UNCHANGED <<shared, compiled, published, policy, committed, pc, since, key, answer>>
        /\ UNCHANGED <<pins, cache, forgotten>>
        /\ \A u \in Threads \ {t} : scopes'[u] = scopes[u]
    BY <1>0, <1>1 DEF OpenScope
  <2> QED BY <2>1, <2>2, <2>3, ScopeSteps
<1>2. CASE CloseScope(t)
  <2>1. pc[t] = "idle" /\ InScope(t) /\ scopes' = [scopes EXCEPT ![t] = Front(@)]
    BY <1>2 DEF CloseScope
  <2>2. Active(t) \in Evaluators /\ Active(t) \in Installable[t]
    BY <1>0, <2>1, ActiveIsInstalled
  <2>3. pins' \in {pins, [pins EXCEPT ![Active(t)] = NoPins]}
    <3>1. pins \in [Evaluators -> [Threads -> Snapshots \cup {None}]]
      BY DEF IInv, TypeOK, EvaluatorsTypeOK
    <3> QED BY <1>2, <2>2, <3>1 DEF CloseScope
  <2>4. EvaluatorsAreApart'
    <3>1. scopes[t] \in Seq(Evaluators) /\ scopes[t] # << >> BY <1>0, <2>1
    <3>2. \A i \in 1..Len(Front(scopes[t])) :
             i \in 1..Len(scopes[t]) /\ Front(scopes[t])[i] = scopes[t][i]
      BY <3>1 DEF Front
    <3> QED BY <1>0, <1>2, <2>1, <3>2 DEF CloseScope, EvaluatorsAreApart
  <2>5. /\ UNCHANGED <<shared, compiled, published, policy, committed, pc, since, key, answer>>
        /\ UNCHANGED <<cache, forgotten>>
        /\ \A u \in Threads \ {t} : scopes'[u] = scopes[u]
    BY <1>0, <1>2 DEF CloseScope
  <2> HIDE DEF EvaluatorsAreApart, Active
  <2> QED BY <2>1, <2>2, <2>3, <2>4, <2>5, ScopeSteps
<1>3. CASE Invalidate(t)
  <2>1. pc[t] = "idle" /\ InScope(t) BY <1>3 DEF Invalidate
  <2>2. Active(t) \in Evaluators /\ Active(t) \in Installable[t]
    BY <1>0, <2>1, ActiveIsInstalled
  <2>3. cache \in [Evaluators -> SUBSET Entries] BY DEF IInv, TypeOK, EvaluatorsTypeOK
  <2>4. /\ cache' = [cache EXCEPT ![Active(t)] = {}]
        /\ forgotten' = [forgotten EXCEPT ![Active(t)] = committed]
        /\ pins' = [pins EXCEPT ![Active(t)] = NoPins] /\ scopes' = scopes
        /\ UNCHANGED <<shared, compiled, published, policy, committed, pc, since, key, answer>>
    BY <1>3 DEF Invalidate
  <2>5. EvaluatorsAreApart' BY <1>0, <2>4 DEF EvaluatorsAreApart
  <2>6. /\ \A f \in Evaluators : cache'[f] \subseteq cache[f]
        /\ \A f \in Evaluators :
              forgotten'[f] = forgotten[f] \/ (f = Active(t) /\ cache'[f] = {})
    BY <1>0, <2>2, <2>3, <2>4
  <2> QED BY <2>1, <2>2, <2>4, <2>5, <2>6, ScopeSteps
<1> QED BY <1>1, <1>2, <1>3 DEF ScopeStep

-----------------------------------------------------------------------------
(* Questions: the policy.                                                  *)

\* Whatever is named after a step was named before, or is the policy of now under a
\* generation that nothing else has.
LEMMA NamingIsOrdered ==
    ASSUME IInv, FitInv, policy' = policy, published' \in Nat, published <= published',
           \A s \in InUse' :
               /\ s \in Snapshots
               /\ \/ \E u \in InUse : s.generation = u.generation /\ s.revision = u.revision
                  \/ published < s.generation /\ s.generation <= published'
                     /\ s.revision = policy
    PROVE /\ PoliciesAreOrdered'
          /\ \A g, r \in Nat : Covers(g, r) => Covers(g, r)'
<1>0. published \in Nat /\ policy \in Nat
  BY BoundAssumption DEF IInv, TypeOK, DatabaseTypeOK, ProcessTypeOK
<1>1. \A s \in InUse : s \in Snapshots /\ s.revision <= policy /\ Covers(s.generation, s.revision)
  BY InUseIsTyped DEF FitInv, PoliciesAreOrdered
<1>2. \A s \in InUse \cup InUse' : s.generation \in Nat /\ s.revision \in Nat
  BY <1>1 DEF Snapshots
<1>3. \A s \in InUse' : s.revision <= policy BY <1>0, <1>1
<1>4. ASSUME NEW g \in Nat, NEW r \in Nat, Covers(g, r) PROVE Covers(g, r)'
  <2>1. ASSUME NEW s \in InUse', s.generation <= g PROVE s.revision <= r
    BY <1>0, <1>2, <1>4, <2>1 DEF Covers
  <2> QED BY <1>0, <1>4, <2>1 DEF Covers
<1>5. ASSUME NEW s \in InUse' PROVE Covers(s.generation, s.revision)'
  <2>1. CASE \E u \in InUse : s.generation = u.generation /\ s.revision = u.revision
    BY <1>1, <1>2, <1>4, <2>1
  <2>2. CASE s.generation <= published' /\ s.revision = policy
    BY <1>3, <2>2 DEF Covers
  <2> QED BY <2>1, <2>2
<1> QED BY <1>3, <1>4, <1>5 DEF PoliciesAreOrdered

\* A thread that asks for the policy gets its pin, or the policy of now.
LEMMA ResolvedPolicies ==
    ASSUME IInv, FitInv, NEW t \in Threads, InScope(t), ~InTransaction(t), ResolvePolicy(t),
           policy' = policy
    PROVE /\ PoliciesAreOrdered'
          /\ \A g, r \in Nat : Covers(g, r) => Covers(g, r)'
          /\ compiled'[t] # None /\ pins'[Active(t)][t] = compiled'[t]
          /\ \A u \in Threads \ {t} :
                compiled'[u] = compiled[u]
                /\ \A f \in Evaluators : pins'[f][u] = pins[f][u]
          /\ compiled'[t] \in Snapshots
          /\ \/ compiled'[t] = pins[Active(t)][t]
             \/ compiled'[t].revision = policy
<1> DEFINE e == Active(t)
<1>0. /\ e \in Evaluators /\ published \in Nat /\ policy \in Nat /\ policy \in 0..MaxRevision
      /\ invalidation \in Nat /\ shared \in Snapshots \cup {None}
      /\ pins \in [Evaluators -> [Threads -> Snapshots \cup {None}]]
      /\ compiled \in [Threads -> Snapshots \cup {None}]
  BY ActiveIsInstalled, BoundAssumption
  DEF IInv, TypeOK, DatabaseTypeOK, ProcessTypeOK, EvaluatorsTypeOK, LocalsTypeOK
<1>1. \A s \in InUse : s \in Snapshots BY InUseIsTyped
<1>2. CASE /\ Honoured(pins[e][t]) /\ compiled' = [compiled EXCEPT ![t] = pins[e][t]]
           /\ UNCHANGED <<pins, shared, published>>
  <2>1. compiled'[t] = pins[e][t] /\ \A u \in Threads \ {t} : compiled'[u] = compiled[u]
    BY <1>0, <1>2
  <2>2. pins[e][t] # None /\ pins[e][t] \in Snapshots BY <1>0, <1>2 DEF Honoured
  <2>3. InUse' \subseteq InUse BY <1>0, <1>2, <2>1, <2>2 DEF InUse
  <2>4. /\ PoliciesAreOrdered'
        /\ \A g, r \in Nat : Covers(g, r) => Covers(g, r)'
    BY <1>0, <1>2, <2>3, NothingIsNamed
  <2> QED BY <1>2, <2>1, <2>2, <2>4
<1>3. CASE /\ SharePolicy
           /\ compiled' = [compiled EXCEPT ![t] = [shared' EXCEPT !.invalidation = invalidation]]
           /\ pins' = [pins EXCEPT ![e][t] = compiled'[t]]
  <2> DEFINE new == [shared' EXCEPT !.invalidation = invalidation]
  <2>1. /\ shared' \in Snapshots /\ shared'.revision = policy
        /\ published' \in Nat /\ published <= published'
        /\ \/ shared' = shared /\ shared # None
           \/ published < shared'.generation /\ shared'.generation <= published'
    <3>1. CASE shared # None /\ shared.revision = policy
      BY <1>0, <1>3, <3>1 DEF SharePolicy
    <3>2. CASE ~(shared # None /\ shared.revision = policy)
      <4>1. published' = published + 1
            /\ shared' = [revision |-> policy, generation |-> published', invalidation |-> 0]
        BY <1>3, <3>2 DEF SharePolicy, NextGeneration
      <4> QED BY <1>0, <4>1 DEF Snapshots
    <3> QED BY <3>1, <3>2
  <2>2. /\ new \in Snapshots /\ new.revision = policy /\ new.generation = shared'.generation
    BY <1>0, <2>1 DEF Snapshots
  <2>3. new # None BY <2>2, NoneAssumption
  <2> HIDE DEF new
  <2>4. /\ compiled'[t] = new /\ \A u \in Threads \ {t} : compiled'[u] = compiled[u]
        /\ pins'[e][t] = new
        /\ \A u \in Threads \ {t}, f \in Evaluators : pins'[f][u] = pins[f][u]
        /\ \A f \in Evaluators \ {e} : pins'[f][t] = pins[f][t]
    BY <1>0, <1>3 DEF new
  <2>5. InUse' \subseteq InUse \cup {shared', new} BY <2>4 DEF InUse
  <2>6. shared' = shared /\ shared # None => shared \in InUse BY DEF InUse
  <2>7. ASSUME NEW s \in InUse'
        PROVE /\ s \in Snapshots
              /\ \/ \E u \in InUse : s.generation = u.generation /\ s.revision = u.revision
                 \/ published < s.generation /\ s.generation <= published'
                    /\ s.revision = policy
    <3>1. CASE s \in InUse BY <1>1, <3>1
    <3>2. CASE s \in {shared', new} BY <2>1, <2>2, <2>6, <3>2
    <3> QED BY <2>5, <3>1, <3>2
  <2>8. /\ PoliciesAreOrdered'
        /\ \A g, r \in Nat : Covers(g, r) => Covers(g, r)'
    BY <2>1, <2>7, NamingIsOrdered
  <2> QED BY <2>2, <2>3, <2>4, <2>8
<1> QED BY <1>2, <1>3 DEF ResolvePolicy

\* A step that asks for the policy, and leaves its thread fit.
LEMMA PolicySteps ==
    ASSUME IInv, FitInv, NEW t \in Threads, InScope(t), ~InTransaction(t), ResolvePolicy(t),
           UNCHANGED <<policy, committed, cache, scopes, forgotten, since, key, answer>>,
           \A u \in Threads \ {t} : pc'[u] = pc[u],
           AnswerFits(t)'
    PROVE FitInv'
<1>1. /\ PoliciesAreOrdered'
      /\ \A g, r \in Nat : Covers(g, r) => Covers(g, r)'
      /\ \A u \in Threads \ {t} :
            compiled'[u] = compiled[u]
            /\ \A f \in Evaluators : pins'[f][u] = pins[f][u]
  BY ResolvedPolicies
<1>2. EvaluatorsAreApart' BY DEF FitInv, EvaluatorsAreApart
<1>3. ASSUME NEW u \in Threads \ {t} PROVE AnswerFits(u)'
  <2>1. pc[u] \in Asking => Active(u) \in Evaluators BY AskingIsTyped
  <2> QED BY <1>1, <2>1, OthersFit
<1>4. \A e \in Evaluators : \A x \in cache'[e] : EntryFits(e, x)'
  BY <1>1, EntriesFit
<1> QED BY <1>1, <1>2, <1>3, <1>4 DEF FitInv, AnswersFit

\* Whoever asks is in no transaction.
LEMMA AskingInNone ==
    ASSUME IInv, OwnTransactions, NEW t \in Threads, pc[t] \in Asking
    PROVE ~InTransaction(t)
BY DEF OwnTransactions, Asking, IInv, TypeOK, DatabaseTypeOK, ThreadsAreConsistent,
   ThreadIsConsistent

LEMMA ResolveFits ==
    ASSUME IInv, FitInv, OwnTransactions, NEW t \in Threads, Resolve(t) PROVE FitInv'
<1> USE DEF Resolve, database
<1>0. ~InTransaction(t) BY AskingInNone DEF Asking
<1>1. /\ pc[t] = "resolve" /\ InScope(t) /\ ~InTransaction(t) /\ key[t] = None
      /\ pc \in [Threads -> Phases]
  BY <1>0, AskingIsTyped DEF Asking, IInv, ThreadsAreConsistent, ThreadIsConsistent,
     ThreadIsTyped, TypeOK, LocalsTypeOK
<1>2. ResolvePolicy(t) BY <1>1
<1>3. pc'[t] \in {"generation", "compile"} /\ \A u \in Threads \ {t} : pc'[u] = pc[u]
  BY <1>1
<1>4. compiled'[t] # None /\ pins'[Active(t)][t] = compiled'[t]
  BY <1>1, <1>2, ResolvedPolicies
<1>5. Active(t)' = Active(t) BY DEF Active
<1>6. AnswerFits(t)'
  BY <1>1, <1>3, <1>4, <1>5 DEF FitInv, AnswersFit, AnswerFits, Asking
<1> QED BY <1>1, <1>2, <1>3, <1>6, PolicySteps

LEMMA CompileFits ==
    ASSUME IInv, FitInv, OwnTransactions, NEW t \in Threads, Compile(t) PROVE FitInv'
<1> USE DEF Compile, database
<1>0. ~InTransaction(t) BY AskingInNone DEF Asking
<1>1. /\ pc[t] = "compile" /\ InScope(t) /\ ~InTransaction(t)
      /\ pc \in [Threads -> Phases]
  BY <1>0, AskingIsTyped DEF Asking, IInv, TypeOK, LocalsTypeOK
<1>2. ResolvePolicy(t) OBVIOUS
<1>3. pc'[t] = "execute" /\ \A u \in Threads \ {t} : pc'[u] = pc[u]
  BY <1>1
<1>4. AnswerFits(t) BY DEF FitInv, AnswersFit
<1>5. Active(t)' = Active(t) BY DEF Active
<1>6. compiled[t] \in InUse /\ compiled[t] \in Snapshots
  BY <1>1, <1>4, InUseIsTyped DEF AnswerFits
<1>7. /\ PoliciesAreOrdered' /\ compiled'[t] \in InUse' /\ compiled'[t] \in Snapshots
      /\ \/ compiled'[t] = pins[Active(t)][t] /\ compiled'[t] # None
         \/ compiled'[t].revision = policy
  BY <1>1, <1>2, ResolvedPolicies DEF InUse
<1>8. ASSUME key'[t] # None PROVE Covers(key[t].schema, compiled[t].revision)'
  <2>1. /\ key[t] # None /\ key[t].schema \in Nat
        /\ compiled[t].revision \in Nat /\ compiled'[t].revision \in Nat
    BY <1>6, <1>7, <1>8, AskingIsTyped DEF Snapshots
  <2>2. PICK g \in Nat, old \in Nat, r \in Nat :
           g = key[t].schema /\ old = compiled[t].revision /\ r = compiled'[t].revision
    BY <2>1
  <2>3. Covers(g, old)
    BY <1>1, <1>4, <1>6, <2>1, <2>2 DEF AnswerFits, FitInv, PoliciesAreOrdered
  <2>4. \A h, q \in Nat : Covers(h, q) => Covers(h, q)' BY <1>1, <1>2, ResolvedPolicies
  <2>5. CASE compiled'[t] = pins[Active(t)][t] /\ compiled'[t] # None
    <3>1. r = old BY <1>1, <1>4, <2>2, <2>5 DEF AnswerFits
    <3> QED BY <2>2, <2>3, <2>4, <3>1
  <2>6. CASE compiled'[t].revision = policy
    <3>1. Covers(g, old)' BY <2>3, <2>4
    <3>2. \A s \in InUse' : s.revision <= r
      BY <1>7, <2>2, <2>6 DEF PoliciesAreOrdered
    <3>3. Covers(g, r)' BY <3>1, <3>2 DEF Covers
    <3> QED BY <2>2, <3>3
  <2> QED BY <1>7, <2>5, <2>6
<1>9. AnswerFits(t)'
  <2>1. since'[t].forgotten = forgotten'[Active(t)']
    BY <1>1, <1>4, <1>5 DEF AnswerFits, Asking
  <2> QED BY <1>3, <1>8, <2>1 DEF AnswerFits
<1> QED BY <1>1, <1>2, <1>3, <1>9, PolicySteps

-----------------------------------------------------------------------------
(* Questions: the answer.                                                  *)

LEMMA AskFits ==
    ASSUME IInv, FitInv, NEW t \in Threads, NEW q \in Questions, Ask(t, q) PROVE FitInv'
<1> USE DEF Ask, database, process, evaluators
<1>0. /\ pc \in [Threads -> Phases] /\ asked \in [Threads -> Questions \cup {None}]
      /\ since \in [Threads -> Starts \cup {None}]
  BY DEF IInv, TypeOK, LocalsTypeOK
<1>1. pc'[t] = "resolve" /\ since'[t].forgotten = forgotten[Active(t)] BY <1>0
<1>2. Active(t)' = Active(t) BY DEF Active
<1>3. AnswerFits(t)' BY <1>1, <1>2 DEF AnswerFits
<1>4. \A u \in Threads \ {t} :
          pc'[u] = pc[u] /\ since'[u] = since[u] /\ key'[u] = key[u] /\ answer'[u] = answer[u]
  BY <1>0
<1> QED BY <1>3, <1>4, OwnSteps

LEMMA ReadGenerationFits ==
    ASSUME IInv, FitInv, NEW t \in Threads, ReadGeneration(t) PROVE FitInv'
<1> USE DEF ReadGeneration, database, process, evaluators
<1>0. pc \in [Threads -> Phases] /\ key \in [Threads -> Keys \cup {None}]
  BY DEF IInv, TypeOK, LocalsTypeOK
<1>1. pc[t] = "generation" /\ pc'[t] = "lookup" /\ key'[t].schema = compiled[t].generation
  BY <1>0
<1>2. Active(t)' = Active(t) BY DEF Active
<1>3. AnswerFits(t)' BY <1>1, <1>2 DEF FitInv, AnswersFit, AnswerFits, Asking
<1>4. \A u \in Threads \ {t} :
          pc'[u] = pc[u] /\ since'[u] = since[u] /\ key'[u] = key[u] /\ answer'[u] = answer[u]
  BY <1>0
<1> QED BY <1>3, <1>4, OwnSteps

LEMMA LookupFits == ASSUME IInv, FitInv, NEW t \in Threads, Lookup(t) PROVE FitInv'
<1> USE DEF Lookup, database, process, evaluators
<1>0. pc \in [Threads -> Phases] BY DEF IInv, TypeOK, LocalsTypeOK
<1>1. pc[t] = "lookup" /\ pc'[t] \in {"found", "compile"} BY <1>0
<1>2. Active(t)' = Active(t) BY DEF Active
<1>3. AnswerFits(t)' BY <1>1, <1>2 DEF FitInv, AnswersFit, AnswerFits, Asking
<1>4. \A u \in Threads \ {t} :
          pc'[u] = pc[u] /\ since'[u] = since[u] /\ key'[u] = key[u] /\ answer'[u] = answer[u]
  BY <1>0
<1> QED BY <1>3, <1>4, OwnSteps

\* An entry that is taken names a policy no earlier than the one of the question, and
\* was computed after its evaluator was last invalidated.
LEMMA TakeFits == ASSUME IInv, FitInv, NEW t \in Threads, Take(t) PROVE FitInv'
<1> USE DEF Take, database, process
<1>0. /\ pc \in [Threads -> Phases] /\ answer \in [Threads -> Answers \cup {None}]
  BY DEF IInv, TypeOK, LocalsTypeOK
<1>1. /\ pc[t] = "found" /\ AnswerFits(t) /\ Active(t) \in Evaluators /\ key[t] \in Keys \ {None}
  BY AskingIsTyped DEF FitInv, AnswersFit, Asking, IInv, ThreadsAreConsistent,
     ThreadIsConsistent, ThreadIsTyped
<1>2. Active(t)' = Active(t) BY DEF Active
<1>3. \A u \in Threads \ {t} :
          pc'[u] = pc[u] /\ since'[u] = since[u] /\ key'[u] = key[u] /\ answer'[u] = answer[u]
  BY <1>0
<1>4. CASE pc'[t] = "raised"
  <2>1. AnswerFits(t)' BY <1>1, <1>2, <1>4 DEF AnswerFits, Asking
  <2> QED BY <1>3, <2>1, OwnSteps
<1>5. CASE \E x \in cache[Active(t)] :
             x.key = key[t] /\ answer'[t] = x.answer /\ pc'[t] = "answered"
  <2>1. PICK x \in cache[Active(t)] :
           x.key = key[t] /\ answer'[t] = x.answer /\ pc'[t] = "answered"
    BY <1>5
  <2>2. EntryFits(Active(t), x) BY <1>1, <2>1 DEF FitInv, AnswersFit
  <2>3. compiled[t] \in InUse /\ compiled[t] \in Snapshots /\ compiled[t] # None
    BY <1>1, InUseIsTyped DEF AnswerFits
  <2>4. x.answer.revision \in Nat BY <1>1, <2>1, EntriesAreTyped
  <2>5. key[t].schema = compiled[t].generation /\ compiled[t].generation \in Nat
        /\ compiled[t].revision \in Nat
    BY <1>1, <2>3 DEF AnswerFits, Snapshots
  <2>6. x.answer.revision >= compiled[t].revision
    BY <2>1, <2>2, <2>3, <2>4, <2>5 DEF EntryFits, Covers
  <2>7. since[t].forgotten \subseteq x.answer.seen
    BY <1>1, <2>2 DEF AnswerFits, EntryFits, Asking
  <2>8. since[t].forgotten = forgotten[Active(t)] BY <1>1 DEF AnswerFits, Asking
  <2>9. AnswerFits(t)'
    BY <1>2, <2>1, <2>3, <2>6, <2>7, <2>8 DEF AnswerFits
  <2> QED BY <1>3, <2>9, OwnSteps
<1>6. pc'[t] = "raised" \/ \E x \in cache[Active(t)] :
             x.key = key[t] /\ answer'[t] = x.answer /\ pc'[t] = "answered"
  BY <1>0 DEF Kept
<1> QED BY <1>4, <1>5, <1>6

\* A statement sees all that is committed, under the policy it was compiled from.
LEMMA ExecuteFits == ASSUME IInv, FitInv, NEW t \in Threads, Execute(t) PROVE FitInv'
<1> USE DEF Execute, database, process, evaluators
<1>0. /\ pc \in [Threads -> Phases] /\ answer \in [Threads -> Answers \cup {None}]
  BY DEF IInv, TypeOK, LocalsTypeOK
<1>1. /\ pc[t] = "execute" /\ AnswerFits(t) /\ Active(t) \in Evaluators
      /\ compiled[t] \in Snapshots /\ compiled[t] # None
  BY AskingIsTyped, NoneAssumption
  DEF FitInv, AnswersFit, Asking, IInv, ThreadsAreConsistent, ThreadIsConsistent, ThreadIsTyped
<1>2. Active(t)' = Active(t) BY DEF Active
<1>3. \A u \in Threads \ {t} :
          pc'[u] = pc[u] /\ since'[u] = since[u] /\ key'[u] = key[u] /\ answer'[u] = answer[u]
  BY <1>0
<1>4. /\ answer'[t].seen = committed \cup wrote[t] /\ answer'[t].revision = compiled[t].revision
      /\ pc'[t] \in {"store", "answered"} /\ (pc'[t] = "store" => key[t] # None)
  BY <1>0 DEF Keepable
<1>5. since[t].forgotten = forgotten[Active(t)] BY <1>1 DEF AnswerFits, Asking
<1>6. since[t].forgotten \subseteq committed BY <1>1, <1>5 DEF FitInv, EvaluatorsAreApart
<1>7. compiled[t].revision \in Nat BY <1>1 DEF Snapshots
<1>8. pc'[t] = "store" => Covers(key[t].schema, answer'[t].revision)
  BY <1>1, <1>4 DEF AnswerFits
<1>9. Covers(key[t].schema, answer[t].revision)' <=> Covers(key[t].schema, answer'[t].revision)
  BY DEF Covers, InUse
<1>10. AnswerFits(t)'
  BY <1>1, <1>2, <1>4, <1>5, <1>6, <1>7, <1>8, <1>9 DEF AnswerFits
<1> QED BY <1>3, <1>10, OwnSteps

\* What is filed fits its key.
LEMMA StoreFits == ASSUME IInv, FitInv, NEW t \in Threads, Store(t) PROVE FitInv'
<1> USE DEF database, process
<1> DEFINE e == Active(t)
           new == [key |-> key[t], answer |-> answer[t]]
<1>0. pc \in [Threads -> Phases] /\ cache \in [Evaluators -> SUBSET Entries]
  BY DEF IInv, TypeOK, LocalsTypeOK, EvaluatorsTypeOK
<1>1. pc[t] = "store" /\ AnswerFits(t) /\ e \in Evaluators
  BY AskingIsTyped DEF FitInv, AnswersFit, Store, Asking
<1>2. /\ UNCHANGED <<shared, pins, published, policy, committed, scopes, forgotten>>
      /\ UNCHANGED <<compiled, since, key, answer>>
      /\ pc'[t] = "answered" /\ \A u \in Threads \ {t} : pc'[u] = pc[u]
  BY <1>0 DEF Store
<1>3. /\ \A f \in Evaluators \ {e} : cache'[f] = cache[f]
      /\ cache'[e] \subseteq cache[e] \cup {new}
  BY <1>0, <1>1 DEF Store, Entry
<1>4. InUse' = InUse BY <1>2 DEF InUse
<1>5. policy \in Nat BY BoundAssumption DEF IInv, TypeOK, DatabaseTypeOK
<1>6. /\ PoliciesAreOrdered'
      /\ \A g, r \in Nat : Covers(g, r) => Covers(g, r)'
  BY <1>2, <1>4, <1>5, NothingIsNamed
<1>7. EvaluatorsAreApart' BY <1>2 DEF FitInv, EvaluatorsAreApart
<1>8. EntryFits(e, new)
  BY <1>1 DEF AnswerFits, EntryFits, Asking
<1>9. ASSUME NEW f \in Evaluators, NEW x \in cache'[f] PROVE EntryFits(f, x)'
  <2>1. EntryFits(f, x)
    BY <1>3, <1>8, <1>9 DEF FitInv, AnswersFit
  <2> QED BY <1>2, <1>4, <2>1 DEF EntryFits, Covers
<1>10. Active(t)' = Active(t) BY <1>2 DEF Active
<1>11. AnswerFits(t)' BY <1>1, <1>2, <1>10 DEF AnswerFits, Asking
<1>12. ASSUME NEW u \in Threads \ {t} PROVE AnswerFits(u)'
  BY <1>2, <1>6, OthersFit
<1> QED BY <1>6, <1>7, <1>9, <1>11, <1>12 DEF FitInv, AnswersFit

LEMMA ReturnFits == ASSUME IInv, FitInv, NEW t \in Threads, Return(t) PROVE FitInv'
<1> USE DEF Return, database, process, evaluators
<1>0. pc \in [Threads -> Phases] BY DEF IInv, TypeOK, LocalsTypeOK
<1>1. pc'[t] \notin Asking BY <1>0 DEF Asking
<1>2. \A u \in Threads \ {t} :
          pc'[u] = pc[u] /\ since'[u] = since[u] /\ key'[u] = key[u] /\ answer'[u] = answer[u]
  BY <1>0 DEF IInv, TypeOK, LocalsTypeOK
<1> QED BY <1>1, <1>2, OwnSteps

-----------------------------------------------------------------------------
(* The theorems.                                                           *)

LEMMA StepFits ==
    ASSUME IInv, FitInv, ~AmbientWrites, OwnTransactions, Unshared, [Next]_vars
    PROVE FitInv'
<1>1. ASSUME NEW t \in Threads, QuestionStep(t) PROVE FitInv'
  BY <1>1, AskFits, ResolveFits, ReadGenerationFits, LookupFits, TakeFits, CompileFits,
     ExecuteFits, StoreFits, ReturnFits DEF QuestionStep
<1>2. ASSUME UNCHANGED vars PROVE FitInv'
  <2>1. policy \in Nat /\ policy <= policy
    BY BoundAssumption DEF IInv, TypeOK, DatabaseTypeOK
  <2> QED BY <1>2, <2>1, QuietSteps DEF vars
<1> QED BY <1>1, <1>2, WriterFits, ScopeFits, ElsewhereFits DEF Next

\* What is kept under a generation (PermissionEvaluator.check over _cache_generation)
\* rests on no policy before those that generation names, and on nothing from before
\* the last invalidation of its evaluator.
THEOREM KeptAnswersStayFit ==
    ASSUME ~AmbientWrites, Unshared
    PROVE Spec => []FitInv
<1>1. Init => FitInv /\ OwnTransactions
  BY FitsInitially DEF Init, OwnTransactions
<1>2. IInv /\ FitInv /\ OwnTransactions /\ [Next]_vars => (FitInv /\ OwnTransactions)'
  BY StepFits, NobodyOpensOne, IInvIsTyped
<1> QED BY <1>1, <1>2, Invariance, PTL DEF Spec

\* An answer from the cache is by the policy its question was resolved to, or a later
\* one, and no answer is from before the emission it is given in.
THEOREM KeptAnswersAreUsedRightly ==
    ASSUME ~AmbientWrites, Unshared
    PROVE Spec => []KeptAnswersFit
<1>1. FitInv => KeptAnswersFit
  BY DEF FitInv, AnswersFit, AnswerFits, KeptAnswersFit, DecisionsMatchThePolicy,
         EmissionsForget, Asking
<1> QED BY <1>1, KeptAnswersStayFit, PTL

-----------------------------------------------------------------------------
(* What is kept rests on known facts (KnownInv), whatever transactions the *)
(* callers open.                                                           *)

\* Another thread's facts stay known: what is committed stays, live rows only change
\* further.
LEMMA OthersKnow ==
    ASSUME TypedInv, KnownInv, NEW u \in Threads,
           committed \subseteq committed', live' \in Nat, live <= live',
           pc'[u] = pc[u], asked'[u] = asked[u], since'[u] = since[u], key'[u] = key[u],
           answer'[u] = answer[u], transaction'[u] = transaction[u], wrote'[u] = wrote[u]
    PROVE ThreadKnowsItsFacts(u)'
<1>1. ThreadKnowsItsFacts(u) BY DEF KnownInv
<1>2. pc[u] \in Asking => since[u].live \in Nat
  BY AskingHas, BoundAssumption DEF Starts
<1>3. live \in Nat BY BoundAssumption DEF TypedInv, TypeOK, DatabaseTypeOK
<1>a. InTransaction(u)' <=> InTransaction(u) OBVIOUS
<1> QED BY <1>1, <1>2, <1>3, <1>a DEF ThreadKnowsItsFacts, Asking

\* A step of t that files nothing.
LEMMA NothingIsFiled ==
    ASSUME TypedInv, KnownInv, NEW t \in Threads,
           ThreadKnowsItsFacts(t)',
           committed \subseteq committed', live' \in Nat, live <= live',
           \A e \in Evaluators : cache'[e] \subseteq cache[e],
           \A u \in Threads \ {t} :
               /\ pc'[u] = pc[u] /\ asked'[u] = asked[u] /\ since'[u] = since[u]
               /\ key'[u] = key[u] /\ answer'[u] = answer[u]
               /\ transaction'[u] = transaction[u] /\ wrote'[u] = wrote[u]
    PROVE KnownInv'
<1>1. \A u \in Threads : ThreadKnowsItsFacts(u)' BY OthersKnow
<1>2. \A e \in Evaluators : \A x \in cache'[e] : x.answer.seen \subseteq committed'
  BY DEF KnownInv
<1> QED BY <1>1, <1>2 DEF KnownInv

\* A change is in a transaction until it is committed: its own, or the caller's.
LEMMA WritersKnow ==
    ASSUME TypedInv, KnownInv, NEW t \in Threads, WriterStep(t)
    PROVE KnownInv'
<1> USE DEF process, evaluators, locals, EndTransaction
<1>0. TypeOK /\ live \in Nat BY BoundAssumption DEF TypedInv, TypeOK, DatabaseTypeOK
<1>1. /\ \A u \in Threads \ {t} :
            pc'[u] = pc[u] /\ transaction'[u] = transaction[u] /\ wrote'[u] = wrote[u]
      /\ pc'[t] \notin Asking /\ key[t] = None
      /\ committed \subseteq committed'
      /\ UNCHANGED <<live, cache, asked, since, key, answer>>
      /\ ~InTransaction(t)' => wrote'[t] \subseteq committed'
  <2>0. /\ ~InTransaction(t) => wrote[t] \subseteq committed
        /\ pc[t] \notin Asking => key[t] = None
    BY DEF KnownInv, ThreadKnowsItsFacts, TypedInv, ThreadIsTyped
  <2> USE DEF TypeOK, DatabaseTypeOK, LocalsTypeOK, Asking
  <2>1. CASE BeginTransaction(t) BY <1>0, <2>0, <2>1 DEF BeginTransaction
  <2>2. CASE CommitTransaction(t) BY <1>0, <2>0, <2>2 DEF CommitTransaction
  <2>3. CASE RollbackTransaction(t) BY <1>0, <2>0, <2>3 DEF RollbackTransaction
  <2>4. CASE \E c \in OwnChanges : WriteRelationships(t, c)
    BY <1>0, <2>0, <2>4 DEF WriteRelationships
  <2>5. CASE CommitWrite(t) BY <1>0, <2>0, <2>5 DEF CommitWrite
  <2>6. CASE FailWrite(t) BY <1>0, <2>0, <2>6 DEF FailWrite
  <2>7. CASE MarkChanged(t) BY <1>0, <2>0, <2>7 DEF MarkChanged
  <2>8. CASE AdvancePolicy(t) BY <1>0, <2>0, <2>8 DEF AdvancePolicy
  <2>9. CASE CommitPolicy(t) BY <1>0, <2>0, <2>9 DEF CommitPolicy
  <2> QED BY <2>1, <2>2, <2>3, <2>4, <2>5, <2>6, <2>7, <2>8, <2>9 DEF WriterStep
<1>2. ThreadKnowsItsFacts(t)'
  BY <1>1 DEF ThreadKnowsItsFacts, Asking
<1> QED BY <1>0, <1>1, <1>2, NothingIsFiled

\* Other processes only add to what is committed.
LEMMA ElsewhereIsKnown ==
    ASSUME TypedInv, KnownInv, Elsewhere
    PROVE KnownInv'
<1> USE DEF process, evaluators, locals
<1>1. /\ committed \subseteq committed' /\ live' \in Nat /\ live <= live'
      /\ UNCHANGED <<pc, asked, since, key, answer, transaction, wrote, cache>>
  BY BoundAssumption DEF TypedInv, TypeOK, DatabaseTypeOK, Elsewhere, RemoteWrite,
     ChangeLiveRows, RemotePolicy
<1>2. \A u \in Threads : ThreadKnowsItsFacts(u)' BY <1>1, OthersKnow
<1> QED BY <1>1, <1>2 DEF KnownInv

\* Scopes and invalidation file nothing.
LEMMA ScopesKnow ==
    ASSUME TypedInv, KnownInv, NEW t \in Threads, ScopeStep(t)
    PROVE KnownInv'
<1> USE DEF database, process, locals
<1>0. TypeOK /\ live \in Nat BY BoundAssumption DEF TypedInv, TypeOK, DatabaseTypeOK
<1>1. UNCHANGED <<committed, live, transaction, wrote, pc, asked, since, key, answer>>
  BY DEF ScopeStep, OpenScope, CloseScope, Invalidate
<1>2. \A e \in Evaluators : cache'[e] \subseteq cache[e]
  BY <1>0 DEF ScopeStep, OpenScope, CloseScope, Invalidate, TypeOK, EvaluatorsTypeOK
<1>3. ThreadKnowsItsFacts(t)' BY <1>0, <1>1, OthersKnow
<1> QED BY <1>0, <1>1, <1>2, <1>3, NothingIsFiled

\* The steps of a question that neither answer nor file: only one that is in no
\* transaction, and reaches no live rows, gets a key.
LEMMA LookingKnows ==
    ASSUME TypedInv, KnownInv, NEW t \in Threads,
           \/ \E q \in Questions : Ask(t, q)
           \/ Resolve(t) \/ ReadGeneration(t) \/ Lookup(t) \/ Compile(t) \/ Return(t)
    PROVE KnownInv'
<1> USE DEF database, process, evaluators
<1>0. TypeOK /\ live \in Nat BY BoundAssumption DEF TypedInv, TypeOK, DatabaseTypeOK
<1>1. /\ UNCHANGED <<committed, live, transaction, wrote, cache>>
      /\ \A u \in Threads \ {t} :
            pc'[u] = pc[u] /\ asked'[u] = asked[u] /\ since'[u] = since[u]
               /\ key'[u] = key[u] /\ answer'[u] = answer[u]
  BY <1>0 DEF TypeOK, LocalsTypeOK, Ask, Resolve, ReadGeneration, Lookup, Compile, Return
<1>2. ThreadKnowsItsFacts(t)'
  <2>0. ThreadKnowsItsFacts(t) /\ ThreadIsTyped(t) BY DEF KnownInv, TypedInv
  <2>a. InTransaction(t)' <=> InTransaction(t) BY <1>1
  <2> USE DEF TypeOK, LocalsTypeOK, ThreadKnowsItsFacts, ThreadIsTyped, Asking
  <2>1. ASSUME NEW q \in Questions, Ask(t, q) PROVE ThreadKnowsItsFacts(t)'
    <3>1. since'[t].live = live BY <1>0, <2>1 DEF Ask
    <3> QED BY <1>0, <1>1, <2>0, <2>1, <2>a, <3>1 DEF Ask
  <2>2. CASE Resolve(t) BY <1>0, <1>1, <2>0, <2>2, <2>a DEF Resolve, Bypassed
  <2>3. CASE ReadGeneration(t) BY <1>0, <1>1, <2>0, <2>3, <2>a DEF ReadGeneration
  <2>4. CASE Lookup(t) BY <1>0, <1>1, <2>0, <2>4, <2>a DEF Lookup
  <2>5. CASE Compile(t) BY <1>0, <1>1, <2>0, <2>5, <2>a DEF Compile
  <2>6. CASE Return(t) BY <1>0, <1>1, <2>0, <2>6, <2>a DEF Return
  <2> QED BY <2>1, <2>2, <2>3, <2>4, <2>5, <2>6
<1> QED BY <1>0, <1>1, <1>2, NothingIsFiled

\* An entry is used only by a question in no transaction, whose answer no live row
\* changes; it saw committed rows only.
LEMMA TakeKnows ==
    ASSUME TypedInv, KnownInv, NEW t \in Threads, Take(t)
    PROVE KnownInv'
<1>0. TypeOK /\ live \in Nat BY BoundAssumption DEF TypedInv, TypeOK, DatabaseTypeOK
<1>1. /\ UNCHANGED <<committed, live, transaction, wrote, cache, asked, since, key>>
      /\ \A u \in Threads \ {t} : pc'[u] = pc[u] /\ answer'[u] = answer[u]
  BY <1>0 DEF Take, database, process, TypeOK, LocalsTypeOK
<1>2. /\ ThreadKnowsItsFacts(t) /\ pc[t] = "found" /\ key[t] # None
      /\ Active(t) \in Evaluators
  BY AskingHas DEF KnownInv, Take, Asking
<1>3. /\ pc'[t] \in {"answered", "raised"}
      /\ pc'[t] = "answered" => answer'[t].seen \subseteq committed
  <2>1. \A x \in cache[Active(t)] : x.answer.seen \subseteq committed
    BY <1>2 DEF KnownInv
  <2> QED BY <2>1, TakeIsTyped
<1>4. ThreadKnowsItsFacts(t)'
  BY <1>1, <1>2, <1>3 DEF ThreadKnowsItsFacts, Asking
<1> QED BY <1>0, <1>1, <1>4, NothingIsFiled

\* Outside a transaction a statement sees committed rows, and the live rows of now.
LEMMA ExecuteKnows ==
    ASSUME TypedInv, KnownInv, NEW t \in Threads, Execute(t)
    PROVE KnownInv'
<1>0. TypeOK /\ live \in Nat BY BoundAssumption DEF TypedInv, TypeOK, DatabaseTypeOK
<1>1. /\ UNCHANGED <<committed, live, transaction, wrote, cache, asked, since, key>>
      /\ \A u \in Threads \ {t} : pc'[u] = pc[u]
  BY <1>0 DEF Execute, database, process, evaluators, TypeOK, LocalsTypeOK
<1>2. /\ pc'[t] \in {"store", "answered"}
      /\ answer'[t].seen = committed \cup wrote[t] /\ answer'[t].live = live
      /\ \A u \in Threads \ {t} : answer'[u] = answer[u]
  BY ExecuteIsTyped
<1>3. ThreadKnowsItsFacts(t) /\ pc[t] = "execute" BY DEF KnownInv, Execute
<1>4. ThreadKnowsItsFacts(t)'
  BY <1>1, <1>2, <1>3 DEF ThreadKnowsItsFacts, Asking
<1> QED BY <1>0, <1>1, <1>2, <1>4, NothingIsFiled

\* Only what was answered outside transactions is filed.
LEMMA StoreKnows ==
    ASSUME TypedInv, KnownInv, NEW t \in Threads, Store(t)
    PROVE KnownInv'
<1>0. TypeOK /\ live \in Nat BY BoundAssumption DEF TypedInv, TypeOK, DatabaseTypeOK
<1>1. /\ UNCHANGED <<committed, live, transaction, wrote, asked, since, key, answer>>
      /\ pc[t] = "store" /\ pc'[t] = "answered"
      /\ \A u \in Threads \ {t} : pc'[u] = pc[u]
  BY <1>0 DEF Store, database, process, TypeOK, LocalsTypeOK
<1>2. ThreadKnowsItsFacts(t) /\ key[t] # None /\ answer[t].seen \subseteq committed
  <2>1. key[t] \in Keys \ {None} BY <1>1, AskingHas DEF Asking
  <2> QED BY <1>1, <2>1 DEF KnownInv, ThreadKnowsItsFacts
<1>3. ThreadKnowsItsFacts(t)'
  BY <1>1, <1>2 DEF ThreadKnowsItsFacts, Asking
<1>4. \A u \in Threads : ThreadKnowsItsFacts(u)'
  BY <1>0, <1>1, <1>3, OthersKnow
<1>5. ASSUME NEW e \in Evaluators, NEW x \in cache'[e]
      PROVE x.answer.seen \subseteq committed'
  <2>1. x \in cache[e] \/ x = Entry(t) BY StoreIsTyped
  <2>2. Entry(t).answer = answer[t] BY DEF Entry
  <2> QED BY <1>1, <1>2, <2>1, <2>2 DEF KnownInv
<1> QED BY <1>4, <1>5 DEF KnownInv

LEMMA StepKnows ==
    ASSUME TypedInv, KnownInv, [Next]_vars
    PROVE KnownInv'
<1>1. ASSUME NEW t \in Threads, QuestionStep(t) PROVE KnownInv'
  BY <1>1, LookingKnows, TakeKnows, ExecuteKnows, StoreKnows DEF QuestionStep
<1>2. CASE UNCHANGED vars
  BY <1>2 DEF vars, KnownInv, ThreadKnowsItsFacts
<1> QED BY <1>1, <1>2, WritersKnow, ScopesKnow, ElsewhereIsKnown DEF Next

\* Whatever transactions the callers open around their writes and their questions,
\* and whoever shares an evaluator: outside a transaction no answer, kept or new,
\* rests on rows that were rolled back or may still be, and a question that reaches
\* live rows or expiring tuples reads them.  This is why _cache_generation declines
\* in an atomic block and for live-backed types.
THEOREM OnlyKnownFacts ==
    Spec => []AnswersRestOnKnownFacts
<1>1. Init => KnownInv
  BY DEF Init, KnownInv, ThreadKnowsItsFacts, Asking
<1>2. TypedInv /\ KnownInv /\ [Next]_vars => KnownInv'
  BY StepKnows
<1>3. KnownInv => AnswersRestOnKnownFacts
  BY DEF KnownInv, ThreadKnowsItsFacts, AnswersRestOnKnownFacts, AnswersRestOnCommittedRows,
     LiveFactsAreRead
<1> QED BY <1>1, <1>2, <1>3, TypesInvariance, PTL DEF Spec
=============================================================================
