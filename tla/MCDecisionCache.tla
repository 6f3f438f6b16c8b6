-------------------------- MODULE MCDecisionCache --------------------------
(***************************************************************************)
(* Two threads and two evaluators.  In DecisionsOwn the reader may suspend *)
(* one evaluator inside the other and the writer has none; in              *)
(* DecisionsAmbient both threads work in one.                              *)
(***************************************************************************)
EXTENDS DecisionCache

CONSTANTS t1, t2, e1, e2, plain, other, lively, c1, c2, c3

MCThreads == {t1, t2}
OnlyReader == {t1}

OneEvaluator == {e1}
TwoEvaluators == {e1, e2}

Nested == t1 :> TwoEvaluators @@ t2 :> {}
Together == t1 :> {e1} @@ t2 :> {e1}

NoChanges == {}
OneOwn == {c1}
TwoOwn == {c1, c2}
OneRemote == {c3}

PlainOnly == {plain}
PlainTwo == {plain, other}
PlainAndLive == {plain, other, lively}
LiveOnly == {lively}
=============================================================================
