-------------------------- MODULE MCSchemaLoader --------------------------
(***************************************************************************)
(* Two parts, read by two statements: the baseline and the overrides over  *)
(* it.  A torn load can be refused though no committed policy is, and it   *)
(* can also be a policy that loads and was never committed.                *)
(***************************************************************************)
EXTENDS SchemaLoader

CONSTANTS t1, t2

\* A reader, and a writer of the same process that checks in its transaction
\* and runs inside an evaluator scope.
ScopedThreads == {t1, t2}
ScopedWriters == {t2}
WriterScoper == {t2}

MCValues == {0, 1}
MCSoundPolicies == {<<0, 0>>, <<0, 1>>, <<1, 1>>}
MCFirstPolicies == {<<0, 0>>}
=============================================================================
