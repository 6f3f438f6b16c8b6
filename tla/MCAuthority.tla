---------------------------- MODULE MCAuthority ----------------------------
(* Small instances of Authority for TLC. *)
EXTENDS Authority, TLC

CONSTANTS a1, a2, t1, t2, q1, q2, i1

MCActors == {a1, a2}
MCTasks == {t1, t2}
OneTask == {t1}
MCQuerySets == {q1, q2}
MCInstances == {i1}
Applications == {
    {"sudo block", "scoped", "stream"}, {"sudo", "sudo block", "scoped", "embed"},
    {"sudo", "sudo block", "scoped", "combine"}, {"sudo block", "instance"}, {"sudo", "instance"},
    {"sudo block", "spawn", "actor only", "request"},
    {"sudo", "scoped", "pickle"}, {"sudo", "sudo block", "raw"}}

Interchangeable == Permutations(MCActors) \cup Permutations(MCQuerySets)
=============================================================================
