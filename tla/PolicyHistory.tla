--------------------------- MODULE PolicyHistory ---------------------------
(***************************************************************************)
(* What the stored policy promises to everyone who reads it: a history of  *)
(* whole policies, each published at once under an identity that was never *)
(* used before, in which a sound policy is never replaced by a refused     *)
(* one.  PolicyStore implements it with owners, savepoints and a row lock; *)
(* the database that SchemaLoader reads from behaves like it too.          *)
(***************************************************************************)

CONSTANTS
    Policies,       \* every content the five policy tables can have
    SoundPolicies,  \* those that the loader and the compiler accept
    Revisions       \* the identities a published policy can carry

VARIABLES
    policy,     \* the policy a new transaction reads
    revision,   \* its identity
    published   \* every identity published so far

vars == <<policy, revision, published>>

Init ==
    /\ policy \in Policies
    /\ revision \in Revisions
    /\ published = {revision}

\* One committed policy write, seen from outside its transaction.
Publish(p, r) ==
    /\ r \notin published
    /\ policy \in SoundPolicies => p \in SoundPolicies
    /\ policy' = p
    /\ revision' = r
    /\ published' = published \cup {r}

Next == \E p \in Policies, r \in Revisions : Publish(p, r)

Spec == Init /\ [][Next]_vars
=============================================================================
