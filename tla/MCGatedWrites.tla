---------------------------- MODULE MCGatedWrites ----------------------------
(***************************************************************************)
(* Two sessions under an actor: one performs every kind of operation, the  *)
(* other saves.  A row that exists and one that does not; two containers.  *)
(***************************************************************************)
EXTENDS GatedWrites, TLC

CONSTANTS r1, r2, c1, c2, s1, s2

MCRows == {r1, r2}
MCContainers == {c1, c2}
MCSessions == {s1, s2}
MCKinds == s1 :> {"save", "insert", "remove", "update", "delete", "links"}
           @@ s2 :> {"save"}
MCFirstRows == r1 :> [at |-> c1, on |-> TRUE] @@ r2 :> Gone
MCFirstLinks == {c1}
MCFirstGrants == {c1 :> "write" @@ c2 :> g : g \in {"read", "write"}}
MCFirstPolicies == {"loose", "backed"}
=============================================================================
