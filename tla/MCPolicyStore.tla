--------------------------- MODULE MCPolicyStore ---------------------------
(***************************************************************************)
(* Two rows, a base arm and an override over it.  Each override value is   *)
(* sound with some base but not with every one, so two writers can make    *)
(* changes that are each valid and refused together.                       *)
(***************************************************************************)
EXTENDS PolicyStore

CONSTANTS w1, w2, base, override

MCWriters == {w1, w2}
MCRows == {base, override}
MCValues == {0, 1}

\* The cycle: base = 1 recurses through the arm that override = 1 adds.
MCSoundPolicies == {p \in [MCRows -> MCValues] : p[base] + p[override] < 2}
=============================================================================
