------------------------ MODULE MCRelationshipStore ------------------------
(***************************************************************************)
(* Two threads write the tuples of one resource and one subject, with and  *)
(* without a caveat.                                                       *)
(***************************************************************************)
EXTENDS RelationshipStore, TLC

CONSTANTS s1, s2, doc, user, viewer, plain, cav, x, y

MCSessions == {s1, s2}
MCObjects == {doc, user}
MCEnds == viewer :> {doc, user}
MCResourceOf == viewer :> doc
MCNames == {plain, cav}
MCContexts == {x, y}

T(n, c) == [edge |-> viewer, name |-> n, context |-> c]
\* One tuple, two, and the same one twice.
MCBatches == {<<T(cav, x)>>, <<T(plain, x), T(cav, y)>>, <<T(cav, x), T(cav, y)>>}

R(n, c) == [edge |-> viewer, name |-> n, context |-> c, key |-> <<n, c>>, xid |-> 0]
Table(r) == [i \in Ids |-> IF i = 1 THEN r ELSE Gone]
MCFirstRows == {Table(R(cav, x))}

Changed(f, partial, n, c) == [fields |-> f, partial |-> partial, name |-> n, context |-> c]
MCChanges ==
    {Changed({"name"}, TRUE, plain, x), Changed({"context"}, TRUE, cav, y),
     Changed(Columns, FALSE, plain, y), Changed(Columns, FALSE, cav, x)}

Everything == {"write", "grant", "remove", "revoke", "save", "erase", "bulk", "drop"}
MCKinds == s1 :> {"write", "drop"} @@ s2 :> Everything
MCReadings == {0}
MCFirstFloors == {[s \in MCSessions |-> 2]}
MCMaxOps == s1 :> 2 @@ s2 :> 1
=============================================================================
