---------------------------- MODULE MCFieldGates ----------------------------
EXTENDS FieldGates, TLC

CONSTANTS r1, r2

MCRows == {r1, r2}
MCRelated == [r \in MCRows |-> IF r = r1 THEN r2 ELSE r2]
Says(e, c, s, f) == [excludes |-> e, caveated |-> c, setting |-> s, failClosed |-> f]
\* The actor owns the salary of one row and reads both, or has the role and reads one.
Owner == [readers |-> {r1, r2}, role |-> FALSE, owner |-> (r1 :> "yes" @@ r2 :> "no"),
          blocked |-> {}, writers |-> {r1}]
Role == [readers |-> {r1}, role |-> TRUE, owner |-> (r1 :> "no" @@ r2 :> "no"),
         blocked |-> {}, writers |-> {r1}]
Maybe == [Owner EXCEPT !.owner = (r1 :> "maybe" @@ r2 :> "yes")]
MCStarts ==
    {<<Says(FALSE, FALSE, "enforce", TRUE), Owner>>,
     <<Says(FALSE, FALSE, "allow", TRUE), Owner>>,
     <<Says(TRUE, FALSE, "enforce", TRUE), Role>>,
     <<Says(FALSE, TRUE, "enforce", FALSE), Maybe>>,
     <<Says(FALSE, TRUE, "enforce", TRUE), Maybe>>}
MCFirstRows == {(r1 :> [title |-> 1, salary |-> 1] @@ r2 :> [title |-> 1, salary |-> 2])}

Plain(t) == [kind |-> "query", terminal |-> t, reads |-> {}, sliced |-> FALSE,
             distinct |-> FALSE, related |-> FALSE, mode |-> Unset]
Reading(t, p, c) == [Plain(t) EXCEPT !.reads = {<<p, c>>}]
Sliced(q) == [q EXCEPT !.sliced = TRUE]
Distinct(q) == [q EXCEPT !.distinct = TRUE]
\* Every place, terminal and column where the guards differ.
MCQueries ==
    {Plain("iterate"), [Plain("iterate") EXCEPT !.related = TRUE],
     [Plain("iterate") EXCEPT !.mode = "allow"],
     [Reading("iterate", "select", "joined") EXCEPT !.related = TRUE],
     [Reading("aggregate", "select", "joined") EXCEPT !.related = TRUE],
     Reading("iterate", "order", "gated"), Reading("count", "order", "gated"),
     Sliced(Reading("count", "order", "gated")), Sliced(Reading("exists", "order", "gated")),
     Reading("count", "where", "gated"), Reading("exists", "subquery", "gated"),
     Reading("iterate", "select", "gated"), Reading("count", "select", "gated"),
     Distinct(Reading("count", "select", "gated")), Reading("aggregate", "select", "gated"),
     Reading("iterate", "operand", "gated"), Reading("count", "operand", "gated"),
     Reading("exists", "where", "masked"), Reading("aggregate", "select", "masked"),
     Reading("exists", "where", "raw"), Reading("count", "operand", "raw")}
=============================================================================
