---------------------------- MODULE MCSchemaSync ----------------------------
(* Two packages and one definition for TLC. *)
EXTENDS SchemaSync, TLC

CONSTANTS a, b, c, doc, editor, viewer, read, cav, plain, nested, open, strict, t1, t2

MCOrder == <<cav, doc, editor, viewer, read>>
MCKinds == cav :> "caveat" @@ doc :> "definition" @@ editor :> "relation"
            @@ viewer :> "relation" @@ read :> "permission"
MCParents == cav :> cav @@ doc :> doc @@ editor :> doc @@ viewer :> doc @@ read :> doc
MCTexts == {plain, nested, open, strict}
\* A viewer may be the editors of a doc; reading may be open to editors.
MCNames == plain :> {} @@ nested :> {editor} @@ open :> {viewer, editor} @@ strict :> {viewer}
InstalledApps == <<b, a, c>>
Alphabetical == <<a, b, c>>
Full == doc :> plain @@ editor :> plain @@ viewer :> nested @@ read :> open @@ cav :> plain
Less == doc :> plain @@ viewer :> plain @@ read :> strict
MCReleases == {a :> Full @@ b :> <<>>, a :> Less, b :> Full, a :> <<>> @@ b :> Less,
               c :> Full, a :> Full @@ b :> (cav :> plain)}
MCEdits == {<<viewer, plain>>, <<read, strict>>}
MCTightenings == {<<read, open>>, <<read, strict>>}
MCTuples == {t1, t2}
MCNamed == t1 :> {doc, editor} @@ t2 :> {doc, viewer, read, cav}
Calls == {[force |-> f, prune |-> p, check |-> k, only |-> o] :
            f \in BOOLEAN, p \in BOOLEAN, k \in BOOLEAN, o \in {All, a}}
=============================================================================
