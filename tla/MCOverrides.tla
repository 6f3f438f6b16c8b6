----------------------------- MODULE MCOverrides -----------------------------
(***************************************************************************)
(* Two permissions over three relations, override rows of every kind with  *)
(* two deadlines, and one write while the clock runs.                      *)
(***************************************************************************)
EXTENDS Overrides, TLC

MCRelations == {"viewer", "editor", "banned"}
MCGone == {"auditor"}
MCPermissions == {"read", "edit"}
MCNever == 9
MCBaseline == [p \in MCPermissions |-> Ref("viewer")]
MCDecides == [runtime |-> "unknown", lax |-> "true", strict |-> "false"]

Unless == Binary("-", Ref("editor"), Ref("banned"))
Opened == Binary("+", Ref("edit"), Ref("authenticated"))
Banned == Binary("+", Ref("banned"), Unless)

Plain == {Ref(n) : n \in MCRelations \cup MCGone \cup MCPermissions \cup {"authenticated"}}
           \cup {Cel(x) : x \in DOMAIN MCDecides}
MCExpressions == Plain \cup {Unless, Opened, Banned}
MCDepthOf == [e \in MCExpressions |-> IF e \in Plain THEN 0 ELSE IF e = Banned THEN 2 ELSE 1]

Form(target, kind, e, expires) ==
    [target |-> target, kind |-> kind, expression |-> e, expires |-> expires]

Extended == Form("read", "extend", Ref("editor"), 1)
Loosened == Form("read", "loosen", Opened, 2)
Tightened == Form("read", "tighten", Ref("editor"), 2)
Aliased(d) == Form("edit", "extend", Ref("read"), d)
Forgotten == Form("edit", "tighten", Ref("auditor"), MCNever)
Unlessed == Form("read", "disable", Banned, 1)
Authenticated == Form("edit", "loosen", Ref("authenticated"), MCNever)
Disabled == Form("edit", "disable", Ref("banned"), MCNever)
Renamed == Form("read", "extend", Ref("edit"), MCNever)
Lax == Form(Caveat, "recaveat", Cel("lax"), 1)
Strict == Form(Caveat, "recaveat", Cel("strict"), 2)

MCForms == {Extended, Loosened, Tightened, Aliased(1), Aliased(MCNever), Forgotten, Unlessed,
            Authenticated, Disabled, Renamed, Lax, Strict}
MCWritable == {Loosened, Disabled}
MCFirstRows ==
    {{}, {Stamped(Extended, 1), Stamped(Tightened, 2)}, {Stamped(Loosened, 1)},
     {Stamped(Aliased(1), 1), Stamped(Forgotten, 2)}, {Stamped(Aliased(MCNever), 1)},
     {Stamped(Unlessed, 1)}, {Stamped(Lax, 1), Stamped(Strict, 2)},
     {Stamped(Authenticated, 1), Stamped(Disabled, 2), Stamped(Renamed, 3)}}

Tuple(v, e, b) == [viewer |-> v, editor |-> e, banned |-> b]
MCFirstFacts == {Tuple("none", "plain", "caveat"), Tuple("caveat", "plain", "caveat")}
=============================================================================
