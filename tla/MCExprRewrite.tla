--------------------------- MODULE MCExprRewrite ---------------------------
(* A bool, a tristate and an int, with the constants they are compared with.    *)
EXTENDS ExprRewrite

MCSym  == {"y", "m", "n", "B", "T", "I", "5"}
MCType == [y |-> "unknown", m |-> "unknown", n |-> "unknown",
           B |-> "bool", T |-> "tristate", I |-> "int"] @@ ("5" :> "unknown")
MCConst == {"y", "m", "n", "5"}
MCStrings == <<"10", "5", "m", "n", "y">>
MCNumber == LET n == ("10" :> 10) @@ ("5" :> 5) IN (0 :> n) @@ (10 :> n) @@ (16 :> n)

MCConditions ==
    {S("B"), Comp("eq", "T", "y"), Comp("ne", "T", "m"), Comp("eq", "B", "n"),
     Comp("lt", "I", "5"), Two("or", S("B"), S("T")), Two("and", Comp("ne", "T", "y"), S("T"))}

MCOthers ==
    {Two("and", S("B"), Two("or", S("T"), S("B"))),
     Two("or", Two("and", S("B"), Comp("ne", "T", "y")), S("T"))}

MCEnv == {[tri |-> [y |-> 2, m |-> 1, n |-> 0, B |-> b, T |-> t, I |-> 0] @@ ("5" :> 0),
           str |-> [y |-> "y", m |-> "m", n |-> "n", B |-> Letter(b), T |-> Letter(t), I |-> i]
                     @@ ("5" :> "5")] : b \in {0, 2}, t \in 0 .. 2, i \in {"5", "10"}}
=============================================================================
