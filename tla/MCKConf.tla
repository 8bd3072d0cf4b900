------------------------------- MODULE MCKConf -------------------------------
EXTENDS KMenu

MCSym   == {"y", "m", "n", "1", "2", "MODULES", "B", "T", "I", "J", "C", "X", "Z", "D", "E"}
MCOrder == <<"Z", "I", "T", "B", "C", "D", "E", "X", "MODULES", "J">>
MCType  == [y |-> "unknown", m |-> "unknown", n |-> "unknown", B |-> "bool", T |-> "tristate",
            C |-> "tristate", MODULES |-> "bool", X |-> "tristate", Z |-> "bool", D |-> "bool",
            E |-> "tristate",
            I |-> "int", J |-> "int"] @@ ("1" :> "unknown") @@ ("2" :> "unknown")
MCConst == {"y", "m", "n", "1", "2"}
MCStrings == <<"", "0", "1", "2", "9", "m", "n", "y">>
MCDecimal == ("0" :> 0) @@ ("1" :> 1) @@ ("2" :> 2) @@ ("9" :> 9)
MCNumber  == (0 :> <<>>) @@ (10 :> MCDecimal) @@ (16 :> <<>>)
MCFormat  == (0 :> "0") @@ (1 :> "1") @@ (2 :> "2") @@ (9 :> "9")

Prop(type, expr, cond) == [type |-> type, expr |-> expr, cond |-> cond]
Prompt == Prop("prompt", Null, Null)
Config(t, s, dep, props) ==
    FoldLeft(LAMBDA u, p : AddProp(u, p.type, p.expr, p.cond), AddDep(AddEntry(t, "config", s), dep), props)

MCParsed ==
    LET a == Config(NewTree, "MODULES", Null, <<Prompt, Prop("default", S("y"), Null)>>)
        b == Config(a, "B", Null, <<Prompt, Prop("select", S("T"), S("MODULES")),
                                       Prop("imply", S("E"), Null)>>)
        c == Config(b, "T", Null, <<Prompt, Prop("default", S("m"), S("B"))>>)
        d == Config(c, "J", S("D"), <<Prompt, Prop("default", S("2"), Null)>>)
        e == Config(d, "I", Null, <<Prompt, Prop("default", S("J"), Null),
                                    Prop("range", Comp("range", "1", "J"), S("D"))>>)
        f == AddMenu(AddDep(AddProp(AddEntry(e, "choice", "C"), "prompt", Null, Null), S("T")))
        g == Config(f, "X", Null, <<Prompt>>)
        h == EndMenu(Config(g, "Z", S("B"), <<Prompt>>))
        i == AddMenu(AddProp(AddDep(AddEntry(h, "menu", NoSym), S("X")), "menu", Null, Null))
        j == Config(i, "D", Null, <<Prompt, Prop("default", S("y"), Not(S("MODULES"))),
                                       Prop("select", S("E"), Null)>>)
    IN  Config(EndMenu(j), "E", S("m"), <<Prompt>>)

MCFinal == Finalize(MCParsed, 0)
ASSUME NoRecursion == ~CheckTree(MCFinal, MCOrder).reported
=============================================================================
