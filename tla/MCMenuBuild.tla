----------------------------- MODULE MCMenuBuild -----------------------------
(* A bool, two tristates, a tristate choice and the symbol for modules.         *)
EXTENDS MenuBuild

MCSym   == {"y", "m", "n", "B", "T", "U", "C", "MODULES"}
MCOrder == <<"U", "C", "B", "T", "MODULES">>
MCType  == [y |-> "unknown", m |-> "unknown", n |-> "unknown", B |-> "bool", T |-> "tristate",
            U |-> "tristate", C |-> "tristate", MODULES |-> "bool"]
MCConst == {"y", "m", "n"}
MCStrings == <<"m", "n", "y">>
MCNumber  == (0 :> <<>>) @@ (10 :> <<>>) @@ (16 :> <<>>)

Config(s, dep, prompt, cond, props) ==
    [sym |-> s, dep |-> dep, prompt |-> prompt, cond |-> cond, props |-> props]

MCEntries ==
    {Config("B", Null, "yes", Null, <<[type |-> "select", expr |-> S("T"), cond |-> Not(S("U"))]>>),
     Config("B", Comp("ne", "T", "n"), "yes", S("m"), <<>>),
     Config("T", S("B"), "yes", Null, <<>>),
     Config("T", Two("or", S("U"), S("m")), "no", Null,
            <<[type |-> "default", expr |-> S("U"), cond |-> S("B")]>>),
     Config("U", Null, "yes", Two("and", Two("or", S("B"), S("T")), S("MODULES")),
            <<[type |-> "imply", expr |-> S("B"), cond |-> Null]>>)}

MCBlocks ==
    {[kind |-> "if", dep |-> S("B"), vis |-> Null],
     [kind |-> "if", dep |-> Two("and", S("T"), S("m")), vis |-> Null],
     [kind |-> "menu", dep |-> S("MODULES"), vis |-> Not(S("B"))]}

MCEnv == {[tri |-> [y |-> 2, m |-> 1, n |-> 0, B |-> b, T |-> t, U |-> u, C |-> c, MODULES |-> o],
           str |-> [y |-> "y", m |-> "m", n |-> "n", B |-> Letter(b), T |-> Letter(t),
                    U |-> Letter(u), C |-> Letter(c), MODULES |-> Letter(o)]] :
             b \in {0, 2}, t \in 0 .. 2, u \in {0, 1}, c \in {1, 2}, o \in {0, 2}}
=============================================================================
