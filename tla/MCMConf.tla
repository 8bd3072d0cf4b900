------------------------------- MODULE MCMConf -------------------------------
(* Four entries in the main menu: a tristate that can only be m or n, a choice, *)
(* a menu and an int; in the menu a menuconfig with a comment of its own.       *)
EXTENDS MConf, MConfLists

MCSym   == {"y", "m", "n", "1", "MODULES", "T", "C", "X", "Z", "G", "I"}
MCOrder == <<"T", "C", "X", "Z", "G", "I", "MODULES">>
MCType  == [y |-> "unknown", m |-> "unknown", n |-> "unknown", MODULES |-> "bool",
            T |-> "tristate", C |-> "bool", X |-> "bool", Z |-> "bool", G |-> "bool",
            I |-> "int"] @@ ("1" :> "unknown")
MCConst == {"y", "m", "n", "1"}
MCStrings == <<"", "1", "2", "m", "n", "y">>
MCNumber  == (0 :> <<>>) @@ (10 :> (("1" :> 1) @@ ("2" :> 2))) @@ (16 :> <<>>)
MCFormat  == (1 :> "1") @@ (2 :> "2")

Prop(type, expr, cond) == [type |-> type, expr |-> expr, cond |-> cond]
Prompt == Prop("prompt", Null, Null)
Entry(t, kind, s, dep, props) ==
    FoldLeft(LAMBDA u, p : AddProp(u, p.type, p.expr, p.cond), AddDep(AddEntry(t, kind, s), dep), props)
Cfg(t, s, dep, props) == Entry(t, "config", s, dep, props)

MCParsed ==
    LET a == Cfg(NewTree, "MODULES", Null, <<Prop("default", S("y"), Null)>>)
        c == Cfg(a, "T", S("m"), <<Prompt>>)
        e == AddMenu(Entry(c, "choice", "C", Null, <<Prompt>>))
        f == EndMenu(Cfg(Cfg(e, "X", Null, <<Prompt>>), "Z", Null, <<Prompt>>))
        g == AddMenu(Entry(f, "menu", NoSym, Null, <<Prop("menu", Null, Null)>>))
        h == Cfg(g, "G", Null, <<Prop("menu", Null, Null)>>)
        i == EndMenu(Entry(h, "comment", NoSym, S("G"), <<Prop("comment", Null, Null)>>))
    IN  Cfg(i, "I", Null, <<Prompt, Prop("default", S("1"), Null)>>)

MCFinal  == Finalize(MCParsed, 0)
MCProps  == WithProps(MCFinal)
MCTree   == LET t == MCProps IN t    \* a value, calculated once
MCConfig == <<Line("MODULES", "y"), Line("T", "m"), Line("X", "unset"),
              Line("Z", "y"), Line("G", "y"), Line("I", "1")>>
MCNames  == <<"config", "other", "gone">>
MCWidth  == (("" :> 0) @@ ("1" :> 1) @@ ("2" :> 1) @@ ("config" :> 2) @@ ("other" :> 1)
             @@ ("gone" :> 1))
MCResults == {[lines |-> 14, prompts |-> <<[line |-> 1, node |-> 2], [line |-> 13, node |-> 7]>>]}

(* What the symbols can be after so many changes.                               *)
EditsOf(v) ==
    {SymToggle(v, s) : s \in Tristates}
    \cup UNION {{SymSetTristate(v, s, t) : t \in {t \in 0 .. 2 : SymCanBe(v, s, t)}} : s \in Tristates}
    \cup UNION {{SymSetString(v, s, str) : str \in {x \in Answers \cup {v.str[s]} : SymStringCanBe(v, s, x)}}
                : s \in Strings}
FilesOf(v, fs) == {SymCalc(Unchanged(v), ModulesSym)}
                  \cup {[ConfRead(v, f) EXCEPT !.changed = TRUE] : f \in fs}

RECURSIVE Grown(_, _)
Grown(done, new) ==
    IF new = {} THEN done
    ELSE LET now  == done \cup new
             more == UNION {SeenBy(v) \cup {Unchanged(v), Unchanged(ConfWrite(v).w)} : v \in new}
         IN  Grown(now, more \ now)

SymbolsAt0 == Grown({}, {ConfRead(NewSyms, FirstConfig)})
SymbolsAt1 == Grown(SymbolsAt0, UNION {EditsOf(v) \cup FilesOf(v, {FirstConfig}) : v \in SymbolsAt0})
SymbolsAfter(n) == IF n = 0 THEN SymbolsAt0 ELSE SymbolsAt1
=============================================================================
