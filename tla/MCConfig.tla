------------------------------- MODULE MCConfig -------------------------------
EXTENDS MCKConf, Config

MCProps == WithProps(MCFinal)
MCTree  == LET t == MCProps IN t    \* a value, calculated once

MCFile(t, d, x, z) == <<Line("MODULES", "y"), Line("B", "y"), Line("T", t), Line("I", d),
                     Line("X", x), Line("Z", z)>>
MCFiles == {Missing, MCFile("y", "9", "m", "y"), MCFile("unset", "1", "m", "y"),
            MCFile("m", "1", "y", "unset")}
MCSeeds == {Missing, <<Line("MODULES", "unset"), Line("Z", "y")>>}
MCPicks == {[yes |-> {"B"}, mod |-> {"T"}, choice |-> 1], [yes |-> {"MODULES", "T", "C"}, mod |-> {}, choice |-> 0]}
MCPlans == {<<"oldaskconfig">>, <<"oldconfig">>, <<"listnewconfig">>, <<"syncconfig", "menu", "syncconfig">>, <<"allnoconfig">>,
            <<"allyesconfig">>, <<"allmodconfig">>, <<"randconfig">>, <<"savedefconfig", "defconfig">>,
            <<"alldefconfig", "syncconfig">>, <<"olddefconfig", "syncconfig", "syncconfig">>}
=============================================================================
