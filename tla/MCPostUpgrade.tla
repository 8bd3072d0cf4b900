--------------------------- MODULE MCPostUpgrade ---------------------------
(***************************************************************************)
(* Small instance of PostUpgrade: four versions, of which the second is    *)
(* the first on the device; scripts of every kind for the third.           *)
(***************************************************************************)
EXTENDS PostUpgrade

S(k, v) == [kind |-> k, version |-> v]

MCScripts ==
    {S("base", 1), S("base", 3), S("net", 3), S("app", 3), S("base", 4), S("net", 4)}
=============================================================================
