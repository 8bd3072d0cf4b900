-------------------------------- MODULE KCore --------------------------------
(* What the programs use of symbol.c and confdata.c, as parameters: KSymbol and *)
(* KConfData define them, and the instances give them. What a program remembers *)
(* of the symbols is a record; "changed" is sym_change_count # 0.               *)
EXTENDS KTree

CONSTANTS Tristates,             \* the symbols shown, bool and tristate
          Strings,               \* ... and the others
          NewSyms,               \* the symbols as conf_parse leaves them
          ConfRead(_, _),        \* conf_read: symbols, contents -> symbols
          ConfWrite(_),          \* conf_write: symbols -> [w, file]
          SymCalc(_, _),         \* sym_calc_value
          SymCanBe(_, _, _),     \* sym_set_tristate_value would do it
          SymSetTristate(_, _, _),
          SymToggle(_, _),       \* sym_toggle_tristate_value
          SymStringCanBe(_, _, _),
          SymSetString(_, _, _)

Unchanged(v) == [v EXCEPT !.changed = FALSE]     \* sym_set_change_count(0)
Out(v)       == ConfWrite(Unchanged(v)).file     \* what would be written
=============================================================================
