-------------------------------- MODULE KNames --------------------------------
(* Names that all of kconfig shares. *)
CONSTANTS ModulesSym,   \* the symbol with "option modules", or "n"
          ChoiceSyms,   \* the symbols that are choices
          Optional      \* the choices marked "optional"

NoSym == "none"
=============================================================================
