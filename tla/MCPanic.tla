------------------------------ MODULE MCPanic ------------------------------
(***************************************************************************)
(* Small instances of Panic.  A tick is a third of an hour, so that the    *)
(* longest delay, the inhibition and bootdone's wait are three ticks each. *)
(***************************************************************************)
EXTENDS Panic

CONSTANTS netwatch, watchdog, network, openvpn
=============================================================================
