----------------------------- MODULE MCFwUpdate -----------------------------
(***************************************************************************)
(* Small instances of FwUpdate.  Four versions: v2 needs a longer boot     *)
(* partition (there is a gap behind it) and a root partition that starts   *)
(* later and is longer; v3's boot partition would overlap the root         *)
(* partition, v4's root partition the data partition.                      *)
(***************************************************************************)
EXTENDS FwUpdate

CONSTANTS v1, v2, v3, v4, a, b

E(s, e) == [start |-> s, end |-> e]

MCLayout ==
    [v \in Versions |->
        CASE v = v1 -> [boot |-> E(1, 2), root |-> E(4, 5)]
          [] v = v2 -> [boot |-> E(1, 3), root |-> E(5, 7)]
          [] v = v3 -> [boot |-> E(1, 4), root |-> E(5, 6)]
          [] v = v4 -> [boot |-> E(1, 2), root |-> E(4, 8)]]
MCDataStart == 8
=============================================================================
