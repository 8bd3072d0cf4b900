---------------------------- MODULE AtomicUpdate ----------------------------
(***************************************************************************)
(* What an over-the-air update promises the device it runs on, whatever is *)
(* interrupted: the boot partition is replaced before an update is         *)
(* pending; the root file system is one whole version, it changes only     *)
(* while an update is pending, only into the version that is pending,      *)
(* which is the one of the boot partition, and the update stays pending    *)
(* until that version is installed or the boot partition is replaced       *)
(* again.  Of an update whose image is thrown away while it is pending     *)
(* nothing is promised.                                                    *)
(***************************************************************************)
CONSTANTS
    Versions,   \* the OS versions that exist
    Installed,  \* the one the device leaves the factory with
    None,       \* no update is pending
    Void        \* neither a version nor None

VARIABLES
    boot,       \* the version on the boot partition, or Void while it is replaced
    root,       \* the version that runs, or will run once the device has restarted;
                \* Void if what the restart copied was no version
    pending     \* the version the next restart installs; Void if its image is gone

TypeOK ==
    /\ boot \in Versions \union {Void} /\ root \in Versions \union {Void}
    /\ pending \in Versions \union {None, Void}

Init == boot = Installed /\ root = Installed /\ pending = None

\* The boot partition, its configuration with it, is replaced.
Flash == boot' = Void /\ pending' = None /\ UNCHANGED root

Flashed(v) == boot = Void /\ boot' = v /\ UNCHANGED <<root, pending>>

\* The update passes the point of no return.
Commit == pending = None /\ boot # Void /\ pending' = boot /\ UNCHANGED <<boot, root>>

\* The restart replaces the root file system.
Install == pending \in Versions /\ root' = pending /\ UNCHANGED <<boot, pending>>

\* And ends when that version is in place.
Complete == pending = root /\ pending' = None /\ UNCHANGED <<boot, root>>

\* The image is thrown away.
Discard == pending \in Versions /\ pending' = Void /\ UNCHANGED <<boot, root>>

\* The restart copies whatever is there, or nothing.
Stray ==
    /\ pending = Void
    /\ root' \in Versions \union {Void} /\ pending' \in {None, Void}
    /\ UNCHANGED boot

Next ==
    \/ Flash \/ Commit \/ Install \/ Complete \/ Discard \/ Stray
    \/ \E v \in Versions : Flashed(v)

Spec == Init /\ [][Next]_<<boot, root, pending>>
=============================================================================
