----------------------------- MODULE FirstBoot ------------------------------
(***************************************************************************)
(* The data partition from its creation to the factory reset: the boot     *)
(* scripts S00datapart, S01mountall, S02defaultdata and S02restorebackups, *)
(* in the order rcS runs them, and S39factoryreset.                        *)
(*                                                                         *)
(* What a script writes is visible at once and reaches the card when it is *)
(* committed: by sync, by unmounting or remounting, or at any time by the  *)
(* kernel.  A journalling file system commits in order, so after a power   *)
(* cut the card has the state of the last commit.                          *)
(***************************************************************************)
EXTENDS Naturals, FiniteSets

CONSTANTS
    Backups,     \* the archives backup-*.tar.gz on /boot
    Tarball,     \* is there a /boot/factory-defaults.tar.xz?
    Overlay,     \* does the image have files in /usr/share/dataoverlay?
    HoldSeconds, \* OS_FACTORY_RESET_HOLD_SECONDS
    MaxCuts,     \* bound: power cuts
    MaxResets    \* bound: factory resets

ASSUME BootAssumption ==
    /\ IsFiniteSet(Backups)
    /\ Tarball \in BOOLEAN /\ Overlay \in BOOLEAN
    /\ HoldSeconds \in Nat \ {0}
    /\ MaxCuts \in Nat /\ MaxResets \in Nat

Files == {"shadow", "version", "localtime"}
Windows == {"setup", "defaults", "restore"}

Setup == {"mkfs", "mount", "skel", "skelsync", "touch"}
DefaultsSteps == {"untar", "untarred", "defsync"}
Booting == {"detect"} \union Setup \union {"mountall", "marker", "install"}
           \union DefaultsSteps \union {"shadow", "version", "localtime", "overlay",
           "backups", "restore", "remount"}
PCs == Booting \union {"off", "up", "reset"}

\* A data file system: whose files are there; `owner` is the number of factory
\* resets before the user put data there.
NoFs == [fs |-> FALSE, skel |-> FALSE, marker |-> FALSE, defaults |-> "none",
         files |-> {}, restored |-> {}, owner |-> {}]
Fresh == [NoFs EXCEPT !.fs = TRUE]

FileSystem == [fs : BOOLEAN, skel : BOOLEAN, marker : BOOLEAN,
               defaults : {"none", "torn", "good"}, files : SUBSET Files,
               restored : SUBSET Backups, owner : SUBSET (0 .. MaxResets)]

VARIABLES
    table,       \* does the partition table have a data partition?
    card,        \* the data file system as the card has it
    data,        \* as the programs see it
    mounted,     \* is it mounted on /data?
    backups,     \* the archives on /boot as the programs see them
    backupsCard, \* and as the card has them
    pc,          \* the next step of the boot scripts
    pressed,     \* is the reset button pressed?
    count,       \* count of S39factoryreset
    resets,      \* history: factory resets so far
    cuts         \* history: the windows in which the power was cut, and how often

vars == <<table, card, data, mounted, backups, backupsCard, pc, pressed, count,
          resets, cuts>>

TypeOK ==
    /\ table \in BOOLEAN /\ mounted \in BOOLEAN /\ pressed \in BOOLEAN
    /\ card \in FileSystem /\ data \in FileSystem
    /\ backups \subseteq Backups /\ backupsCard \subseteq Backups
    /\ pc \in PCs
    /\ count \in 0 .. HoldSeconds
    /\ resets \in 0 .. MaxResets
    /\ cuts \in [n : 0 .. MaxCuts, in : SUBSET Windows]

\* An SD card just written: boot and root partition only.
Init ==
    /\ table = FALSE /\ card = NoFs /\ data = NoFs /\ mounted = FALSE
    /\ backups = Backups /\ backupsCard = Backups
    /\ pc = "off" /\ pressed = FALSE /\ count = 0
    /\ resets = 0 /\ cuts = [n |-> 0, in |-> {}]

boot == <<backups, backupsCard>>
button == <<pressed, count>>
history == <<resets, cuts>>

At(step) == pc = step
Goto(step) == pc' = step
Sync == card' = IF mounted THEN data' ELSE card

-----------------------------------------------------------------------------
(***************************************************************************)
(* S00datapart                                                             *)
(***************************************************************************)

PowerOn ==
    /\ At("off") /\ Goto("detect")
    /\ UNCHANGED <<table, card, data, mounted, boot, button, history>>

\* A data partition that exists is only checked: e2fsck repairs a file system and
\* does not make one.
Detect ==
    /\ At("detect")
    /\ table' = TRUE
    /\ IF table THEN Goto("mountall") ELSE Goto("mkfs")
    /\ UNCHANGED <<card, data, mounted, boot, button, history>>

\* Mutant: the file system that is found in the new partition is kept
MutMkfs ==
    /\ At("mkfs") /\ Goto("mount")
    /\ card' = IF card.fs THEN card ELSE Fresh
    /\ UNCHANGED <<table, data, mounted, boot, button, history>>

Mkfs ==
    /\ At("mkfs") /\ Goto("mount")
    /\ card' = Fresh
    /\ UNCHANGED <<table, data, mounted, boot, button, history>>

Mount ==
    /\ At("mount") /\ Goto("skel")
    /\ mounted' = card.fs /\ data' = card
    /\ UNCHANGED <<table, card, boot, button, history>>

CopySkeleton ==
    /\ At("skel") /\ Goto("skelsync")
    /\ data' = [data EXCEPT !.skel = TRUE]
    /\ UNCHANGED <<table, card, mounted, boot, button, history>>

SyncSkeleton ==
    /\ At("skelsync") /\ Goto("touch")
    /\ UNCHANGED data /\ Sync
    /\ UNCHANGED <<table, mounted, boot, button, history>>

TouchMarker ==
    /\ At("touch") /\ Goto("mountall")
    /\ data' = [data EXCEPT !.marker = TRUE]
    /\ UNCHANGED <<table, card, mounted, boot, button, history>>

-----------------------------------------------------------------------------
(***************************************************************************)
(* S01mountall                                                             *)
(***************************************************************************)

\* mount fails without a file system, and the boot goes on.
MountAll ==
    /\ At("mountall") /\ Goto("marker")
    /\ mounted' = card.fs
    /\ data' = IF mounted THEN data ELSE card
    /\ UNCHANGED <<table, card, boot, button, history>>

\* Mutant: the marker stays
MutRemoveMarker ==
    /\ At("marker")
    /\ UNCHANGED data
    /\ IF mounted /\ data.marker THEN Goto("install") ELSE Goto("shadow")
    /\ UNCHANGED <<table, card, mounted, boot, button, history>>

RemoveMarker ==
    /\ At("marker")
    /\ data' = [data EXCEPT !.marker = FALSE]
    /\ IF mounted /\ data.marker THEN Goto("install") ELSE Goto("shadow")
    /\ UNCHANGED <<table, card, mounted, boot, button, history>>

\* install_factory_defaults, while xzcat | tar runs and after it
Untar ==
    /\ At("install")
    /\ IF Tarball THEN Goto("untarred") ELSE Goto("shadow")
    /\ data' = IF Tarball THEN [data EXCEPT !.defaults = "torn"] ELSE data
    /\ UNCHANGED <<table, card, mounted, boot, button, history>>

Untarred ==
    /\ At("untarred") /\ Goto("defsync")
    /\ data' = [data EXCEPT !.defaults = "good"]
    /\ UNCHANGED <<table, card, mounted, boot, button, history>>

SyncDefaults ==
    /\ At("defsync") /\ Goto("shadow")
    /\ UNCHANGED data /\ Sync
    /\ UNCHANGED <<table, mounted, boot, button, history>>

-----------------------------------------------------------------------------
(***************************************************************************)
(* S02defaultdata and S02restorebackups                                    *)
(***************************************************************************)

After == [shadow |-> "version", version |-> "localtime", localtime |-> "overlay"]

\* `test -s FILE || create it and sync`; without /data there is only the bare mount
\* point on the read-only root file system, and the command fails.
DefaultFile ==
    /\ pc \in Files /\ Goto(After[pc])
    /\ IF mounted /\ pc \notin data.files
       THEN data' = [data EXCEPT !.files = @ \union {pc}] /\ Sync
       ELSE UNCHANGED <<card, data>>
    /\ UNCHANGED <<table, mounted, boot, button, history>>

CopyOverlay ==
    /\ At("overlay") /\ Goto("backups")
    /\ UNCHANGED data
    /\ IF Overlay THEN Sync ELSE UNCHANGED card
    /\ UNCHANGED <<table, mounted, boot, button, history>>

ListBackups ==
    /\ At("backups")
    /\ IF backups = {} THEN Goto("up") ELSE Goto("restore")
    /\ UNCHANGED <<table, card, data, mounted, boot, button, history>>

\* Mutant: an archive is removed whether or not tar could extract it
MutExtracts(b) == /\ data' = IF mounted THEN [data EXCEPT !.restored = @ \union {b}] ELSE data
                  /\ backups' = backups \ {b}

\* tar extracts one archive and, if it could, rm removes it.
Extracts(b) ==
    IF mounted
    THEN /\ data' = [data EXCEPT !.restored = @ \union {b}]
         /\ backups' = backups \ {b}
    ELSE UNCHANGED <<data, backups>>

\* The loop over the archives; one that cannot be extracted stays.
RestoreBackup ==
    /\ At("restore")
    /\ \E b \in backups : Extracts(b)
    /\ IF ~mounted \/ Cardinality(backups) = 1 THEN Goto("remount") ELSE UNCHANGED pc
    /\ UNCHANGED <<table, card, mounted, backupsCard, button, history>>

\* mount -o remount,ro /boot commits the removals.
RemountBoot ==
    /\ At("remount") /\ Goto("up")
    /\ backupsCard' = backups
    /\ UNCHANGED <<table, card, data, mounted, backups, button, history>>

-----------------------------------------------------------------------------
(***************************************************************************)
(* The running system and S39factoryreset                                  *)
(***************************************************************************)

\* A user configures the device.
UserWrites ==
    /\ At("up") /\ mounted
    /\ data' = [data EXCEPT !.owner = @ \union {resets}]
    /\ UNCHANGED <<table, card, mounted, boot, pc, button, history>>

Button ==
    /\ At("up") /\ resets < MaxResets
    /\ pressed' = ~pressed
    /\ UNCHANGED <<table, card, data, mounted, boot, pc, count, history>>

Counted == IF pressed THEN count + 1 ELSE 0

\* One turn of watch().  reset_factory_defaults deletes the data partition; the file
\* system that was in it stays mounted until the reboot.
Watch ==
    /\ At("up") /\ resets < MaxResets
    /\ count' = Counted
    /\ IF Counted >= HoldSeconds
       THEN /\ Goto("reset") /\ UNCHANGED data /\ Sync
            /\ table' = FALSE /\ resets' = resets + 1
       ELSE UNCHANGED <<pc, card, data, table, resets>>
    /\ UNCHANGED <<mounted, boot, pressed, cuts>>

-----------------------------------------------------------------------------
(***************************************************************************)
(* Reboots, power and caches                                               *)
(***************************************************************************)

Off ==
    /\ Goto("off")
    /\ mounted' = FALSE /\ pressed' = FALSE /\ count' = 0

\* A clean shutdown unmounts the file systems.
Shutdown ==
    /\ pc \in {"up", "reset"}
    /\ Off
    /\ UNCHANGED data /\ Sync
    /\ backupsCard' = backups
    /\ UNCHANGED <<table, backups, history>>

\* The kernel writes back.
WriteBack ==
    /\ mounted /\ card # data
    /\ card' = data
    /\ UNCHANGED <<table, data, mounted, boot, pc, button, history>>

WriteBackBoot ==
    /\ backupsCard # backups
    /\ backupsCard' = backups
    /\ UNCHANGED <<table, card, data, mounted, backups, pc, button, history>>

\* What is under way and not on the card yet.
Window ==
    {w \in Windows :
        \/ w = "setup" /\ (pc \in Setup \/ (data.marker /\ ~card.marker))
        \/ w = "defaults" /\ (pc \in DefaultsSteps \union {"install"}
                              \/ (data.defaults # card.defaults /\ mounted))
        \/ w = "restore" /\ ~(Backups \ backupsCard \subseteq card.restored)}

PowerCut ==
    /\ pc # "off" /\ cuts.n < MaxCuts
    /\ Off
    /\ data' = card /\ backups' = backupsCard
    /\ cuts' = [n |-> cuts.n + 1, in |-> cuts.in \union Window]
    /\ UNCHANGED <<table, card, backupsCard, resets>>

Script ==
    \/ PowerOn \/ Detect \/ Mkfs \/ Mount \/ CopySkeleton \/ SyncSkeleton \/ TouchMarker
    \/ MountAll \/ RemoveMarker \/ Untar \/ Untarred \/ SyncDefaults
    \/ DefaultFile \/ CopyOverlay \/ ListBackups \/ RestoreBackup \/ RemountBoot

Next ==
    \/ Script \/ UserWrites \/ Button \/ Watch
    \/ Shutdown \/ WriteBack \/ WriteBackBoot \/ PowerCut

Spec == Init /\ [][Next]_vars

\* The machine is switched on, the scripts run, and a reset ends in a reboot.
FairSpec ==
    /\ Spec /\ WF_vars(Script) /\ WF_vars(At("reset") /\ Shutdown)

-----------------------------------------------------------------------------
(***************************************************************************)
(* Properties                                                              *)
(***************************************************************************)

\* When the device is up it has its data partition, the factory defaults are installed and
\* every backup is on /boot or restored, unless the power was cut in one of three windows:
\* while the partition was being made or before its marker was on the card (S00datapart:
\* 66-89; nothing formats it later), while the defaults were being installed after the
\* marker had gone (S01mountall:77-79), or after an archive was removed and before what was
\* extracted from it is on the card (S02restorebackups:21-23).  A reset drops what was restored.
LostOnlyInWindows ==
    /\ At("up") /\ ~mounted => "setup" \in cuts.in
    /\ At("up") /\ mounted /\ Tarball /\ data.defaults # "good" =>
         cuts.in \intersect {"setup", "defaults"} # {}
    /\ \A b \in Backups :
         \/ b \in backups /\ b \in backupsCard
         \/ b \in data.restored
         \/ "restore" \in cuts.in \/ resets > 0

\* After a factory reset nobody finds the data of the user before, unless the power was
\* cut between the creation of the new partition and its formatting: it starts where the
\* old one started and still has the old file system (S00datapart:66-78).
ResetErasesUserData ==
    At("up") /\ mounted /\ "setup" \notin cuts.in => data.owner \subseteq {resets}

\* The factory defaults are never installed over the data of a user, whatever is
\* interrupted: the removal of the marker is committed before anything a user writes.
DefaultsNeverOverUserData ==
    [][At("install") /\ data'.defaults = "torn" => data.owner = {}]_vars

\* A reset leads to a fresh data partition or to one of the cuts above.
ResetTakesEffect ==
    At("reset") ~> (At("up") /\ (data.owner \subseteq {resets} \/ "setup" \in cuts.in))
=============================================================================
