------------------------------ MODULE FwUpdate ------------------------------
(***************************************************************************)
(* The over-the-air firmware update of thingOS: the script                 *)
(* overlay/sbin/fwupdate that downloads, extracts and flashes an image     *)
(* stage by stage, the initramfs that copies the root image over the root  *)
(* partition after the reboot (overlay-initramfs/init), and the power      *)
(* supply, the failing commands and the other callers of /sbin/reboot they *)
(* have to live with.                                                      *)
(*                                                                         *)
(* Everything on the SD card (the files of /data/.fwupdate, the partition  *)
(* table, the boot and root partitions) survives a power cut; the mounts   *)
(* and the processes do not.  A command's effect is on the card when the   *)
(* command returns.                                                        *)
(***************************************************************************)
EXTENDS Naturals

CONSTANTS
    Procs,       \* the fwupdate processes that may run at the same time
    Versions,    \* the OS versions that exist
    Installed,   \* the version the device leaves the factory with
    Shipped,     \* whether it leaves the factory with factory defaults: "good" or "none"
    Layout,      \* version -> extents of the boot and root partitions in its image
    DataStart,   \* first sector of the data partition
    Torn,        \* content of a file or partition that is only partly written
    Absent,      \* "content" of a file that does not exist
    Commands,    \* the subcommands that are used
    Faults,      \* the commands that may fail
    Requests,    \* what other programs may ask for: {"reboot", "poweroff"}
    PowerCuts    \* whether the power may be cut

Extent == [start : Nat, end : Nat]

Cmds == {"install", "download", "extract", "flashboot", "flashreboot"}
FaultKinds == {"space", "fetch", "unpack", "hook", "backup", "bootdd",
               "mount", "fdisk", "restore", "prepare", "initramfs"}

ASSUME VersionAssumption ==
    /\ Installed \in Versions
    /\ Shipped \in {"good", "none"}
    /\ Torn \notin Versions /\ Absent \notin Versions /\ Torn # Absent
ASSUME LayoutAssumption ==
    /\ Layout \in [Versions -> [boot : Extent, root : Extent]]
    /\ DataStart \in Nat
ASSUME EnvironmentAssumption ==
    /\ Commands \subseteq Cmds /\ Faults \subseteq FaultKinds
    /\ Requests \subseteq {"reboot", "poweroff"}
    /\ PowerCuts \in BOOLEAN

Content == Versions \union {Torn, Absent}

Started == {"download_started", "extract_started", "flash_boot_started",
            "flash_reboot_started"}
Done == {"download_done", "extract_done", "flash_boot_done"}
Flags == Started \union Done \union {"error"}

\* /boot/factory-defaults.tar.xz as found in a boot directory
FactoryDefaults == {"none", "torn", "good"}

VARIABLES
    flags,       \* the empty marker files of FW_DIR that exist
    archive,     \* firmware.img.gz or .xz
    image,       \* firmware.img
    bootInfo,    \* boot_info: the version whose boot partition it describes
    rootInfo,    \* root_info: the version whose root partition it describes
    oldBoot,     \* the factory defaults in FW_DIR/old_boot
    bootC,       \* content of the boot partition
    fdBoot,      \* the factory defaults on the boot partition
    initrd,      \* whether the boot configuration selects the initramfs
    discarded,   \* history: firmware.img was removed or overwritten while the boot
                 \* configuration selected the initramfs that needs it
    rootC,       \* content of the root partition
    rootAt,      \* the sector it was written to
    part,        \* extents of the boot and root partitions
    reboot,      \* /sbin/reboot on the root partition
    rebootBak,   \* /sbin/reboot.bak on the root partition
    mode,        \* what the machine is executing
    bootMounted, \* how /boot is mounted
    rebooting,   \* a real /sbin/reboot is running and will shut the system down
    pc,          \* the next command of each fwupdate process
    job          \* its subcommand, version (of the archive, then the one of the
                 \* boot_info it read), boot_mounted_rw and EXIT trap

fw == <<flags, archive, image, bootInfo, rootInfo, oldBoot>>
boot == <<bootC, fdBoot>>
rootFs == <<rootC, rootAt>>
sbin == <<reboot, rebootBak>>
card == <<boot, initrd, discarded, rootFs, part, sbin>>
machine == <<mode, bootMounted, rebooting>>
vars == <<fw, card, machine, pc, job>>

First == [install |-> "dl_wipe1", download |-> "dl_wipe1",
          extract |-> "ex_start", flashboot |-> "fb_start",
          flashreboot |-> "fr_start"]

DownloadSteps == {"dl_wipe1", "dl_wipe2", "dl_wipe3", "dl_check", "dl_copy",
                  "dl_fetch"}
ExtractSteps == {"ex_start", "ex_unpack", "ex_bootinfo", "ex_rootinfo", "ex_hook"}
FlashBootSteps == {"fb_start", "fb_backup", "fb_copy", "fb_nest", "fb_umount",
                   "fb_mv", "fb_ln", "fb_part", "fb_dd", "fb_write", "fb_mount",
                   "fb_defaults", "fb_restore", "fb_done"}
FlashRebootSteps == {"fr_start", "fr_part", "fr_prepare", "fr_reboot", "fr_wait"}
CleanupSteps == {"cl_rm", "cl_mv", "cl_boot", "cl_flags"}
Steps == DownloadSteps \union ExtractSteps \union FlashBootSteps
         \union FlashRebootSteps \union CleanupSteps \union {"idle"}

Initramfs == {"im_check", "im_write", "im_rm", "im_exit"}
Modes == Initramfs \union {"off", "up", "stopping", "dead"}

NoJob == [cmd |-> "install", ver |-> Absent, rw |-> FALSE, trap |-> FALSE]

Job == [cmd : Cmds, ver : Content, rw : BOOLEAN, trap : BOOLEAN]

TypeOK ==
    /\ flags \subseteq Flags
    /\ archive \in Content /\ image \in Content
    /\ bootInfo \in Content /\ rootInfo \in Content
    /\ oldBoot \in FactoryDefaults \union {"absent"}
    /\ bootC \in Versions \union {Torn} /\ rootC \in Versions \union {Torn}
    /\ fdBoot \in FactoryDefaults
    /\ initrd \in BOOLEAN /\ discarded \in BOOLEAN /\ rootAt \in Nat
    /\ part \in [boot : Extent, root : Extent]
    /\ reboot \in {"real", "stub", "absent"}
    /\ rebootBak \in {"real", "stub", "absent"}
    /\ mode \in Modes
    /\ bootMounted \in {"no", "ro", "rw"}
    /\ rebooting \in BOOLEAN
    /\ pc \in [Procs -> Steps]
    /\ job \in [Procs -> Job]

Init ==
    /\ flags = {} /\ archive = Absent /\ image = Absent
    /\ bootInfo = Absent /\ rootInfo = Absent /\ oldBoot = "absent"
    /\ bootC = Installed /\ rootC = Installed /\ part = Layout[Installed]
    /\ rootAt = part.root.start
    /\ fdBoot = Shipped /\ initrd = FALSE /\ discarded = FALSE
    /\ reboot = "real" /\ rebootBak = "absent"
    /\ mode = "off" /\ bootMounted = "no" /\ rebooting = FALSE
    /\ pc = [p \in Procs |-> "idle"] /\ job = [p \in Procs |-> NoJob]

-----------------------------------------------------------------------------
(***************************************************************************)
(* Control flow of the script                                              *)
(***************************************************************************)

Goto(p, step) == pc' = [pc EXCEPT ![p] = step]

\* Mutant: no trap
MutLeaveUntrapped(p) == Goto(p, "idle")

\* `set -e`, `exit` and the end of main: the EXIT trap runs if it is set.
Leave(p) == Goto(p, IF job[p].trap THEN "cl_rm" ELSE "idle")

\* End of a stage: `install` goes on with the next one.
Finish(p, next) ==
    IF job[p].cmd = "install" THEN Goto(p, next) ELSE Goto(p, "cl_rm")

At(p, step) == mode \in {"up", "stopping"} /\ pc[p] = step

MayFail(kind) == kind \in Faults

SetTrap(p) == job' = [job EXCEPT ![p].trap = TRUE]

MarkRw(p) == job' = [job EXCEPT ![p].rw = TRUE]

\* Nothing keeps a stage from removing the image while the initramfs is selected.
DiscardImage ==
    /\ discarded' = (discarded \/ initrd)
    /\ UNCHANGED <<boot, initrd, rootFs, part, sbin>>

\* Somebody runs fwupdate; nothing keeps a second one from starting.
Start(p, cmd, v) ==
    /\ mode = "up" /\ pc[p] = "idle"
    /\ cmd \in {"install", "download"} <=> v # Absent
    /\ Goto(p, First[cmd])
    /\ job' = [job EXCEPT ![p] = [cmd |-> cmd, ver |-> v, rw |-> FALSE, trap |-> FALSE]]
    /\ UNCHANGED <<fw, card, machine>>

\* The error file is written before the trap is set or by a later stage.
Refuse(p) ==
    /\ flags' = flags \union {"error"}
    /\ Leave(p)
    /\ UNCHANGED <<archive, image, bootInfo, rootInfo, oldBoot, card, machine, job>>

-----------------------------------------------------------------------------
(***************************************************************************)
(* do_download                                                             *)
(***************************************************************************)

\* `rm -rf FW_DIR/*` removes the files in the glob's (alphabetical) order.
DlWipe1(p) ==   \* boot_info, download_*, error, extract_*
    /\ At(p, "dl_wipe1")
    /\ bootInfo' = Absent
    /\ flags' = flags \ {"download_started", "download_done", "error",
                         "extract_started", "extract_done"}
    /\ Goto(p, "dl_wipe2")
    /\ UNCHANGED <<archive, image, rootInfo, oldBoot, card, machine, job>>

DlWipe2(p) ==   \* firmware.img, firmware.img.gz, flash_*
    /\ At(p, "dl_wipe2")
    /\ image' = Absent /\ archive' = Absent
    /\ flags' = flags \ {"flash_boot_started", "flash_boot_done",
                         "flash_reboot_started"}
    /\ DiscardImage
    /\ Goto(p, "dl_wipe3")
    /\ UNCHANGED <<bootInfo, rootInfo, oldBoot, machine, job>>

DlWipe3(p) ==   \* old_boot, root_info; then the explicit rm -f of every flag
    /\ At(p, "dl_wipe3")
    /\ oldBoot' = "absent" /\ rootInfo' = Absent
    /\ flags' = flags \ (Done \union {"error", "extract_started",
                                      "flash_boot_started", "flash_reboot_started"})
    /\ SetTrap(p)
    /\ Goto(p, "dl_check")
    /\ UNCHANGED <<archive, image, bootInfo, card, machine>>

\* Exit with no trace in the markers: no URL, no answer from the server, a failing
\* cleanup script, or the copy of a local file fails.
DlAborted(p) ==
    /\ At(p, "dl_check") \/ At(p, "dl_copy")
    /\ MayFail("fetch")
    /\ Leave(p)
    /\ UNCHANGED <<fw, card, machine, job>>

\* A local file is copied without a download_started flag.
DlLocal(p) ==
    /\ At(p, "dl_check")
    /\ archive' = Torn
    /\ Goto(p, "dl_copy")
    /\ UNCHANGED <<flags, image, bootInfo, rootInfo, oldBoot, card, machine, job>>

DlCopied(p) ==
    /\ At(p, "dl_copy")
    /\ archive' = job[p].ver
    /\ flags' = flags \union {"download_done"}
    /\ job' = [job EXCEPT ![p].ver = Absent]
    /\ Finish(p, "ex_start")
    /\ UNCHANGED <<image, bootInfo, rootInfo, oldBoot, card, machine>>

Download(p, extra) ==
    /\ At(p, "dl_check")
    /\ flags' = flags \union {"download_started"} \union extra
    /\ archive' = Torn
    /\ Goto(p, "dl_fetch")
    /\ UNCHANGED <<image, bootInfo, rootInfo, oldBoot, card, machine, job>>

DlStart(p) == Download(p, {})

\* Too little disk space: without a cleanup script the download ends here, with one
\* it goes on and leaves the error file behind.
DlLowSpace(p) == MayFail("space") /\ Download(p, {"error"})

DlNoSpace(p) ==
    /\ At(p, "dl_check") /\ MayFail("space")
    /\ Refuse(p)

DlFetched(p) ==
    /\ At(p, "dl_fetch")
    /\ archive' = job[p].ver
    /\ flags' = flags \union {"download_done"}
    /\ job' = [job EXCEPT ![p].ver = Absent]
    /\ Finish(p, "ex_start")
    /\ UNCHANGED <<image, bootInfo, rootInfo, oldBoot, card, machine>>

DlFailed(p) ==
    /\ At(p, "dl_fetch") /\ MayFail("fetch")
    /\ flags' = (flags \ {"download_started"}) \union {"error"}
    /\ Leave(p)
    /\ UNCHANGED <<archive, image, bootInfo, rootInfo, oldBoot, card, machine, job>>

-----------------------------------------------------------------------------
(***************************************************************************)
(* do_extract                                                              *)
(***************************************************************************)

CanExtract == archive # Absent /\ "download_done" \in flags

\* Mutant: a new extraction keeps the marker of the old one
MutExtractResets == {"flash_boot_started", "flash_boot_done", "flash_reboot_started", "error"}

ExtractResets == {"extract_done", "flash_boot_started", "flash_boot_done",
                  "flash_reboot_started", "error"}

ExStart(p) ==
    /\ At(p, "ex_start") /\ CanExtract
    /\ flags' = (flags \ ExtractResets) \union {"extract_started"}
    /\ image' = Torn            \* removed, then recreated by the redirection
    /\ DiscardImage
    /\ SetTrap(p)
    /\ Goto(p, "ex_unpack")
    /\ UNCHANGED <<archive, bootInfo, rootInfo, oldBoot, machine>>

ExRefuse(p) ==
    /\ At(p, "ex_start") /\ ~CanExtract
    /\ Refuse(p)

\* xzcat and gunzip verify the archive's checksum.
ExUnpacked(p) ==
    /\ At(p, "ex_unpack") /\ archive \in Versions
    /\ image' = archive
    /\ Goto(p, "ex_bootinfo")
    /\ UNCHANGED <<flags, archive, bootInfo, rootInfo, oldBoot, card, machine, job>>

ExUnpackFailed(p) ==
    /\ At(p, "ex_unpack") /\ (archive \notin Versions \/ MayFail("unpack"))
    /\ Leave(p)
    /\ UNCHANGED <<fw, card, machine, job>>

ExBootInfo(p) ==
    /\ At(p, "ex_bootinfo") /\ image # Absent
    /\ bootInfo' = image
    /\ Goto(p, "ex_rootinfo")
    /\ UNCHANGED <<flags, archive, image, rootInfo, oldBoot, card, machine, job>>

ExRootInfo(p) ==
    /\ At(p, "ex_rootinfo") /\ image # Absent
    /\ rootInfo' = image
    /\ Goto(p, "ex_hook")
    /\ UNCHANGED <<flags, archive, image, bootInfo, oldBoot, card, machine, job>>

\* run_pre_upgrade, then extract_done
ExDone(p) ==
    /\ At(p, "ex_hook") /\ image \in Versions
    /\ flags' = flags \union {"extract_done"}
    /\ Finish(p, "fb_start")
    /\ UNCHANGED <<archive, image, bootInfo, rootInfo, oldBoot, card, machine, job>>

\* A pre-upgrade script refuses the upgrade.
ExHookFailed(p) ==
    /\ At(p, "ex_hook") /\ image \in Versions /\ MayFail("hook")
    /\ Refuse(p)

\* The image vanished under fdisk, or cannot be mounted for its hooks.
ExReadFailed(p) ==
    /\ \/ \E step \in {"ex_bootinfo", "ex_rootinfo"} : At(p, step) /\ image = Absent
       \/ At(p, "ex_hook") /\ (image \notin Versions \/ MayFail("mount"))
    /\ Leave(p)
    /\ UNCHANGED <<fw, card, machine, job>>

-----------------------------------------------------------------------------
(***************************************************************************)
(* do_flash_boot                                                           *)
(***************************************************************************)

CanFlashBoot == image # Absent /\ "extract_done" \in flags

FbStart(p) ==
    /\ At(p, "fb_start") /\ CanFlashBoot
    /\ flags' = (flags \ {"flash_boot_done", "flash_reboot_started", "error"})
                \union {"flash_boot_started"}
    /\ SetTrap(p)
    /\ Goto(p, "fb_backup")
    /\ UNCHANGED <<archive, image, bootInfo, rootInfo, oldBoot, card, machine>>

FbRefuse(p) ==
    /\ At(p, "fb_start") /\ ~CanFlashBoot
    /\ Refuse(p)

\* What `cp -r /boot FW_DIR/old_boot` finds: the bare mount point if unmounted.
BootDirDefaults == IF bootMounted = "no" THEN "none" ELSE fdBoot

\* boot_info is read; the copy begins: a new directory that does not have all its files yet, or,
\* if old_boot is there already, a directory old_boot/boot nobody reads.
FbBackup(p) ==
    /\ At(p, "fb_backup") /\ bootInfo # Absent
    /\ IF oldBoot = "absent"
       THEN oldBoot' \in {"none"} \union (IF BootDirDefaults = "none" THEN {} ELSE {"torn"})
            /\ Goto(p, "fb_copy")
       ELSE UNCHANGED oldBoot /\ Goto(p, "fb_nest")
    /\ job' = [job EXCEPT ![p].ver = bootInfo]
    /\ UNCHANGED <<flags, archive, image, bootInfo, rootInfo, card, machine>>

FbCopied(p) ==
    /\ \/ At(p, "fb_copy") /\ oldBoot' = BootDirDefaults
       \/ At(p, "fb_nest") /\ UNCHANGED oldBoot
    /\ Goto(p, "fb_umount")
    /\ UNCHANGED <<flags, archive, image, bootInfo, rootInfo, card, machine, job>>

\* Exit with no trace in the markers: no boot_info, a full data partition,
\* /boot not mounted or busy.
FbBackupFailed(p) ==
    /\ \/ At(p, "fb_backup") /\ bootInfo = Absent
       \/ (At(p, "fb_copy") \/ At(p, "fb_nest")) /\ MayFail("backup")
       \/ At(p, "fb_umount") /\ (bootMounted = "no" \/ MayFail("mount"))
    /\ Leave(p)
    /\ UNCHANGED <<fw, card, machine, job>>

FbUmount(p) ==
    /\ At(p, "fb_umount") /\ bootMounted # "no"
    /\ bootMounted' = "no"
    /\ Goto(p, "fb_mv")
    /\ UNCHANGED <<fw, card, mode, rebooting, job>>

\* panic inhibit; the root partition is remounted read-write; mv /sbin/reboot
FbMoveReboot(p) ==
    /\ At(p, "fb_mv") /\ reboot # "absent"
    /\ rebootBak' = reboot /\ reboot' = "absent"
    /\ Goto(p, "fb_ln")
    /\ UNCHANGED <<fw, boot, initrd, discarded, rootFs, part, machine, job>>

\* Mutant: /sbin/reboot is left in place
MutStub == rebootBak

\* ln -s /bin/true /sbin/reboot
Stub == "stub"

FbStubReboot(p) ==
    /\ At(p, "fb_ln") /\ reboot = "absent"
    /\ reboot' = Stub
    /\ Goto(p, "fb_part")
    /\ UNCHANGED <<fw, boot, initrd, discarded, rootFs, part, rebootBak, machine, job>>

FbStubFailed(p) ==
    /\ \/ At(p, "fb_mv") /\ (reboot = "absent" \/ MayFail("mount"))
       \/ At(p, "fb_ln") /\ reboot # "absent"
    /\ Leave(p)
    /\ UNCHANGED <<fw, card, machine, job>>

\* reallocate_{boot,root}_part: nothing to do, no room, or a new partition table
Fits(current, new) == current.start = new.start /\ current.end >= new.end

BootExtent == IF bootInfo \in Versions THEN Layout[bootInfo].boot ELSE part.boot

\* Mutant: the table is compared with itself
MutRootExtent == part.root

RootExtent == IF rootInfo \in Versions THEN Layout[rootInfo].root ELSE part.root

NewBootTable ==
    IF Fits(part.boot, BootExtent) THEN part ELSE [part EXCEPT !.boot = BootExtent]

FbPartition(p) ==
    /\ At(p, "fb_part") /\ (Fits(part.boot, BootExtent) \/ BootExtent.end < part.root.start)
    /\ part' = NewBootTable
    /\ Goto(p, "fb_dd")
    /\ UNCHANGED <<fw, boot, initrd, discarded, rootFs, sbin, machine, job>>

FbNoRoom(p) ==
    /\ At(p, "fb_part") /\ ~Fits(part.boot, BootExtent) /\ BootExtent.end >= part.root.start
    /\ Leave(p)
    /\ UNCHANGED <<fw, card, machine, job>>

\* fdisk fails, before or after it has written the table.
FbFdiskFailed(p) ==
    /\ At(p, "fb_part") /\ MayFail("fdisk")
    /\ ~Fits(part.boot, BootExtent) /\ BootExtent.end < part.root.start
    /\ part' \in {part, NewBootTable}
    /\ Leave(p)
    /\ UNCHANGED <<fw, boot, initrd, discarded, rootFs, sbin, machine, job>>

\* dd copies from the image it opened, whatever becomes of the name, the sectors
\* that boot_info gave.
FbFlash(p) ==
    /\ At(p, "fb_dd") /\ image # Absent
    /\ bootC' = Torn /\ fdBoot' = "none" /\ initrd' = FALSE /\ discarded' = FALSE
    /\ job' = [job EXCEPT ![p].ver = IF image = @ THEN @ ELSE Torn]
    /\ Goto(p, "fb_write")
    /\ UNCHANGED <<fw, rootFs, part, sbin, machine>>

FbFlashed(p) ==
    /\ At(p, "fb_write")
    /\ bootC' = IF job[p].ver \in Versions THEN job[p].ver ELSE Torn
    /\ Goto(p, "fb_mount")
    /\ UNCHANGED <<fw, fdBoot, initrd, discarded, rootFs, part, sbin, machine, job>>

BootReadable ==
    bootC \in Versions /\ Fits(part.boot, Layout[bootC].boot)

\* dd fails, leaving the partition torn; there is nothing to mount on /boot; or it is
\* mounted and cannot be made writable.
FbFlashFailed(p) ==
    /\ \/ /\ \/ At(p, "fb_dd") /\ image = Absent
             \/ At(p, "fb_write") /\ MayFail("bootdd")
             \/ At(p, "fb_mount") /\ (~BootReadable \/ MayFail("mount"))
          /\ UNCHANGED bootMounted
       \/ /\ At(p, "fb_mount") /\ BootReadable /\ MayFail("mount")
          /\ bootMounted' = "ro"
    /\ Leave(p)
    /\ UNCHANGED <<fw, card, mode, rebooting, job>>

FbMount(p) ==
    /\ At(p, "fb_mount") /\ BootReadable
    /\ bootMounted' = "rw"
    /\ MarkRw(p)
    /\ Goto(p, "fb_defaults")
    /\ UNCHANGED <<fw, card, mode, rebooting>>

\* "The /boot/factory-defaults.tar.xz file is always preserved across updates"
FbRestore(p) ==
    /\ At(p, "fb_defaults") /\ oldBoot \in {"torn", "good"}
    /\ fdBoot' = "torn"
    /\ Goto(p, "fb_restore")
    /\ UNCHANGED <<fw, bootC, initrd, discarded, rootFs, part, sbin, machine, job>>

FbRestored(p) ==
    /\ At(p, "fb_restore")
    /\ fdBoot' = IF oldBoot = "good" THEN "good" ELSE "torn"
    /\ Goto(p, "fb_done")
    /\ UNCHANGED <<fw, bootC, initrd, discarded, rootFs, part, sbin, machine, job>>

\* The copy stops half way.
FbRestoreFailed(p) ==
    /\ At(p, "fb_restore") /\ MayFail("restore")
    /\ Leave(p)
    /\ UNCHANGED <<fw, card, machine, job>>

\* Mutant: the defaults are taken from old_boot/boot, which need not be there
MutFbDone(p) ==
    /\ At(p, "fb_done") \/ At(p, "fb_defaults")
    /\ flags' = flags \union {"flash_boot_done"}
    /\ Finish(p, "fr_start")
    /\ UNCHANGED <<archive, image, bootInfo, rootInfo, oldBoot, card, machine, job>>

FbDone(p) ==
    /\ \/ At(p, "fb_done")
       \/ At(p, "fb_defaults") /\ oldBoot \in {"absent", "none"}
    /\ flags' = flags \union {"flash_boot_done"}
    /\ Finish(p, "fr_start")
    /\ UNCHANGED <<archive, image, bootInfo, rootInfo, oldBoot, card, machine, job>>

-----------------------------------------------------------------------------
(***************************************************************************)
(* do_flash_reboot                                                         *)
(***************************************************************************)

\* Mutant: the boot partition need not be flashed first
MutCanFlashReboot == rootInfo # Absent

CanFlashReboot == rootInfo # Absent /\ "flash_boot_done" \in flags

FrStart(p) ==
    /\ At(p, "fr_start") /\ CanFlashReboot
    /\ flags' = (flags \ {"error"}) \union {"flash_reboot_started"}
    /\ SetTrap(p)
    /\ Goto(p, "fr_part")
    /\ UNCHANGED <<archive, image, bootInfo, rootInfo, oldBoot, card, machine>>

FrRefuse(p) ==
    /\ At(p, "fr_start") /\ ~CanFlashReboot
    /\ Refuse(p)

NewRootTable ==
    IF Fits(part.root, RootExtent) THEN part ELSE [part EXCEPT !.root = RootExtent]

FrPartition(p) ==
    /\ At(p, "fr_part") /\ (Fits(part.root, RootExtent) \/ RootExtent.end < DataStart)
    /\ part' = NewRootTable
    /\ Goto(p, "fr_prepare")
    /\ UNCHANGED <<fw, boot, initrd, discarded, rootFs, sbin, machine, job>>

FrNoRoom(p) ==
    /\ At(p, "fr_part") /\ ~Fits(part.root, RootExtent) /\ RootExtent.end >= DataStart
    /\ Leave(p)
    /\ UNCHANGED <<fw, card, machine, job>>

FrFdiskFailed(p) ==
    /\ At(p, "fr_part") /\ MayFail("fdisk")
    /\ ~Fits(part.root, RootExtent) /\ RootExtent.end < DataStart
    /\ part' \in {part, NewRootTable}
    /\ Leave(p)
    /\ UNCHANGED <<fw, boot, initrd, discarded, rootFs, sbin, machine, job>>

\* The root file system in the image is mounted at the offset in root_info, /boot is
\* remounted read-write, and fw-prepare-boot selects the initramfs.
ImageMounts == image \in Versions /\ rootInfo = image

FrPrepare(p) ==
    /\ At(p, "fr_prepare") /\ ImageMounts /\ bootMounted # "no"
    /\ bootMounted' = "rw"
    /\ MarkRw(p)
    /\ initrd' = TRUE
    /\ Goto(p, "fr_reboot")
    /\ UNCHANGED <<fw, boot, discarded, rootFs, part, sbin, mode, rebooting>>

FrPrepareFailed(p) ==
    /\ At(p, "fr_prepare") /\ (~ImageMounts \/ bootMounted = "no" \/ MayFail("mount"))
    /\ Leave(p)
    /\ UNCHANGED <<fw, card, machine, job>>

\* fw-prepare-boot fails, before or after it has changed the boot configuration.
FrScriptFailed(p) ==
    /\ At(p, "fr_prepare") /\ ImageMounts /\ bootMounted # "no" /\ MayFail("prepare")
    /\ bootMounted' = "rw"
    /\ MarkRw(p)
    /\ initrd' \in {initrd, TRUE}
    /\ Leave(p)
    /\ UNCHANGED <<fw, boot, discarded, rootFs, part, sbin, mode, rebooting>>

\* The image's root file system cannot be unmounted or its loop device not be released:
\* the script ends with the initramfs selected and no reboot.
FrReleaseFailed(p) ==
    /\ At(p, "fr_reboot") /\ MayFail("prepare")
    /\ Leave(p)
    /\ UNCHANGED <<fw, card, machine, job>>

\* test -x /sbin/reboot.bak && /sbin/reboot.bak || /sbin/reboot &
FrReboot(p) ==
    /\ At(p, "fr_reboot")
    /\ rebooting' = (rebooting \/ "real" = IF rebootBak # "absent" THEN rebootBak ELSE reboot)
    /\ Goto(p, "fr_wait")
    /\ UNCHANGED <<fw, card, mode, bootMounted, job>>

-----------------------------------------------------------------------------
(***************************************************************************)
(* cleanup_on_exit                                                         *)
(***************************************************************************)

ClRemoveStub(p) ==
    /\ At(p, "cl_rm")
    /\ IF rebootBak # "absent"
       THEN reboot' = "absent" /\ Goto(p, "cl_mv")
       ELSE UNCHANGED reboot /\ Goto(p, "cl_boot")
    /\ UNCHANGED <<fw, boot, initrd, discarded, rootFs, part, rebootBak, machine, job>>

ClRestoreReboot(p) ==
    /\ At(p, "cl_mv")
    /\ reboot' = IF rebootBak = "absent" THEN reboot ELSE rebootBak
    /\ rebootBak' = "absent"
    /\ Goto(p, "cl_boot")
    /\ UNCHANGED <<fw, boot, initrd, discarded, rootFs, part, machine, job>>

ClRemountBoot(p) ==
    /\ At(p, "cl_boot")
    /\ bootMounted' =
          IF ~job[p].rw \/ (bootMounted = "no" /\ ~BootReadable) THEN bootMounted ELSE "ro"
    /\ Goto(p, "cl_flags")
    /\ UNCHANGED <<fw, card, mode, rebooting, job>>

\* Mutant: one marker forgotten
MutClearedOnExit == {"download_started", "flash_boot_started", "flash_reboot_started"}

ClearedOnExit == {"download_started", "extract_started", "flash_boot_started",
                  "flash_reboot_started"}

ClFlags(p) ==
    /\ At(p, "cl_flags")
    /\ flags' = flags \ ClearedOnExit
    /\ Goto(p, "idle")
    /\ job' = [job EXCEPT ![p] = NoJob]
    /\ UNCHANGED <<archive, image, bootInfo, rootInfo, oldBoot, card, machine>>

-----------------------------------------------------------------------------
(***************************************************************************)
(* Reboots, power and boot                                                 *)
(***************************************************************************)

PowerDown ==
    /\ mode' = "off" /\ bootMounted' = "no" /\ rebooting' = FALSE
    /\ pc' = [p \in Procs |-> "idle"] /\ job' = [p \in Procs |-> NoJob]

\* Mutant: no forced reboot
MutFrForced(p) == FALSE

\* fwupdate's own guard: three minutes later, sysrq b
FrForced(p) ==
    /\ At(p, "fr_wait")
    /\ PowerDown
    /\ UNCHANGED <<fw, card>>

\* Some program (panic, cron, a hook, the user) executes /sbin/reboot: nothing
\* happens if it is the link to /bin/true.
RequestReboot ==
    /\ "reboot" \in Requests /\ mode = "up" /\ reboot = "real"
    /\ rebooting' = TRUE
    /\ UNCHANGED <<fw, card, mode, bootMounted, pc, job>>

\* init runs rcK, where S14postupgrade removes the flag, and sends every process
\* a TERM signal; bash runs the EXIT trap, if it has the time.
Stop ==
    /\ mode = "up"
    /\ mode' = "stopping"
    /\ flags' = flags \ {"flash_reboot_started"}
    /\ pc' = [p \in Procs |-> IF pc[p] \in CleanupSteps THEN pc[p]
                              ELSE IF job[p].trap THEN "cl_rm" ELSE "idle"]
    /\ UNCHANGED <<archive, image, bootInfo, rootInfo, oldBoot, card,
                   bootMounted, rebooting, job>>

Shutdown == rebooting /\ Stop
Poweroff == "poweroff" \in Requests /\ Stop

Halt ==
    /\ mode = "stopping"
    /\ PowerDown
    /\ UNCHANGED <<fw, card>>

PowerCut ==
    /\ PowerCuts /\ mode \notin {"off", "dead"}
    /\ PowerDown
    /\ UNCHANGED <<fw, card>>

\* The partition, wherever it starts, has room for a version's root file system.
RootHolds(v) ==
    part.root.end + Layout[v].root.start >= Layout[v].root.end + part.root.start

RootReadable ==
    rootC \in Versions /\ rootAt = part.root.start /\ RootHolds(rootC)

\* S14postupgrade clears the fwupdate reboot flag.
BootNormal ==
    /\ mode = "off" /\ BootReadable /\ ~initrd /\ RootReadable
    /\ mode' = "up" /\ bootMounted' = "ro"
    /\ flags' = flags \ {"flash_reboot_started"}
    /\ UNCHANGED <<archive, image, bootInfo, rootInfo, oldBoot, card, rebooting, pc, job>>

BootInitramfs ==
    /\ mode = "off" /\ BootReadable /\ initrd
    /\ mode' = "im_check"
    /\ UNCHANGED <<fw, card, bootMounted, rebooting, pc, job>>

BootFails ==
    /\ mode = "off" /\ (~BootReadable \/ (~initrd /\ ~RootReadable))
    /\ mode' = "dead"
    /\ UNCHANGED <<fw, card, bootMounted, rebooting, pc, job>>

\* Only a freshly written SD card helps.
Dead == mode = "dead" /\ UNCHANGED vars

-----------------------------------------------------------------------------
(***************************************************************************)
(* overlay-initramfs/init                                                  *)
(***************************************************************************)

\* Mutant: the normal boot is selected again before the copy
MutImCopyStarts ==
    /\ mode = "im_check" /\ image # Absent /\ rootInfo # Absent
    /\ mode' = "im_write"
    /\ rootC' = Torn /\ rootAt' = part.root.start /\ initrd' = FALSE
    /\ UNCHANGED <<fw, boot, discarded, part, sbin, bootMounted, rebooting, pc, job>>

ImCopyStarts ==
    /\ mode = "im_check" /\ image # Absent /\ rootInfo # Absent
    /\ mode' = "im_write"
    /\ rootC' = Torn /\ rootAt' = part.root.start
    /\ UNCHANGED <<fw, boot, initrd, discarded, part, sbin, bootMounted,
                   rebooting, pc, job>>

ImNothingToDo ==
    /\ mode = "im_check" /\ (image = Absent \/ rootInfo = Absent)
    /\ mode' = "im_exit"
    /\ UNCHANGED <<fw, card, bootMounted, rebooting, pc, job>>

\* dd copies the sectors of root_info to the start of the partition.
ImageOverflows == image \in Versions /\ rootInfo = image /\ ~RootHolds(image)

ImCopyEnds ==
    /\ mode = "im_write" /\ ~ImageOverflows
    /\ mode' = "im_rm"
    /\ rootC' = IF image \in Versions /\ rootInfo = image THEN image ELSE Torn
    /\ reboot' = "real" /\ rebootBak' = "absent"
    /\ UNCHANGED <<fw, boot, initrd, discarded, rootAt, part, bootMounted, rebooting,
                   pc, job>>

ImCopyFails ==
    /\ mode = "im_write" /\ (ImageOverflows \/ MayFail("initramfs"))
    /\ mode' = "im_exit"
    /\ UNCHANGED <<fw, card, bootMounted, rebooting, pc, job>>

\* rm -rf FW_DIR, in whatever order the directory lists its entries (the markers that
\* only `fwupdate status` reads go together)
ImRemove ==
    /\ mode = "im_rm"
    /\ \/ archive # Absent /\ archive' = Absent
          /\ UNCHANGED <<flags, image, bootInfo, rootInfo, oldBoot>>
       \/ image # Absent /\ image' = Absent
          /\ UNCHANGED <<flags, archive, bootInfo, rootInfo, oldBoot>>
       \/ bootInfo # Absent /\ bootInfo' = Absent
          /\ UNCHANGED <<flags, archive, image, rootInfo, oldBoot>>
       \/ rootInfo # Absent /\ rootInfo' = Absent
          /\ UNCHANGED <<flags, archive, image, bootInfo, oldBoot>>
       \/ oldBoot # "absent" /\ oldBoot' = (IF oldBoot = "none" THEN "absent" ELSE "none")
          /\ UNCHANGED <<flags, archive, image, bootInfo, rootInfo>>
       \/ \E f \in {Started \union {"error"}} \union {{d} : d \in Done} :
             f \intersect flags # {} /\ flags' = flags \ f
          /\ UNCHANGED <<archive, image, bootInfo, rootInfo, oldBoot>>
    /\ UNCHANGED <<card, machine, pc, job>>

ImRemoved ==
    /\ mode = "im_rm"
    /\ fw = <<{}, Absent, Absent, Absent, Absent, "absent">>
    /\ mode' = "im_exit"
    /\ UNCHANGED <<fw, card, bootMounted, rebooting, pc, job>>

\* cleanup_on_exit: /remove_initramfs, sync, sysrq b
ImExit ==
    /\ mode = "im_exit"
    /\ initrd' = FALSE
    /\ PowerDown
    /\ UNCHANGED <<fw, boot, discarded, rootFs, part, sbin>>

-----------------------------------------------------------------------------
DownloadStep(p) ==
    \/ DlWipe1(p) \/ DlWipe2(p) \/ DlWipe3(p) \/ DlLocal(p) \/ DlCopied(p)
    \/ DlStart(p) \/ DlLowSpace(p) \/ DlNoSpace(p) \/ DlFetched(p) \/ DlFailed(p)
    \/ DlAborted(p)

ExtractStep(p) ==
    \/ ExStart(p) \/ ExRefuse(p) \/ ExUnpacked(p) \/ ExUnpackFailed(p)
    \/ ExBootInfo(p) \/ ExRootInfo(p) \/ ExDone(p) \/ ExHookFailed(p) \/ ExReadFailed(p)

FlashBootStep(p) ==
    \/ FbStart(p) \/ FbRefuse(p) \/ FbBackup(p) \/ FbCopied(p) \/ FbBackupFailed(p)
    \/ FbUmount(p) \/ FbMoveReboot(p) \/ FbStubReboot(p) \/ FbStubFailed(p)
    \/ FbPartition(p) \/ FbNoRoom(p) \/ FbFlash(p) \/ FbFlashed(p) \/ FbFlashFailed(p)
    \/ FbMount(p) \/ FbRestore(p) \/ FbRestored(p) \/ FbRestoreFailed(p) \/ FbDone(p)
    \/ FbFdiskFailed(p)

FlashRebootStep(p) ==
    \/ FrStart(p) \/ FrRefuse(p) \/ FrPartition(p) \/ FrNoRoom(p) \/ FrPrepare(p)
    \/ FrPrepareFailed(p) \/ FrReboot(p) \/ FrForced(p)
    \/ FrFdiskFailed(p) \/ FrScriptFailed(p) \/ FrReleaseFailed(p)

CleanupStep(p) ==
    ClRemoveStub(p) \/ ClRestoreReboot(p) \/ ClRemountBoot(p) \/ ClFlags(p)

Step(p) ==
    \/ DownloadStep(p) \/ ExtractStep(p) \/ FlashBootStep(p) \/ FlashRebootStep(p)
    \/ CleanupStep(p)

Im == ImCopyStarts \/ ImNothingToDo \/ ImCopyEnds \/ ImCopyFails \/ ImRemove
      \/ ImRemoved \/ ImExit

Machine == RequestReboot \/ Shutdown \/ Poweroff \/ Halt \/ PowerCut \/ Dead

Boot == BootNormal \/ BootInitramfs \/ BootFails

Next ==
    \/ \E p \in Procs : Step(p)
    \/ \E p \in Procs, cmd \in Commands, v \in Versions \union {Absent} : Start(p, cmd, v)
    \/ Machine \/ Boot \/ Im

Spec == Init /\ [][Next]_vars

\* The scheduler runs every process, init finishes a shutdown and the machine is
\* switched on again; the power supply does not interrupt the same step of the
\* initramfs for ever.
FairSpec ==
    /\ Spec
    /\ \A p \in Procs : WF_vars(Step(p))
    /\ WF_vars(Shutdown) /\ WF_vars(Halt) /\ WF_vars(Boot)
    /\ SF_vars(ImCopyStarts) /\ SF_vars(ImNothingToDo) /\ SF_vars(ImCopyEnds)
    /\ SF_vars(ImRemove) /\ SF_vars(ImRemoved) /\ SF_vars(ImExit)

-----------------------------------------------------------------------------
(***************************************************************************)
(* Properties                                                              *)
(***************************************************************************)

\* While the root partition is torn (only the initramfs ever writes to it) the
\* device is able to start the copy over: boot partition readable, initramfs still
\* selected, image and root_info still there (init:99-124, the order of dd, rm
\* and /remove_initramfs).  Unless the image it copies was thrown away: a command that
\* fails after fw-prepare-boot (fwupdate:608-615) leaves the system up with the
\* initramfs selected, and nothing keeps a download or an extraction from starting.
TornRootRecoverable ==
    rootC = Torn /\ ~discarded =>
        /\ BootReadable /\ initrd
        /\ image \in Versions /\ rootInfo = image
        /\ Fits(part.root, Layout[image].root)

\* Whenever the initramfs is selected, and no later download or extraction has thrown
\* the image away, either everything it needs to install the version the boot partition
\* already has is there, or that version is installed (a new boot partition never runs
\* with an old root partition after the update).
ArmedUpdateConsistent ==
    initrd /\ ~discarded =>
        /\ bootC \in Versions
        /\ \/ image = bootC /\ rootInfo = bootC /\ Fits(part.root, Layout[bootC].root)
           \/ rootC = bootC

\* A *_done marker never vouches for a file or a partition that is torn or belongs to
\* another version, whatever was interrupted (the order in which the stages
\* remove and create their markers, fwupdate:320-326, 453-459, 527-530).
DoneMarkersTruthful ==
    /\ "download_done" \in flags => archive # Torn
    /\ "extract_done" \in flags =>
          /\ image # Torn
          /\ image # Absent => {bootInfo, rootInfo} \subseteq {image, Absent}
    /\ "flash_boot_done" \in flags =>
          /\ bootC # Torn
          /\ image # Absent => image = bootC

\* The only ways an update can leave a device that does not boot: the boot partition
\* was being rewritten, a partition was moved and its content not rewritten yet, or the
\* initramfs copied an image that was thrown away while it was selected.  A copy that is
\* cut or a half-wiped FW_DIR is never one.
DeadOnlyIfBootTornOrMoved ==
    mode = "dead" =>
        \/ bootC = Torn
        \/ ~Fits(part.boot, Layout[bootC].boot)
        \/ rootC \in Versions /\ ~RootReadable
        \/ rootC = Torn /\ discarded

AllIdle == mode = "up" /\ \A p \in Procs : pc[p] = "idle"

\* /boot is read-only again whenever no fwupdate runs (cleanup_on_exit:133-136).
BootReadOnlyAtRest == AllIdle => bootMounted # "rw"

\* The steps between the stub and the end of flash boot
BootWindow == {"fb_part", "fb_dd", "fb_write", "fb_mount", "fb_defaults",
               "fb_restore", "fb_done"}

\* No reboot starts while the boot partition is being replaced ("Prevent
\* unwanted reboots during firmware install", fwupdate:541).
NoRebootStartsInBootWindow ==
    [][~rebooting /\ rebooting' => \A p \in Procs : pc[p] \notin BootWindow]_vars

\* Once the boot configuration stops selecting the initramfs, the root partition has
\* the version of the boot partition; unless the boot partition is being replaced, its
\* configuration with it, or the image was thrown away.
UpdateEndsWithMatchingRoot ==
    [][initrd /\ ~initrd' => bootC' = Torn \/ discarded \/ rootC' = bootC']_vars

\* After fwupdate has ended, /sbin/reboot is the real one: "reboot at least once an
\* hour in case of panic" (panic:5) depends on it.
RebootRestored == AllIdle => reboot = "real" /\ rebootBak = "absent"

\* The factory defaults are whole on the boot partition whenever no fwupdate runs,
\* however often the stages are repeated (fwupdate:538, 561-564).
FactoryDefaultsInPlace == AllIdle => fdBoot = "good"

\* Whatever failed before, a flash boot that reports its end has put back the factory
\* defaults that old_boot holds, though the boot partition it found, and backed up into
\* a directory that was there, may have been without them (fwupdate:538, 561-564).
DefaultsBroughtBack ==
    "flash_boot_done" \in flags /\ oldBoot = "good" => fdBoot = "good"

\* `fwupdate status` "shows the current firmware installing process status": a stage
\* that runs is shown, and when nothing runs nothing is shown as running
\* (cleanup_on_exit:138 removes the flags "since corresponding processes have
\* normally exited").
StatusFollowsProcesses ==
    /\ AllIdle => flags \intersect Started = {}
    /\ \A p \in Procs :
          /\ pc[p] = "dl_fetch" => "download_started" \in flags
          /\ pc[p] \in ExtractSteps \ {"ex_start"} => "extract_started" \in flags
          /\ pc[p] \in FlashBootSteps \ {"fb_start"} => "flash_boot_started" \in flags
          /\ pc[p] \in FlashRebootSteps \ {"fr_start"} => "flash_reboot_started" \in flags

\* An update that has reached the point where the boot configuration selects the
\* initramfs is completed, however often the power is cut and even if
\* /sbin/reboot is still the stub of an interrupted update (fwupdate:618-620).
UpdateCompletes ==
    \A v \in Versions : (initrd /\ image = v) ~> (mode = "up" /\ rootC = v /\ ~initrd)

-----------------------------------------------------------------------------
(***************************************************************************)
(* The update as one atomic change.  While the root partition is torn it   *)
(* counts as the version that is being copied, which is the one of the     *)
(* boot partition; an update is pending while the initramfs is selected,   *)
(* and void once its image was thrown away.                                *)
(***************************************************************************)
Update == INSTANCE AtomicUpdate
    WITH boot <- bootC,
         root <- IF rootC = Torn /\ ~discarded THEN bootC ELSE rootC,
         pending <- IF ~initrd THEN Absent ELSE IF discarded THEN Torn ELSE bootC,
         None <- Absent, Void <- Torn

\* The staged update implements the atomic one: neither a power cut nor a failing
\* command nor a repeated stage makes the device run, or end an update with, anything
\* but a whole version that was pending, unless its image was thrown away
\* (fwupdate:593-640, init:85-138).
UpdateIsAtomic == Update!Spec
=============================================================================
