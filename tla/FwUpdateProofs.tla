--------------------------- MODULE FwUpdateProofs ---------------------------
(***************************************************************************)
(* The safety properties of FwUpdate for every set of versions, every      *)
(* layout of their partitions, every combination of failing commands and   *)
(* any number of power cuts, as long as one fwupdate runs at a time and    *)
(* the copy in the initramfs does not fail.  RebootIsRestored,             *)
(* StatusFollowsTheProcesses and FactoryDefaultsStayInPlace are about      *)
(* updates that no power cut and no other reboot disturbs, and allow that  *)
(* copy to fail.  A command that fails after the initramfs was selected    *)
(* leaves the system up with an update pending; what a later stage then    *)
(* throws away is recorded in `discarded', and the statements except it.   *)
(* The last theorem is that FwUpdate implements AtomicUpdate.              *)
(***************************************************************************)
EXTENDS FwUpdate, TLAPS

\* The two hypotheses.  What two processes at once can do, TLC shows; a failing dd in
\* the initramfs leaves a torn root partition and the normal boot selected.
OneAtATime == \A p, q \in Procs : p = q
ReliableCopy == "initramfs" \notin Faults

-----------------------------------------------------------------------------
(***************************************************************************)
(* The inductive invariant                                                 *)
(***************************************************************************)

\* Processes run only while the system is up, and only clean up while it stops.
ProcessesFollowMode ==
    /\ mode \notin {"up", "stopping"} => \A p \in Procs : pc[p] = "idle"
    /\ mode = "stopping" => \A p \in Procs : pc[p] \in CleanupSteps \union {"idle"}

\* The download and extract stages work without the markers they will create, and
\* leave the partition infos of the image they unpacked.
StagesBeforeFlash ==
    \A p \in Procs :
        /\ pc[p] \in DownloadSteps => job[p].ver \in Versions
        /\ pc[p] \in DownloadSteps \ {"dl_wipe1"} =>
              {"download_done", "extract_done"} \intersect flags = {}
        /\ pc[p] \in ExtractSteps \ {"ex_start"} =>
              {"extract_done", "flash_boot_done"} \intersect flags = {}
        /\ pc[p] \in {"ex_bootinfo", "ex_rootinfo", "ex_hook"} => image \in Versions
        /\ pc[p] \in {"ex_rootinfo", "ex_hook"} => bootInfo = image
        /\ pc[p] = "ex_hook" => rootInfo = image

\* Flash boot works on an extracted image, with /sbin/reboot replaced, and without
\* its marker until the boot partition is that image's.  From dd on, nothing is selected
\* or discarded any more.
FlashingBoot ==
    \A p \in Procs :
        /\ pc[p] \in FlashBootSteps \ {"fb_start"} =>
              /\ "extract_done" \in flags /\ "flash_boot_done" \notin flags
              /\ image # Absent
        /\ pc[p] \in FlashBootSteps \ {"fb_start", "fb_backup"} =>
              bootInfo = image /\ job[p].ver = image
        /\ pc[p] \in BootWindow => reboot = "stub"
        /\ pc[p] \in BootWindow \ {"fb_part", "fb_dd"} => ~initrd /\ ~discarded
        /\ pc[p] = "fb_write" => bootC = Torn
        /\ pc[p] \in {"fb_mount", "fb_defaults", "fb_restore", "fb_done"} => bootC = image
        /\ pc[p] \in {"fb_defaults", "fb_restore", "fb_done"} => BootReadable

\* Flash reboot keeps the marker of flash boot, and makes room for the new root.
FlashingReboot ==
    /\ "flash_boot_done" \in flags =>
          /\ BootReadable /\ ~discarded
          /\ image # Absent => bootInfo \in {image, Absent}
    /\ \A p \in Procs :
        /\ pc[p] \in {"fr_part", "fr_prepare"} => "flash_boot_done" \in flags
        /\ pc[p] = "fr_prepare" => Fits(part.root, RootExtent)

\* Once the initramfs is selected, and as long as nobody throws the image away: image
\* and root_info, while both exist, are those of the version on the boot partition;
\* they do exist while the system is up; when they are not there any more the root is
\* installed; and no stage finds a reason to move a partition.
Armed ==
    /\ \A p \in Procs :
          pc[p] \in {"dl_wipe3"} \union (ExtractSteps \ {"ex_start"}) /\ initrd => discarded
    /\ initrd /\ ~discarded =>
          /\ BootReadable /\ bootInfo \in {bootC, Absent}
          /\ image # Absent /\ rootInfo # Absent =>
                image = bootC /\ rootInfo = bootC /\ Fits(part.root, Layout[bootC].root)
          /\ image = Absent \/ rootInfo = Absent =>
                rootC = bootC /\ mode \notin {"up", "stopping"}

InInitramfs ==
    /\ mode \in Initramfs => initrd
    /\ mode = "im_write" => image # Absent /\ rootInfo # Absent
    /\ mode \in {"im_rm", "im_exit"} => rootC = bootC \/ discarded

\* The root partition is torn only between the start and the end of the copy, unless it
\* is a copy of an image that was thrown away; and never in a system that is up.
TornOnlyInCopy ==
    rootC = Torn =>
        /\ mode \notin {"up", "stopping"}
        /\ discarded \/ (initrd /\ mode \in {"off", "im_check", "im_write"})

\* Whoever mounted /boot read-write will run the cleanup, and knows what to undo.
RwWillBeUndone ==
    mode = "up" /\ bootMounted = "rw" =>
        \A p \in Procs :
            /\ job[p].rw /\ job[p].trap
            /\ pc[p] \in {"fb_defaults", "fb_restore", "fb_done"} \union FlashRebootSteps
                         \union {"cl_rm", "cl_mv", "cl_boot"}

TrapsSet ==
    \A p \in Procs :
        pc[p] \in (FlashBootSteps \union FlashRebootSteps) \ {"fb_start", "fr_start"} =>
            job[p].trap

IInv ==
    /\ TypeOK
    /\ ProcessesFollowMode
    /\ StagesBeforeFlash
    /\ FlashingBoot
    /\ FlashingReboot
    /\ Armed
    /\ InInitramfs
    /\ TornOnlyInCopy
    /\ RwWillBeUndone
    /\ TrapsSet
    /\ DoneMarkersTruthful
    /\ DeadOnlyIfBootTornOrMoved
-----------------------------------------------------------------------------
(***************************************************************************)
(* Type correctness                                                        *)
(***************************************************************************)

LEMMA GotoType ==
    ASSUME pc \in [Procs -> Steps], NEW p \in Procs, NEW s \in Steps, Goto(p, s)
    PROVE  pc' \in [Procs -> Steps]
BY DEF Goto

LEMMA FinishType ==
    ASSUME pc \in [Procs -> Steps], NEW p \in Procs, NEW s \in Steps, Finish(p, s)
    PROVE  pc' \in [Procs -> Steps]
BY GotoType DEF Finish, Steps, CleanupSteps

LEMMA LeaveType ==
    ASSUME pc \in [Procs -> Steps], NEW p \in Procs, Leave(p)
    PROVE  pc' \in [Procs -> Steps]
BY GotoType DEF Leave, Steps, CleanupSteps

LEMMA TrapType ==
    ASSUME job \in [Procs -> Job], NEW p \in Procs, SetTrap(p)
    PROVE  job' \in [Procs -> Job]
BY DEF SetTrap, Job

LEMMA RwType ==
    ASSUME job \in [Procs -> Job], NEW p \in Procs, MarkRw(p)
    PROVE  job' \in [Procs -> Job]
BY DEF MarkRw, Job

LEMMA VerType ==
    ASSUME job \in [Procs -> Job], NEW p \in Procs, NEW v \in Content,
           job' = [job EXCEPT ![p].ver = v]
    PROVE  job' \in [Procs -> Job]
BY DEF Job

\* Losing power, or the end of a shutdown, leaves no process and no mount.
LEMMA PowerDownType ==
    ASSUME PowerDown
    PROVE  /\ pc' \in [Procs -> Steps] /\ job' \in [Procs -> Job]
           /\ mode' \in Modes /\ bootMounted' \in {"no", "ro", "rw"}
           /\ rebooting' \in BOOLEAN
BY DEF PowerDown, NoJob, Job, Cmds, Content, Steps, Modes

LEMMA DownloadType ==
    ASSUME TypeOK, NEW p \in Procs, DownloadStep(p)
    PROVE  TypeOK'
<1> USE DEF TypeOK, Content, Flags, Started, Done, FactoryDefaults, fw,
        boot, rootFs, sbin, card, machine
<1>DlWipe1. CASE DlWipe1(p)
  BY <1>DlWipe1, GotoType DEF DlWipe1, Steps, DownloadSteps
<1>DlWipe2. CASE DlWipe2(p)
  BY <1>DlWipe2, GotoType DEF DlWipe2, DiscardImage, Steps, DownloadSteps
<1>DlWipe3. CASE DlWipe3(p)
  <2>1. pc' \in [Procs -> Steps]
    BY <1>DlWipe3, GotoType, FinishType, LeaveType
    DEF DlWipe3, Steps, DownloadSteps, ExtractSteps, FlashBootSteps,
        FlashRebootSteps, CleanupSteps
  <2>2. job' \in [Procs -> Job]
    BY <1>DlWipe3, TrapType, RwType, VerType DEF DlWipe3
  <2> QED BY <1>DlWipe3, <2>1, <2>2 DEF DlWipe3
<1>DlLocal. CASE DlLocal(p)
  BY <1>DlLocal, GotoType DEF DlLocal, Steps, DownloadSteps
<1>DlCopied. CASE DlCopied(p)
  <2>1. job' \in [Procs -> Job]
    BY <1>DlCopied, VerType DEF DlCopied
  <2>2. job[p].ver \in Content
    BY DEF Job
  <2>3. pc' \in [Procs -> Steps]
    BY <1>DlCopied, FinishType DEF DlCopied, Steps, ExtractSteps
  <2> QED BY <1>DlCopied, <2>1, <2>2, <2>3 DEF DlCopied
<1>DlStart. CASE DlStart(p)
  BY <1>DlStart, GotoType DEF DlStart, Download, Steps, DownloadSteps
<1>DlLowSpace. CASE DlLowSpace(p)
  BY <1>DlLowSpace, GotoType DEF DlLowSpace, Download, Steps, DownloadSteps
<1>DlNoSpace. CASE DlNoSpace(p)
  BY <1>DlNoSpace, LeaveType DEF DlNoSpace, Refuse
<1>DlFetched. CASE DlFetched(p)
  <2>1. job' \in [Procs -> Job]
    BY <1>DlFetched, VerType DEF DlFetched
  <2>2. job[p].ver \in Content
    BY DEF Job
  <2>3. pc' \in [Procs -> Steps]
    BY <1>DlFetched, FinishType DEF DlFetched, Steps, ExtractSteps
  <2> QED BY <1>DlFetched, <2>1, <2>2, <2>3 DEF DlFetched
<1>DlFailed. CASE DlFailed(p)
  BY <1>DlFailed, LeaveType DEF DlFailed
<1>DlAborted. CASE DlAborted(p)
  BY <1>DlAborted, LeaveType DEF DlAborted
<1> QED BY <1>DlWipe1, <1>DlWipe2, <1>DlWipe3, <1>DlLocal, <1>DlCopied, <1>DlStart,
          <1>DlLowSpace, <1>DlNoSpace, <1>DlFetched, <1>DlFailed,
          <1>DlAborted
    DEF DownloadStep

LEMMA ExtractType ==
    ASSUME TypeOK, NEW p \in Procs, ExtractStep(p)
    PROVE  TypeOK'
<1> USE DEF TypeOK, Content, Flags, Started, Done, FactoryDefaults, fw,
        boot, rootFs, sbin, card, machine
<1>ExStart. CASE ExStart(p)
  <2>1. pc' \in [Procs -> Steps]
    BY <1>ExStart, GotoType, FinishType, LeaveType
    DEF ExStart, ExtractResets, Steps, DownloadSteps, ExtractSteps, FlashBootSteps,
        FlashRebootSteps, CleanupSteps
  <2>2. job' \in [Procs -> Job]
    BY <1>ExStart, TrapType, RwType, VerType DEF ExStart
  <2> QED BY <1>ExStart, <2>1, <2>2 DEF ExStart, ExtractResets, DiscardImage
<1>ExRefuse. CASE ExRefuse(p)
  BY <1>ExRefuse, LeaveType DEF ExRefuse, Refuse
<1>ExUnpacked. CASE ExUnpacked(p)
  BY <1>ExUnpacked, GotoType DEF ExUnpacked, Steps, ExtractSteps
<1>ExUnpackFailed. CASE ExUnpackFailed(p)
  BY <1>ExUnpackFailed, LeaveType DEF ExUnpackFailed
<1>ExBootInfo. CASE ExBootInfo(p)
  BY <1>ExBootInfo, GotoType DEF ExBootInfo, Steps, ExtractSteps
<1>ExRootInfo. CASE ExRootInfo(p)
  BY <1>ExRootInfo, GotoType DEF ExRootInfo, Steps, ExtractSteps
<1>ExDone. CASE ExDone(p)
  <2>1. pc' \in [Procs -> Steps]
    BY <1>ExDone, GotoType, FinishType, LeaveType
    DEF ExDone, Steps, DownloadSteps, ExtractSteps, FlashBootSteps,
        FlashRebootSteps, CleanupSteps
  <2>2. job' \in [Procs -> Job]
    BY <1>ExDone, TrapType, RwType, VerType DEF ExDone
  <2> QED BY <1>ExDone, <2>1, <2>2 DEF ExDone
<1>ExHookFailed. CASE ExHookFailed(p)
  BY <1>ExHookFailed, LeaveType DEF ExHookFailed, Refuse
<1>ExReadFailed. CASE ExReadFailed(p)
  BY <1>ExReadFailed, LeaveType DEF ExReadFailed
<1> QED BY <1>ExStart, <1>ExRefuse, <1>ExUnpacked, <1>ExUnpackFailed, <1>ExBootInfo,
          <1>ExRootInfo, <1>ExDone, <1>ExHookFailed, <1>ExReadFailed
    DEF ExtractStep

LEMMA FlashBootType ==
    ASSUME TypeOK, NEW p \in Procs, FlashBootStep(p)
    PROVE  TypeOK'
<1> USE DEF TypeOK, Content, Flags, Started, Done, FactoryDefaults, fw,
        boot, rootFs, sbin, card, machine
<1>FbStart. CASE FbStart(p)
  <2>1. pc' \in [Procs -> Steps]
    BY <1>FbStart, GotoType, FinishType, LeaveType
    DEF FbStart, Steps, DownloadSteps, ExtractSteps, FlashBootSteps,
        FlashRebootSteps, CleanupSteps
  <2>2. job' \in [Procs -> Job]
    BY <1>FbStart, TrapType, RwType, VerType DEF FbStart
  <2> QED BY <1>FbStart, <2>1, <2>2 DEF FbStart
<1>FbRefuse. CASE FbRefuse(p)
  BY <1>FbRefuse, LeaveType DEF FbRefuse, Refuse
<1>FbBackup. CASE FbBackup(p)
  <2>1. pc' \in [Procs -> Steps]
    BY <1>FbBackup, GotoType, FinishType, LeaveType
    DEF FbBackup, BootDirDefaults, Steps, DownloadSteps, ExtractSteps, FlashBootSteps,
        FlashRebootSteps, CleanupSteps
  <2>2. job' \in [Procs -> Job]
    BY <1>FbBackup, TrapType, RwType, VerType DEF FbBackup
  <2> QED BY <1>FbBackup, <2>1, <2>2 DEF FbBackup, BootDirDefaults
<1>FbCopied. CASE FbCopied(p)
  BY <1>FbCopied, GotoType DEF FbCopied, BootDirDefaults, Steps, FlashBootSteps
<1>FbBackupFailed. CASE FbBackupFailed(p)
  BY <1>FbBackupFailed, LeaveType DEF FbBackupFailed
<1>FbUmount. CASE FbUmount(p)
  BY <1>FbUmount, GotoType DEF FbUmount, Steps, FlashBootSteps
<1>FbMoveReboot. CASE FbMoveReboot(p)
  BY <1>FbMoveReboot, GotoType DEF FbMoveReboot, Steps, FlashBootSteps
<1>FbStubReboot. CASE FbStubReboot(p)
  BY <1>FbStubReboot, GotoType DEF FbStubReboot, Stub, Steps, FlashBootSteps
<1>FbStubFailed. CASE FbStubFailed(p)
  BY <1>FbStubFailed, LeaveType DEF FbStubFailed
<1>FbPartition. CASE FbPartition(p)
  BY <1>FbPartition, GotoType, LayoutAssumption
  DEF FbPartition, NewBootTable, BootExtent, Steps, FlashBootSteps
<1>FbNoRoom. CASE FbNoRoom(p)
  BY <1>FbNoRoom, LeaveType DEF FbNoRoom
<1>FbFlash. CASE FbFlash(p)
  <2> DEFINE v == IF image = job[p].ver THEN job[p].ver ELSE Torn
  <2>1. job' = [job EXCEPT ![p].ver = v]
    BY <1>FbFlash DEF FbFlash, Job
  <2>2. v \in Content
    BY DEF Job
  <2>3. job' \in [Procs -> Job]
    BY <2>1, <2>2, VerType
  <2>4. pc' \in [Procs -> Steps]
    BY <1>FbFlash, GotoType DEF FbFlash, Steps, FlashBootSteps
  <2>5. /\ bootC' = Torn /\ fdBoot' = "none"
        /\ initrd' \in BOOLEAN /\ discarded' \in BOOLEAN
        /\ UNCHANGED <<fw, rootFs, part, sbin, machine>>
    BY <1>FbFlash DEF FbFlash
  <2> QED BY <2>3, <2>4, <2>5
<1>FbFlashed. CASE FbFlashed(p)
  BY <1>FbFlashed, GotoType DEF FbFlashed, Steps, FlashBootSteps
<1>FbFlashFailed. CASE FbFlashFailed(p)
  BY <1>FbFlashFailed, LeaveType DEF FbFlashFailed
<1>FbMount. CASE FbMount(p)
  <2>1. pc' \in [Procs -> Steps]
    BY <1>FbMount, GotoType, FinishType, LeaveType
    DEF FbMount, Steps, DownloadSteps, ExtractSteps, FlashBootSteps,
        FlashRebootSteps, CleanupSteps
  <2>2. job' \in [Procs -> Job]
    BY <1>FbMount, TrapType, RwType, VerType DEF FbMount
  <2> QED BY <1>FbMount, <2>1, <2>2 DEF FbMount
<1>FbRestore. CASE FbRestore(p)
  BY <1>FbRestore, GotoType DEF FbRestore, Steps, FlashBootSteps
<1>FbRestored. CASE FbRestored(p)
  BY <1>FbRestored, GotoType DEF FbRestored, Steps, FlashBootSteps
<1>FbDone. CASE FbDone(p)
  <2>1. pc' \in [Procs -> Steps]
    BY <1>FbDone, GotoType, FinishType, LeaveType
    DEF FbDone, Steps, DownloadSteps, ExtractSteps, FlashBootSteps,
        FlashRebootSteps, CleanupSteps
  <2>2. job' \in [Procs -> Job]
    BY <1>FbDone, TrapType, RwType, VerType DEF FbDone
  <2> QED BY <1>FbDone, <2>1, <2>2 DEF FbDone
<1>FbFdiskFailed. CASE FbFdiskFailed(p)
  <2>1. NewBootTable \in [boot : Extent, root : Extent]
    BY LayoutAssumption DEF NewBootTable, BootExtent
  <2> QED BY <1>FbFdiskFailed, <2>1, LeaveType DEF FbFdiskFailed
<1>FbRestoreFailed. CASE FbRestoreFailed(p)
  BY <1>FbRestoreFailed, LeaveType DEF FbRestoreFailed
<1> QED BY <1>FbStart, <1>FbRefuse, <1>FbBackup, <1>FbCopied, <1>FbBackupFailed,
          <1>FbUmount, <1>FbMoveReboot, <1>FbStubReboot, <1>FbStubFailed,
          <1>FbPartition, <1>FbNoRoom, <1>FbFlash, <1>FbFlashed, <1>FbFlashFailed,
          <1>FbMount, <1>FbRestore, <1>FbRestored, <1>FbDone,
          <1>FbFdiskFailed, <1>FbRestoreFailed
    DEF FlashBootStep

LEMMA FlashRebootType ==
    ASSUME TypeOK, NEW p \in Procs, FlashRebootStep(p)
    PROVE  TypeOK'
<1> USE DEF TypeOK, Content, Flags, Started, Done, FactoryDefaults, fw,
        boot, rootFs, sbin, card, machine
<1>FrStart. CASE FrStart(p)
  <2>1. pc' \in [Procs -> Steps]
    BY <1>FrStart, GotoType, FinishType, LeaveType
    DEF FrStart, Steps, DownloadSteps, ExtractSteps, FlashBootSteps,
        FlashRebootSteps, CleanupSteps
  <2>2. job' \in [Procs -> Job]
    BY <1>FrStart, TrapType, RwType, VerType DEF FrStart
  <2> QED BY <1>FrStart, <2>1, <2>2 DEF FrStart
<1>FrRefuse. CASE FrRefuse(p)
  BY <1>FrRefuse, LeaveType DEF FrRefuse, Refuse
<1>FrPartition. CASE FrPartition(p)
  BY <1>FrPartition, GotoType, LayoutAssumption
  DEF FrPartition, NewRootTable, RootExtent, Steps, FlashRebootSteps
<1>FrNoRoom. CASE FrNoRoom(p)
  BY <1>FrNoRoom, LeaveType DEF FrNoRoom
<1>FrPrepare. CASE FrPrepare(p)
  <2>1. pc' \in [Procs -> Steps]
    BY <1>FrPrepare, GotoType, FinishType, LeaveType
    DEF FrPrepare, Steps, DownloadSteps, ExtractSteps, FlashBootSteps,
        FlashRebootSteps, CleanupSteps
  <2>2. job' \in [Procs -> Job]
    BY <1>FrPrepare, TrapType, RwType, VerType DEF FrPrepare
  <2> QED BY <1>FrPrepare, <2>1, <2>2 DEF FrPrepare
<1>FrPrepareFailed. CASE FrPrepareFailed(p)
  BY <1>FrPrepareFailed, LeaveType DEF FrPrepareFailed
<1>FrReboot. CASE FrReboot(p)
  BY <1>FrReboot, GotoType DEF FrReboot, Steps, FlashRebootSteps
<1>FrForced. CASE FrForced(p)
  BY <1>FrForced, PowerDownType DEF FrForced
<1>FrFdiskFailed. CASE FrFdiskFailed(p)
  <2>1. NewRootTable \in [boot : Extent, root : Extent]
    BY LayoutAssumption DEF NewRootTable, RootExtent
  <2> QED BY <1>FrFdiskFailed, <2>1, LeaveType DEF FrFdiskFailed
<1>FrScriptFailed. CASE FrScriptFailed(p)
  <2>1. pc' \in [Procs -> Steps] /\ job' \in [Procs -> Job]
    BY <1>FrScriptFailed, LeaveType, RwType DEF FrScriptFailed
  <2>2. initrd' \in BOOLEAN
    BY <1>FrScriptFailed DEF FrScriptFailed
  <2> QED BY <1>FrScriptFailed, <2>1, <2>2 DEF FrScriptFailed
<1>FrReleaseFailed. CASE FrReleaseFailed(p)
  BY <1>FrReleaseFailed, LeaveType DEF FrReleaseFailed
<1> QED BY <1>FrStart, <1>FrRefuse, <1>FrPartition, <1>FrNoRoom, <1>FrPrepare,
          <1>FrPrepareFailed, <1>FrReboot, <1>FrForced,
          <1>FrFdiskFailed, <1>FrScriptFailed, <1>FrReleaseFailed
    DEF FlashRebootStep

LEMMA CleanupType ==
    ASSUME TypeOK, NEW p \in Procs, CleanupStep(p)
    PROVE  TypeOK'
<1> USE DEF TypeOK, Content, Flags, Started, Done, FactoryDefaults, fw,
        boot, rootFs, sbin, card, machine
<1>ClRemoveStub. CASE ClRemoveStub(p)
  <2>1. pc' \in [Procs -> Steps]
    BY <1>ClRemoveStub, GotoType, FinishType, LeaveType
    DEF ClRemoveStub, Steps, DownloadSteps, ExtractSteps, FlashBootSteps,
        FlashRebootSteps, CleanupSteps
  <2>2. job' \in [Procs -> Job]
    BY <1>ClRemoveStub, TrapType, RwType, VerType DEF ClRemoveStub
  <2> QED BY <1>ClRemoveStub, <2>1, <2>2 DEF ClRemoveStub
<1>ClRestoreReboot. CASE ClRestoreReboot(p)
  BY <1>ClRestoreReboot, GotoType DEF ClRestoreReboot, Steps, CleanupSteps
<1>ClRemountBoot. CASE ClRemountBoot(p)
  BY <1>ClRemountBoot, GotoType DEF ClRemountBoot, Steps, CleanupSteps
<1>ClFlags. CASE ClFlags(p)
  BY <1>ClFlags, GotoType DEF ClFlags, ClearedOnExit, Steps, NoJob, Job, Cmds
<1> QED BY <1>ClRemoveStub, <1>ClRestoreReboot, <1>ClRemountBoot, <1>ClFlags
    DEF CleanupStep

LEMMA MachineType ==
    ASSUME TypeOK, Machine \/ Boot \/ Im
    PROVE  TypeOK'
<1> USE DEF TypeOK, Content, Flags, Started, Done, FactoryDefaults, Modes, Initramfs,
        fw, boot, rootFs, sbin, card, machine
<1>RequestReboot. CASE RequestReboot
  BY <1>RequestReboot DEF RequestReboot
<1>Stop. CASE Stop
  BY <1>Stop DEF Stop, Steps, CleanupSteps
<1>Halt. CASE Halt
  BY <1>Halt, PowerDownType DEF Halt
<1>PowerCut. CASE PowerCut
  BY <1>PowerCut, PowerDownType DEF PowerCut
<1>Dead. CASE Dead
  BY <1>Dead DEF Dead, vars
<1>BootNormal. CASE BootNormal
  BY <1>BootNormal DEF BootNormal
<1>BootInitramfs. CASE BootInitramfs
  BY <1>BootInitramfs DEF BootInitramfs
<1>BootFails. CASE BootFails
  BY <1>BootFails DEF BootFails
<1>ImCopyStarts. CASE ImCopyStarts
  <2>1. part.root.start \in Nat
    BY DEF Extent
  <2> QED BY <1>ImCopyStarts, <2>1 DEF ImCopyStarts
<1>ImNothingToDo. CASE ImNothingToDo
  BY <1>ImNothingToDo DEF ImNothingToDo
<1>ImCopyEnds. CASE ImCopyEnds
  BY <1>ImCopyEnds DEF ImCopyEnds
<1>ImCopyFails. CASE ImCopyFails
  BY <1>ImCopyFails DEF ImCopyFails
<1>ImRemove. CASE ImRemove
  <2>1. /\ archive' \in {archive, Absent} /\ image' \in {image, Absent}
        /\ bootInfo' \in {bootInfo, Absent} /\ rootInfo' \in {rootInfo, Absent}
        /\ oldBoot' \in {oldBoot, "none", "absent"} /\ flags' \subseteq flags
        /\ UNCHANGED <<card, machine, pc, job>>
    BY <1>ImRemove DEF ImRemove
  <2> QED BY <2>1
<1>ImRemoved. CASE ImRemoved
  BY <1>ImRemoved DEF ImRemoved
<1>ImExit. CASE ImExit
  <2>1. /\ initrd' \in BOOLEAN /\ PowerDown
        /\ UNCHANGED <<fw, boot, discarded, rootFs, part, sbin>>
    BY <1>ImExit DEF ImExit
  <2> QED BY <2>1, PowerDownType
<1> QED BY <1>RequestReboot, <1>Stop, <1>Halt, <1>PowerCut, <1>Dead, <1>BootNormal,
          <1>BootInitramfs, <1>BootFails, <1>ImCopyStarts, <1>ImNothingToDo, <1>ImCopyEnds,
          <1>ImCopyFails,
          <1>ImRemove, <1>ImRemoved, <1>ImExit
    DEF Machine, Shutdown, Poweroff, Boot, Im

LEMMA StartType ==
    ASSUME TypeOK, NEW p \in Procs, NEW cmd \in Commands,
           NEW v \in Versions \union {Absent}, Start(p, cmd, v)
    PROVE  TypeOK'
<1>1. pc' \in [Procs -> Steps]
  BY EnvironmentAssumption, GotoType
  DEF Start, TypeOK, First, Cmds, Steps, DownloadSteps, ExtractSteps, FlashBootSteps,
      FlashRebootSteps
<1>2. job' \in [Procs -> Job]
  BY EnvironmentAssumption DEF Start, TypeOK, Job, Content
<1> QED BY <1>1, <1>2 DEF Start, TypeOK, fw, boot, rootFs, sbin, card, machine

LEMMA NextType ==
    ASSUME TypeOK, [Next]_vars
    PROVE  TypeOK'
<1>1. CASE \E p \in Procs : Step(p)
  BY <1>1, DownloadType, ExtractType, FlashBootType, FlashRebootType, CleanupType DEF Step
<1>2. CASE \E p \in Procs, cmd \in Commands, v \in Versions \union {Absent} :
              Start(p, cmd, v)
  BY <1>2, StartType
<1>3. CASE Machine \/ Boot \/ Im
  BY <1>3, MachineType
<1>4. CASE UNCHANGED vars
  BY <1>4 DEF vars, fw, boot, rootFs, sbin, card, machine, TypeOK
<1> QED BY <1>1, <1>2, <1>3, <1>4 DEF Next

LEMMA InitType == Init => TypeOK
<1> SUFFICES ASSUME Init PROVE TypeOK
  OBVIOUS
<1>1. pc \in [Procs -> Steps]
  BY DEF Init, Steps
<1>2. job \in [Procs -> Job]
  BY DEF Init, NoJob, Job, Cmds, Content
<1>3. part \in [boot : Extent, root : Extent] /\ initrd \in BOOLEAN /\ rebooting \in BOOLEAN
      /\ discarded \in BOOLEAN /\ rootAt \in Nat
  BY VersionAssumption, LayoutAssumption DEF Init, Extent
<1>4. /\ flags \subseteq Flags
      /\ {archive, image, bootInfo, rootInfo} \subseteq Content
      /\ oldBoot \in FactoryDefaults \union {"absent"} /\ fdBoot \in FactoryDefaults
      /\ {bootC, rootC} \subseteq Versions \union {Torn}
      /\ {reboot, rebootBak} \subseteq {"real", "stub", "absent"}
      /\ mode \in Modes /\ bootMounted \in {"no", "ro", "rw"}
  BY VersionAssumption DEF Init, Flags, Content, FactoryDefaults, Modes
<1> QED BY <1>1, <1>2, <1>3, <1>4 DEF TypeOK

\* The state of the card, the machine and the processes is always what the code can
\* produce, for any number of processes.
THEOREM TypeCorrect == Spec => []TypeOK
BY InitType, NextType, PTL DEF Spec

-----------------------------------------------------------------------------
(***************************************************************************)
(* The inductive invariant is preserved                                    *)
(***************************************************************************)

LEMMA DownloadInv ==
    ASSUME OneAtATime, IInv, TypeOK', NEW p \in Procs, DownloadStep(p)
    PROVE  IInv'
<1> USE VersionAssumption
    DEF ProcessesFollowMode, StagesBeforeFlash, FlashingBoot, FlashingReboot, Armed,
        InInitramfs, TornOnlyInCopy, RwWillBeUndone, TrapsSet, DoneMarkersTruthful,
        DeadOnlyIfBootTornOrMoved, BootReadable, Fits, Initramfs, DownloadSteps,
        ExtractSteps, FlashBootSteps, FlashRebootSteps, CleanupSteps, BootWindow,
        fw, boot, rootFs, sbin, card, machine
<1>1. /\ pc \in [Procs -> Steps] /\ job \in [Procs -> Job] /\ mode \in Modes
      /\ {archive, image, bootInfo, rootInfo} \subseteq Versions \union {Torn, Absent}
      /\ bootC \in Versions \union {Torn}
  BY DEF IInv, TypeOK, Content
<1>2. \A q \in Procs : q = p
  BY DEF OneAtATime
<1>DlWipe1. CASE DlWipe1(p)
  BY <1>DlWipe1, <1>1, <1>2 DEF IInv, DlWipe1, At, Goto, RootExtent
<1>DlWipe2. CASE DlWipe2(p)
  BY <1>DlWipe2, <1>1, <1>2 DEF IInv, DlWipe2, DiscardImage, At, Goto, RootExtent
<1>DlWipe3. CASE DlWipe3(p)
  BY <1>DlWipe3, <1>1, <1>2 DEF IInv, DlWipe3, At, Goto, SetTrap, RootExtent
<1>DlLocal. CASE DlLocal(p)
  BY <1>DlLocal, <1>1, <1>2 DEF IInv, DlLocal, At, Goto, RootExtent
<1>DlCopied. CASE DlCopied(p)
  BY <1>DlCopied, <1>1, <1>2 DEF IInv, DlCopied, At, Goto, Finish, RootExtent
<1>DlStart. CASE DlStart(p)
  BY <1>DlStart, <1>1, <1>2 DEF IInv, DlStart, At, Goto, Download, RootExtent
<1>DlLowSpace. CASE DlLowSpace(p)
  BY <1>DlLowSpace, <1>1, <1>2 DEF IInv, DlLowSpace, At, Goto, Download, RootExtent
<1>DlNoSpace. CASE DlNoSpace(p)
  BY <1>DlNoSpace, <1>1, <1>2 DEF IInv, DlNoSpace, At, Goto, Refuse, Leave, RootExtent
<1>DlFetched. CASE DlFetched(p)
  BY <1>DlFetched, <1>1, <1>2 DEF IInv, DlFetched, At, Goto, Finish, RootExtent
<1>DlFailed. CASE DlFailed(p)
  BY <1>DlFailed, <1>1, <1>2 DEF IInv, DlFailed, At, Goto, Leave, RootExtent
<1>DlAborted. CASE DlAborted(p)
  BY <1>DlAborted, <1>1, <1>2 DEF IInv, DlAborted, At, Goto, Leave, RootExtent
<1> QED BY <1>DlWipe1, <1>DlWipe2, <1>DlWipe3, <1>DlLocal, <1>DlCopied, <1>DlStart,
          <1>DlLowSpace, <1>DlNoSpace, <1>DlFetched, <1>DlFailed,
          <1>DlAborted
    DEF DownloadStep

LEMMA ExtractInv ==
    ASSUME OneAtATime, IInv, TypeOK', NEW p \in Procs, ExtractStep(p)
    PROVE  IInv'
<1> USE VersionAssumption
    DEF ProcessesFollowMode, StagesBeforeFlash, FlashingBoot, FlashingReboot, Armed,
        InInitramfs, TornOnlyInCopy, RwWillBeUndone, TrapsSet, DoneMarkersTruthful,
        DeadOnlyIfBootTornOrMoved, BootReadable, Fits, Initramfs, DownloadSteps,
        ExtractSteps, FlashBootSteps, FlashRebootSteps, CleanupSteps, BootWindow,
        fw, boot, rootFs, sbin, card, machine
<1>1. /\ pc \in [Procs -> Steps] /\ job \in [Procs -> Job] /\ mode \in Modes
      /\ {archive, image, bootInfo, rootInfo} \subseteq Versions \union {Torn, Absent}
      /\ bootC \in Versions \union {Torn}
  BY DEF IInv, TypeOK, Content
<1>2. \A q \in Procs : q = p
  BY DEF OneAtATime
<1>ExStart. CASE ExStart(p)
  BY <1>ExStart, <1>1, <1>2
  DEF IInv, ExStart, DiscardImage, At, Goto, ExtractResets, SetTrap, RootExtent
<1>ExRefuse. CASE ExRefuse(p)
  BY <1>ExRefuse, <1>1, <1>2 DEF IInv, ExRefuse, At, Goto, Refuse, Leave, RootExtent
<1>ExUnpacked. CASE ExUnpacked(p)
  BY <1>ExUnpacked, <1>1, <1>2 DEF IInv, ExUnpacked, At, Goto, RootExtent
<1>ExUnpackFailed. CASE ExUnpackFailed(p)
  BY <1>ExUnpackFailed, <1>1, <1>2 DEF IInv, ExUnpackFailed, At, Goto, Leave, RootExtent
<1>ExBootInfo. CASE ExBootInfo(p)
  BY <1>ExBootInfo, <1>1, <1>2 DEF IInv, ExBootInfo, At, Goto, RootExtent
<1>ExRootInfo. CASE ExRootInfo(p)
  BY <1>ExRootInfo, <1>1, <1>2 DEF IInv, ExRootInfo, At, Goto, RootExtent
<1>ExDone. CASE ExDone(p)
  BY <1>ExDone, <1>1, <1>2 DEF IInv, ExDone, At, Goto, Finish, RootExtent
<1>ExHookFailed. CASE ExHookFailed(p)
  BY <1>ExHookFailed, <1>1, <1>2 DEF IInv, ExHookFailed, At, Goto, Refuse, Leave, RootExtent
<1>ExReadFailed. CASE ExReadFailed(p)
  BY <1>ExReadFailed, <1>1, <1>2 DEF IInv, ExReadFailed, At, Goto, Leave, RootExtent
<1> QED BY <1>ExStart, <1>ExRefuse, <1>ExUnpacked, <1>ExUnpackFailed, <1>ExBootInfo,
          <1>ExRootInfo, <1>ExDone, <1>ExHookFailed, <1>ExReadFailed
    DEF ExtractStep

LEMMA FlashBootInv ==
    ASSUME OneAtATime, IInv, TypeOK', NEW p \in Procs, FlashBootStep(p)
    PROVE  IInv'
<1> USE VersionAssumption
    DEF ProcessesFollowMode, StagesBeforeFlash, FlashingBoot, FlashingReboot, Armed,
        InInitramfs, TornOnlyInCopy, RwWillBeUndone, TrapsSet, DoneMarkersTruthful,
        DeadOnlyIfBootTornOrMoved, BootReadable, Fits, Initramfs, DownloadSteps,
        ExtractSteps, FlashBootSteps, FlashRebootSteps, CleanupSteps, BootWindow,
        fw, boot, rootFs, sbin, card, machine
<1>1. /\ pc \in [Procs -> Steps] /\ job \in [Procs -> Job] /\ mode \in Modes
      /\ {archive, image, bootInfo, rootInfo} \subseteq Versions \union {Torn, Absent}
      /\ bootC \in Versions \union {Torn}
  BY DEF IInv, TypeOK, Content
<1>2. \A q \in Procs : q = p
  BY DEF OneAtATime
<1>FbStart. CASE FbStart(p)
  BY <1>FbStart, <1>1, <1>2 DEF IInv, FbStart, At, Goto, CanFlashBoot, SetTrap, RootExtent
<1>FbRefuse. CASE FbRefuse(p)
  BY <1>FbRefuse, <1>1, <1>2 DEF IInv, FbRefuse, At, Goto, Refuse, Leave, RootExtent
<1>FbBackup. CASE FbBackup(p)
  BY <1>FbBackup, <1>1, <1>2 DEF IInv, FbBackup, At, Goto, RootExtent
<1>FbCopied. CASE FbCopied(p)
  BY <1>FbCopied, <1>1, <1>2 DEF IInv, FbCopied, At, Goto, RootExtent
<1>FbBackupFailed. CASE FbBackupFailed(p)
  BY <1>FbBackupFailed, <1>1, <1>2 DEF IInv, FbBackupFailed, At, Goto, Leave, RootExtent
<1>FbUmount. CASE FbUmount(p)
  BY <1>FbUmount, <1>1, <1>2 DEF IInv, FbUmount, At, Goto, RootExtent
<1>FbMoveReboot. CASE FbMoveReboot(p)
  BY <1>FbMoveReboot, <1>1, <1>2 DEF IInv, FbMoveReboot, At, Goto, RootExtent
<1>FbStubReboot. CASE FbStubReboot(p)
  BY <1>FbStubReboot, <1>1, <1>2 DEF IInv, FbStubReboot, At, Goto, Stub, RootExtent
<1>FbStubFailed. CASE FbStubFailed(p)
  BY <1>FbStubFailed, <1>1, <1>2 DEF IInv, FbStubFailed, At, Goto, Leave, RootExtent
<1>FbPartition. CASE FbPartition(p)
  BY <1>FbPartition, <1>1, <1>2
  DEF IInv, FbPartition, NewBootTable, At, Goto, BootExtent, RootExtent
<1>FbNoRoom. CASE FbNoRoom(p)
  BY <1>FbNoRoom, <1>1, <1>2 DEF IInv, FbNoRoom, At, Goto, Leave, RootExtent
<1>FbFlash. CASE FbFlash(p)
  BY <1>FbFlash, <1>1, <1>2 DEF IInv, FbFlash, At, Goto, RootExtent
<1>FbFlashed. CASE FbFlashed(p)
  BY <1>FbFlashed, <1>1, <1>2 DEF IInv, FbFlashed, At, Goto, RootExtent
<1>FbFlashFailed. CASE FbFlashFailed(p)
  BY <1>FbFlashFailed, <1>1, <1>2 DEF IInv, FbFlashFailed, At, Goto, Leave, RootExtent
<1>FbMount. CASE FbMount(p)
  BY <1>FbMount, <1>1, <1>2 DEF IInv, FbMount, At, Goto, MarkRw, RootExtent
<1>FbRestore. CASE FbRestore(p)
  BY <1>FbRestore, <1>1, <1>2 DEF IInv, FbRestore, At, Goto, RootExtent
<1>FbRestored. CASE FbRestored(p)
  BY <1>FbRestored, <1>1, <1>2 DEF IInv, FbRestored, At, Goto, RootExtent
<1>FbDone. CASE FbDone(p)
  BY <1>FbDone, <1>1, <1>2 DEF IInv, FbDone, At, Goto, Finish, RootExtent
<1>FbFdiskFailed. CASE FbFdiskFailed(p)
  BY <1>FbFdiskFailed, <1>1, <1>2
  DEF IInv, FbFdiskFailed, NewBootTable, BootExtent, At, Goto, Leave, RootExtent
<1>FbRestoreFailed. CASE FbRestoreFailed(p)
  BY <1>FbRestoreFailed, <1>1, <1>2 DEF IInv, FbRestoreFailed, At, Goto, Leave, RootExtent
<1> QED BY <1>FbStart, <1>FbRefuse, <1>FbBackup, <1>FbCopied, <1>FbBackupFailed,
          <1>FbUmount, <1>FbMoveReboot, <1>FbStubReboot, <1>FbStubFailed,
          <1>FbPartition, <1>FbNoRoom, <1>FbFlash, <1>FbFlashed, <1>FbFlashFailed,
          <1>FbMount, <1>FbRestore, <1>FbRestored, <1>FbDone,
          <1>FbFdiskFailed, <1>FbRestoreFailed
    DEF FlashBootStep

LEMMA FlashRebootInv ==
    ASSUME OneAtATime, IInv, TypeOK', NEW p \in Procs, FlashRebootStep(p)
    PROVE  IInv'
<1> USE VersionAssumption
    DEF ProcessesFollowMode, StagesBeforeFlash, FlashingBoot, FlashingReboot, Armed,
        InInitramfs, TornOnlyInCopy, RwWillBeUndone, TrapsSet, DoneMarkersTruthful,
        DeadOnlyIfBootTornOrMoved, BootReadable, Fits, Initramfs, DownloadSteps,
        ExtractSteps, FlashBootSteps, FlashRebootSteps, CleanupSteps, BootWindow,
        fw, boot, rootFs, sbin, card, machine
<1>1. /\ pc \in [Procs -> Steps] /\ job \in [Procs -> Job] /\ mode \in Modes
      /\ {archive, image, bootInfo, rootInfo} \subseteq Versions \union {Torn, Absent}
      /\ bootC \in Versions \union {Torn}
  BY DEF IInv, TypeOK, Content
<1>2. \A q \in Procs : q = p
  BY DEF OneAtATime
<1>FrStart. CASE FrStart(p)
  BY <1>FrStart, <1>1, <1>2 DEF IInv, FrStart, At, Goto, CanFlashReboot, SetTrap, RootExtent
<1>FrRefuse. CASE FrRefuse(p)
  BY <1>FrRefuse, <1>1, <1>2 DEF IInv, FrRefuse, At, Goto, Refuse, Leave, RootExtent
<1>FrPartition. CASE FrPartition(p)
  <2>1. part \in [boot : Extent, root : Extent] /\ RootExtent \in Extent
    BY LayoutAssumption DEF IInv, TypeOK, RootExtent
  <2>2. part'.boot = part.boot /\ Fits(part'.root, RootExtent)
    BY <1>FrPartition, <2>1 DEF FrPartition, NewRootTable, Extent
  <2>3. Fits(part'.root, RootExtent')
    BY <1>FrPartition, <2>1, <2>2 DEF FrPartition, RootExtent, Extent, TypeOK
  <2>4. mode = "up" /\ pc[p] = "fr_part" /\ (initrd => part' = part)
    BY <1>FrPartition, <1>1 DEF IInv, FrPartition, NewRootTable, RootExtent, At
  <2>5. BootReadable' = BootReadable
    BY <1>FrPartition, <2>2 DEF FrPartition
  <2> QED BY <1>FrPartition, <1>1, <1>2, <2>2, <2>3, <2>4, <2>5
          DEF IInv, FrPartition, At, Goto
<1>FrNoRoom. CASE FrNoRoom(p)
  BY <1>FrNoRoom, <1>1, <1>2 DEF IInv, FrNoRoom, At, Goto, Leave, RootExtent
<1>FrPrepare. CASE FrPrepare(p)
  BY <1>FrPrepare, <1>1, <1>2 DEF IInv, FrPrepare, At, Goto, ImageMounts, RootExtent, MarkRw
<1>FrPrepareFailed. CASE FrPrepareFailed(p)
  BY <1>FrPrepareFailed, <1>1, <1>2 DEF IInv, FrPrepareFailed, At, Goto, Leave, RootExtent
<1>FrReboot. CASE FrReboot(p)
  BY <1>FrReboot, <1>1, <1>2 DEF IInv, FrReboot, At, Goto, RootExtent
<1>FrForced. CASE FrForced(p)
  BY <1>FrForced, <1>1, <1>2 DEF IInv, FrForced, At, PowerDown, NoJob, RootExtent
<1>FrFdiskFailed. CASE FrFdiskFailed(p)
  <2>1. mode = "up" /\ pc[p] = "fr_part" /\ ~initrd
    BY <1>FrFdiskFailed, <1>1 DEF IInv, FrFdiskFailed, RootExtent, At
  <2>2. part'.boot = part.boot
    BY <1>FrFdiskFailed DEF IInv, TypeOK, FrFdiskFailed, NewRootTable
  <2>3. BootReadable' = BootReadable
    BY <1>FrFdiskFailed, <2>2 DEF FrFdiskFailed
  <2> QED BY <1>FrFdiskFailed, <1>1, <1>2, <2>1, <2>2, <2>3
          DEF IInv, FrFdiskFailed, At, Goto, Leave
<1>FrScriptFailed. CASE FrScriptFailed(p)
  BY <1>FrScriptFailed, <1>1, <1>2
  DEF IInv, FrScriptFailed, At, Goto, Leave, ImageMounts, RootExtent, MarkRw
<1>FrReleaseFailed. CASE FrReleaseFailed(p)
  BY <1>FrReleaseFailed, <1>1, <1>2 DEF IInv, FrReleaseFailed, At, Goto, Leave, RootExtent
<1> QED BY <1>FrStart, <1>FrRefuse, <1>FrPartition, <1>FrNoRoom, <1>FrPrepare,
          <1>FrPrepareFailed, <1>FrReboot, <1>FrForced,
          <1>FrFdiskFailed, <1>FrScriptFailed, <1>FrReleaseFailed
    DEF FlashRebootStep

LEMMA CleanupInv ==
    ASSUME OneAtATime, IInv, TypeOK', NEW p \in Procs, CleanupStep(p)
    PROVE  IInv'
<1> USE VersionAssumption
    DEF ProcessesFollowMode, StagesBeforeFlash, FlashingBoot, FlashingReboot, Armed,
        InInitramfs, TornOnlyInCopy, RwWillBeUndone, TrapsSet, DoneMarkersTruthful,
        DeadOnlyIfBootTornOrMoved, BootReadable, Fits, Initramfs, DownloadSteps,
        ExtractSteps, FlashBootSteps, FlashRebootSteps, CleanupSteps, BootWindow,
        fw, boot, rootFs, sbin, card, machine
<1>1. /\ pc \in [Procs -> Steps] /\ job \in [Procs -> Job] /\ mode \in Modes
      /\ {archive, image, bootInfo, rootInfo} \subseteq Versions \union {Torn, Absent}
      /\ bootC \in Versions \union {Torn}
  BY DEF IInv, TypeOK, Content
<1>2. \A q \in Procs : q = p
  BY DEF OneAtATime
<1>ClRemoveStub. CASE ClRemoveStub(p)
  BY <1>ClRemoveStub, <1>1, <1>2 DEF IInv, ClRemoveStub, At, Goto, RootExtent
<1>ClRestoreReboot. CASE ClRestoreReboot(p)
  BY <1>ClRestoreReboot, <1>1, <1>2 DEF IInv, ClRestoreReboot, At, Goto, RootExtent
<1>ClRemountBoot. CASE ClRemountBoot(p)
  BY <1>ClRemountBoot, <1>1, <1>2 DEF IInv, ClRemountBoot, At, Goto, RootExtent
<1>ClFlags. CASE ClFlags(p)
  BY <1>ClFlags, <1>1, <1>2 DEF IInv, ClFlags, At, Goto, ClearedOnExit, NoJob, RootExtent
<1> QED BY <1>ClRemoveStub, <1>ClRestoreReboot, <1>ClRemountBoot, <1>ClFlags
    DEF CleanupStep

LEMMA StartInv ==
    ASSUME OneAtATime, IInv, TypeOK', NEW p \in Procs, NEW cmd \in Commands,
           NEW v \in Versions \union {Absent}, Start(p, cmd, v)
    PROVE  IInv'
<1> USE VersionAssumption
    DEF ProcessesFollowMode, StagesBeforeFlash, FlashingBoot, FlashingReboot, Armed,
        InInitramfs, TornOnlyInCopy, RwWillBeUndone, TrapsSet, DoneMarkersTruthful,
        DeadOnlyIfBootTornOrMoved, BootReadable, Fits, Initramfs, DownloadSteps,
        ExtractSteps, FlashBootSteps, FlashRebootSteps, CleanupSteps, BootWindow,
        fw, boot, rootFs, sbin, card, machine
<1>1. /\ pc \in [Procs -> Steps] /\ job \in [Procs -> Job] /\ mode \in Modes
      /\ {archive, image, bootInfo, rootInfo} \subseteq Versions \union {Torn, Absent}
      /\ bootC \in Versions \union {Torn}
  BY DEF IInv, TypeOK, Content
<1>2. \A q \in Procs : q = p
  BY DEF OneAtATime
<1> QED BY <1>1, <1>2, EnvironmentAssumption DEF IInv, Start, Goto, First, Cmds, RootExtent

LEMMA MachineInv ==
    ASSUME IInv, TypeOK', Machine \/ Boot \/ Im,
           ImCopyFails => ~MayFail("initramfs")
    PROVE  IInv'
<1> USE VersionAssumption
    DEF ProcessesFollowMode, StagesBeforeFlash, FlashingBoot, FlashingReboot, Armed,
        InInitramfs, TornOnlyInCopy, RwWillBeUndone, TrapsSet, DoneMarkersTruthful,
        DeadOnlyIfBootTornOrMoved, BootReadable, Fits, Initramfs, DownloadSteps,
        ExtractSteps, FlashBootSteps, FlashRebootSteps, CleanupSteps, BootWindow,
        fw, boot, rootFs, sbin, card, machine
<1>1. /\ pc \in [Procs -> Steps] /\ job \in [Procs -> Job] /\ mode \in Modes
      /\ {archive, image, bootInfo, rootInfo} \subseteq Versions \union {Torn, Absent}
      /\ bootC \in Versions \union {Torn}
  BY DEF IInv, TypeOK, Content
<1> USE DEF IInv, RootExtent, PowerDown, NoJob
<1>RequestReboot. CASE RequestReboot
  BY <1>RequestReboot, <1>1 DEF RequestReboot
<1>Stop. CASE Stop
  BY <1>Stop, <1>1 DEF Stop
<1>Halt. CASE Halt
  BY <1>Halt, <1>1 DEF Halt
<1>PowerCut. CASE PowerCut
  BY <1>PowerCut, <1>1 DEF PowerCut
<1>Dead. CASE Dead
  BY <1>Dead, <1>1 DEF Dead, vars, RootReadable, RootHolds
<1>BootNormal. CASE BootNormal
  BY <1>BootNormal, <1>1 DEF BootNormal, RootReadable
<1>BootInitramfs. CASE BootInitramfs
  BY <1>BootInitramfs, <1>1 DEF BootInitramfs
<1>BootFails. CASE BootFails
  <2>1. rootC \in Versions \union {Torn} /\ mode = "off"
    BY <1>BootFails DEF BootFails, TypeOK
  <2>2. \/ bootC = Torn \/ ~Fits(part.boot, Layout[bootC].boot)
        \/ rootC \in Versions /\ ~RootReadable
        \/ rootC = Torn /\ discarded
    BY <1>BootFails, <1>1, <2>1 DEF BootFails
  <2> QED BY <1>BootFails, <1>1, <2>1, <2>2 DEF BootFails, RootReadable, RootHolds
<1>ImCopyStarts. CASE ImCopyStarts
  BY <1>ImCopyStarts, <1>1 DEF ImCopyStarts
<1>ImNothingToDo. CASE ImNothingToDo
  BY <1>ImNothingToDo, <1>1 DEF ImNothingToDo
<1>ImCopyEnds. CASE ImCopyEnds
  BY <1>ImCopyEnds, <1>1 DEF ImCopyEnds
<1>ImCopyFails. CASE ImCopyFails
  <2>1. ImageOverflows /\ mode = "im_write" /\ image # Absent /\ rootInfo # Absent
    BY <1>ImCopyFails DEF ImCopyFails
  <2>2. discarded
    <3>1. image \in Versions /\ rootInfo = image /\ ~RootHolds(image)
      BY <2>1 DEF ImageOverflows
    <3>2. /\ part.root.start \in Nat /\ part.root.end \in Nat
          /\ Layout[image].root.start \in Nat /\ Layout[image].root.end \in Nat
      BY <3>1, LayoutAssumption DEF TypeOK, Extent
    <3>3. ~Fits(part.root, Layout[image].root)
      BY <3>1, <3>2 DEF RootHolds
    <3> QED BY <2>1, <3>1, <3>3
  <2> QED BY <1>ImCopyFails, <1>1, <2>1, <2>2 DEF ImCopyFails
<1>ImRemove. CASE ImRemove
  BY <1>ImRemove, <1>1 DEF ImRemove
<1>ImRemoved. CASE ImRemoved
  BY <1>ImRemoved, <1>1 DEF ImRemoved
<1>ImExit. CASE ImExit
  BY <1>ImExit, <1>1 DEF ImExit
<1> QED BY <1>RequestReboot, <1>Stop, <1>Halt, <1>PowerCut, <1>Dead, <1>BootNormal,
          <1>BootInitramfs, <1>BootFails, <1>ImCopyStarts, <1>ImNothingToDo,
          <1>ImCopyEnds, <1>ImCopyFails, <1>ImRemove, <1>ImRemoved, <1>ImExit
    DEF Machine, Shutdown, Poweroff, Boot, Im

LEMMA NextInv ==
    ASSUME OneAtATime, IInv, [Next]_vars, ImCopyFails => ~MayFail("initramfs")
    PROVE  IInv'
<1>1. TypeOK'
  BY NextType DEF IInv
<1>2. CASE \E p \in Procs : Step(p)
  BY <1>1, <1>2, DownloadInv, ExtractInv, FlashBootInv, FlashRebootInv, CleanupInv
  DEF Step
<1>3. CASE \E p \in Procs, cmd \in Commands, v \in Versions \union {Absent} :
              Start(p, cmd, v)
  BY <1>1, <1>3, StartInv
<1>4. CASE Machine \/ Boot \/ Im
  BY <1>1, <1>4, MachineInv
<1>5. CASE UNCHANGED vars
  <2> USE VersionAssumption
      DEF ProcessesFollowMode, StagesBeforeFlash, FlashingBoot, FlashingReboot, Armed,
          InInitramfs, TornOnlyInCopy, RwWillBeUndone, TrapsSet, DoneMarkersTruthful,
          DeadOnlyIfBootTornOrMoved, BootReadable, Fits, Initramfs, DownloadSteps,
          ExtractSteps, FlashBootSteps, FlashRebootSteps, CleanupSteps, BootWindow,
          fw, boot, rootFs, sbin, card, machine
  <2> QED BY <1>1, <1>5 DEF IInv, vars, RootExtent, RootReadable, RootHolds
<1> QED BY <1>2, <1>3, <1>4, <1>5 DEF Next

LEMMA InitInv == Init => IInv
<1> SUFFICES ASSUME Init PROVE IInv
  OBVIOUS
<1>1. TypeOK
  BY InitType
<1>2. BootReadable /\ RootReadable
  BY VersionAssumption, LayoutAssumption
  DEF Init, BootReadable, RootReadable, RootHolds, Fits, Extent
<1> QED BY <1>1, <1>2, VersionAssumption
    DEF Init, IInv, ProcessesFollowMode, StagesBeforeFlash, FlashingBoot, FlashingReboot,
        Armed, InInitramfs, TornOnlyInCopy, RwWillBeUndone, TrapsSet, DoneMarkersTruthful,
        DeadOnlyIfBootTornOrMoved, Initramfs, DownloadSteps, ExtractSteps, FlashBootSteps,
        FlashRebootSteps, BootWindow

LEMMA Inductive ==
    ASSUME OneAtATime, ReliableCopy
    PROVE  Spec => []IInv
<1>1. IInv /\ [Next]_vars => IInv'
  BY NextInv DEF ReliableCopy, MayFail
<1> QED BY <1>1, InitInv, PTL DEF Spec

-----------------------------------------------------------------------------
(***************************************************************************)
(* The theorems                                                            *)
(***************************************************************************)

\* A torn root partition always comes with a readable boot partition that selects the
\* initramfs, an intact image and its root_info, whichever commands fail after the
\* initramfs was selected: the device heals itself, unless a later stage threw the image
\* away.
THEOREM TornRootIsRecoverable ==
    ASSUME OneAtATime, ReliableCopy
    PROVE  Spec => []TornRootRecoverable
<1>1. IInv => TornRootRecoverable
  BY VersionAssumption
  DEF IInv, TypeOK, TornOnlyInCopy, Armed, TornRootRecoverable, BootReadable
<1> QED BY <1>1, Inductive, PTL

\* An update that is armed, and whose image nobody threw away, installs the root partition
\* that belongs to the boot partition.
THEOREM ArmedUpdateIsConsistent ==
    ASSUME OneAtATime, ReliableCopy
    PROVE  Spec => []ArmedUpdateConsistent
<1>1. IInv => ArmedUpdateConsistent
  BY DEF IInv, Armed, ArmedUpdateConsistent, BootReadable
<1> QED BY <1>1, Inductive, PTL

\* No *_done marker vouches for something torn or for another version.
THEOREM DoneMarkersAreTruthful ==
    ASSUME OneAtATime, ReliableCopy
    PROVE  Spec => []DoneMarkersTruthful
<1>1. IInv => DoneMarkersTruthful
  BY DEF IInv
<1> QED BY <1>1, Inductive, PTL

\* A device dies only of a torn or moved boot partition, of a moved root partition, or of
\* the copy of an image that was thrown away while it was selected.
THEOREM DeathIsExplained ==
    ASSUME OneAtATime, ReliableCopy
    PROVE  Spec => []DeadOnlyIfBootTornOrMoved
<1>1. IInv => DeadOnlyIfBootTornOrMoved
  BY DEF IInv
<1> QED BY <1>1, Inductive, PTL

\* When fwupdate has ended, /boot is not writable any more.
THEOREM BootIsReadOnlyAtRest ==
    ASSUME OneAtATime, ReliableCopy, Procs # {}
    PROVE  Spec => []BootReadOnlyAtRest
<1>1. IInv => BootReadOnlyAtRest
  BY DEF IInv, RwWillBeUndone, BootReadOnlyAtRest, AllIdle, FlashRebootSteps
<1> QED BY <1>1, Inductive, PTL

\* Nothing but /sbin/reboot itself and fwupdate's last stage starts a reboot.
LEMMA OnlyRebootReboots ==
    ASSUME Next, ~rebooting, rebooting'
    PROVE  RequestReboot \/ \E q \in Procs : FrReboot(q)
<1> USE DEF machine
<1>1. ASSUME NEW p \in Procs, DownloadStep(p) PROVE rebooting' = rebooting
  BY <1>1 DEF DownloadStep, DlWipe1, DlWipe2, DlWipe3, DlLocal, DlCopied, DlStart,
     DlLowSpace, DlNoSpace, DlFetched, DlFailed, DlAborted, Download,
     DiscardImage, Refuse
<1>2. ASSUME NEW p \in Procs, ExtractStep(p) PROVE rebooting' = rebooting
  BY <1>2 DEF ExtractStep, ExStart, ExRefuse, ExUnpacked, ExUnpackFailed, ExBootInfo,
     ExRootInfo, ExDone, ExHookFailed, ExReadFailed, Refuse
<1>3. ASSUME NEW p \in Procs, FlashBootStep(p) PROVE rebooting' = rebooting
  BY <1>3 DEF FlashBootStep, FbStart, FbRefuse, FbBackup, FbCopied, FbBackupFailed,
     FbUmount, FbMoveReboot, FbStubReboot, FbStubFailed, FbPartition, FbNoRoom, FbFlash,
     FbFlashed, FbFlashFailed, FbMount, FbRestore, FbRestored, FbDone,
     FbFdiskFailed, FbRestoreFailed, Refuse
<1>4. ASSUME NEW p \in Procs, FlashRebootStep(p), ~FrReboot(p)
      PROVE  rebooting' = rebooting \/ ~rebooting'
  BY <1>4 DEF FlashRebootStep, FrStart, FrRefuse, FrPartition, FrNoRoom, FrPrepare,
     FrFdiskFailed, FrScriptFailed, FrReleaseFailed, FrPrepareFailed, FrForced, PowerDown, Refuse
<1>5. ASSUME NEW p \in Procs, CleanupStep(p) PROVE rebooting' = rebooting
  BY <1>5 DEF CleanupStep, ClRemoveStub, ClRestoreReboot, ClRemountBoot, ClFlags
<1>6. ASSUME NEW p \in Procs, NEW cmd, NEW v, Start(p, cmd, v)
      PROVE  rebooting' = rebooting
  BY <1>6 DEF Start
<1>7. ASSUME Machine \/ Boot \/ Im, ~RequestReboot
      PROVE  rebooting' = rebooting \/ ~rebooting'
  BY <1>7 DEF Machine, Shutdown, Poweroff, Stop, Halt, PowerCut, Dead, vars, Boot,
     BootNormal, BootInitramfs, BootFails, Im, ImCopyStarts, ImNothingToDo, ImCopyEnds,
     ImCopyFails, ImRemove, ImRemoved, ImExit, PowerDown
<1> QED BY <1>1, <1>2, <1>3, <1>4, <1>5, <1>6, <1>7 DEF Next, Step

\* No reboot begins between the stub and the end of flash boot.
THEOREM NoRebootBeginsInBootWindow ==
    ASSUME OneAtATime, ReliableCopy
    PROVE  Spec => NoRebootStartsInBootWindow
<1>1. ASSUME IInv, [Next]_vars
      PROVE  [~rebooting /\ rebooting' => \A p \in Procs : pc[p] \notin BootWindow]_vars
  <2> SUFFICES ASSUME Next, ~rebooting, rebooting', NEW p \in Procs
               PROVE  pc[p] \notin BootWindow
    BY <1>1
  <2>1. CASE \E q \in Procs : FrReboot(q)
    BY <2>1 DEF OneAtATime, FrReboot, At, BootWindow
  <2>2. CASE RequestReboot
    BY <1>1, <2>2 DEF RequestReboot, IInv, FlashingBoot
  <2> QED BY <2>1, <2>2, OnlyRebootReboots
<1> QED BY <1>1, Inductive, PTL DEF Spec, NoRebootStartsInBootWindow

\* The initramfs is deselected only by the initramfs itself or by flashing the boot
\* partition.
LEMMA OnlyExitDisarms ==
    ASSUME Next, initrd, ~initrd'
    PROVE  ImExit \/ \E q \in Procs : FbFlash(q)
<1> USE DEF card, vars
<1>1. ASSUME NEW p \in Procs, DownloadStep(p) PROVE initrd' = initrd
  BY <1>1 DEF DownloadStep, DlWipe1, DlWipe2, DlWipe3, DlLocal, DlCopied, DlStart,
     DlLowSpace, DlNoSpace, DlFetched, DlFailed, DlAborted, Download,
     DiscardImage, Refuse
<1>2. ASSUME NEW p \in Procs, ExtractStep(p) PROVE initrd' = initrd
  BY <1>2 DEF ExtractStep, ExStart, ExRefuse, ExUnpacked, ExUnpackFailed, ExBootInfo,
     ExRootInfo, ExDone, ExHookFailed, ExReadFailed, DiscardImage, Refuse
<1>3. ASSUME NEW p \in Procs, FlashBootStep(p), ~FbFlash(p) PROVE initrd' = initrd
  BY <1>3 DEF FlashBootStep, FbStart, FbRefuse, FbBackup, FbCopied, FbBackupFailed,
     FbUmount, FbMoveReboot, FbStubReboot, FbStubFailed, FbPartition, FbNoRoom,
     FbFlashed, FbFlashFailed, FbMount, FbRestore, FbRestored, FbDone,
     FbFdiskFailed, FbRestoreFailed, Refuse
<1>4. ASSUME NEW p \in Procs, FlashRebootStep(p) PROVE initrd' = initrd \/ initrd'
  BY <1>4 DEF FlashRebootStep, FrStart, FrRefuse, FrPartition, FrNoRoom, FrPrepare,
     FrFdiskFailed, FrScriptFailed, FrReleaseFailed, FrPrepareFailed, FrReboot, FrForced, Refuse
<1>5. ASSUME NEW p \in Procs, CleanupStep(p) PROVE initrd' = initrd
  BY <1>5 DEF CleanupStep, ClRemoveStub, ClRestoreReboot, ClRemountBoot, ClFlags
<1>6. ASSUME NEW p \in Procs, NEW cmd, NEW v, Start(p, cmd, v)
      PROVE  initrd' = initrd
  BY <1>6 DEF Start
<1>7. ASSUME Machine \/ Boot \/ Im, ~ImExit PROVE initrd' = initrd
  BY <1>7 DEF Machine, RequestReboot, Shutdown, Poweroff, Stop, Halt, PowerCut, Dead,
     Boot, BootNormal, BootInitramfs, BootFails, Im, ImCopyStarts, ImNothingToDo,
     ImCopyEnds, ImCopyFails, ImRemove, ImRemoved
<1> QED BY <1>1, <1>2, <1>3, <1>4, <1>5, <1>6, <1>7 DEF Next, Step

\* When the boot configuration stops selecting the initramfs, the root partition has
\* the version of the boot partition, or the boot partition is being rewritten, or the
\* image was thrown away.
THEOREM UpdateEndsWithAMatchingRoot ==
    ASSUME OneAtATime, ReliableCopy
    PROVE  Spec => UpdateEndsWithMatchingRoot
<1>1. ASSUME IInv, [Next]_vars
      PROVE  [initrd /\ ~initrd' => bootC' = Torn \/ discarded \/ rootC' = bootC']_vars
  <2> SUFFICES ASSUME Next, initrd, ~initrd'
               PROVE  bootC' = Torn \/ discarded \/ rootC' = bootC'
    BY <1>1
  <2>1. CASE ImExit
    BY <1>1, <2>1 DEF ImExit, IInv, InInitramfs, rootFs, boot
  <2>2. CASE \E q \in Procs : FbFlash(q)
    BY <2>2 DEF FbFlash
  <2> QED BY <2>1, <2>2, OnlyExitDisarms
<1> QED BY <1>1, Inductive, PTL DEF Spec, UpdateEndsWithMatchingRoot

-----------------------------------------------------------------------------
(***************************************************************************)
(* An update that nobody disturbs                                          *)
(***************************************************************************)

\* The hypothesis of the next three theorems: the power stays on, and no program but
\* fwupdate asks for a reboot.  (TLC shows that a power cut does leave the stub of
\* /sbin/reboot or a stale marker behind.)  The copy in the initramfs may fail.
Undisturbed == ~PowerCuts /\ Requests = {}

\* The copy failed: the normal boot is selected, of a root partition that is torn.
\* Nothing runs on this device any more.
Lost ==
    /\ rootC = Torn /\ \A p \in Procs : pc[p] = "idle"
    /\ mode \in {"im_exit", "dead"} \/ (mode = "off" /\ ~initrd)

\* The only reboot is the one at the end of flash reboot, and what the initramfs needs
\* for the copy is there from then on until the copy is done.
OwnRebootOnly ==
    /\ rebooting =>
          mode = "stopping" \/ (mode = "up" /\ \E p \in Procs : pc[p] = "fr_wait")
    /\ mode = "stopping" => initrd
    /\ \A p \in Procs : pc[p] \in {"fr_reboot", "fr_wait"} =>
          initrd /\ image # Absent /\ rootInfo # Absent
    /\ initrd /\ mode \notin {"up", "im_rm", "im_exit"} =>
          image # Absent /\ rootInfo # Absent
    /\ mode = "im_write" => rootC = Torn

\* The next boot is a normal one.
NormalBootNext == mode = "off" /\ ~initrd

Restored == reboot = "real" /\ rebootBak = "absent"
Stubbed == reboot = "stub" /\ rebootBak = "real"

\* Where /sbin/reboot is at each step, and who will put it back.
RebootFollowsSteps ==
    /\ AllIdle \/ NormalBootNext \/ mode \in {"im_rm", "im_exit"} => Restored
    /\ \A p \in Procs : mode = "up" =>
        /\ pc[p] \in DownloadSteps \union ExtractSteps \union
                     {"fb_start", "fb_backup", "fb_copy", "fb_nest", "fb_umount",
                      "fb_mv", "cl_boot", "cl_flags"} => Restored
        /\ pc[p] \in {"fb_ln", "cl_mv"} => reboot = "absent" /\ rebootBak = "real"
        /\ pc[p] \in BootWindow => Stubbed
        /\ pc[p] \in FlashRebootSteps => Restored \/ (Stubbed /\ job[p].trap)
        /\ pc[p] = "cl_rm" => Restored \/ (reboot \in {"absent", "stub"} /\ rebootBak = "real")

NoneStarted == flags \intersect Started = {}

FirstSteps == {"dl_wipe1", "dl_wipe2", "dl_wipe3", "ex_start", "fb_start", "fr_start"}

\* Which *_started marker is there at each step, and who will remove it.
MarkersFollowSteps ==
    /\ AllIdle \/ NormalBootNext \/ mode = "im_exit" => NoneStarted
    /\ \A p \in Procs : mode = "up" =>
        /\ pc[p] \in FirstSteps /\ ~job[p].trap => NoneStarted
        /\ pc[p] \in (DownloadSteps \union ExtractSteps) \ FirstSteps => job[p].trap
        /\ pc[p] = "dl_fetch" => "download_started" \in flags
        /\ pc[p] \in ExtractSteps \ FirstSteps => "extract_started" \in flags
        /\ pc[p] \in FlashBootSteps \ FirstSteps => "flash_boot_started" \in flags
        /\ pc[p] \in FlashRebootSteps \ FirstSteps => "flash_reboot_started" \in flags

\* The commands whose failure leaves the boot partition without its factory defaults
\* (cp, dd, mount and cp again, fwupdate:537-563) succeed, and there are some.
DefaultsCanBeKept ==
    /\ Shipped = "good"
    /\ {"backup", "bootdd", "mount", "restore"} \intersect Faults = {}

\* Either the boot partition has the factory defaults, or old_boot has and they are on
\* their way back.
DefaultsFollowSteps ==
    /\ \/ fdBoot = "good"
       \/ mode = "up" /\ \E p \in Procs :
             pc[p] \in {"fb_write", "fb_mount", "fb_defaults", "fb_restore"}
    /\ NormalBootNext \/ mode = "im_exit" => oldBoot = "absent"
    /\ mode = "up" /\ bootMounted # "no" =>
          oldBoot \in {"absent", "good"} \/ \E p \in Procs : pc[p] = "fb_copy"
    /\ \A p \in Procs : mode = "up" =>
        /\ pc[p] \in {"fb_mv", "fb_ln", "fb_part", "fb_dd", "fb_write", "fb_mount",
                      "fb_defaults", "fb_restore"} => oldBoot = "good"
        /\ pc[p] \in {"fb_nest", "fb_umount"} /\ bootMounted # "no" => oldBoot = "good"
        /\ pc[p] \in {"fb_dd", "fb_write", "fb_mount"} => Fits(part.boot, BootExtent)
        /\ job[p].rw => bootMounted # "no"
    /\ \A p \in Procs : job[p].rw =>
        /\ job[p].trap
        /\ pc[p] \in {"fb_defaults", "fb_restore", "fb_done"} \union FlashRebootSteps
                     \union CleanupSteps

UndisturbedInv == IInv /\ OwnRebootOnly /\ RebootFollowsSteps /\ MarkersFollowSteps

-----------------------------------------------------------------------------
(***************************************************************************)
(* What an undisturbed step preserves                                      *)
(***************************************************************************)

LEMMA DownloadUndisturbed ==
    ASSUME OneAtATime, IInv, OwnRebootOnly, RebootFollowsSteps, MarkersFollowSteps, NEW p \in Procs,
           DownloadStep(p)
    PROVE  OwnRebootOnly' /\ RebootFollowsSteps' /\ MarkersFollowSteps'
<1> USE DEF OwnRebootOnly, RebootFollowsSteps, MarkersFollowSteps, AllIdle, NormalBootNext,
        Restored, Stubbed, NoneStarted, Started, FirstSteps, DownloadSteps,
        ExtractSteps, FlashBootSteps, FlashRebootSteps, CleanupSteps, BootWindow,
        fw, boot, rootFs, sbin, card, machine
<1>1. /\ pc \in [Procs -> Steps] /\ job \in [Procs -> Job] /\ mode \in Modes
      /\ ProcessesFollowMode /\ TrapsSet
  BY DEF IInv, TypeOK
<1>2. \A q \in Procs : q = p
  BY DEF OneAtATime
<1> USE DEF ProcessesFollowMode, TrapsSet
<1>DlWipe1. CASE DlWipe1(p)
  BY <1>DlWipe1, <1>1, <1>2 DEF DlWipe1, At, Goto
<1>DlWipe2. CASE DlWipe2(p)
  BY <1>DlWipe2, <1>1, <1>2 DEF DlWipe2, DiscardImage, At, Goto
<1>DlWipe3. CASE DlWipe3(p)
  BY <1>DlWipe3, <1>1, <1>2 DEF DlWipe3, At, Goto, SetTrap
<1>DlLocal. CASE DlLocal(p)
  BY <1>DlLocal, <1>1, <1>2 DEF DlLocal, At, Goto
<1>DlCopied. CASE DlCopied(p)
  BY <1>DlCopied, <1>1, <1>2 DEF DlCopied, At, Finish, Goto
<1>DlStart. CASE DlStart(p)
  BY <1>DlStart, <1>1, <1>2 DEF DlStart, Download, At, Goto
<1>DlLowSpace. CASE DlLowSpace(p)
  BY <1>DlLowSpace, <1>1, <1>2 DEF DlLowSpace, Download, MayFail, At, Goto
<1>DlNoSpace. CASE DlNoSpace(p)
  BY <1>DlNoSpace, <1>1, <1>2 DEF DlNoSpace, At, Refuse, MayFail, Leave, Goto
<1>DlFetched. CASE DlFetched(p)
  BY <1>DlFetched, <1>1, <1>2 DEF DlFetched, At, Finish, Goto
<1>DlFailed. CASE DlFailed(p)
  BY <1>DlFailed, <1>1, <1>2 DEF DlFailed, At, Leave, MayFail, Goto
<1>DlAborted. CASE DlAborted(p)
  BY <1>DlAborted, <1>1, <1>2 DEF DlAborted, At, Leave, MayFail, Goto
<1> QED BY <1>DlWipe1, <1>DlWipe2, <1>DlWipe3, <1>DlLocal, <1>DlCopied, <1>DlStart,
          <1>DlLowSpace, <1>DlNoSpace, <1>DlFetched, <1>DlFailed,
          <1>DlAborted
    DEF DownloadStep

LEMMA ExtractUndisturbed ==
    ASSUME OneAtATime, IInv, OwnRebootOnly, RebootFollowsSteps, MarkersFollowSteps, NEW p \in Procs,
           ExtractStep(p)
    PROVE  OwnRebootOnly' /\ RebootFollowsSteps' /\ MarkersFollowSteps'
<1> USE DEF OwnRebootOnly, RebootFollowsSteps, MarkersFollowSteps, AllIdle, NormalBootNext,
        Restored, Stubbed, NoneStarted, Started, FirstSteps, DownloadSteps,
        ExtractSteps, FlashBootSteps, FlashRebootSteps, CleanupSteps, BootWindow,
        fw, boot, rootFs, sbin, card, machine
<1>1. /\ pc \in [Procs -> Steps] /\ job \in [Procs -> Job] /\ mode \in Modes
      /\ ProcessesFollowMode /\ TrapsSet
  BY DEF IInv, TypeOK
<1>2. \A q \in Procs : q = p
  BY DEF OneAtATime
<1> USE DEF ProcessesFollowMode, TrapsSet
<1>ExStart. CASE ExStart(p)
  BY <1>ExStart, <1>1, <1>2 DEF ExStart, DiscardImage, At, Goto, SetTrap, CanExtract, ExtractResets
<1>ExRefuse. CASE ExRefuse(p)
  BY <1>ExRefuse, <1>1, <1>2 DEF ExRefuse, At, Refuse, CanExtract, Leave, Goto
<1>ExUnpacked. CASE ExUnpacked(p)
  BY <1>ExUnpacked, <1>1, <1>2 DEF ExUnpacked, At, Goto
<1>ExUnpackFailed. CASE ExUnpackFailed(p)
  BY <1>ExUnpackFailed, <1>1, <1>2 DEF ExUnpackFailed, At, Leave, MayFail, Goto
<1>ExBootInfo. CASE ExBootInfo(p)
  BY <1>ExBootInfo, <1>1, <1>2 DEF ExBootInfo, At, Goto
<1>ExRootInfo. CASE ExRootInfo(p)
  BY <1>ExRootInfo, <1>1, <1>2 DEF ExRootInfo, At, Goto
<1>ExDone. CASE ExDone(p)
  BY <1>ExDone, <1>1, <1>2 DEF ExDone, At, Finish, Goto
<1>ExHookFailed. CASE ExHookFailed(p)
  BY <1>ExHookFailed, <1>1, <1>2 DEF ExHookFailed, At, Refuse, MayFail, Leave, Goto
<1>ExReadFailed. CASE ExReadFailed(p)
  BY <1>ExReadFailed, <1>1, <1>2 DEF ExReadFailed, At, Leave, MayFail, Goto
<1> QED BY <1>ExStart, <1>ExRefuse, <1>ExUnpacked, <1>ExUnpackFailed, <1>ExBootInfo,
          <1>ExRootInfo, <1>ExDone, <1>ExHookFailed, <1>ExReadFailed
    DEF ExtractStep

LEMMA FlashBootUndisturbed ==
    ASSUME OneAtATime, IInv, OwnRebootOnly, RebootFollowsSteps, MarkersFollowSteps, NEW p \in Procs,
           FlashBootStep(p)
    PROVE  OwnRebootOnly' /\ RebootFollowsSteps' /\ MarkersFollowSteps'
<1> USE DEF OwnRebootOnly, RebootFollowsSteps, MarkersFollowSteps, AllIdle, NormalBootNext,
        Restored, Stubbed, NoneStarted, Started, FirstSteps, DownloadSteps,
        ExtractSteps, FlashBootSteps, FlashRebootSteps, CleanupSteps, BootWindow,
        fw, boot, rootFs, sbin, card, machine
<1>1. /\ pc \in [Procs -> Steps] /\ job \in [Procs -> Job] /\ mode \in Modes
      /\ ProcessesFollowMode /\ TrapsSet
  BY DEF IInv, TypeOK
<1>2. \A q \in Procs : q = p
  BY DEF OneAtATime
<1> USE DEF ProcessesFollowMode, TrapsSet
<1>FbStart. CASE FbStart(p)
  BY <1>FbStart, <1>1, <1>2 DEF FbStart, At, Goto, SetTrap, CanFlashBoot
<1>FbRefuse. CASE FbRefuse(p)
  BY <1>FbRefuse, <1>1, <1>2 DEF FbRefuse, At, Refuse, CanFlashBoot, Leave, Goto
<1>FbBackup. CASE FbBackup(p)
  BY <1>FbBackup, <1>1, <1>2 DEF FbBackup, At, Goto, BootDirDefaults
<1>FbCopied. CASE FbCopied(p)
  BY <1>FbCopied, <1>1, <1>2 DEF FbCopied, At, Goto, BootDirDefaults
<1>FbBackupFailed. CASE FbBackupFailed(p)
  BY <1>FbBackupFailed, <1>1, <1>2 DEF FbBackupFailed, At, Leave, MayFail, Goto
<1>FbUmount. CASE FbUmount(p)
  BY <1>FbUmount, <1>1, <1>2 DEF FbUmount, At, Goto
<1>FbMoveReboot. CASE FbMoveReboot(p)
  BY <1>FbMoveReboot, <1>1, <1>2 DEF FbMoveReboot, At, Goto
<1>FbStubReboot. CASE FbStubReboot(p)
  BY <1>FbStubReboot, <1>1, <1>2 DEF FbStubReboot, At, Goto, Stub
<1>FbStubFailed. CASE FbStubFailed(p)
  BY <1>FbStubFailed, <1>1, <1>2 DEF FbStubFailed, At, Leave, Goto
<1>FbPartition. CASE FbPartition(p)
  BY <1>FbPartition, <1>1, <1>2 DEF FbPartition, At, Goto
<1>FbNoRoom. CASE FbNoRoom(p)
  BY <1>FbNoRoom, <1>1, <1>2 DEF FbNoRoom, At, Leave, Goto
<1>FbFlash. CASE FbFlash(p)
  BY <1>FbFlash, <1>1, <1>2 DEF FbFlash, At, Goto
<1>FbFlashed. CASE FbFlashed(p)
  BY <1>FbFlashed, <1>1, <1>2 DEF FbFlashed, At, Goto
<1>FbFlashFailed. CASE FbFlashFailed(p)
  BY <1>FbFlashFailed, <1>1, <1>2 DEF FbFlashFailed, At, Leave, MayFail, Goto
<1>FbMount. CASE FbMount(p)
  BY <1>FbMount, <1>1, <1>2 DEF FbMount, At, Goto, MarkRw
<1>FbRestore. CASE FbRestore(p)
  BY <1>FbRestore, <1>1, <1>2 DEF FbRestore, At, Goto
<1>FbRestored. CASE FbRestored(p)
  BY <1>FbRestored, <1>1, <1>2 DEF FbRestored, At, Goto
<1>FbDone. CASE FbDone(p)
  BY <1>FbDone, <1>1, <1>2 DEF FbDone, At, Finish, Goto
<1>FbFdiskFailed. CASE FbFdiskFailed(p)
  BY <1>FbFdiskFailed, <1>1, <1>2 DEF FbFdiskFailed, At, Leave, Goto
<1>FbRestoreFailed. CASE FbRestoreFailed(p)
  BY <1>FbRestoreFailed, <1>1, <1>2 DEF FbRestoreFailed, At, Leave, Goto
<1> QED BY <1>FbStart, <1>FbRefuse, <1>FbBackup, <1>FbCopied, <1>FbBackupFailed,
          <1>FbUmount, <1>FbMoveReboot, <1>FbStubReboot, <1>FbStubFailed,
          <1>FbPartition, <1>FbNoRoom, <1>FbFlash, <1>FbFlashed, <1>FbFlashFailed,
          <1>FbMount, <1>FbRestore, <1>FbRestored, <1>FbDone,
          <1>FbFdiskFailed, <1>FbRestoreFailed
    DEF FlashBootStep

LEMMA FlashRebootUndisturbed ==
    ASSUME OneAtATime, IInv, OwnRebootOnly, RebootFollowsSteps, MarkersFollowSteps, NEW p \in Procs,
           FlashRebootStep(p)
    PROVE  OwnRebootOnly' /\ RebootFollowsSteps' /\ MarkersFollowSteps'
<1> USE DEF OwnRebootOnly, RebootFollowsSteps, MarkersFollowSteps, AllIdle, NormalBootNext,
        Restored, Stubbed, NoneStarted, Started, FirstSteps, DownloadSteps,
        ExtractSteps, FlashBootSteps, FlashRebootSteps, CleanupSteps, BootWindow,
        fw, boot, rootFs, sbin, card, machine
<1>1. /\ pc \in [Procs -> Steps] /\ job \in [Procs -> Job] /\ mode \in Modes
      /\ ProcessesFollowMode /\ TrapsSet
  BY DEF IInv, TypeOK
<1>2. \A q \in Procs : q = p
  BY DEF OneAtATime
<1> USE DEF ProcessesFollowMode, TrapsSet
<1>FrStart. CASE FrStart(p)
  BY <1>FrStart, <1>1, <1>2 DEF FrStart, At, Goto, SetTrap, CanFlashReboot
<1>FrRefuse. CASE FrRefuse(p)
  BY <1>FrRefuse, <1>1, <1>2 DEF FrRefuse, At, Refuse, CanFlashReboot, Leave, Goto
<1>FrPartition. CASE FrPartition(p)
  BY <1>FrPartition, <1>1, <1>2 DEF FrPartition, At, Goto
<1>FrNoRoom. CASE FrNoRoom(p)
  BY <1>FrNoRoom, <1>1, <1>2 DEF FrNoRoom, At, Leave, Goto
<1>FrPrepare. CASE FrPrepare(p)
  BY <1>FrPrepare, <1>1, <1>2, VersionAssumption
  DEF FrPrepare, At, Goto, MarkRw, ImageMounts
<1>FrPrepareFailed. CASE FrPrepareFailed(p)
  BY <1>FrPrepareFailed, <1>1, <1>2
  DEF FrPrepareFailed, At, Leave, MayFail, ImageMounts, Goto
<1>FrReboot. CASE FrReboot(p)
  BY <1>FrReboot, <1>1, <1>2 DEF FrReboot, At, Goto
<1>FrForced. CASE FrForced(p)
  BY <1>FrForced, <1>1, <1>2 DEF FrForced, At, PowerDown, NoJob
<1>FrFdiskFailed. CASE FrFdiskFailed(p)
  BY <1>FrFdiskFailed, <1>1, <1>2 DEF FrFdiskFailed, At, Leave, Goto
<1>FrScriptFailed. CASE FrScriptFailed(p)
  BY <1>FrScriptFailed, <1>1, <1>2
  DEF FrScriptFailed, At, Leave, Goto, MarkRw, ImageMounts
<1>FrReleaseFailed. CASE FrReleaseFailed(p)
  BY <1>FrReleaseFailed, <1>1, <1>2 DEF FrReleaseFailed, At, Leave, Goto
<1> QED BY <1>FrStart, <1>FrRefuse, <1>FrPartition, <1>FrNoRoom, <1>FrPrepare,
          <1>FrPrepareFailed, <1>FrReboot, <1>FrForced,
          <1>FrFdiskFailed, <1>FrScriptFailed, <1>FrReleaseFailed
    DEF FlashRebootStep

LEMMA CleanupUndisturbed ==
    ASSUME OneAtATime, IInv, OwnRebootOnly, RebootFollowsSteps, MarkersFollowSteps, NEW p \in Procs,
           CleanupStep(p)
    PROVE  OwnRebootOnly' /\ RebootFollowsSteps' /\ MarkersFollowSteps'
<1> USE DEF OwnRebootOnly, RebootFollowsSteps, MarkersFollowSteps, AllIdle, NormalBootNext,
        Restored, Stubbed, NoneStarted, Started, FirstSteps, DownloadSteps,
        ExtractSteps, FlashBootSteps, FlashRebootSteps, CleanupSteps, BootWindow,
        fw, boot, rootFs, sbin, card, machine
<1>1. /\ pc \in [Procs -> Steps] /\ job \in [Procs -> Job] /\ mode \in Modes
      /\ ProcessesFollowMode /\ TrapsSet
  BY DEF IInv, TypeOK
<1>2. \A q \in Procs : q = p
  BY DEF OneAtATime
<1> USE DEF ProcessesFollowMode, TrapsSet
<1>ClRemoveStub. CASE ClRemoveStub(p)
  BY <1>ClRemoveStub, <1>1, <1>2 DEF ClRemoveStub, At, Goto
<1>ClRestoreReboot. CASE ClRestoreReboot(p)
  BY <1>ClRestoreReboot, <1>1, <1>2 DEF ClRestoreReboot, At, Goto
<1>ClRemountBoot. CASE ClRemountBoot(p)
  BY <1>ClRemountBoot, <1>1, <1>2 DEF ClRemountBoot, At, Goto
<1>ClFlags. CASE ClFlags(p)
  BY <1>ClFlags, <1>1, <1>2 DEF ClFlags, At, Goto, NoJob, ClearedOnExit
<1> QED BY <1>ClRemoveStub, <1>ClRestoreReboot, <1>ClRemountBoot, <1>ClFlags
    DEF CleanupStep

LEMMA StartUndisturbed ==
    ASSUME OneAtATime, IInv, OwnRebootOnly, RebootFollowsSteps, MarkersFollowSteps,
           NEW p \in Procs, NEW cmd \in Commands, NEW v \in Versions \union {Absent},
           Start(p, cmd, v)
    PROVE  OwnRebootOnly' /\ RebootFollowsSteps' /\ MarkersFollowSteps'
<1> USE DEF OwnRebootOnly, RebootFollowsSteps, MarkersFollowSteps, AllIdle, NormalBootNext,
        Restored, Stubbed, NoneStarted, Started, FirstSteps, DownloadSteps,
        ExtractSteps, FlashBootSteps, FlashRebootSteps, CleanupSteps, BootWindow,
        fw, boot, rootFs, sbin, card, machine
<1>1. /\ pc \in [Procs -> Steps] /\ job \in [Procs -> Job] /\ mode \in Modes
      /\ ProcessesFollowMode /\ TrapsSet
  BY DEF IInv, TypeOK
<1>2. \A q \in Procs : q = p
  BY DEF OneAtATime
<1> USE DEF ProcessesFollowMode, TrapsSet
<1> QED BY <1>1, <1>2, EnvironmentAssumption DEF Start, Goto, First, Cmds

LEMMA MachineUndisturbed ==
    ASSUME Undisturbed, IInv, OwnRebootOnly, RebootFollowsSteps, MarkersFollowSteps,
           Machine \/ Boot \/ Im, ~ImCopyFails
    PROVE  OwnRebootOnly' /\ RebootFollowsSteps' /\ MarkersFollowSteps'
<1> USE DEF OwnRebootOnly, RebootFollowsSteps, MarkersFollowSteps, AllIdle, NormalBootNext,
        Restored, Stubbed, NoneStarted, Started, FirstSteps, DownloadSteps,
        ExtractSteps, FlashBootSteps, FlashRebootSteps, CleanupSteps, BootWindow,
        fw, boot, rootFs, sbin, card, machine
<1>1. /\ pc \in [Procs -> Steps] /\ job \in [Procs -> Job] /\ mode \in Modes
      /\ ProcessesFollowMode /\ InInitramfs
  BY DEF IInv, TypeOK
<1> USE DEF ProcessesFollowMode, InInitramfs, Initramfs
<1>RequestReboot. CASE RequestReboot
  BY <1>RequestReboot DEF RequestReboot, Undisturbed
<1>Shutdown. CASE Shutdown
  <2>1. mode = "up" /\ \E p \in Procs : pc[p] = "fr_wait"
    BY <1>Shutdown DEF Shutdown, Stop
  <2>2. initrd /\ image # Absent /\ rootInfo # Absent
    BY <2>1
  <2> QED BY <1>Shutdown, <1>1, <2>1, <2>2 DEF Shutdown, Stop
<1>Poweroff. CASE Poweroff
  BY <1>Poweroff DEF Poweroff, Undisturbed
<1>Halt. CASE Halt
  BY <1>Halt, <1>1 DEF Halt, PowerDown, NoJob
<1>PowerCut. CASE PowerCut
  BY <1>PowerCut DEF PowerCut, Undisturbed
<1>Dead. CASE Dead
  BY <1>Dead DEF Dead, vars
<1>BootNormal. CASE BootNormal
  BY <1>BootNormal, <1>1 DEF BootNormal, RootReadable
<1>BootInitramfs. CASE BootInitramfs
  BY <1>BootInitramfs, <1>1 DEF BootInitramfs
<1>BootFails. CASE BootFails
  BY <1>BootFails, <1>1 DEF BootFails, RootReadable
<1>ImCopyStarts. CASE ImCopyStarts
  BY <1>ImCopyStarts, <1>1 DEF ImCopyStarts
<1>ImNothingToDo. CASE ImNothingToDo
  BY <1>ImNothingToDo, <1>1 DEF ImNothingToDo
<1>ImCopyEnds. CASE ImCopyEnds
  BY <1>ImCopyEnds, <1>1 DEF ImCopyEnds
<1>ImRemove. CASE ImRemove
  BY <1>ImRemove, <1>1 DEF ImRemove
<1>ImRemoved. CASE ImRemoved
  BY <1>ImRemoved, <1>1 DEF ImRemoved
<1>ImExit. CASE ImExit
  BY <1>ImExit, <1>1 DEF ImExit, PowerDown, NoJob
<1> QED BY <1>RequestReboot, <1>Shutdown, <1>Poweroff, <1>Halt, <1>PowerCut, <1>Dead,
          <1>BootNormal, <1>BootInitramfs, <1>BootFails, <1>ImCopyStarts,
          <1>ImNothingToDo, <1>ImCopyEnds, <1>ImRemove, <1>ImRemoved, <1>ImExit
    DEF Machine, Boot, Im

LEMMA DownloadDefaults ==
    ASSUME OneAtATime, IInv, OwnRebootOnly, DefaultsFollowSteps, NEW p \in Procs,
           DownloadStep(p)
    PROVE  DefaultsFollowSteps'
<1> USE DEF DefaultsFollowSteps, NormalBootNext, DownloadSteps, ExtractSteps, FlashBootSteps,
        FlashRebootSteps, CleanupSteps, BootExtent, Fits, fw, boot, rootFs, sbin, card, machine
<1>1. /\ pc \in [Procs -> Steps] /\ job \in [Procs -> Job] /\ mode \in Modes
      /\ ProcessesFollowMode /\ OwnRebootOnly /\ TrapsSet
  BY DEF IInv, TypeOK
<1>2. \A q \in Procs : q = p
  BY DEF OneAtATime
<1> USE DEF ProcessesFollowMode, OwnRebootOnly, TrapsSet
<1>DlWipe1. CASE DlWipe1(p)
  BY <1>DlWipe1, <1>1, <1>2 DEF DlWipe1, At, Goto
<1>DlWipe2. CASE DlWipe2(p)
  BY <1>DlWipe2, <1>1, <1>2 DEF DlWipe2, DiscardImage, At, Goto
<1>DlWipe3. CASE DlWipe3(p)
  BY <1>DlWipe3, <1>1, <1>2 DEF DlWipe3, At, Goto, SetTrap
<1>DlLocal. CASE DlLocal(p)
  BY <1>DlLocal, <1>1, <1>2 DEF DlLocal, At, Goto
<1>DlCopied. CASE DlCopied(p)
  BY <1>DlCopied, <1>1, <1>2 DEF DlCopied, At, Finish, Goto
<1>DlStart. CASE DlStart(p)
  BY <1>DlStart, <1>1, <1>2 DEF DlStart, Download, At, Goto
<1>DlLowSpace. CASE DlLowSpace(p)
  BY <1>DlLowSpace, <1>1, <1>2 DEF DlLowSpace, Download, MayFail, At, Goto
<1>DlNoSpace. CASE DlNoSpace(p)
  BY <1>DlNoSpace, <1>1, <1>2 DEF DlNoSpace, At, Refuse, MayFail, Leave, Goto
<1>DlFetched. CASE DlFetched(p)
  BY <1>DlFetched, <1>1, <1>2 DEF DlFetched, At, Finish, Goto
<1>DlFailed. CASE DlFailed(p)
  BY <1>DlFailed, <1>1, <1>2 DEF DlFailed, At, Leave, MayFail, Goto
<1>DlAborted. CASE DlAborted(p)
  BY <1>DlAborted, <1>1, <1>2 DEF DlAborted, At, Leave, MayFail, Goto
<1> QED BY <1>DlWipe1, <1>DlWipe2, <1>DlWipe3, <1>DlLocal, <1>DlCopied, <1>DlStart,
          <1>DlLowSpace, <1>DlNoSpace, <1>DlFetched, <1>DlFailed,
          <1>DlAborted
    DEF DownloadStep

LEMMA ExtractDefaults ==
    ASSUME OneAtATime, IInv, OwnRebootOnly, DefaultsFollowSteps, NEW p \in Procs,
           ExtractStep(p)
    PROVE  DefaultsFollowSteps'
<1> USE DEF DefaultsFollowSteps, NormalBootNext, DownloadSteps, ExtractSteps, FlashBootSteps,
        FlashRebootSteps, CleanupSteps, BootExtent, Fits, fw, boot, rootFs, sbin, card, machine
<1>1. /\ pc \in [Procs -> Steps] /\ job \in [Procs -> Job] /\ mode \in Modes
      /\ ProcessesFollowMode /\ OwnRebootOnly /\ TrapsSet
  BY DEF IInv, TypeOK
<1>2. \A q \in Procs : q = p
  BY DEF OneAtATime
<1> USE DEF ProcessesFollowMode, OwnRebootOnly, TrapsSet
<1>ExStart. CASE ExStart(p)
  BY <1>ExStart, <1>1, <1>2 DEF ExStart, DiscardImage, At, Goto, SetTrap, CanExtract, ExtractResets
<1>ExRefuse. CASE ExRefuse(p)
  BY <1>ExRefuse, <1>1, <1>2 DEF ExRefuse, At, Refuse, CanExtract, Leave, Goto
<1>ExUnpacked. CASE ExUnpacked(p)
  BY <1>ExUnpacked, <1>1, <1>2 DEF ExUnpacked, At, Goto
<1>ExUnpackFailed. CASE ExUnpackFailed(p)
  BY <1>ExUnpackFailed, <1>1, <1>2 DEF ExUnpackFailed, At, Leave, MayFail, Goto
<1>ExBootInfo. CASE ExBootInfo(p)
  BY <1>ExBootInfo, <1>1, <1>2 DEF ExBootInfo, At, Goto
<1>ExRootInfo. CASE ExRootInfo(p)
  BY <1>ExRootInfo, <1>1, <1>2 DEF ExRootInfo, At, Goto
<1>ExDone. CASE ExDone(p)
  BY <1>ExDone, <1>1, <1>2 DEF ExDone, At, Finish, Goto
<1>ExHookFailed. CASE ExHookFailed(p)
  BY <1>ExHookFailed, <1>1, <1>2 DEF ExHookFailed, At, Refuse, MayFail, Leave, Goto
<1>ExReadFailed. CASE ExReadFailed(p)
  BY <1>ExReadFailed, <1>1, <1>2 DEF ExReadFailed, At, Leave, MayFail, Goto
<1> QED BY <1>ExStart, <1>ExRefuse, <1>ExUnpacked, <1>ExUnpackFailed, <1>ExBootInfo,
          <1>ExRootInfo, <1>ExDone, <1>ExHookFailed, <1>ExReadFailed
    DEF ExtractStep

LEMMA FlashBootDefaults ==
    ASSUME DefaultsCanBeKept, OneAtATime, IInv, DefaultsFollowSteps, NEW p \in Procs,
           FlashBootStep(p)
    PROVE  DefaultsFollowSteps'
<1> USE DEF DefaultsFollowSteps, NormalBootNext, DownloadSteps, ExtractSteps, FlashBootSteps,
        FlashRebootSteps, CleanupSteps, BootExtent, Fits, fw, boot, rootFs, sbin, card, machine
<1>1. /\ pc \in [Procs -> Steps] /\ job \in [Procs -> Job] /\ mode \in Modes
      /\ ProcessesFollowMode /\ FlashingBoot /\ DoneMarkersTruthful /\ TrapsSet
  BY DEF IInv, TypeOK
<1>2. \A q \in Procs : q = p
  BY DEF OneAtATime
<1>3. \A kind \in {"backup", "bootdd", "mount", "restore"} : ~MayFail(kind)
  BY DEF DefaultsCanBeKept, MayFail
<1> USE DEF ProcessesFollowMode, TrapsSet
<1>FbStart. CASE FbStart(p)
  BY <1>FbStart, <1>1, <1>2 DEF FbStart, At, Goto, SetTrap, CanFlashBoot
<1>FbRefuse. CASE FbRefuse(p)
  BY <1>FbRefuse, <1>1, <1>2 DEF FbRefuse, At, Refuse, CanFlashBoot, Leave, Goto
<1>FbBackup. CASE FbBackup(p)
  BY <1>FbBackup, <1>1, <1>2 DEF FbBackup, At, Goto, BootDirDefaults
<1>FbCopied. CASE FbCopied(p)
  BY <1>FbCopied, <1>1, <1>2 DEF FbCopied, At, Goto, BootDirDefaults
<1>FbBackupFailed. CASE FbBackupFailed(p)
  BY <1>FbBackupFailed, <1>1, <1>2, <1>3 DEF FbBackupFailed, At, Leave, Goto
<1>FbUmount. CASE FbUmount(p)
  BY <1>FbUmount, <1>1, <1>2 DEF FbUmount, At, Goto
<1>FbMoveReboot. CASE FbMoveReboot(p)
  BY <1>FbMoveReboot, <1>1, <1>2 DEF FbMoveReboot, At, Goto
<1>FbStubReboot. CASE FbStubReboot(p)
  BY <1>FbStubReboot, <1>1, <1>2 DEF FbStubReboot, At, Goto, Stub
<1>FbStubFailed. CASE FbStubFailed(p)
  BY <1>FbStubFailed, <1>1, <1>2 DEF FbStubFailed, At, Leave, Goto
<1>FbPartition. CASE FbPartition(p)
  <2>1. part \in [boot : Extent, root : Extent] /\ BootExtent \in Extent
    BY LayoutAssumption DEF IInv, TypeOK
  <2>2. Fits(part'.boot, BootExtent)
    BY <1>FbPartition, <2>1 DEF FbPartition, NewBootTable, Extent
  <2>3. Fits(part'.boot, BootExtent')
    BY <1>FbPartition, <2>1, <2>2 DEF FbPartition, NewBootTable, Extent
  <2> QED BY <1>FbPartition, <1>1, <1>2, <2>3 DEF FbPartition, At, Goto
<1>FbNoRoom. CASE FbNoRoom(p)
  BY <1>FbNoRoom, <1>1, <1>2 DEF FbNoRoom, At, Leave, Goto
<1>FbFlash. CASE FbFlash(p)
  BY <1>FbFlash, <1>1, <1>2 DEF FbFlash, At, Goto
<1>FbFlashed. CASE FbFlashed(p)
  BY <1>FbFlashed, <1>1, <1>2 DEF FbFlashed, At, Goto
<1>FbFlashFailed. CASE FbFlashFailed(p)
  <2>1. \/ At(p, "fb_dd") /\ image = Absent
        \/ At(p, "fb_mount") /\ ~BootReadable
    BY <1>FbFlashFailed, <1>3 DEF FbFlashFailed
  <2>2. At(p, "fb_dd") => image # Absent
    BY <1>1 DEF At, FlashingBoot
  <2>3. ASSUME At(p, "fb_mount")
        PROVE  BootReadable
    <3>1. /\ "extract_done" \in flags /\ image # Absent
          /\ bootInfo = image /\ bootC = image
      BY <1>1, <2>3 DEF At, FlashingBoot
    <3>2. image \in Versions
      BY <1>1, <3>1 DEF DoneMarkersTruthful, IInv, TypeOK, Content
    <3> QED BY <1>1, <1>FbFlashFailed, <2>3, <3>1, <3>2 DEF FbFlashFailed, At, BootReadable
  <2> QED BY <2>1, <2>2, <2>3
<1>FbMount. CASE FbMount(p)
  BY <1>FbMount, <1>1, <1>2 DEF FbMount, At, Goto, MarkRw
<1>FbRestore. CASE FbRestore(p)
  BY <1>FbRestore, <1>1, <1>2 DEF FbRestore, At, Goto
<1>FbRestored. CASE FbRestored(p)
  BY <1>FbRestored, <1>1, <1>2 DEF FbRestored, At, Goto
<1>FbDone. CASE FbDone(p)
  BY <1>FbDone, <1>1, <1>2 DEF FbDone, At, Finish, Goto
<1>FbFdiskFailed. CASE FbFdiskFailed(p)
  BY <1>FbFdiskFailed, <1>1, <1>2 DEF FbFdiskFailed, At, Leave, Goto
<1>FbRestoreFailed. CASE FbRestoreFailed(p)
  BY <1>FbRestoreFailed, <1>3 DEF FbRestoreFailed
<1> QED BY <1>FbStart, <1>FbRefuse, <1>FbBackup, <1>FbCopied, <1>FbBackupFailed,
          <1>FbUmount, <1>FbMoveReboot, <1>FbStubReboot, <1>FbStubFailed,
          <1>FbPartition, <1>FbNoRoom, <1>FbFlash, <1>FbFlashed, <1>FbFlashFailed,
          <1>FbMount, <1>FbRestore, <1>FbRestored, <1>FbDone,
          <1>FbFdiskFailed, <1>FbRestoreFailed
    DEF FlashBootStep

LEMMA FlashRebootDefaults ==
    ASSUME OneAtATime, IInv, OwnRebootOnly, DefaultsFollowSteps, NEW p \in Procs,
           FlashRebootStep(p)
    PROVE  DefaultsFollowSteps'
<1> USE DEF DefaultsFollowSteps, NormalBootNext, DownloadSteps, ExtractSteps, FlashBootSteps,
        FlashRebootSteps, CleanupSteps, BootExtent, Fits, fw, boot, rootFs, sbin, card, machine
<1>1. /\ pc \in [Procs -> Steps] /\ job \in [Procs -> Job] /\ mode \in Modes
      /\ ProcessesFollowMode /\ OwnRebootOnly /\ TrapsSet
  BY DEF IInv, TypeOK
<1>2. \A q \in Procs : q = p
  BY DEF OneAtATime
<1> USE DEF ProcessesFollowMode, OwnRebootOnly, TrapsSet
<1>FrStart. CASE FrStart(p)
  BY <1>FrStart, <1>1, <1>2 DEF FrStart, At, Goto, SetTrap, CanFlashReboot
<1>FrRefuse. CASE FrRefuse(p)
  BY <1>FrRefuse, <1>1, <1>2 DEF FrRefuse, At, Refuse, CanFlashReboot, Leave, Goto
<1>FrPartition. CASE FrPartition(p)
  <2>1. part \in [boot : Extent, root : Extent]
    BY DEF IInv, TypeOK
  <2> QED BY <1>FrPartition, <1>1, <1>2, <2>1 DEF FrPartition, NewRootTable, At, Goto
<1>FrNoRoom. CASE FrNoRoom(p)
  BY <1>FrNoRoom, <1>1, <1>2 DEF FrNoRoom, At, Leave, Goto
<1>FrPrepare. CASE FrPrepare(p)
  BY <1>FrPrepare, <1>1, <1>2 DEF FrPrepare, At, Goto, MarkRw, ImageMounts
<1>FrPrepareFailed. CASE FrPrepareFailed(p)
  BY <1>FrPrepareFailed, <1>1, <1>2
  DEF FrPrepareFailed, At, Leave, MayFail, ImageMounts, Goto
<1>FrReboot. CASE FrReboot(p)
  BY <1>FrReboot, <1>1, <1>2 DEF FrReboot, At, Goto
<1>FrForced. CASE FrForced(p)
  BY <1>FrForced, <1>1, <1>2 DEF FrForced, At, PowerDown, NoJob
<1>FrFdiskFailed. CASE FrFdiskFailed(p)
  <2>1. part \in [boot : Extent, root : Extent]
    BY DEF IInv, TypeOK
  <2> QED BY <1>FrFdiskFailed, <1>1, <1>2, <2>1
          DEF FrFdiskFailed, NewRootTable, At, Leave, Goto
<1>FrScriptFailed. CASE FrScriptFailed(p)
  BY <1>FrScriptFailed, <1>1, <1>2
  DEF FrScriptFailed, At, Leave, Goto, MarkRw, ImageMounts
<1>FrReleaseFailed. CASE FrReleaseFailed(p)
  BY <1>FrReleaseFailed, <1>1, <1>2 DEF FrReleaseFailed, At, Leave, Goto
<1> QED BY <1>FrStart, <1>FrRefuse, <1>FrPartition, <1>FrNoRoom, <1>FrPrepare,
          <1>FrPrepareFailed, <1>FrReboot, <1>FrForced,
          <1>FrFdiskFailed, <1>FrScriptFailed, <1>FrReleaseFailed
    DEF FlashRebootStep

LEMMA CleanupDefaults ==
    ASSUME OneAtATime, IInv, OwnRebootOnly, DefaultsFollowSteps, NEW p \in Procs,
           CleanupStep(p)
    PROVE  DefaultsFollowSteps'
<1> USE DEF DefaultsFollowSteps, NormalBootNext, DownloadSteps, ExtractSteps, FlashBootSteps,
        FlashRebootSteps, CleanupSteps, BootExtent, Fits, fw, boot, rootFs, sbin, card, machine
<1>1. /\ pc \in [Procs -> Steps] /\ job \in [Procs -> Job] /\ mode \in Modes
      /\ ProcessesFollowMode /\ OwnRebootOnly /\ TrapsSet
  BY DEF IInv, TypeOK
<1>2. \A q \in Procs : q = p
  BY DEF OneAtATime
<1> USE DEF ProcessesFollowMode, OwnRebootOnly, TrapsSet
<1>ClRemoveStub. CASE ClRemoveStub(p)
  BY <1>ClRemoveStub, <1>1, <1>2 DEF ClRemoveStub, At, Goto
<1>ClRestoreReboot. CASE ClRestoreReboot(p)
  BY <1>ClRestoreReboot, <1>1, <1>2 DEF ClRestoreReboot, At, Goto
<1>ClRemountBoot. CASE ClRemountBoot(p)
  BY <1>ClRemountBoot, <1>1, <1>2 DEF ClRemountBoot, At, Goto
<1>ClFlags. CASE ClFlags(p)
  BY <1>ClFlags, <1>1, <1>2 DEF ClFlags, At, Goto, NoJob, ClearedOnExit
<1> QED BY <1>ClRemoveStub, <1>ClRestoreReboot, <1>ClRemountBoot, <1>ClFlags
    DEF CleanupStep

LEMMA StartDefaults ==
    ASSUME OneAtATime, IInv, OwnRebootOnly, DefaultsFollowSteps,
           NEW p \in Procs, NEW cmd \in Commands, NEW v \in Versions \union {Absent},
           Start(p, cmd, v)
    PROVE  DefaultsFollowSteps'
<1> USE DEF DefaultsFollowSteps, NormalBootNext, DownloadSteps, ExtractSteps, FlashBootSteps,
        FlashRebootSteps, CleanupSteps, BootExtent, Fits, fw, boot, rootFs, sbin, card, machine
<1>1. /\ pc \in [Procs -> Steps] /\ job \in [Procs -> Job] /\ mode \in Modes
      /\ ProcessesFollowMode /\ OwnRebootOnly /\ TrapsSet
  BY DEF IInv, TypeOK
<1>2. \A q \in Procs : q = p
  BY DEF OneAtATime
<1> USE DEF ProcessesFollowMode, OwnRebootOnly, TrapsSet
<1> QED BY <1>1, <1>2, EnvironmentAssumption DEF Start, Goto, First, Cmds

LEMMA MachineDefaults ==
    ASSUME OneAtATime, Undisturbed, IInv, OwnRebootOnly, DefaultsFollowSteps,
           Machine \/ Boot \/ Im, ~ImCopyFails
    PROVE  DefaultsFollowSteps'
<1> USE DEF DefaultsFollowSteps, NormalBootNext, DownloadSteps, ExtractSteps, FlashBootSteps,
        FlashRebootSteps, CleanupSteps, BootExtent, Fits, fw, boot, rootFs, sbin, card, machine
<1>1. /\ pc \in [Procs -> Steps] /\ job \in [Procs -> Job] /\ mode \in Modes
      /\ ProcessesFollowMode /\ InInitramfs /\ OwnRebootOnly /\ TrapsSet
  BY DEF IInv, TypeOK
<1> USE DEF ProcessesFollowMode, InInitramfs, Initramfs, OwnRebootOnly
<1>RequestReboot. CASE RequestReboot
  BY <1>RequestReboot DEF RequestReboot, Undisturbed
<1>Shutdown. CASE Shutdown
  <2>1. mode = "up" /\ \A q \in Procs : pc[q] = "fr_wait"
    BY <1>Shutdown DEF Shutdown, Stop, OneAtATime
  <2>2. initrd /\ fdBoot = "good"
    BY <2>1, <1>Shutdown DEF Shutdown
  <2> QED BY <1>Shutdown, <1>1, <2>1, <2>2 DEF Shutdown, Stop
<1>Poweroff. CASE Poweroff
  BY <1>Poweroff DEF Poweroff, Undisturbed
<1>Halt. CASE Halt
  BY <1>Halt, <1>1 DEF Halt, PowerDown, NoJob
<1>PowerCut. CASE PowerCut
  BY <1>PowerCut DEF PowerCut, Undisturbed
<1>Dead. CASE Dead
  BY <1>Dead DEF Dead, vars
<1>BootNormal. CASE BootNormal
  BY <1>BootNormal, <1>1 DEF BootNormal, RootReadable
<1>BootInitramfs. CASE BootInitramfs
  BY <1>BootInitramfs, <1>1 DEF BootInitramfs
<1>BootFails. CASE BootFails
  BY <1>BootFails, <1>1 DEF BootFails, RootReadable
<1>ImCopyStarts. CASE ImCopyStarts
  BY <1>ImCopyStarts, <1>1 DEF ImCopyStarts
<1>ImNothingToDo. CASE ImNothingToDo
  BY <1>ImNothingToDo, <1>1 DEF ImNothingToDo
<1>ImCopyEnds. CASE ImCopyEnds
  BY <1>ImCopyEnds, <1>1 DEF ImCopyEnds
<1>ImRemove. CASE ImRemove
  BY <1>ImRemove, <1>1 DEF ImRemove
<1>ImRemoved. CASE ImRemoved
  BY <1>ImRemoved, <1>1 DEF ImRemoved
<1>ImExit. CASE ImExit
  BY <1>ImExit, <1>1 DEF ImExit, PowerDown, NoJob
<1> QED BY <1>RequestReboot, <1>Shutdown, <1>Poweroff, <1>Halt, <1>PowerCut, <1>Dead,
          <1>BootNormal, <1>BootInitramfs, <1>BootFails, <1>ImCopyStarts,
          <1>ImNothingToDo, <1>ImCopyEnds, <1>ImRemove, <1>ImRemoved, <1>ImExit
    DEF Machine, Boot, Im

LEMMA UndisturbedStep ==
    ASSUME OneAtATime, Undisturbed, UndisturbedInv, [Next]_vars, ~ImCopyFails
    PROVE  UndisturbedInv'
<1> USE DEF UndisturbedInv
<1>1. IInv'
  BY NextInv
<1>2. CASE \E p \in Procs : Step(p)
  BY <1>1, <1>2, DownloadUndisturbed, ExtractUndisturbed, FlashBootUndisturbed,
     FlashRebootUndisturbed, CleanupUndisturbed DEF Step
<1>3. CASE \E p \in Procs, cmd \in Commands, v \in Versions \union {Absent} :
              Start(p, cmd, v)
  BY <1>1, <1>3, StartUndisturbed
<1>4. CASE Machine \/ Boot \/ Im
  BY <1>1, <1>4, MachineUndisturbed
<1>5. CASE UNCHANGED vars
  BY <1>1, <1>5
  DEF vars, fw, boot, rootFs, sbin, card, machine, OwnRebootOnly, RebootFollowsSteps,
      MarkersFollowSteps, AllIdle, NormalBootNext, Restored, Stubbed, NoneStarted
<1> QED BY <1>2, <1>3, <1>4, <1>5 DEF Next

LEMMA DefaultsStep ==
    ASSUME OneAtATime, Undisturbed, DefaultsCanBeKept, UndisturbedInv, DefaultsFollowSteps,
           [Next]_vars, ~ImCopyFails
    PROVE  DefaultsFollowSteps'
<1> USE DEF UndisturbedInv
<1>1. CASE \E p \in Procs : Step(p)
  BY <1>1, DownloadDefaults, ExtractDefaults, FlashBootDefaults, FlashRebootDefaults,
     CleanupDefaults DEF Step
<1>2. CASE \E p \in Procs, cmd \in Commands, v \in Versions \union {Absent} :
              Start(p, cmd, v)
  BY <1>2, StartDefaults
<1>3. CASE Machine \/ Boot \/ Im
  BY <1>3, MachineDefaults
<1>4. CASE UNCHANGED vars
  BY <1>4 DEF vars, fw, boot, rootFs, sbin, card, machine, DefaultsFollowSteps,
     NormalBootNext, BootExtent
<1> QED BY <1>1, <1>2, <1>3, <1>4 DEF Next

\* A device that is lost stays lost: nobody runs, and the next boot fails.
LEMMA LostForEver ==
    ASSUME Undisturbed, Lost, [Next]_vars
    PROVE  Lost'
<1> USE DEF Lost, fw, boot, rootFs, card
<1>1. ASSUME NEW p \in Procs
      PROVE  ~Step(p)
  <2>1. \A s \in Steps : ~At(p, s)
    BY DEF At
  <2>2. ~DownloadStep(p)
    BY <2>1 DEF DownloadStep, DlWipe1, DlWipe2, DlWipe3, DlLocal, DlCopied, DlStart,
       DlLowSpace, DlNoSpace, DlFetched, DlFailed, DlAborted, Download, Steps, DownloadSteps
  <2>3. ~ExtractStep(p)
    BY <2>1 DEF ExtractStep, ExStart, ExRefuse, ExUnpacked, ExUnpackFailed, ExBootInfo,
       ExRootInfo, ExDone, ExHookFailed, ExReadFailed, Steps, ExtractSteps
  <2>4. ~FlashBootStep(p)
    BY <2>1 DEF FlashBootStep, FbStart, FbRefuse, FbBackup, FbCopied, FbBackupFailed,
       FbUmount, FbMoveReboot, FbStubReboot, FbStubFailed, FbPartition, FbNoRoom, FbFlash,
       FbFlashed, FbFlashFailed, FbMount, FbRestore, FbRestored, FbDone,
     FbFdiskFailed, FbRestoreFailed, Steps,
       FlashBootSteps
  <2>5. ~FlashRebootStep(p)
    BY <2>1 DEF FlashRebootStep, FrStart, FrRefuse, FrPartition, FrNoRoom, FrPrepare,
       FrFdiskFailed, FrScriptFailed, FrReleaseFailed, FrPrepareFailed, FrReboot, FrForced,
       Steps, FlashRebootSteps
  <2>6. ~CleanupStep(p)
    BY <2>1 DEF CleanupStep, ClRemoveStub, ClRestoreReboot, ClRemountBoot, ClFlags, Steps,
       CleanupSteps
  <2> QED BY <2>2, <2>3, <2>4, <2>5, <2>6 DEF Step
<1>2. \A p, cmd, v : ~Start(p, cmd, v)
  BY DEF Start
<1>3. CASE Machine
  BY <1>3 DEF Machine, RequestReboot, Shutdown, Poweroff, Stop, Halt, PowerCut, Dead,
     Undisturbed, vars, machine
<1>4. CASE Boot
  BY <1>4, VersionAssumption DEF Boot, BootNormal, BootInitramfs, BootFails, RootReadable
<1>5. CASE Im
  BY <1>5 DEF Im, ImCopyStarts, ImNothingToDo, ImCopyEnds, ImCopyFails, ImRemove,
     ImRemoved, ImExit, PowerDown
<1>6. CASE UNCHANGED vars
  BY <1>6 DEF vars, machine
<1> QED BY <1>1, <1>2, <1>3, <1>4, <1>5, <1>6 DEF Next

LEMMA CopyFailsLost ==
    ASSUME UndisturbedInv, ImCopyFails
    PROVE  Lost'
BY DEF UndisturbedInv, IInv, ProcessesFollowMode, Initramfs, OwnRebootOnly, ImCopyFails, Lost,
   card, rootFs

LEMMA UndisturbedInit == Init => UndisturbedInv
<1> SUFFICES ASSUME Init PROVE UndisturbedInv
  OBVIOUS
<1>1. IInv
  BY InitInv
<1> QED BY <1>1
    DEF Init, UndisturbedInv, OwnRebootOnly, RebootFollowsSteps, MarkersFollowSteps, AllIdle,
        NormalBootNext, Restored, NoneStarted, FirstSteps, DownloadSteps, ExtractSteps,
        FlashBootSteps, FlashRebootSteps

LEMMA UndisturbedInductive ==
    ASSUME OneAtATime, Undisturbed
    PROVE  Spec => [](UndisturbedInv \/ Lost)
<1>1. UndisturbedInv \/ Lost => ([Next]_vars => (UndisturbedInv \/ Lost)')
  BY UndisturbedStep, CopyFailsLost, LostForEver
<1> QED BY <1>1, UndisturbedInit, PTL DEF Spec

LEMMA DefaultsInductive ==
    ASSUME OneAtATime, Undisturbed, DefaultsCanBeKept
    PROVE  Spec => []((UndisturbedInv /\ DefaultsFollowSteps) \/ Lost)
<1>1. ASSUME Init
      PROVE  UndisturbedInv /\ DefaultsFollowSteps
  <2>1. /\ mode = "off" /\ oldBoot = "absent" /\ fdBoot = "good"
        /\ \A p \in Procs : pc[p] = "idle" /\ ~job[p].rw
    BY <1>1 DEF Init, DefaultsCanBeKept, NoJob
  <2> QED BY <1>1, <2>1, UndisturbedInit DEF DefaultsFollowSteps
<1>2. (UndisturbedInv /\ DefaultsFollowSteps) \/ Lost =>
         ([Next]_vars => ((UndisturbedInv /\ DefaultsFollowSteps) \/ Lost)')
  BY UndisturbedStep, DefaultsStep, CopyFailsLost, LostForEver
<1> QED BY <1>1, <1>2, PTL DEF Spec

\* After fwupdate has ended, at whatever step it gave up and whatever the update did in
\* between, /sbin/reboot is the real one again.
THEOREM RebootIsRestored ==
    ASSUME OneAtATime, Undisturbed
    PROVE  Spec => []RebootRestored
<1>1. UndisturbedInv \/ Lost => RebootRestored
  BY DEF UndisturbedInv, RebootFollowsSteps, Restored, RebootRestored, AllIdle, Lost
<1> QED BY <1>1, UndisturbedInductive, PTL

\* `fwupdate status` shows the stage that runs, and none when nothing runs, whichever
\* stages were refused, failed or repeated before.
THEOREM StatusFollowsTheProcesses ==
    ASSUME OneAtATime, Undisturbed
    PROVE  Spec => []StatusFollowsProcesses
<1> USE DEF StatusFollowsProcesses, DownloadSteps, ExtractSteps, FlashBootSteps,
        FlashRebootSteps
<1>1. UndisturbedInv => StatusFollowsProcesses
  BY DEF UndisturbedInv, IInv, ProcessesFollowMode, MarkersFollowSteps, NoneStarted,
     FirstSteps, CleanupSteps
<1>2. Lost => StatusFollowsProcesses
  BY DEF Lost, AllIdle
<1> QED BY <1>1, <1>2, UndisturbedInductive, PTL

\* The factory defaults are on the boot partition whenever no fwupdate runs, however often
\* the stages are repeated and wherever they are refused.
THEOREM FactoryDefaultsStayInPlace ==
    ASSUME OneAtATime, Undisturbed, DefaultsCanBeKept
    PROVE  Spec => []FactoryDefaultsInPlace
<1>1. (UndisturbedInv /\ DefaultsFollowSteps) \/ Lost => FactoryDefaultsInPlace
  BY DEF DefaultsFollowSteps, FactoryDefaultsInPlace, AllIdle, Lost
<1> QED BY <1>1, DefaultsInductive, PTL

-----------------------------------------------------------------------------
(***************************************************************************)
(* FwUpdate implements AtomicUpdate: the initial states map to the initial *)
(* state, and every step of the scripts, the initramfs, the machine and    *)
(* the power supply maps to a step of the atomic update or to none.        *)
(***************************************************************************)

AtomicRoot == IF rootC = Torn /\ ~discarded THEN bootC ELSE rootC
AtomicPending == IF ~initrd THEN Absent ELSE IF discarded THEN Torn ELSE bootC

AtomicVars == <<bootC, AtomicRoot, AtomicPending>>

\* What an atomic step may depend on, left alone.
Stutters == UNCHANGED <<bootC, initrd, discarded, rootC>>

\* The root partition is whole as long as a process runs.
LEMMA RunsOnWholeRoot ==
    ASSUME IInv, NEW p \in Procs, NEW s \in Steps, At(p, s)
    PROVE  rootC # Torn /\ rootC \in Versions
BY DEF IInv, TypeOK, TornOnlyInCopy, At

\* Removing or overwriting the image discards the update that is pending, if one is.
LEMMA DiscardRefines ==
    ASSUME IInv, DiscardImage, NEW p \in Procs, NEW s \in Steps \ CleanupSteps, At(p, s),
           s # "idle"
    PROVE  Update!Discard \/ UNCHANGED AtomicVars
<1>1. rootC # Torn /\ UNCHANGED <<bootC, rootC, initrd>>
  BY RunsOnWholeRoot DEF DiscardImage, boot, rootFs
<1>d. discarded \/ initrd => discarded'
  BY Zenon DEF DiscardImage
<1>2. CASE ~initrd \/ discarded
  <2>1. AtomicRoot' = AtomicRoot
    BY <1>1 DEF AtomicRoot
  <2>2. AtomicPending' = AtomicPending
    <3>1. CASE ~initrd
      BY <1>1, <3>1 DEF AtomicPending
    <3>2. CASE discarded
      BY <1>1, <1>d, <3>2 DEF AtomicPending
    <3> QED BY <1>2, <3>1, <3>2
  <2> QED BY <1>1, <2>1, <2>2 DEF AtomicVars
<1>3. CASE initrd /\ ~discarded
  <2>1. bootC \in Versions
    BY <1>3 DEF IInv, Armed, BootReadable
  <2>2. AtomicPending = bootC /\ AtomicPending' = Torn
    BY <1>1, <1>d, <1>3 DEF AtomicPending
  <2>3. AtomicRoot' = AtomicRoot
    BY <1>1 DEF AtomicRoot
  <2> QED BY <1>1, <2>1, <2>2, <2>3 DEF Update!Discard, AtomicRoot, AtomicPending
<1> QED BY <1>2, <1>3

LEMMA DownloadRefines ==
    ASSUME IInv, NEW p \in Procs, DownloadStep(p)
    PROVE  Stutters \/ Update!Discard \/ UNCHANGED AtomicVars
<1>1. CASE DlWipe2(p)
  BY <1>1, DiscardRefines DEF DlWipe2, Steps, DownloadSteps, CleanupSteps
<1>2. CASE ~DlWipe2(p)
  BY <1>2 DEF Stutters, card, boot, rootFs, DownloadStep, DlWipe1, DlWipe3, DlLocal,
     DlCopied, DlStart, DlLowSpace, DlNoSpace, DlFetched, DlFailed, DlAborted, Download,
     Refuse
<1> QED BY <1>1, <1>2

LEMMA ExtractRefines ==
    ASSUME IInv, NEW p \in Procs, ExtractStep(p)
    PROVE  Stutters \/ Update!Discard \/ UNCHANGED AtomicVars
<1>1. CASE ExStart(p)
  BY <1>1, DiscardRefines DEF ExStart, Steps, ExtractSteps, CleanupSteps
<1>2. CASE ~ExStart(p)
  BY <1>2 DEF Stutters, card, boot, rootFs, ExtractStep, ExRefuse, ExUnpacked,
     ExUnpackFailed, ExBootInfo, ExRootInfo, ExDone, ExHookFailed, ExReadFailed, Refuse
<1> QED BY <1>1, <1>2

LEMMA CleanupStutters ==
    ASSUME NEW p \in Procs, CleanupStep(p)
    PROVE  Stutters
BY DEF Stutters, card, boot, rootFs, CleanupStep, ClRemoveStub, ClRestoreReboot,
   ClRemountBoot, ClFlags

\* Flashing the boot partition withdraws the update that was pending, if one was.
LEMMA FlashBootRefines ==
    ASSUME IInv, NEW p \in Procs, FlashBootStep(p)
    PROVE  \/ Stutters \/ UNCHANGED AtomicVars \/ Update!Flash
           \/ \E v \in Versions : Update!Flashed(v)
<1> USE DEF AtomicVars, AtomicRoot, AtomicPending
<1>1. CASE FbFlash(p)
  <2>1. rootC # Torn
    BY <1>1, RunsOnWholeRoot DEF FbFlash, Steps, FlashBootSteps
  <2> QED BY <1>1, <2>1 DEF FbFlash, rootFs, Update!Flash
<1>2. CASE FbFlashed(p)
  <2>1. rootC # Torn /\ bootC = Torn /\ ~initrd
    BY <1>2, RunsOnWholeRoot
    DEF FbFlashed, IInv, FlashingBoot, At, BootWindow, Steps, FlashBootSteps
  <2>2. CASE job[p].ver \in Versions
    BY <1>2, <2>1, <2>2 DEF FbFlashed, rootFs, Update!Flashed
  <2>3. CASE job[p].ver \notin Versions
    BY <1>2, <2>1, <2>3 DEF FbFlashed, rootFs, Stutters
  <2> QED BY <2>2, <2>3
<1>3. CASE ~FbFlash(p) /\ ~FbFlashed(p)
  BY <1>3 DEF Stutters, card, boot, rootFs, FlashBootStep, FbStart, FbRefuse, FbBackup,
     FbCopied, FbBackupFailed, FbUmount, FbMoveReboot, FbStubReboot, FbStubFailed,
     FbPartition, FbNoRoom, FbFlashFailed, FbMount, FbRestore, FbRestored, FbDone,
     FbFdiskFailed, FbRestoreFailed, Refuse
<1> QED BY <1>1, <1>2, <1>3

\* Flash reboot commits the update when it selects the initramfs, be it that a later
\* command fails.
LEMMA FlashRebootRefines ==
    ASSUME IInv, NEW p \in Procs, FlashRebootStep(p)
    PROVE  Stutters \/ Update!Commit
<1>1. CASE FrPrepare(p) \/ FrScriptFailed(p)
  <2>1. /\ At(p, "fr_prepare") /\ initrd' \in {initrd, TRUE}
        /\ UNCHANGED <<bootC, discarded, rootC>>
    BY <1>1 DEF FrPrepare, FrScriptFailed, boot, rootFs
  <2>2. rootC # Torn
    BY <2>1, RunsOnWholeRoot DEF Steps, FlashRebootSteps
  <2>3. bootC \in Versions /\ ~discarded
    BY <2>1 DEF IInv, FlashingReboot, BootReadable, At
  <2>4. CASE ~initrd /\ initrd'
    BY <2>1, <2>2, <2>3, <2>4, VersionAssumption DEF Update!Commit
  <2>5. CASE initrd' = initrd
    BY <2>1, <2>5 DEF Stutters
  <2> QED BY <2>1, <2>4, <2>5 DEF IInv, TypeOK
<1>2. CASE ~FrPrepare(p) /\ ~FrScriptFailed(p)
  BY <1>2 DEF Stutters, card, boot, rootFs, FlashRebootStep, FrStart, FrRefuse, FrPartition,
     FrNoRoom, FrPrepareFailed, FrReboot, FrForced, FrFdiskFailed, FrReleaseFailed, Refuse
<1> QED BY <1>1, <1>2

LEMMA MachineStutters ==
    ASSUME Machine \/ Boot
    PROVE  Stutters
BY DEF Stutters, card, boot, rootFs, vars, Machine, Boot, RequestReboot, Shutdown, Poweroff,
   Stop, Halt, PowerCut, Dead, BootNormal, BootInitramfs, BootFails

\* The initramfs installs the pending version, and then ends the update; or does what it
\* can with what is left of a discarded one.
LEMMA InitramfsRefines ==
    ASSUME ReliableCopy, IInv, IInv', Im
    PROVE  \/ Stutters \/ UNCHANGED AtomicVars \/ Update!Install \/ Update!Complete
           \/ Update!Stray
<1> USE VersionAssumption DEF AtomicVars, AtomicRoot, AtomicPending
<1>1. /\ bootC \in Versions \union {Torn} /\ rootC \in Versions \union {Torn}
      /\ rootC' \in Versions \union {Torn} /\ initrd \in BOOLEAN /\ discarded \in BOOLEAN
  BY DEF IInv, TypeOK
<1>2. CASE ImCopyStarts
  <2>1. initrd /\ initrd' /\ rootC' = Torn /\ UNCHANGED <<bootC, discarded>>
    BY <1>2 DEF ImCopyStarts, IInv, InInitramfs, Initramfs, boot
  <2>2. ~discarded => bootC \in Versions
    BY <2>1 DEF IInv, Armed, BootReadable
  <2>3. CASE discarded
    BY <2>1, <2>3 DEF Update!Stray
  <2>4. CASE ~discarded
    BY <2>1, <2>2, <2>4 DEF Update!Install
  <2> QED BY <2>3, <2>4
<1>3. CASE ImCopyEnds
  <2>1. initrd /\ initrd' /\ UNCHANGED <<bootC, discarded>>
    BY <1>3 DEF ImCopyEnds, IInv, InInitramfs, Initramfs, boot
  <2>2. ~discarded => bootC \in Versions /\ rootC' = bootC
    BY <1>3, <2>1 DEF ImCopyEnds, IInv, InInitramfs, Initramfs, Armed, BootReadable
  <2>3. CASE discarded
    BY <1>1, <2>1, <2>3 DEF Update!Stray
  <2>4. CASE ~discarded
    BY <2>1, <2>2, <2>4 DEF Update!Install
  <2> QED BY <2>3, <2>4
<1>4. CASE ImExit
  <2>1. initrd /\ ~initrd' /\ UNCHANGED <<bootC, discarded, rootC>>
    BY <1>4 DEF ImExit, IInv, InInitramfs, Initramfs, boot, rootFs
  <2>2. ~discarded => bootC \in Versions /\ rootC = bootC
    BY <1>4, <2>1 DEF ImExit, IInv, InInitramfs, Armed, BootReadable
  <2>3. CASE discarded
    BY <1>1, <2>1, <2>3 DEF Update!Stray
  <2>4. CASE ~discarded
    BY <2>1, <2>2, <2>4 DEF Update!Complete
  <2> QED BY <2>3, <2>4
<1>5. CASE ImNothingToDo \/ ImCopyFails \/ ImRemove \/ ImRemoved
  BY <1>5 DEF Stutters, card, boot, rootFs, ImNothingToDo, ImCopyFails, ImRemove, ImRemoved
<1> QED BY <1>2, <1>3, <1>4, <1>5 DEF Im

LEMMA StepRefines ==
    ASSUME OneAtATime, ReliableCopy, IInv, IInv', [Next]_vars
    PROVE  [Update!Next]_AtomicVars
<1>1. Stutters => UNCHANGED AtomicVars
  BY DEF Stutters, AtomicVars, AtomicRoot, AtomicPending
<1>2. ASSUME NEW p \in Procs, Step(p)
      PROVE  [Update!Next]_AtomicVars
  BY <1>1, <1>2, DownloadRefines, ExtractRefines, FlashBootRefines, FlashRebootRefines,
     CleanupStutters DEF Step, Update!Next
<1>3. CASE \E p \in Procs, cmd \in Commands, v \in Versions \union {Absent} :
              Start(p, cmd, v)
  BY <1>1, <1>3 DEF Start, Stutters, card, boot, rootFs
<1>4. CASE Machine \/ Boot \/ Im
  BY <1>1, <1>4, MachineStutters, InitramfsRefines DEF Update!Next
<1>5. CASE UNCHANGED vars
  BY <1>1, <1>5 DEF vars, card, boot, rootFs, Stutters
<1> QED BY <1>2, <1>3, <1>4, <1>5 DEF Next

\* The staged update implements the atomic one: boot partition, root and the version that
\* is pending change only as AtomicUpdate lets them, under any failing command and any
\* power cut; an update whose image is thrown away while it is pending becomes Void.
THEOREM UpdateRefinesAtomic ==
    ASSUME OneAtATime, ReliableCopy
    PROVE  Spec => UpdateIsAtomic
<1>1. Init => Update!Init
  BY VersionAssumption DEF Init, Update!Init
<1>2. IInv /\ IInv' /\ [Next]_vars => [Update!Next]_AtomicVars
  BY StepRefines
<1> QED BY <1>1, <1>2, Inductive, PTL
    DEF Spec, UpdateIsAtomic, Update!Spec, AtomicVars, AtomicRoot, AtomicPending

=============================================================================
