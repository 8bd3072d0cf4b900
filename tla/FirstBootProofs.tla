-------------------------- MODULE FirstBootProofs ---------------------------
(***************************************************************************)
(* Proofs about FirstBoot, for any backups, images and hold times, and for *)
(* any number of power cuts and factory resets.                            *)
(***************************************************************************)
EXTENDS FirstBoot, TLAPS

-----------------------------------------------------------------------------
(***************************************************************************)
(* Types                                                                   *)
(***************************************************************************)

\* The button has been held for the whole time only when the reset is under way.
ButtonIsWatched ==
    /\ At("up") => count < HoldSeconds
    /\ pc \notin {"up", "reset"} => count = 0

TypeInv == TypeOK /\ ButtonIsWatched

-----------------------------------------------------------------------------
(***************************************************************************)
(* Where the file systems are                                              *)
(***************************************************************************)

Unmounted == {"off", "detect", "mkfs", "mount"}
Making == {"mkfs", "mount"}
Defaulted == Files \union {"overlay", "backups", "restore", "remount", "up"}

MountedIsThere ==
    /\ pc \in Unmounted => ~mounted
    /\ mounted => card.fs /\ data.fs

PartitionIsThere ==
    /\ ~table => pc \in {"reset", "off", "detect"}
    /\ At("reset") => ~table
    /\ At("mount") => card = Fresh
    /\ pc \in {"skel", "skelsync", "touch"} => mounted

\* A marker vouches for a file system nobody has written to.
MarkerMeansUnused ==
    /\ data.marker => data.owner = {}
    /\ card.marker => card.owner = {}
    /\ pc \in {"skel", "skelsync", "touch"} => data.owner = {}
    /\ At("install") => data.owner = {}
    /\ pc \in Defaulted \union DefaultsSteps \union {"install"} => ~data.marker

\* With a partition that was formatted since the last reset
Formatted == table /\ pc # "mkfs" /\ "setup" \notin cuts.in

OwnersAreCurrent ==
    Formatted =>
        /\ card.fs /\ card.owner \subseteq {resets}
        /\ mounted => data.owner \subseteq {resets}
        /\ pc \notin Unmounted \union {"mountall"} => mounted

Vouched(fs) == fs.marker \/ fs.defaults = "good"

\* The defaults are installed, or the marker will have them installed.
DefaultsAreComing ==
    table /\ Tarball /\ cuts.in \intersect {"setup", "defaults"} = {} =>
        /\ pc \in {"off", "detect"} => Vouched(card)
        /\ pc \in {"mountall", "marker"} /\ mounted =>
             Vouched(data) /\ (Vouched(card) \/ (data.marker /\ ~card.marker))
        /\ At("mountall") /\ ~mounted => Vouched(card)
        /\ pc \in Defaulted \union {"defsync"} => data.defaults = "good"

BackupsAreKept ==
    /\ backups \subseteq backupsCard
    /\ "restore" \notin cuts.in /\ resets = 0 =>
         /\ Backups \ backups \subseteq data.restored
         /\ ~mounted => Backups \ backups \subseteq card.restored
         /\ (~table \/ pc \in Making) => backups = Backups

IInv == /\ TypeInv /\ MountedIsThere /\ PartitionIsThere /\ MarkerMeansUnused
        /\ OwnersAreCurrent /\ DefaultsAreComing /\ BackupsAreKept
-----------------------------------------------------------------------------
(***************************************************************************)
(* Types                                                                   *)
(***************************************************************************)

LEMMA TypeInvKept ==
    ASSUME TypeInv, Next
    PROVE  TypeInv'
<1> USE DEF At, Goto, boot, button, history, TypeInv, TypeOK, ButtonIsWatched, FileSystem,
       Booting, Setup, DefaultsSteps, Files, Defaulted, Unmounted, Making, PCs, Fresh, NoFs
<1>1. CASE PowerOn
  BY <1>1, BootAssumption DEF PowerOn
<1>2. CASE Detect
  BY <1>2, BootAssumption DEF Detect
<1>3. CASE Mkfs
  BY <1>3, BootAssumption DEF Mkfs
<1>4. CASE Mount
  BY <1>4, BootAssumption DEF Mount
<1>5. CASE CopySkeleton
  BY <1>5, BootAssumption DEF CopySkeleton
<1>6. CASE SyncSkeleton
  BY <1>6, BootAssumption DEF SyncSkeleton, Sync
<1>7. CASE TouchMarker
  BY <1>7, BootAssumption DEF TouchMarker
<1>8. CASE MountAll
  BY <1>8, BootAssumption DEF MountAll
<1>9. CASE RemoveMarker
  <2>1. data' \in FileSystem
    BY <1>9 DEF RemoveMarker
  <2>2. /\ pc' \in {"install", "shadow"}
        /\ UNCHANGED <<table, card, mounted, backups, backupsCard, pressed, count, resets, cuts>>
    BY <1>9 DEF RemoveMarker
  <2>3. count = 0
    BY <1>9 DEF RemoveMarker
  <2> HIDE DEF FileSystem
  <2> QED BY <2>1, <2>2, <2>3
<1>10. CASE Untar
  BY <1>10, BootAssumption DEF Untar
<1>11. CASE Untarred
  BY <1>11, BootAssumption DEF Untarred
<1>12. CASE SyncDefaults
  BY <1>12, BootAssumption DEF SyncDefaults, Sync
<1>13. CASE DefaultFile
  BY <1>13, BootAssumption DEF DefaultFile, After, Files, Sync
<1>14. CASE CopyOverlay
  BY <1>14, BootAssumption DEF CopyOverlay, Sync
<1>15. CASE ListBackups
  BY <1>15, BootAssumption DEF ListBackups
<1>16. CASE RestoreBackup
  BY <1>16, BootAssumption DEF RestoreBackup, Extracts
<1>17. CASE RemountBoot
  BY <1>17, BootAssumption DEF RemountBoot
<1>18. CASE UserWrites
  BY <1>18, BootAssumption DEF UserWrites
<1>19. CASE Button
  BY <1>19, BootAssumption DEF Button
<1>20. CASE Watch
  <2>1. /\ pc = "up" /\ count < HoldSeconds /\ count \in Nat /\ HoldSeconds \in Nat \ {0}
        /\ resets \in Nat /\ MaxResets \in Nat /\ resets < MaxResets
    BY <1>20, BootAssumption DEF Watch
  <2>2. Counted \in 0 .. HoldSeconds
    BY <2>1 DEF Counted
  <2>3. /\ count' = Counted
        /\ \/ pc' = "reset" /\ resets' = resets + 1
           \/ Counted < HoldSeconds /\ pc' = pc /\ resets' = resets
    <3> HIDE DEF FileSystem
    <3> QED BY <1>20, <2>1, <2>2 DEF Watch
  <2>4. table' \in BOOLEAN
    BY <1>20 DEF Watch
  <2>5. card' \in FileSystem /\ data' \in FileSystem
    <3> HIDE DEF FileSystem
    <3> QED BY <1>20 DEF Watch, Sync
  <2>6. UNCHANGED <<mounted, backups, backupsCard, pressed, cuts>>
    BY <1>20 DEF Watch
  <2>7. count' \in 0 .. HoldSeconds /\ resets' \in 0 .. MaxResets
    BY <2>1, <2>2, <2>3
  <2>8. pc' \in PCs /\ (pc' = "up" => count' < HoldSeconds) /\ pc' \in {"up", "reset"}
    BY <2>1, <2>3
  <2> QED
    <3> HIDE DEF FileSystem, PCs
    <3> QED BY <2>4, <2>5, <2>6, <2>7, <2>8
<1>21. CASE Shutdown
  <2>1. card' \in FileSystem /\ data' \in FileSystem /\ table' \in BOOLEAN
    <3> HIDE DEF FileSystem
    <3> QED BY <1>21 DEF Shutdown, Sync
  <2>2. /\ pc' = "off" /\ count' = 0 /\ backupsCard' = backups
        /\ UNCHANGED <<table, backups, resets, cuts>>
    BY <1>21 DEF Shutdown, Off
  <2>3. mounted' \in BOOLEAN /\ pressed' \in BOOLEAN
    BY <1>21 DEF Shutdown, Off
  <2>4. 0 \in 0 .. HoldSeconds /\ "off" \in PCs
    BY BootAssumption
  <2> HIDE DEF FileSystem, PCs
  <2> QED BY <2>1, <2>2, <2>3, <2>4
<1>22. CASE WriteBack
  BY <1>22, BootAssumption DEF WriteBack
<1>23. CASE WriteBackBoot
  BY <1>23, BootAssumption DEF WriteBackBoot
<1>24. CASE PowerCut
  <2>1. cuts' \in [n : 0 .. MaxCuts, in : SUBSET Windows]
    <3>1. Window \subseteq Windows
      BY DEF Window
    <3>2. cuts.n \in Nat /\ cuts.n < MaxCuts /\ cuts.in \subseteq Windows
      BY <1>24, BootAssumption DEF PowerCut
    <3>3. cuts.n + 1 \in 0 .. MaxCuts /\ cuts.in \union Window \subseteq Windows
      BY <3>1, <3>2, BootAssumption
    <3>4. cuts' = [n |-> cuts.n + 1, in |-> cuts.in \union Window]
      BY <1>24 DEF PowerCut
    <3> HIDE DEF FileSystem, TypeInv, PCs
    <3> QED BY <3>3, <3>4
  <2>2. /\ pc' = "off" /\ count' = 0 /\ backups' = backupsCard /\ data' = card
        /\ UNCHANGED <<table, card, backupsCard, resets>>
    BY <1>24 DEF PowerCut, Off
  <2>3. mounted' \in BOOLEAN /\ pressed' \in BOOLEAN
    BY <1>24 DEF PowerCut, Off
  <2>4. 0 \in 0 .. HoldSeconds /\ "off" \in PCs
    BY BootAssumption
  <2> HIDE DEF FileSystem, PCs
  <2> QED BY <2>1, <2>2, <2>3, <2>4
<1> QED BY <1>1, <1>2, <1>3, <1>4, <1>5, <1>6, <1>7, <1>8, <1>9, <1>10, <1>11, <1>12, <1>13,
       <1>14, <1>15, <1>16, <1>17, <1>18, <1>19, <1>20, <1>21, <1>22, <1>23, <1>24 DEF Next,
       Script

-----------------------------------------------------------------------------
(***************************************************************************)
(* What is mounted                                                         *)
(***************************************************************************)

LEMMA MountedKept ==
    ASSUME IInv, Next
    PROVE  MountedIsThere'
<1> USE DEF At, Goto, boot, button, history, IInv, MountedIsThere, PartitionIsThere, TypeInv,
       TypeOK, ButtonIsWatched, FileSystem, Booting, Setup, DefaultsSteps, Files, Defaulted,
       Unmounted, Making, PCs, Fresh, NoFs
<1>1. CASE PowerOn
  BY <1>1 DEF PowerOn
<1>2. CASE Detect
  BY <1>2 DEF Detect
<1>3. CASE Mkfs
  BY <1>3 DEF Mkfs
<1>4. CASE Mount
  BY <1>4 DEF Mount
<1>5. CASE CopySkeleton
  BY <1>5 DEF CopySkeleton
<1>6. CASE SyncSkeleton
  BY <1>6 DEF SyncSkeleton, Sync
<1>7. CASE TouchMarker
  BY <1>7 DEF TouchMarker
<1>8. CASE MountAll
  BY <1>8 DEF MountAll
<1>9. CASE RemoveMarker
  BY <1>9 DEF RemoveMarker
<1>10. CASE Untar
  BY <1>10 DEF Untar
<1>11. CASE Untarred
  BY <1>11 DEF Untarred
<1>12. CASE SyncDefaults
  BY <1>12 DEF SyncDefaults, Sync
<1>13. CASE DefaultFile
  BY <1>13 DEF DefaultFile, After, Files, Sync
<1>14. CASE CopyOverlay
  BY <1>14 DEF CopyOverlay, Sync
<1>15. CASE ListBackups
  BY <1>15 DEF ListBackups
<1>16. CASE RestoreBackup
  BY <1>16 DEF RestoreBackup, Extracts
<1>17. CASE RemountBoot
  BY <1>17 DEF RemountBoot
<1>18. CASE UserWrites
  BY <1>18 DEF UserWrites
<1>19. CASE Button
  BY <1>19 DEF Button
<1>20. CASE Watch
  BY <1>20 DEF Watch, Counted, Sync
<1>21. CASE Shutdown
  BY <1>21 DEF Shutdown, Off, Sync
<1>22. CASE WriteBack
  BY <1>22 DEF WriteBack
<1>23. CASE WriteBackBoot
  BY <1>23 DEF WriteBackBoot
<1>24. CASE PowerCut
  BY <1>24 DEF PowerCut, Off, Window, Windows
<1> QED BY <1>1, <1>2, <1>3, <1>4, <1>5, <1>6, <1>7, <1>8, <1>9, <1>10, <1>11, <1>12, <1>13,
       <1>14, <1>15, <1>16, <1>17, <1>18, <1>19, <1>20, <1>21, <1>22, <1>23, <1>24 DEF Next,
       Script

-----------------------------------------------------------------------------
(***************************************************************************)
(* The partition                                                           *)
(***************************************************************************)

LEMMA PartitionKept ==
    ASSUME IInv, Next
    PROVE  PartitionIsThere'
<1> USE DEF At, Goto, boot, button, history, IInv, MountedIsThere, PartitionIsThere, TypeInv,
       TypeOK, ButtonIsWatched, FileSystem, Booting, Setup, DefaultsSteps, Files, Defaulted,
       Unmounted, Making, PCs, Fresh, NoFs
<1>1. CASE PowerOn
  BY <1>1 DEF PowerOn
<1>2. CASE Detect
  BY <1>2 DEF Detect
<1>3. CASE Mkfs
  BY <1>3 DEF Mkfs
<1>4. CASE Mount
  BY <1>4 DEF Mount
<1>5. CASE CopySkeleton
  BY <1>5 DEF CopySkeleton
<1>6. CASE SyncSkeleton
  BY <1>6 DEF SyncSkeleton, Sync
<1>7. CASE TouchMarker
  BY <1>7 DEF TouchMarker
<1>8. CASE MountAll
  BY <1>8 DEF MountAll
<1>9. CASE RemoveMarker
  BY <1>9 DEF RemoveMarker
<1>10. CASE Untar
  BY <1>10 DEF Untar
<1>11. CASE Untarred
  BY <1>11 DEF Untarred
<1>12. CASE SyncDefaults
  BY <1>12 DEF SyncDefaults, Sync
<1>13. CASE DefaultFile
  BY <1>13 DEF DefaultFile, After, Files, Sync
<1>14. CASE CopyOverlay
  BY <1>14 DEF CopyOverlay, Sync
<1>15. CASE ListBackups
  BY <1>15 DEF ListBackups
<1>16. CASE RestoreBackup
  BY <1>16 DEF RestoreBackup, Extracts
<1>17. CASE RemountBoot
  BY <1>17 DEF RemountBoot
<1>18. CASE UserWrites
  BY <1>18 DEF UserWrites
<1>19. CASE Button
  BY <1>19 DEF Button
<1>20. CASE Watch
  BY <1>20 DEF Watch, Counted, Sync
<1>21. CASE Shutdown
  BY <1>21 DEF Shutdown, Off, Sync
<1>22. CASE WriteBack
  BY <1>22 DEF WriteBack
<1>23. CASE WriteBackBoot
  BY <1>23 DEF WriteBackBoot
<1>24. CASE PowerCut
  BY <1>24 DEF PowerCut, Off, Window, Windows
<1> QED BY <1>1, <1>2, <1>3, <1>4, <1>5, <1>6, <1>7, <1>8, <1>9, <1>10, <1>11, <1>12, <1>13,
       <1>14, <1>15, <1>16, <1>17, <1>18, <1>19, <1>20, <1>21, <1>22, <1>23, <1>24 DEF Next,
       Script

-----------------------------------------------------------------------------
(***************************************************************************)
(* The marker                                                              *)
(***************************************************************************)

LEMMA MarkerKept ==
    ASSUME IInv, Next
    PROVE  MarkerMeansUnused'
<1> USE DEF At, Goto, boot, button, history, IInv, MountedIsThere, PartitionIsThere,
       MarkerMeansUnused, TypeInv, TypeOK, ButtonIsWatched, FileSystem, Booting, Setup,
       DefaultsSteps, Files, Defaulted, Unmounted, Making, PCs, Fresh, NoFs
<1>1. CASE PowerOn
  BY <1>1 DEF PowerOn
<1>2. CASE Detect
  BY <1>2 DEF Detect
<1>3. CASE Mkfs
  BY <1>3 DEF Mkfs
<1>4. CASE Mount
  BY <1>4 DEF Mount
<1>5. CASE CopySkeleton
  BY <1>5 DEF CopySkeleton
<1>6. CASE SyncSkeleton
  BY <1>6 DEF SyncSkeleton, Sync
<1>7. CASE TouchMarker
  BY <1>7 DEF TouchMarker
<1>8. CASE MountAll
  BY <1>8 DEF MountAll
<1>9. CASE RemoveMarker
  BY <1>9 DEF RemoveMarker
<1>10. CASE Untar
  BY <1>10 DEF Untar
<1>11. CASE Untarred
  BY <1>11 DEF Untarred
<1>12. CASE SyncDefaults
  BY <1>12 DEF SyncDefaults, Sync
<1>13. CASE DefaultFile
  BY <1>13 DEF DefaultFile, After, Files, Sync
<1>14. CASE CopyOverlay
  BY <1>14 DEF CopyOverlay, Sync
<1>15. CASE ListBackups
  BY <1>15 DEF ListBackups
<1>16. CASE RestoreBackup
  BY <1>16 DEF RestoreBackup, Extracts
<1>17. CASE RemountBoot
  BY <1>17 DEF RemountBoot
<1>18. CASE UserWrites
  BY <1>18 DEF UserWrites
<1>19. CASE Button
  BY <1>19 DEF Button
<1>20. CASE Watch
  BY <1>20 DEF Watch, Counted, Sync
<1>21. CASE Shutdown
  BY <1>21 DEF Shutdown, Off, Sync
<1>22. CASE WriteBack
  BY <1>22 DEF WriteBack
<1>23. CASE WriteBackBoot
  BY <1>23 DEF WriteBackBoot
<1>24. CASE PowerCut
  BY <1>24 DEF PowerCut, Off, Window, Windows
<1> QED BY <1>1, <1>2, <1>3, <1>4, <1>5, <1>6, <1>7, <1>8, <1>9, <1>10, <1>11, <1>12, <1>13,
       <1>14, <1>15, <1>16, <1>17, <1>18, <1>19, <1>20, <1>21, <1>22, <1>23, <1>24 DEF Next,
       Script

-----------------------------------------------------------------------------
(***************************************************************************)
(* Whose data there is                                                     *)
(***************************************************************************)

LEMMA OwnersKept ==
    ASSUME IInv, Next
    PROVE  OwnersAreCurrent'
<1> USE DEF At, Goto, boot, button, history, IInv, MountedIsThere, PartitionIsThere,
       OwnersAreCurrent, Formatted, TypeInv, TypeOK, ButtonIsWatched, FileSystem, Booting,
       Setup, DefaultsSteps, Files, Defaulted, Unmounted, Making, PCs, Fresh, NoFs
<1>1. CASE PowerOn
  BY <1>1 DEF PowerOn
<1>2. CASE Detect
  BY <1>2 DEF Detect
<1>3. CASE Mkfs
  BY <1>3 DEF Mkfs
<1>4. CASE Mount
  BY <1>4 DEF Mount
<1>5. CASE CopySkeleton
  BY <1>5 DEF CopySkeleton
<1>6. CASE SyncSkeleton
  BY <1>6 DEF SyncSkeleton, Sync
<1>7. CASE TouchMarker
  BY <1>7 DEF TouchMarker
<1>8. CASE MountAll
  BY <1>8 DEF MountAll
<1>9. CASE RemoveMarker
  BY <1>9 DEF RemoveMarker
<1>10. CASE Untar
  BY <1>10 DEF Untar
<1>11. CASE Untarred
  BY <1>11 DEF Untarred
<1>12. CASE SyncDefaults
  BY <1>12 DEF SyncDefaults, Sync
<1>13. CASE DefaultFile
  BY <1>13 DEF DefaultFile, After, Files, Sync
<1>14. CASE CopyOverlay
  BY <1>14 DEF CopyOverlay, Sync
<1>15. CASE ListBackups
  BY <1>15 DEF ListBackups
<1>16. CASE RestoreBackup
  BY <1>16 DEF RestoreBackup, Extracts
<1>17. CASE RemountBoot
  BY <1>17 DEF RemountBoot
<1>18. CASE UserWrites
  BY <1>18 DEF UserWrites
<1>19. CASE Button
  BY <1>19 DEF Button
<1>20. CASE Watch
  BY <1>20 DEF Watch, Counted, Sync
<1>21. CASE Shutdown
  BY <1>21 DEF Shutdown, Off, Sync
<1>22. CASE WriteBack
  BY <1>22 DEF WriteBack
<1>23. CASE WriteBackBoot
  BY <1>23 DEF WriteBackBoot
<1>24. CASE PowerCut
  BY <1>24 DEF PowerCut, Off, Window, Windows
<1> QED BY <1>1, <1>2, <1>3, <1>4, <1>5, <1>6, <1>7, <1>8, <1>9, <1>10, <1>11, <1>12, <1>13,
       <1>14, <1>15, <1>16, <1>17, <1>18, <1>19, <1>20, <1>21, <1>22, <1>23, <1>24 DEF Next,
       Script

-----------------------------------------------------------------------------
(***************************************************************************)
(* The factory defaults                                                    *)
(***************************************************************************)

LEMMA DefaultsKept ==
    ASSUME IInv, Next
    PROVE  DefaultsAreComing'
<1> USE DEF At, Goto, boot, button, history, IInv, MountedIsThere, PartitionIsThere,
       OwnersAreCurrent, Formatted, MarkerMeansUnused, DefaultsAreComing, Vouched, TypeInv,
       TypeOK, ButtonIsWatched, FileSystem, Booting, Setup, DefaultsSteps, Files, Defaulted,
       Unmounted, Making, PCs
<1>1. CASE PowerOn
  BY <1>1 DEF PowerOn
<1>2. CASE Detect
  BY <1>2 DEF Detect
<1>3. CASE Mkfs
  BY <1>3 DEF Mkfs
<1>4. CASE Mount
  BY <1>4 DEF Mount
<1>5. CASE CopySkeleton
  BY <1>5 DEF CopySkeleton
<1>6. CASE SyncSkeleton
  BY <1>6 DEF SyncSkeleton, Sync
<1>7. CASE TouchMarker
  BY <1>7 DEF TouchMarker
<1>8. CASE MountAll
  BY <1>8 DEF MountAll
<1>9. CASE RemoveMarker
  BY <1>9 DEF RemoveMarker
<1>10. CASE Untar
  BY <1>10 DEF Untar
<1>11. CASE Untarred
  BY <1>11 DEF Untarred
<1>12. CASE SyncDefaults
  BY <1>12 DEF SyncDefaults, Sync
<1>13. CASE DefaultFile
  BY <1>13 DEF DefaultFile, After, Files, Sync
<1>14. CASE CopyOverlay
  BY <1>14 DEF CopyOverlay, Sync
<1>15. CASE ListBackups
  BY <1>15 DEF ListBackups
<1>16. CASE RestoreBackup
  BY <1>16 DEF RestoreBackup, Extracts
<1>17. CASE RemountBoot
  BY <1>17 DEF RemountBoot
<1>18. CASE UserWrites
  BY <1>18 DEF UserWrites
<1>19. CASE Button
  BY <1>19 DEF Button
<1>20. CASE Watch
  BY <1>20 DEF Watch, Counted, Sync
<1>21. CASE Shutdown
  BY <1>21 DEF Shutdown, Off, Sync
<1>22. CASE WriteBack
  BY <1>22 DEF WriteBack
<1>23. CASE WriteBackBoot
  BY <1>23 DEF WriteBackBoot
<1>24. CASE PowerCut
  BY <1>24 DEF PowerCut, Off, Window, Windows
<1> QED BY <1>1, <1>2, <1>3, <1>4, <1>5, <1>6, <1>7, <1>8, <1>9, <1>10, <1>11, <1>12, <1>13,
       <1>14, <1>15, <1>16, <1>17, <1>18, <1>19, <1>20, <1>21, <1>22, <1>23, <1>24 DEF Next,
       Script

-----------------------------------------------------------------------------
(***************************************************************************)
(* The backups                                                             *)
(***************************************************************************)

LEMMA BackupsKept ==
    ASSUME IInv, Next
    PROVE  BackupsAreKept'
<1> USE DEF At, Goto, boot, button, history, IInv, MountedIsThere, PartitionIsThere,
       BackupsAreKept, TypeInv, TypeOK, ButtonIsWatched, FileSystem, Booting, Setup,
       DefaultsSteps, Files, Defaulted, Unmounted, Making, PCs, Fresh, NoFs
<1>1. CASE PowerOn
  BY <1>1 DEF PowerOn
<1>2. CASE Detect
  BY <1>2 DEF Detect
<1>3. CASE Mkfs
  BY <1>3 DEF Mkfs
<1>4. CASE Mount
  BY <1>4 DEF Mount
<1>5. CASE CopySkeleton
  BY <1>5 DEF CopySkeleton
<1>6. CASE SyncSkeleton
  BY <1>6 DEF SyncSkeleton, Sync
<1>7. CASE TouchMarker
  BY <1>7 DEF TouchMarker
<1>8. CASE MountAll
  BY <1>8 DEF MountAll
<1>9. CASE RemoveMarker
  BY <1>9 DEF RemoveMarker
<1>10. CASE Untar
  BY <1>10 DEF Untar
<1>11. CASE Untarred
  BY <1>11 DEF Untarred
<1>12. CASE SyncDefaults
  BY <1>12 DEF SyncDefaults, Sync
<1>13. CASE DefaultFile
  BY <1>13 DEF DefaultFile, After, Files, Sync
<1>14. CASE CopyOverlay
  BY <1>14 DEF CopyOverlay, Sync
<1>15. CASE ListBackups
  BY <1>15 DEF ListBackups
<1>16. CASE RestoreBackup
  BY <1>16 DEF RestoreBackup, Extracts
<1>17. CASE RemountBoot
  BY <1>17 DEF RemountBoot
<1>18. CASE UserWrites
  BY <1>18 DEF UserWrites
<1>19. CASE Button
  BY <1>19 DEF Button
<1>20. CASE Watch
  BY <1>20 DEF Watch, Counted, Sync
<1>21. CASE Shutdown
  BY <1>21 DEF Shutdown, Off, Sync
<1>22. CASE WriteBack
  BY <1>22 DEF WriteBack
<1>23. CASE WriteBackBoot
  BY <1>23 DEF WriteBackBoot
<1>24. CASE PowerCut
  BY <1>24 DEF PowerCut, Off, Window, Windows
<1> QED BY <1>1, <1>2, <1>3, <1>4, <1>5, <1>6, <1>7, <1>8, <1>9, <1>10, <1>11, <1>12, <1>13,
       <1>14, <1>15, <1>16, <1>17, <1>18, <1>19, <1>20, <1>21, <1>22, <1>23, <1>24 DEF Next,
       Script

-----------------------------------------------------------------------------
(***************************************************************************)
(* The theorems                                                            *)
(***************************************************************************)

LEMMA IInvInit == Init => IInv
<1> SUFFICES ASSUME Init PROVE IInv
  OBVIOUS
<1>1. NoFs \in FileSystem
  BY DEF NoFs, FileSystem
<1>2. TypeInv
  <2>1. cuts \in [n : 0 .. MaxCuts, in : SUBSET Windows]
    BY BootAssumption DEF Init
  <2>2. count \in 0 .. HoldSeconds /\ resets \in 0 .. MaxResets /\ pc \in PCs
    BY BootAssumption DEF Init, PCs
  <2> QED BY <1>1, <2>1, <2>2 DEF Init, TypeInv, TypeOK, ButtonIsWatched, At
<1>3. MountedIsThere /\ PartitionIsThere /\ MarkerMeansUnused
  BY DEF Init, NoFs, MountedIsThere, PartitionIsThere, MarkerMeansUnused, At, Unmounted,
         Defaulted, DefaultsSteps, Files
<1>4. OwnersAreCurrent /\ DefaultsAreComing
  BY DEF Init, OwnersAreCurrent, Formatted, DefaultsAreComing
<1>5. BackupsAreKept
  BY DEF Init, BackupsAreKept
<1> QED BY <1>2, <1>3, <1>4, <1>5 DEF IInv

LEMMA IInvStutter == IInv /\ UNCHANGED vars => IInv'
<1> SUFFICES ASSUME IInv, UNCHANGED vars PROVE IInv'
  OBVIOUS
<1>1. TypeInv'
  BY DEF IInv, TypeInv, TypeOK, ButtonIsWatched, At, vars
<1>2. MountedIsThere' /\ PartitionIsThere' /\ MarkerMeansUnused'
  BY DEF IInv, MountedIsThere, PartitionIsThere, MarkerMeansUnused, At, vars
<1>3. OwnersAreCurrent' /\ DefaultsAreComing' /\ BackupsAreKept'
  BY DEF IInv, OwnersAreCurrent, Formatted, DefaultsAreComing, Vouched, BackupsAreKept, At, vars
<1> QED BY <1>1, <1>2, <1>3 DEF IInv

LEMMA IInvHolds == Spec => []IInv
<1>1. IInv /\ [Next]_vars => IInv'
  <2> SUFFICES ASSUME IInv, [Next]_vars PROVE IInv'
    OBVIOUS
  <2>1. CASE Next
    <3>1. TypeInv'
      BY <2>1, TypeInvKept DEF IInv
    <3> QED BY <2>1, <3>1, MountedKept, PartitionKept, MarkerKept, OwnersKept, DefaultsKept,
              BackupsKept DEF IInv
  <2> QED BY <2>1, IInvStutter
<1> QED BY <1>1, IInvInit, PTL DEF Spec

\* Every variable of the boot keeps its type: the counter of S39factoryreset never passes
\* the hold time, since the reset follows in the same turn.
THEOREM TypeCorrect == Spec => []TypeOK
<1>1. IInv => TypeOK
  BY DEF IInv, TypeInv
<1> QED BY <1>1, IInvHolds, PTL

\* What a finished boot lacks (the data partition, the factory defaults, a backup) was lost
\* to a power cut in one of the three windows, or a backup to a factory reset.
THEOREM LossesAreExplained == Spec => []LostOnlyInWindows
<1>1. IInv => LostOnlyInWindows
  <2> SUFFICES ASSUME IInv PROVE LostOnlyInWindows
    OBVIOUS
  <2>1. At("up") /\ ~mounted => "setup" \in cuts.in
    BY DEF IInv, OwnersAreCurrent, Formatted, PartitionIsThere, Unmounted, At
  <2>2. At("up") /\ mounted /\ Tarball /\ data.defaults # "good" =>
          cuts.in \intersect {"setup", "defaults"} # {}
    BY DEF IInv, DefaultsAreComing, PartitionIsThere, Defaulted, At
  <2>3. ASSUME NEW b \in Backups, "restore" \notin cuts.in, ~(resets > 0)
        PROVE  (b \in backups /\ b \in backupsCard) \/ b \in data.restored
    <3>1. resets = 0
      BY <2>3, BootAssumption DEF IInv, TypeInv, TypeOK
    <3> QED BY <2>3, <3>1 DEF IInv, BackupsAreKept
  <2> QED BY <2>1, <2>2, <2>3 DEF LostOnlyInWindows
<1> QED BY <1>1, IInvHolds, PTL

\* After a factory reset nobody finds the data of the user before, unless the power was cut
\* while the new partition was made.
THEOREM ResetErases == Spec => []ResetErasesUserData
<1>1. IInv => ResetErasesUserData
  BY DEF IInv, OwnersAreCurrent, Formatted, PartitionIsThere, ResetErasesUserData, At
<1> QED BY <1>1, IInvHolds, PTL

\* The factory defaults are never unpacked over a user's data.
THEOREM DefaultsComeFirst == Spec => DefaultsNeverOverUserData
<1>1. IInv => (At("install") => data.owner = {})
  BY DEF IInv, MarkerMeansUnused, At
<1>2. IInv /\ [Next]_vars => [At("install") /\ data'.defaults = "torn" => data.owner = {}]_vars
  BY <1>1
<1> QED BY <1>2, IInvHolds, PTL DEF Spec, DefaultsNeverOverUserData
=============================================================================
