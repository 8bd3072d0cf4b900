------------------------- MODULE PostUpgradeProofs -------------------------
(***************************************************************************)
(* Proofs about PostUpgrade, for any set of versions and scripts.  They    *)
(* hold when no update is installed before the boot is over: one that is   *)
(* installed earlier drops the scripts that are still scheduled.           *)
(***************************************************************************)
EXTENDS PostUpgrade, TLAPS

\* The version read at the start of S14postupgrade is the one recorded, which is not
\* the system's.
ReadVersion ==
    /\ step = "S14" => recorded # 0
    /\ step \in {"empty net", "empty app", "scripts"} =>
          from = recorded /\ recorded \notin {0, sys}

\* While S14postupgrade schedules, the lists exist.
ListsExist ==
    /\ step = "empty app" => "net" \in files
    /\ step \in {"scripts", "record", "recording"} => files = Later

\* What the loop of S14postupgrade has left behind is done, or skipped for good reason.
LoopCovers ==
    step = "scripts" =>
        \A s \in Needed(sys) : s \in ran \union Pending \union todo \/ s.version <= from

CoveredAtRecord ==
    step \in {"record", "recording"} => Needed(sys) \subseteq ran \union Pending

\* An outdated record counts on no list, which the next S14postupgrade will empty.
OutdatedNeedsNoList == recorded \notin {0, sys} => Needed(recorded) \subseteq ran

\* A record that is up to date, or will be at the next boot
CurrentIsCovered ==
    recorded \in {0, sys} => Needed(sys) \subseteq ran \union Pending

\* The common scripts of this version have been run, or their lists still exist.
CommonIsCovered ==
    /\ step \in {"record", "recording"} => <<"base", sys>> \in common
    /\ recorded \in {0, sys} /\ sys # Installed =>
          \A k \in Kinds : <<k, sys>> \in common \/ k \in files
    /\ \A k \in Later : step = Remove[k] => <<k, sys>> \in common

\* S52postupgradenet and S79postupgradeapp
RecordedWhenLate == step \in LateSteps \union {"up"} => recorded = sys

ListsAreRun ==
    \A k \in Later :
        /\ step = Loop[k] => todo \subseteq scheduled[k] /\ scheduled[k] \subseteq ran \union todo
        /\ step = Remove[k] => scheduled[k] \subseteq ran

ListsAreRemoved ==
    /\ step \in {Start["app"], Loop["app"], Remove["app"], "up"} => "net" \notin files
    /\ step = "up" => files = {}

ListedByKind == \A k \in Later : \A s \in scheduled[k] : s.kind = k

IInv ==
    /\ TypeOK
    /\ ReadVersion /\ ListsExist /\ LoopCovers /\ CoveredAtRecord
    /\ OutdatedNeedsNoList /\ CurrentIsCovered /\ CommonIsCovered
    /\ RecordedWhenLate /\ ListsAreRun /\ ListsAreRemoved /\ ListedByKind

-----------------------------------------------------------------------------
USE DEF Kinds, Later, lists, Goto

\* The steps of the late scripts, as values
LEMMA LateStepValues ==
    /\ Start["net"] = "S52" /\ Start["app"] = "S79"
    /\ Loop["net"] = "S52 run" /\ Loop["app"] = "S79 run"
    /\ Remove["net"] = "S52 rm" /\ Remove["app"] = "S79 rm"
    /\ End["net"] = "S79" /\ End["app"] = "up"
    /\ LateSteps = {"S52", "S79", "S52 run", "S79 run", "S52 rm", "S79 rm"}
<1>1. /\ Start["net"] = "S52" /\ Start["app"] = "S79"
      /\ Loop["net"] = "S52 run" /\ Loop["app"] = "S79 run"
      /\ Remove["net"] = "S52 rm" /\ Remove["app"] = "S79 rm"
      /\ End["net"] = "S79" /\ End["app"] = "up"
  BY DEF Start, Loop, Remove, End
<1>2. LateSteps = {"S52", "S79", "S52 run", "S79 run", "S52 rm", "S79 rm"}
  BY <1>1 DEF LateSteps, Later
<1> QED BY <1>1, <1>2

LEMMA BootKeeps ==
    ASSUME IInv, ~EarlyUpgrades, Boot
    PROVE  IInv'
<1>1. /\ Pending' = Pending
      /\ Needed(sys)' = Needed(sys) /\ Needed(recorded)' = Needed(recorded)
  BY DEF Needed, Pending, Boot
<1>2. TypeOK'
  BY LateStepValues DEF IInv, TypeOK, S14Steps, Boot
<1>3. /\ ReadVersion' /\ ListsExist' /\ RecordedWhenLate'
      /\ ListsAreRun' /\ ListsAreRemoved' /\ ListedByKind'
  BY LateStepValues DEF IInv, TypeOK, ReadVersion, ListsExist, RecordedWhenLate,
     ListsAreRun, ListsAreRemoved, ListedByKind, Boot
<1>4. /\ LoopCovers' /\ CoveredAtRecord' /\ OutdatedNeedsNoList'
      /\ CurrentIsCovered' /\ CommonIsCovered'
  BY LateStepValues, <1>1 DEF IInv, TypeOK, LoopCovers, CoveredAtRecord,
     OutdatedNeedsNoList, CurrentIsCovered, CommonIsCovered, Boot
<1> QED BY <1>2, <1>3, <1>4 DEF IInv

LEMMA CopyVersionKeeps ==
    ASSUME IInv, ~EarlyUpgrades, CopyVersion
    PROVE  IInv'
<1>1. Pending' = Pending /\ Needed(sys)' = Needed(sys)
  BY DEF Needed, Pending, CopyVersion
<1>2. TypeOK'
  BY LateStepValues DEF IInv, TypeOK, S14Steps, CopyVersion
<1>3. OutdatedNeedsNoList'
  BY LateStepValues, <1>1 DEF IInv, TypeOK, OutdatedNeedsNoList, CopyVersion
<1>4. CurrentIsCovered'
  BY LateStepValues, <1>1 DEF IInv, TypeOK, CurrentIsCovered, CopyVersion
<1>5. /\ ReadVersion' /\ ListsExist' /\ RecordedWhenLate'
      /\ ListsAreRun' /\ ListsAreRemoved' /\ ListedByKind'
  BY LateStepValues, VersionAssumption DEF IInv, TypeOK, ReadVersion, ListsExist,
     RecordedWhenLate, ListsAreRun, ListsAreRemoved, ListedByKind, CopyVersion
<1>6. LoopCovers' /\ CoveredAtRecord' /\ CommonIsCovered'
  BY LateStepValues, <1>1 DEF IInv, TypeOK, LoopCovers, CoveredAtRecord,
     CommonIsCovered, CopyVersion
<1> QED BY <1>2, <1>3, <1>4, <1>5, <1>6 DEF IInv

LEMMA SameVersionKeeps ==
    ASSUME IInv, ~EarlyUpgrades, SameVersion
    PROVE  IInv'
<1>1. /\ Pending' = Pending
      /\ Needed(sys)' = Needed(sys) /\ Needed(recorded)' = Needed(recorded)
  BY DEF Needed, Pending, SameVersion
<1>2. TypeOK'
  BY LateStepValues DEF IInv, TypeOK, S14Steps, SameVersion
<1>3. /\ ReadVersion' /\ ListsExist' /\ RecordedWhenLate'
      /\ ListsAreRun' /\ ListsAreRemoved' /\ ListedByKind'
  BY LateStepValues DEF IInv, TypeOK, ReadVersion, ListsExist, RecordedWhenLate,
     ListsAreRun, ListsAreRemoved, ListedByKind, SameVersion
<1>4. /\ LoopCovers' /\ CoveredAtRecord' /\ OutdatedNeedsNoList'
      /\ CurrentIsCovered' /\ CommonIsCovered'
  BY LateStepValues, <1>1 DEF IInv, TypeOK, LoopCovers, CoveredAtRecord,
     OutdatedNeedsNoList, CurrentIsCovered, CommonIsCovered, SameVersion
<1> QED BY <1>2, <1>3, <1>4 DEF IInv

LEMMA OtherVersionKeeps ==
    ASSUME IInv, ~EarlyUpgrades, OtherVersion
    PROVE  IInv'
<1>1. /\ Pending' = Pending
      /\ Needed(sys)' = Needed(sys) /\ Needed(recorded)' = Needed(recorded)
  BY DEF Needed, Pending, OtherVersion
<1>2. TypeOK'
  BY LateStepValues DEF IInv, TypeOK, S14Steps, OtherVersion
<1>3. /\ ReadVersion' /\ ListsExist' /\ RecordedWhenLate'
      /\ ListsAreRun' /\ ListsAreRemoved' /\ ListedByKind'
  BY LateStepValues DEF IInv, TypeOK, ReadVersion, ListsExist, RecordedWhenLate,
     ListsAreRun, ListsAreRemoved, ListedByKind, OtherVersion
<1>4. /\ LoopCovers' /\ CoveredAtRecord' /\ OutdatedNeedsNoList'
      /\ CurrentIsCovered' /\ CommonIsCovered'
  BY LateStepValues, <1>1 DEF IInv, TypeOK, LoopCovers, CoveredAtRecord,
     OutdatedNeedsNoList, CurrentIsCovered, CommonIsCovered, OtherVersion
<1> QED BY <1>2, <1>3, <1>4 DEF IInv

LEMMA EmptyNetKeeps ==
    ASSUME IInv, ~EarlyUpgrades, EmptyNet
    PROVE  IInv'
<1>1. TypeOK'
  BY LateStepValues DEF IInv, TypeOK, S14Steps, EmptyNet, Emptied
<1>2. CommonIsCovered'
  BY LateStepValues DEF IInv, TypeOK, CommonIsCovered, ReadVersion, Needed, Pending,
     EmptyNet, Emptied
<1>3. /\ ReadVersion' /\ ListsExist' /\ RecordedWhenLate'
      /\ ListsAreRun' /\ ListsAreRemoved' /\ ListedByKind'
  BY LateStepValues DEF IInv, TypeOK, ReadVersion, ListsExist, RecordedWhenLate,
     ListsAreRun, ListsAreRemoved, ListedByKind, EmptyNet, Emptied
<1>4. LoopCovers' /\ CoveredAtRecord' /\ OutdatedNeedsNoList' /\ CurrentIsCovered'
  <2>1. /\ recorded' = recorded /\ sys' = sys /\ recorded \notin {0, sys}
        /\ step' = "empty app" /\ Needed(recorded)' = Needed(recorded) /\ ran \subseteq ran'
    BY DEF IInv, ReadVersion, Needed, EmptyNet, Goto
  <2> QED BY <2>1 DEF IInv, LoopCovers, CoveredAtRecord, OutdatedNeedsNoList,
     CurrentIsCovered
<1> QED BY <1>1, <1>2, <1>3, <1>4 DEF IInv

LEMMA EmptyAppKeeps ==
    ASSUME IInv, ~EarlyUpgrades, EmptyApp
    PROVE  IInv'
<1>1. TypeOK'
  BY LateStepValues DEF IInv, TypeOK, S14Steps, EmptyApp, Emptied
<1>2. LoopCovers'
  BY LateStepValues DEF IInv, TypeOK, LoopCovers, Needed, Pending, EmptyApp, Emptied
<1>3. CommonIsCovered'
  BY LateStepValues DEF IInv, TypeOK, CommonIsCovered, ReadVersion, Needed, Pending,
     EmptyApp, Emptied
<1>4. /\ ReadVersion' /\ ListsExist' /\ RecordedWhenLate'
      /\ ListsAreRun' /\ ListsAreRemoved' /\ ListedByKind'
  BY LateStepValues DEF IInv, TypeOK, ReadVersion, ListsExist, RecordedWhenLate,
     ListsAreRun, ListsAreRemoved, ListedByKind, EmptyApp, Emptied
<1>5. CoveredAtRecord' /\ OutdatedNeedsNoList' /\ CurrentIsCovered'
  <2>1. /\ recorded' = recorded /\ sys' = sys /\ recorded \notin {0, sys}
        /\ step' = "scripts" /\ Needed(recorded)' = Needed(recorded) /\ ran \subseteq ran'
    BY DEF IInv, ReadVersion, Needed, EmptyApp, Goto
  <2> QED BY <2>1 DEF IInv, CoveredAtRecord, OutdatedNeedsNoList, CurrentIsCovered
<1> QED BY <1>1, <1>2, <1>3, <1>4, <1>5 DEF IInv

LEMMA SkipKeeps ==
    ASSUME IInv, ~EarlyUpgrades, NEW s \in Scripts, Skip(s)
    PROVE  IInv'
<1>1. /\ Pending' = Pending
      /\ Needed(sys)' = Needed(sys) /\ Needed(recorded)' = Needed(recorded)
  BY DEF Needed, Pending, Skip, Due
<1>2. TypeOK'
  BY LateStepValues DEF IInv, TypeOK, S14Steps, Skip, Due
<1>3. LoopCovers'
  <2>1. s.version \in Nat
    BY VersionAssumption
  <2>2. from \in Nat
    BY VersionAssumption DEF IInv, TypeOK
  <2>3. s.version <= from
    BY <2>1, <2>2 DEF Skip, Due
  <2>4. /\ todo \subseteq todo' \union {s} /\ ran' = ran
        /\ from' = from /\ step = "scripts"
    BY DEF Skip
  <2> QED BY <1>1, <2>3, <2>4 DEF IInv, LoopCovers
<1>4. /\ ReadVersion' /\ ListsExist' /\ RecordedWhenLate'
      /\ ListsAreRun' /\ ListsAreRemoved' /\ ListedByKind'
  BY LateStepValues DEF IInv, TypeOK, ReadVersion, ListsExist, RecordedWhenLate,
     ListsAreRun, ListsAreRemoved, ListedByKind, Skip, Due
<1>5. CoveredAtRecord' /\ OutdatedNeedsNoList' /\ CurrentIsCovered' /\ CommonIsCovered'
  BY LateStepValues, <1>1 DEF IInv, TypeOK, CoveredAtRecord, OutdatedNeedsNoList,
     CurrentIsCovered, CommonIsCovered, Skip, Due
<1> QED BY <1>2, <1>3, <1>4, <1>5 DEF IInv

LEMMA RunBaseKeeps ==
    ASSUME IInv, ~EarlyUpgrades, NEW s \in Scripts, RunBase(s)
    PROVE  IInv'
<1>1. TypeOK'
  BY LateStepValues DEF IInv, TypeOK, S14Steps, RunBase, Run, Due
<1>2. LoopCovers'
  BY LateStepValues DEF IInv, TypeOK, LoopCovers, Needed, Pending, RunBase, Run, Due
<1>3. /\ ReadVersion' /\ ListsExist' /\ RecordedWhenLate'
      /\ ListsAreRun' /\ ListsAreRemoved' /\ ListedByKind'
  BY LateStepValues DEF IInv, TypeOK, ReadVersion, ListsExist, RecordedWhenLate,
     ListsAreRun, ListsAreRemoved, ListedByKind, RunBase, Run, Due
<1>4. CoveredAtRecord' /\ OutdatedNeedsNoList' /\ CurrentIsCovered' /\ CommonIsCovered'
  <2>1. /\ recorded' = recorded /\ sys' = sys /\ recorded \notin {0, sys}
        /\ step' = "scripts" /\ Needed(recorded)' = Needed(recorded) /\ ran \subseteq ran'
    BY DEF IInv, ReadVersion, Needed, RunBase, Run
  <2> QED BY <2>1, LateStepValues DEF IInv, CoveredAtRecord, OutdatedNeedsNoList,
     CurrentIsCovered, CommonIsCovered
<1> QED BY <1>1, <1>2, <1>3, <1>4 DEF IInv

LEMMA ScheduleKeeps ==
    ASSUME IInv, ~EarlyUpgrades, NEW s \in Scripts, Schedule(s)
    PROVE  IInv'
<1>1. TypeOK'
  BY LateStepValues DEF IInv, TypeOK, S14Steps, Schedule, Due
<1>2. LoopCovers'
  <2>1. Pending \union {s} \subseteq Pending'
    BY DEF IInv, TypeOK, ListsExist, Pending, Schedule, Later
  <2>2. /\ Needed(sys)' = Needed(sys) /\ todo \subseteq todo' \union {s} /\ ran' = ran
        /\ from' = from /\ step = "scripts"
    BY DEF Needed, Schedule
  <2> QED BY <2>1, <2>2 DEF IInv, LoopCovers
<1>3. ListedByKind'
  BY LateStepValues DEF IInv, TypeOK, ListedByKind, Schedule, Due
<1>4. /\ ReadVersion' /\ ListsExist' /\ RecordedWhenLate'
      /\ ListsAreRun' /\ ListsAreRemoved'
  BY LateStepValues DEF IInv, TypeOK, ReadVersion, ListsExist, RecordedWhenLate,
     ListsAreRun, ListsAreRemoved, Schedule, Due
<1>5. CoveredAtRecord' /\ OutdatedNeedsNoList' /\ CurrentIsCovered' /\ CommonIsCovered'
  <2>1. /\ recorded' = recorded /\ sys' = sys /\ recorded \notin {0, sys}
        /\ step' = "scripts" /\ Needed(recorded)' = Needed(recorded) /\ ran \subseteq ran'
    BY DEF IInv, ReadVersion, Needed, Schedule, ListsExist
  <2> QED BY <2>1, LateStepValues DEF IInv, CoveredAtRecord, OutdatedNeedsNoList,
     CurrentIsCovered, CommonIsCovered
<1> QED BY <1>1, <1>2, <1>3, <1>4, <1>5 DEF IInv

LEMMA RunCommonBaseKeeps ==
    ASSUME IInv, ~EarlyUpgrades, RunCommonBase
    PROVE  IInv'
<1>1. /\ Pending' = Pending
      /\ Needed(sys)' = Needed(sys) /\ Needed(recorded)' = Needed(recorded)
  BY DEF Needed, Pending, RunCommonBase, RunCommon
<1>2. TypeOK'
  <2>1. <<"base", sys>> \in Kinds \X Versions
    BY DEF IInv, TypeOK, Kinds
  <2> QED BY <2>1 DEF IInv, TypeOK, S14Steps, RunCommonBase, RunCommon
<1>3. CoveredAtRecord'
  BY LateStepValues, <1>1 DEF IInv, TypeOK, CoveredAtRecord, LoopCovers,
     OutdatedNeedsNoList, ReadVersion, Needed, RunCommonBase, RunCommon
<1>4. CommonIsCovered'
  BY LateStepValues, <1>1 DEF IInv, TypeOK, CommonIsCovered, RunCommonBase, RunCommon
<1>5. /\ ReadVersion' /\ ListsExist' /\ RecordedWhenLate'
      /\ ListsAreRun' /\ ListsAreRemoved' /\ ListedByKind'
  BY LateStepValues DEF IInv, TypeOK, ReadVersion, ListsExist, RecordedWhenLate,
     ListsAreRun, ListsAreRemoved, ListedByKind, RunCommonBase, RunCommon
<1>6. LoopCovers' /\ OutdatedNeedsNoList' /\ CurrentIsCovered'
  BY LateStepValues, <1>1 DEF IInv, TypeOK, LoopCovers, OutdatedNeedsNoList,
     CurrentIsCovered, RunCommonBase, RunCommon
<1> QED BY <1>2, <1>3, <1>4, <1>5, <1>6 DEF IInv

LEMMA RecordKeeps ==
    ASSUME IInv, ~EarlyUpgrades, Record
    PROVE  IInv'
<1>1. Pending' = Pending /\ Needed(sys)' = Needed(sys)
  BY DEF Needed, Pending, Record
<1>2. TypeOK'
  BY LateStepValues DEF IInv, TypeOK, S14Steps, Record
<1>3. OutdatedNeedsNoList'
  BY LateStepValues, <1>1 DEF IInv, TypeOK, OutdatedNeedsNoList, Record
<1>4. CurrentIsCovered'
  BY LateStepValues, <1>1 DEF IInv, TypeOK, CurrentIsCovered, CoveredAtRecord, Record
<1>5. CommonIsCovered'
  BY LateStepValues, <1>1 DEF IInv, TypeOK, CommonIsCovered, ListsExist, Record
<1>6. /\ ReadVersion' /\ ListsExist' /\ RecordedWhenLate'
      /\ ListsAreRun' /\ ListsAreRemoved' /\ ListedByKind'
  BY LateStepValues DEF IInv, TypeOK, ReadVersion, ListsExist, RecordedWhenLate,
     ListsAreRun, ListsAreRemoved, ListedByKind, Record
<1>7. LoopCovers' /\ CoveredAtRecord'
  BY LateStepValues, <1>1 DEF IInv, TypeOK, LoopCovers, CoveredAtRecord, Record
<1> QED BY <1>2, <1>3, <1>4, <1>5, <1>6, <1>7 DEF IInv

LEMMA RecordedKeeps ==
    ASSUME IInv, ~EarlyUpgrades, Recorded
    PROVE  IInv'
<1>1. Pending' = Pending /\ Needed(sys)' = Needed(sys)
  BY DEF Needed, Pending, Recorded
<1>2. TypeOK'
  BY LateStepValues DEF IInv, TypeOK, S14Steps, Recorded
<1>3. OutdatedNeedsNoList'
  BY LateStepValues, <1>1 DEF IInv, TypeOK, OutdatedNeedsNoList, Recorded
<1>4. CurrentIsCovered'
  BY LateStepValues, <1>1 DEF IInv, TypeOK, CurrentIsCovered, CoveredAtRecord, Recorded
<1>5. CommonIsCovered'
  BY LateStepValues, <1>1 DEF IInv, TypeOK, CommonIsCovered, ListsExist, Recorded
<1>6. /\ ReadVersion' /\ ListsExist' /\ RecordedWhenLate'
      /\ ListsAreRun' /\ ListsAreRemoved' /\ ListedByKind'
  BY LateStepValues DEF IInv, TypeOK, ReadVersion, ListsExist, RecordedWhenLate,
     ListsAreRun, ListsAreRemoved, ListedByKind, Recorded
<1>7. LoopCovers' /\ CoveredAtRecord'
  BY LateStepValues, <1>1 DEF IInv, TypeOK, LoopCovers, CoveredAtRecord, Recorded
<1> QED BY <1>2, <1>3, <1>4, <1>5, <1>6, <1>7 DEF IInv

LEMMA LateStartKeeps ==
    ASSUME IInv, ~EarlyUpgrades, NEW k \in Later, LateStart(k)
    PROVE  IInv'
<1>1. /\ Pending' = Pending
      /\ Needed(sys)' = Needed(sys) /\ Needed(recorded)' = Needed(recorded)
  BY DEF Needed, Pending, LateStart
<1>2. TypeOK'
  BY LateStepValues DEF IInv, TypeOK, S14Steps, LateStart
<1>3. ListsAreRun'
  BY LateStepValues, <1>1 DEF IInv, TypeOK, ListsAreRun, LateStart
<1>4. ListsAreRemoved'
  BY LateStepValues, <1>1 DEF IInv, TypeOK, ListsAreRemoved, LateStart
<1>5. ReadVersion' /\ ListsExist' /\ RecordedWhenLate' /\ ListedByKind'
  BY LateStepValues DEF IInv, TypeOK, ReadVersion, ListsExist, RecordedWhenLate,
     ListedByKind, LateStart
<1>6. /\ LoopCovers' /\ CoveredAtRecord' /\ OutdatedNeedsNoList'
      /\ CurrentIsCovered' /\ CommonIsCovered'
  BY LateStepValues, <1>1 DEF IInv, TypeOK, LoopCovers, CoveredAtRecord,
     OutdatedNeedsNoList, CurrentIsCovered, CommonIsCovered, LateStart
<1> QED BY <1>2, <1>3, <1>4, <1>5, <1>6 DEF IInv

LEMMA LateNoneKeeps ==
    ASSUME IInv, ~EarlyUpgrades, NEW k \in Later, LateNone(k)
    PROVE  IInv'
<1>1. /\ Pending' = Pending
      /\ Needed(sys)' = Needed(sys) /\ Needed(recorded)' = Needed(recorded)
  BY DEF Needed, Pending, LateNone
<1>2. TypeOK'
  BY LateStepValues DEF IInv, TypeOK, S14Steps, LateNone
<1>3. ListsAreRemoved'
  BY LateStepValues, <1>1 DEF IInv, TypeOK, ListsAreRemoved, LateNone
<1>4. CommonIsCovered'
  BY LateStepValues, <1>1 DEF IInv, TypeOK, CommonIsCovered, LateNone
<1>5. ReadVersion' /\ ListsExist' /\ RecordedWhenLate' /\ ListsAreRun' /\ ListedByKind'
  BY LateStepValues DEF IInv, TypeOK, ReadVersion, ListsExist, RecordedWhenLate,
     ListsAreRun, ListedByKind, LateNone
<1>6. LoopCovers' /\ CoveredAtRecord' /\ OutdatedNeedsNoList' /\ CurrentIsCovered'
  BY LateStepValues, <1>1 DEF IInv, TypeOK, LoopCovers, CoveredAtRecord,
     OutdatedNeedsNoList, CurrentIsCovered, LateNone
<1> QED BY <1>2, <1>3, <1>4, <1>5, <1>6 DEF IInv

LEMMA RunLateKeeps ==
    ASSUME IInv, ~EarlyUpgrades, NEW k \in Later, NEW s \in Scripts, RunLate(k, s)
    PROVE  IInv'
<1>1. /\ Pending' = Pending
      /\ Needed(sys)' = Needed(sys) /\ Needed(recorded)' = Needed(recorded)
  BY DEF Needed, Pending, RunLate, Run
<1>2. TypeOK'
  BY LateStepValues DEF IInv, TypeOK, S14Steps, RunLate, Run
<1>3. ListsAreRun'
  BY LateStepValues, <1>1 DEF IInv, TypeOK, ListsAreRun, RunLate, Run
<1>4. /\ ReadVersion' /\ ListsExist' /\ RecordedWhenLate'
      /\ ListsAreRemoved' /\ ListedByKind'
  BY LateStepValues DEF IInv, TypeOK, ReadVersion, ListsExist, RecordedWhenLate,
     ListsAreRemoved, ListedByKind, RunLate, Run
<1>5. /\ LoopCovers' /\ CoveredAtRecord' /\ OutdatedNeedsNoList'
      /\ CurrentIsCovered' /\ CommonIsCovered'
  BY LateStepValues, <1>1 DEF IInv, TypeOK, LoopCovers, CoveredAtRecord,
     OutdatedNeedsNoList, CurrentIsCovered, CommonIsCovered, RunLate, Run
<1> QED BY <1>2, <1>3, <1>4, <1>5 DEF IInv

LEMMA RunCommonLateKeeps ==
    ASSUME IInv, ~EarlyUpgrades, NEW k \in Later, RunCommonLate(k)
    PROVE  IInv'
<1>1. /\ Pending' = Pending
      /\ Needed(sys)' = Needed(sys) /\ Needed(recorded)' = Needed(recorded)
  BY DEF Needed, Pending, RunCommonLate, RunCommon
<1>2. TypeOK'
  <2>1. <<k, sys>> \in Kinds \X Versions
    BY DEF IInv, TypeOK, Later
  <2>2. Remove[k] \in LateSteps
    BY LateStepValues DEF Later
  <2> QED BY <2>1, <2>2 DEF IInv, TypeOK, RunCommonLate, RunCommon
<1>3. ListsAreRun'
  BY LateStepValues, <1>1 DEF IInv, TypeOK, ListsAreRun, RunCommonLate, RunCommon
<1>4. CommonIsCovered'
  BY LateStepValues, <1>1 DEF IInv, TypeOK, CommonIsCovered, RunCommonLate, RunCommon
<1>5. /\ ReadVersion' /\ ListsExist' /\ RecordedWhenLate'
      /\ ListsAreRemoved' /\ ListedByKind'
  BY LateStepValues DEF IInv, TypeOK, ReadVersion, ListsExist, RecordedWhenLate,
     ListsAreRemoved, ListedByKind, RunCommonLate, RunCommon
<1>6. LoopCovers' /\ CoveredAtRecord' /\ OutdatedNeedsNoList' /\ CurrentIsCovered'
  BY LateStepValues, <1>1 DEF IInv, TypeOK, LoopCovers, CoveredAtRecord,
     OutdatedNeedsNoList, CurrentIsCovered, RunCommonLate, RunCommon
<1> QED BY <1>2, <1>3, <1>4, <1>5, <1>6 DEF IInv

LEMMA RemoveListKeeps ==
    ASSUME IInv, ~EarlyUpgrades, NEW k \in Later, RemoveList(k)
    PROVE  IInv'
<1>1. TypeOK'
  BY LateStepValues DEF IInv, TypeOK, S14Steps, RemoveList
<1>2. CurrentIsCovered'
  <2>1. Pending \subseteq Pending' \union ran
    BY DEF IInv, TypeOK, Pending, ListsAreRun, RemoveList, Later
  <2> QED BY <2>1 DEF IInv, CurrentIsCovered, Needed, RemoveList
<1>3. CommonIsCovered'
  BY LateStepValues DEF IInv, TypeOK, CommonIsCovered, Needed, Pending, RemoveList
<1>4. ListsAreRemoved'
  BY LateStepValues DEF IInv, TypeOK, ListsAreRemoved, RemoveList
<1>5. ListedByKind'
  BY LateStepValues DEF IInv, TypeOK, ListedByKind, RemoveList
<1>6. ReadVersion' /\ ListsExist' /\ RecordedWhenLate' /\ ListsAreRun'
  BY LateStepValues DEF IInv, TypeOK, ReadVersion, ListsExist, RecordedWhenLate,
     ListsAreRun, RemoveList
<1>7. LoopCovers' /\ CoveredAtRecord' /\ OutdatedNeedsNoList'
  BY LateStepValues DEF IInv, TypeOK, LoopCovers, CoveredAtRecord, OutdatedNeedsNoList,
     Needed, Pending, RemoveList
<1> QED BY <1>1, <1>2, <1>3, <1>4, <1>5, <1>6, <1>7 DEF IInv

LEMMA CutKeeps ==
    ASSUME IInv, ~EarlyUpgrades, Cut
    PROVE  IInv'
<1>1. /\ Pending' = Pending
      /\ Needed(sys)' = Needed(sys) /\ Needed(recorded)' = Needed(recorded)
  BY DEF Needed, Pending, Cut, GoesDown
<1>2. TypeOK'
  BY LateStepValues DEF IInv, TypeOK, S14Steps, Cut, GoesDown
<1>3. /\ ReadVersion' /\ ListsExist' /\ RecordedWhenLate'
      /\ ListsAreRun' /\ ListsAreRemoved' /\ ListedByKind'
  BY LateStepValues DEF IInv, TypeOK, ReadVersion, ListsExist, RecordedWhenLate,
     ListsAreRun, ListsAreRemoved, ListedByKind, Cut, GoesDown
<1>4. /\ LoopCovers' /\ CoveredAtRecord' /\ OutdatedNeedsNoList'
      /\ CurrentIsCovered' /\ CommonIsCovered'
  BY LateStepValues, <1>1 DEF IInv, TypeOK, LoopCovers, CoveredAtRecord,
     OutdatedNeedsNoList, CurrentIsCovered, CommonIsCovered, Cut, GoesDown
<1> QED BY <1>2, <1>3, <1>4 DEF IInv

LEMMA UpgradeKeeps ==
    ASSUME IInv, ~EarlyUpgrades, NEW v \in Versions, Upgrade(v)
    PROVE  IInv'
<1>1. TypeOK'
  BY LateStepValues DEF IInv, TypeOK, S14Steps, Upgrade, GoesDown, Upgradable
<1>2. OutdatedNeedsNoList'
  BY LateStepValues DEF IInv, TypeOK, OutdatedNeedsNoList, CurrentIsCovered,
     RecordedWhenLate, ListsAreRemoved, Needed, Pending, Upgrade, GoesDown, Upgradable
<1>3. CurrentIsCovered'
  BY LateStepValues, VersionAssumption DEF IInv, TypeOK, CurrentIsCovered,
     RecordedWhenLate, Needed, Pending, Upgrade, GoesDown, Upgradable
<1>4. CommonIsCovered'
  BY LateStepValues, VersionAssumption DEF IInv, TypeOK, CommonIsCovered,
     RecordedWhenLate, Needed, Pending, Upgrade, GoesDown, Upgradable
<1>5. /\ ReadVersion' /\ ListsExist' /\ RecordedWhenLate'
      /\ ListsAreRun' /\ ListsAreRemoved' /\ ListedByKind'
  BY LateStepValues DEF IInv, TypeOK, ReadVersion, ListsExist, RecordedWhenLate,
     ListsAreRun, ListsAreRemoved, ListedByKind, Upgrade, GoesDown, Upgradable
<1>6. LoopCovers' /\ CoveredAtRecord'
  BY LateStepValues DEF IInv, TypeOK, LoopCovers, CoveredAtRecord, Needed, Pending,
     Upgrade, GoesDown, Upgradable
<1> QED BY <1>1, <1>2, <1>3, <1>4, <1>5, <1>6 DEF IInv

-----------------------------------------------------------------------------
LEMMA InitIsCovered ==
    ASSUME Init
    PROVE  IInv
<1>1. Needed(sys) = {}
  <2>1. \A s \in Scripts : s.version \in Nat
    BY VersionAssumption
  <2>2. Installed \in Nat
    BY VersionAssumption
  <2>3. \A s \in Scripts : ~(s.version > Installed /\ s.version <= Installed)
    BY <2>1, <2>2
  <2> QED BY <2>3 DEF Init, Needed
<1>2. TypeOK
  BY VersionAssumption DEF Init, TypeOK, Nothing
<1>3. /\ ReadVersion /\ ListsExist /\ RecordedWhenLate
      /\ ListsAreRun /\ ListsAreRemoved /\ ListedByKind
  BY LateStepValues DEF Init, Nothing, ReadVersion, ListsExist, RecordedWhenLate,
     ListsAreRun, ListsAreRemoved, ListedByKind
<1>4. /\ LoopCovers /\ CoveredAtRecord /\ OutdatedNeedsNoList
      /\ CurrentIsCovered /\ CommonIsCovered
  BY <1>1, LateStepValues DEF Init, LoopCovers, CoveredAtRecord, OutdatedNeedsNoList,
     CurrentIsCovered, CommonIsCovered
<1> QED BY <1>2, <1>3, <1>4 DEF IInv

LEMMA NextKeeps ==
    ASSUME IInv, ~EarlyUpgrades, [Next]_vars
    PROVE  IInv'
<1>1. CASE Boot
  BY <1>1, BootKeeps
<1>2. CASE CopyVersion
  BY <1>2, CopyVersionKeeps
<1>3. CASE S14
  BY <1>3, SameVersionKeeps, OtherVersionKeeps, EmptyNetKeeps, EmptyAppKeeps, SkipKeeps,
     RunBaseKeeps, ScheduleKeeps, RunCommonBaseKeeps, RecordKeeps, RecordedKeeps DEF S14
<1>4. ASSUME NEW k \in Later, Late(k) PROVE IInv'
  BY <1>4, LateStartKeeps, LateNoneKeeps, RunLateKeeps, RunCommonLateKeeps, RemoveListKeeps
     DEF Late
<1>5. CASE Cut
  BY <1>5, CutKeeps
<1>6. ASSUME NEW v \in Versions, Upgrade(v) PROVE IInv'
  BY <1>6, UpgradeKeeps
<1>7. CASE UNCHANGED vars
  <2>1. /\ Pending' = Pending
        /\ Needed(sys)' = Needed(sys) /\ Needed(recorded)' = Needed(recorded)
    BY <1>7 DEF vars, Needed, Pending
  <2>2. TypeOK'
    BY <1>7 DEF vars, boot, IInv, TypeOK
  <2>3. /\ ReadVersion' /\ ListsExist' /\ RecordedWhenLate'
        /\ ListsAreRun' /\ ListsAreRemoved' /\ ListedByKind'
    BY <1>7 DEF vars, boot, IInv, ReadVersion, ListsExist, RecordedWhenLate, ListsAreRun,
       ListsAreRemoved, ListedByKind
  <2>4. /\ LoopCovers' /\ CoveredAtRecord' /\ OutdatedNeedsNoList'
        /\ CurrentIsCovered' /\ CommonIsCovered'
    BY <1>7, <2>1 DEF vars, boot, IInv, LoopCovers, CoveredAtRecord, OutdatedNeedsNoList,
       CurrentIsCovered, CommonIsCovered
  <2> QED BY <2>2, <2>3, <2>4 DEF IInv
<1> QED BY <1>1, <1>2, <1>3, <1>4, <1>5, <1>6, <1>7 DEF Next

LEMMA Invariance ==
    ASSUME ~EarlyUpgrades
    PROVE  Spec => []IInv
<1>1. Init => IInv
  BY InitIsCovered
<1>2. IInv /\ [Next]_vars => IInv'
  BY NextKeeps
<1> QED BY <1>1, <1>2, PTL DEF Spec

-----------------------------------------------------------------------------
\* Every variable keeps its type.
THEOREM TypeCorrect ==
    ASSUME ~EarlyUpgrades
    PROVE  Spec => []TypeOK
<1>1. IInv => TypeOK
  BY DEF IInv
<1> QED BY <1>1, Invariance, PTL

\* Wherever boots are cut and whatever versions are installed, up or down, the recorded
\* version has all its scripts run or listed (S14postupgrade:50-97).
THEOREM RecordIsKept ==
    ASSUME ~EarlyUpgrades
    PROVE  Spec => []RecordKept
<1>1. IInv => RecordKept
  <2> SUFFICES ASSUME IInv PROVE RecordKept
    OBVIOUS
  <2>1. CASE recorded = 0
    <3>1. \A s \in Scripts : s.version \in Nat \ {0}
      BY VersionAssumption
    <3>2. \A n \in Nat \ {0} : ~(n <= 0)
      OBVIOUS
    <3>3. Needed(0) = {}
      BY <3>1, <3>2 DEF Needed
    <3> QED BY <2>1, <3>3 DEF RecordKept
  <2>2. CASE recorded = sys
    BY <2>2 DEF IInv, CurrentIsCovered, RecordKept
  <2>3. CASE recorded \notin {0, sys}
    BY <2>3 DEF IInv, OutdatedNeedsNoList, RecordKept
  <2> QED BY <2>1, <2>2, <2>3
<1> QED BY <1>1, Invariance, PTL

\* A boot that is over leaves nothing to do (S14postupgrade, S52postupgradenet,
\* S79postupgradeapp).
THEOREM BootEndsUpToDate ==
    ASSUME ~EarlyUpgrades
    PROVE  Spec => []BootedUpToDate
<1>1. IInv => BootedUpToDate
  <2> SUFFICES ASSUME IInv, step = "up" PROVE BootedUpToDate
    BY DEF BootedUpToDate
  <2>1. recorded = sys /\ files = {}
    BY DEF IInv, RecordedWhenLate, ListsAreRemoved
  <2>2. Pending = {}
    BY <2>1 DEF Pending
  <2> QED BY <2>1, <2>2 DEF IInv, CurrentIsCovered, CommonIsCovered, BootedUpToDate
<1> QED BY <1>1, Invariance, PTL

\* No script runs before one it relies on, over any number of cut boots
\* (S14postupgrade:71-83, rcS starts S14, S52 and S79 in this order).
THEOREM ScriptsRunInOrder ==
    ASSUME ~EarlyUpgrades
    PROVE  Spec => OrderKept
<1> DEFINE Ordered ==
      \A s \in ran' \ ran : \A t \in Needed(sys) : Before(t, s) => t \in ran
<1>1. ASSUME IInv, [Next]_vars PROVE [Ordered]_vars
  <2>1. ASSUME NEW s \in Scripts, RunBase(s) PROVE Ordered
    BY <2>1 DEF RunBase, Run, Before
  <2>2. ASSUME NEW k \in Later, NEW s \in Scripts, RunLate(k, s) PROVE Ordered
    <3>1. s.kind = k /\ ran' \ ran \subseteq {s}
      BY <1>1, <2>2 DEF IInv, ListsAreRun, ListedByKind, RunLate, Run
    <3>2. Needed(sys) \subseteq ran \union Pending
      <4>1. step \in LateSteps
        BY <2>2, LateStepValues DEF RunLate
      <4> QED BY <1>1, <4>1 DEF IInv, RecordedWhenLate, CurrentIsCovered
    <3>3. \A t \in Pending : t.kind \in files
      BY <1>1 DEF IInv, TypeOK, Pending, ListedByKind
    <3>4. k = "app" => "net" \notin files
      BY <1>1, <2>2 DEF IInv, ListsAreRemoved, RunLate
    <3>5. files \subseteq Later
      BY <1>1 DEF IInv, TypeOK
    <3> QED BY <3>1, <3>2, <3>3, <3>4, <3>5 DEF Before
  <2>3. CASE ran' = ran
    BY <2>3
  <2> QED
    BY <1>1, <2>1, <2>2, <2>3 DEF Next, S14, Late, Boot, CopyVersion, SameVersion,
       OtherVersion, EmptyNet, EmptyApp, Skip, Schedule, RunCommonBase, RunCommon, Record,
       Recorded, LateStart, LateNone, RunCommonLate, RemoveList, Cut, Upgrade, vars
<1>2. IInv /\ [Next]_vars => [Ordered]_vars
  BY <1>1
<1> QED BY <1>2, Invariance, PTL DEF Spec, OrderKept
=============================================================================
