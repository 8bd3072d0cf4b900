---------------------------- MODULE PostUpgrade ----------------------------
(***************************************************************************)
(* What the init scripts do with the data partition after another version  *)
(* of the OS has been installed: S14postupgrade runs the scripts shipped   *)
(* for the versions in between and schedules those that need the network   *)
(* or have to run right before the apps, S52postupgradenet and             *)
(* S79postupgradeapp run the scheduled ones.  The boot may be cut short at *)
(* any point; what is on the data partition survives.                      *)
(***************************************************************************)
EXTENDS Naturals

CONSTANTS
    Versions,      \* the OS versions, in the order of semver-sort
    Installed,     \* the version that created the data partition
    Scripts,       \* /usr/share/post-upgrade/<version>[-net|-app].sh
    EarlyUpgrades  \* whether a further update may be installed before the boot is over

Later == {"net", "app"}
Kinds == {"base"} \union Later

ASSUME VersionAssumption ==
    /\ Versions \subseteq Nat \ {0} /\ Installed \in Versions
    /\ Scripts \subseteq [kind : Kinds, version : Versions]
    /\ EarlyUpgrades \in BOOLEAN

VARIABLES
    sys,       \* OS_VERSION of the root partition (/etc/version)
    recorded,  \* /data/etc/version; 0 if empty or absent
    files,     \* which of /data/.post-upgrade-{net,app}-scheduled exist
    scheduled, \* what they list
    step,      \* where the boot is
    from,      \* the version that S14postupgrade has read
    todo,      \* the scripts that the current loop has yet to look at
    ran,       \* observer: the scripts that were run on this data partition
    common     \* observer: for which kinds and versions post-upgrade[-net|-app].sh was run

lists == <<files, scheduled>>
boot == <<step, from, todo>>
vars == <<sys, recorded, lists, boot, ran, common>>

\* The steps of S52postupgradenet and of S79postupgradeapp
Start  == [net |-> "S52",     app |-> "S79"]
Loop   == [net |-> "S52 run", app |-> "S79 run"]
Remove == [net |-> "S52 rm",  app |-> "S79 rm"]

End == [net |-> "S79", app |-> "up"]

S14Steps == {"empty net", "empty app", "scripts", "record", "recording"}
LateSteps == {Start[k] : k \in Later} \union {Loop[k] : k \in Later}
             \union {Remove[k] : k \in Later}

TypeOK ==
    /\ sys \in Versions /\ recorded \in Versions \union {0}
    /\ files \subseteq Later /\ scheduled \in [Later -> SUBSET Scripts]
    /\ step \in {"off", "S02", "S14", "up"} \union S14Steps \union LateSteps
    /\ from \in Versions \union {0} /\ todo \subseteq Scripts
    /\ ran \subseteq Scripts /\ common \subseteq Kinds \X Versions

Nothing == [k \in Later |-> {}]

Init ==
    /\ sys = Installed /\ recorded = 0
    /\ files = {} /\ scheduled = Nothing
    /\ step = "off" /\ from = 0 /\ todo = {}
    /\ ran = {} /\ common = {}

Goto(next) == step' = next

-----------------------------------------------------------------------------
(***************************************************************************)
(* S02defaultdata and S14postupgrade                                       *)
(***************************************************************************)

Boot ==
    /\ step = "off" /\ Goto("S02")
    /\ UNCHANGED <<sys, recorded, lists, from, todo, ran, common>>

\* A data partition without a version gets the one of the system.
CopyVersion ==
    /\ step = "S02" /\ Goto("S14")
    /\ recorded' = IF recorded = 0 THEN sys ELSE recorded
    /\ UNCHANGED <<sys, lists, from, todo, ran, common>>

SameVersion ==
    /\ step = "S14" /\ recorded = sys
    /\ Goto(Start["net"])
    /\ UNCHANGED <<sys, recorded, lists, from, todo, ran, common>>

OtherVersion ==
    /\ step = "S14" /\ recorded # sys
    /\ Goto("empty net")
    /\ from' = recorded
    /\ UNCHANGED <<sys, recorded, lists, todo, ran, common>>

\* The list is emptied, whatever is still pending in it.
Emptied(k) ==
    /\ files' = files \union {k}
    /\ scheduled' = [scheduled EXCEPT ![k] = {}]

EmptyNet ==
    /\ step = "empty net" /\ Goto("empty app")
    /\ Emptied("net")
    /\ UNCHANGED <<sys, recorded, from, todo, ran, common>>

EmptyApp ==
    /\ step = "empty app" /\ Goto("scripts")
    /\ Emptied("app")
    /\ todo' = {s \in Scripts : s.version <= sys}
    /\ UNCHANGED <<sys, recorded, from, ran, common>>

\* Mutant: only the scripts of the new version
MutDue(s) == s.version = sys

\* "Don't run scripts for previous (or current) versions."
Due(s) == s.version > from

Skip(s) ==
    /\ step = "scripts" /\ s \in todo /\ ~Due(s)
    /\ todo' = todo \ {s}
    /\ UNCHANGED <<sys, recorded, lists, step, from, ran, common>>

\* A script that fails counts as run.
Run(s) ==
    /\ ran' = ran \union {s}
    /\ todo' = todo \ {s}
    /\ UNCHANGED <<sys, recorded, lists, step, from, common>>

RunBase(s) ==
    /\ step = "scripts" /\ s \in todo /\ Due(s) /\ s.kind = "base"
    /\ Run(s)

Schedule(s) ==
    /\ step = "scripts" /\ s \in todo /\ Due(s) /\ s.kind \in Later
    /\ scheduled' = [scheduled EXCEPT ![s.kind] = @ \union {s}]
    /\ todo' = todo \ {s}
    /\ UNCHANGED <<sys, recorded, files, step, from, ran, common>>

RunCommon(k) ==
    /\ common' = common \union {<<k, sys>>}
    /\ UNCHANGED <<sys, recorded, lists, from, todo, ran>>

RunCommonBase ==
    /\ step = "scripts" /\ todo = {}
    /\ Goto("record")
    /\ RunCommon("base")

\* cp truncates /data/etc/version before it writes it.
Record ==
    /\ step = "record" /\ Goto("recording")
    /\ recorded' = 0
    /\ UNCHANGED <<sys, lists, from, todo, ran, common>>

Recorded ==
    /\ step = "recording" /\ Goto(Start["net"])
    /\ recorded' = sys
    /\ UNCHANGED <<sys, lists, from, todo, ran, common>>

-----------------------------------------------------------------------------
(***************************************************************************)
(* S52postupgradenet (k = "net") and S79postupgradeapp (k = "app")         *)
(***************************************************************************)

\* Mutant: the list is removed before its scripts are run
MutLateStart(k) ==
    /\ step = Start[k] /\ k \in files /\ Goto(Loop[k])
    /\ todo' = scheduled[k]
    /\ files' = files \ {k} /\ scheduled' = [scheduled EXCEPT ![k] = {}]
    /\ UNCHANGED <<sys, recorded, from, ran, common>>

LateStart(k) ==
    /\ step = Start[k] /\ k \in files /\ Goto(Loop[k])
    /\ todo' = scheduled[k]
    /\ UNCHANGED <<sys, recorded, lists, from, ran, common>>

LateNone(k) ==
    /\ step = Start[k] /\ k \notin files /\ Goto(End[k])
    /\ UNCHANGED <<sys, recorded, lists, from, todo, ran, common>>

RunLate(k, s) ==
    /\ step = Loop[k] /\ s \in todo
    /\ Run(s)

RunCommonLate(k) ==
    /\ step = Loop[k] /\ todo = {}
    /\ Goto(Remove[k])
    /\ RunCommon(k)

RemoveList(k) ==
    /\ step = Remove[k] /\ Goto(End[k])
    /\ files' = files \ {k} /\ scheduled' = [scheduled EXCEPT ![k] = {}]
    /\ UNCHANGED <<sys, recorded, from, todo, ran, common>>

-----------------------------------------------------------------------------
GoesDown == Goto("off") /\ from' = 0 /\ todo' = {}

\* A power cut, a panic or a reboot.
Cut ==
    /\ step # "off" /\ GoesDown
    /\ UNCHANGED <<sys, recorded, lists, ran, common>>

\* An update started by crond (S51) or over ssh (S60) may replace the root partition
\* while S52postupgradenet or S79postupgradeapp are still at work.
Upgradable == step = "up" \/ (EarlyUpgrades /\ step \in LateSteps)

\* fwupdate has replaced the root partition, by a newer or an older version.
Upgrade(v) ==
    /\ Upgradable
    /\ sys' = v /\ v # sys
    /\ GoesDown
    /\ UNCHANGED <<recorded, lists, ran, common>>

S14 ==
    \/ SameVersion \/ OtherVersion \/ EmptyNet \/ EmptyApp
    \/ \E s \in Scripts : Skip(s) \/ RunBase(s) \/ Schedule(s)
    \/ RunCommonBase \/ Record \/ Recorded

Late(k) ==
    \/ LateStart(k) \/ LateNone(k) \/ RunCommonLate(k) \/ RemoveList(k)
    \/ \E s \in Scripts : RunLate(k, s)

Next ==
    \/ Boot \/ CopyVersion \/ S14 \/ (\E k \in Later : Late(k))
    \/ Cut \/ \E v \in Versions : Upgrade(v)

Spec == Init /\ [][Next]_vars

-----------------------------------------------------------------------------
(***************************************************************************)
(* Properties                                                              *)
(***************************************************************************)

\* The scripts that the data partition needs to be at version v
Needed(v) == {s \in Scripts : s.version > Installed /\ s.version <= v}

Pending == UNION {scheduled[k] : k \in files}

\* The version recorded on the data partition never claims more than was done: every
\* script up to it has been run or is in a list, at whatever point any boot was cut
\* (S14postupgrade:93-97, the record is written last).
RecordKept == Needed(recorded) \subseteq ran \union Pending

\* A boot that is over leaves nothing to do, the common scripts included, also when
\* earlier boots after the same update were cut.
BootedUpToDate ==
    step = "up" =>
        /\ recorded = sys
        /\ Needed(sys) \subseteq ran
        /\ sys # Installed => \A k \in Kinds : <<k, sys>> \in common

\* The scripts that s relies on are run before it: the base scripts before the net
\* scripts, both before the app scripts, which "will be executed right before apps
\* start" (S14postupgrade:76).
Before(t, s) ==
    \/ t.kind = "base" /\ s.kind \in Later
    \/ t.kind = "net" /\ s.kind = "app"
OrderKept ==
    [][\A s \in ran' \ ran : \A t \in Needed(sys) : Before(t, s) => t \in ran]_vars
=============================================================================
