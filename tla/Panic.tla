------------------------------- MODULE Panic -------------------------------
(***************************************************************************)
(* thingOS answers a failure with a reboot (overlay/sbin/panic): the       *)
(* watchers of the init scripts run `panic action`, which counts in a file *)
(* on the data partition, waits longer after each panic and reboots;       *)
(* fwupdate and the captive portal run `panic inhibit`; bootdone resets    *)
(* the counter when the system has been up for an hour.                    *)
(*                                                                         *)
(* Time is counted in ticks and passes only while every process sleeps.    *)
(* An uptime stamp is represented by its age.  The files that only `panic  *)
(* details` reads are left out.                                            *)
(***************************************************************************)
EXTENDS Naturals

CONSTANTS
    Services,       \* what runs `panic action`
    Blocking,       \* the init scripts that call it once, in the foreground (S40network)
    OneShot,        \* watchers that leave their loop after calling it (S55openvpn)
    Late,           \* watchers started after the blocking scripts
    DelayFactor,    \* PANIC_REBOOT_DELAY_FACTOR
    DelayMax,       \* PANIC_REBOOT_DELAY_MAX
    InhibitTimeout, \* PANIC_INHIBIT_TIMEOUT
    MaxCounter,     \* bound: the counter is not counted any further
    Debug,          \* OS_DEBUG
    PowerCuts,      \* whether the power may be cut
    Empty           \* a file truncated and not written yet, or absent

ASSUME ServicesAssumption ==
    /\ Blocking \subseteq Services /\ OneShot \subseteq Services \ Blocking
    /\ Late \subseteq Services \ Blocking
    /\ Debug \in BOOLEAN /\ PowerCuts \in BOOLEAN
ASSUME TimeAssumption ==
    /\ DelayFactor \in Nat /\ DelayMax \in Nat /\ InhibitTimeout \in Nat \ {0}
    /\ MaxCounter \in Nat /\ DelayFactor * MaxCounter >= DelayMax
    /\ Empty \notin Nat

VARIABLES
    counter,   \* content of panic_counter; survives reboots
    stamp,     \* age of the uptime in panic_inhibit
    inhibitor, \* whether a `panic inhibit` is between truncating and writing the stamp
    bad,       \* the services that a watcher finds failing
    pc,        \* progress of each service
    seen,      \* panic_counter, the value its action has read
    left,      \* the rest of its sleep
    bootdone,  \* Empty until rcS gets there, then the rest of its sleep
    resetting, \* progress of bootdone's reset
    \* observers
    overdue,   \* for how long each service has been failing with no inhibition
    floor,     \* the delay that the next panic must not fall below
    intact     \* no reset and no overlapping updates of the counter in this boot

observers == <<overdue, floor, intact>>
vars == <<counter, stamp, inhibitor, bad, pc, seen, left, bootdone, resetting, observers>>

Updating == {"trunc", "write"}
Waiting == {"sleep", "pause", "done", "off"}
Pcs == {"watch", "check", "reboot"} \union Updating \union Waiting

Cap(n, max) == IF n < max THEN n ELSE max

MaxOverdue == DelayMax + 2   \* bound of the observer

TypeOK ==
    /\ counter \in 0..MaxCounter \union {Empty}
    /\ stamp \in 0..InhibitTimeout \union {Empty}
    /\ inhibitor \in BOOLEAN
    /\ bad \subseteq Services
    /\ pc \in [Services -> Pcs]
    /\ seen \in [Services -> 0..MaxCounter]
    /\ left \in [Services -> 0..DelayMax]
    /\ bootdone \in 0..DelayMax \union {Empty}
    /\ resetting \in {"no", "write", "done"}
    /\ overdue \in [Services -> 0..MaxOverdue]
    /\ floor \in 0..DelayMax /\ intact \in BOOLEAN

\* What rcS starts: the watchers before S40network, and S40network itself.
FirstStep == [s \in Services |-> IF s \in Late THEN "off" ELSE "watch"]

Init ==
    /\ counter = Empty /\ floor = 0
    /\ stamp = Empty /\ inhibitor = FALSE
    /\ bad = {} /\ pc = FirstStep
    /\ seen = [s \in Services |-> 0] /\ left = [s \in Services |-> 0]
    /\ bootdone = Empty /\ resetting = "no"
    /\ overdue = [s \in Services |-> 0] /\ intact = TRUE

\* Another boot; what fails need not have recovered.
Restart ==
    /\ stamp' = Empty /\ inhibitor' = FALSE
    /\ pc' = FirstStep
    /\ seen' = [s \in Services |-> 0] /\ left' = [s \in Services |-> 0]
    /\ bootdone' = Empty /\ resetting' = "no"
    /\ overdue' = [s \in Services |-> 0] /\ intact' = TRUE
    /\ UNCHANGED bad

-----------------------------------------------------------------------------
(***************************************************************************)
(* panic action                                                            *)
(***************************************************************************)

Inhibited == stamp # Empty /\ stamp < InhibitTimeout

\* Mutant: the counter is written back as it was read
MutIncreased(n) == n

Increased(n) == Cap(n + 1, MaxCounter)

Delay(n) == Cap(DelayFactor * n, DelayMax)

Goto(s, step) == pc' = [pc EXCEPT ![s] = step]

OtherUpdates(s) ==
    resetting = "write" \/ \E q \in Services \ {s} : pc[q] \in Updating

\* The watcher finds the service failing for too long and runs `panic action`, which
\* reads the counter (nothing, if it is just being written).
Act(s) ==
    /\ pc[s] = "watch" /\ s \in bad
    /\ seen' = [seen EXCEPT ![s] = IF counter = Empty THEN 0 ELSE counter]
    /\ Goto(s, "trunc")
    /\ intact' = (intact /\ ~OtherUpdates(s))
    /\ UNCHANGED <<counter, stamp, inhibitor, bad, left, bootdone, resetting, overdue, floor>>

\* S40network has found a connection.
Pass(s) ==
    /\ pc[s] = "watch" /\ s \in Blocking \ bad
    /\ Goto(s, "done")
    /\ UNCHANGED <<counter, stamp, inhibitor, bad, seen, left, bootdone, resetting, observers>>

Truncate(s) ==
    /\ pc[s] = "trunc"
    /\ counter' = Empty
    /\ Goto(s, "write")
    /\ UNCHANGED <<stamp, inhibitor, bad, seen, left, bootdone, resetting, observers>>

Write(s) ==
    /\ pc[s] = "write"
    /\ counter' = Increased(seen[s])
    /\ Goto(s, "check")
    /\ UNCHANGED <<stamp, inhibitor, bad, seen, left, bootdone, resetting, observers>>

\* Mutant: every watcher leaves its loop
MutAfterAction(s) == "done"

\* The blocking script goes on, a watcher polls again later.
AfterAction(s) == IF s \in Blocking \union OneShot THEN "done" ELSE "pause"

Return(s) == Goto(s, AfterAction(s)) /\ seen' = [seen EXCEPT ![s] = 0]

Check(s) ==
    /\ pc[s] = "check"
    /\ IF Inhibited \/ Debug
       THEN Return(s) /\ UNCHANGED left
       ELSE /\ Goto(s, "sleep") /\ UNCHANGED seen
            /\ left' = [left EXCEPT ![s] = Delay(seen[s])]
    /\ UNCHANGED <<counter, stamp, inhibitor, bad, bootdone, resetting, observers>>

\* Mutant: the inhibition is only looked at before the sleep
MutStopped == FALSE

\* The inhibition is looked at again after the sleep.
Stopped == Inhibited

Wake(s) ==
    /\ pc[s] = "sleep" /\ left[s] = 0
    /\ IF Stopped THEN Return(s) ELSE Goto(s, "reboot") /\ UNCHANGED seen
    /\ UNCHANGED <<counter, stamp, inhibitor, bad, left, bootdone, resetting, observers>>

Reboot(s) ==
    /\ pc[s] = "reboot"
    /\ Restart
    /\ floor' = IF intact /\ ~OtherUpdates(s) THEN Delay(seen[s] + 1) ELSE 0
    /\ UNCHANGED counter

-----------------------------------------------------------------------------
(***************************************************************************)
(* panic inhibit, panic reset, rcS and bootdone                            *)
(***************************************************************************)

\* cat ... > panic_inhibit truncates the file first; called by fwupdate and hostapd.
InhibitStarts ==
    /\ ~inhibitor
    /\ stamp' = Empty /\ inhibitor' = TRUE
    /\ UNCHANGED <<counter, bad, pc, seen, left, bootdone, resetting, observers>>

InhibitEnds ==
    /\ inhibitor
    /\ stamp' = 0 /\ inhibitor' = FALSE
    /\ UNCHANGED <<counter, bad, pc, seen, left, bootdone, resetting, observers>>

\* rcS gets past the blocking scripts, starts the rest and ends with bootdone.
FinishBoot ==
    /\ bootdone = Empty /\ \A s \in Blocking : pc[s] = "done"
    /\ pc' = [s \in Services |-> IF s \in Late THEN "watch" ELSE pc[s]]
    /\ bootdone' = DelayMax
    /\ UNCHANGED <<counter, stamp, inhibitor, bad, seen, left, resetting, observers>>

ResetStarts ==
    /\ bootdone = 0 /\ resetting = "no"
    /\ counter' = Empty /\ resetting' = "write"
    /\ intact' = FALSE
    /\ UNCHANGED <<stamp, inhibitor, bad, pc, seen, left, bootdone, overdue, floor>>

ResetEnds ==
    /\ resetting = "write"
    /\ counter' = 0 /\ resetting' = "done"
    /\ UNCHANGED <<stamp, inhibitor, bad, pc, seen, left, bootdone, observers>>

-----------------------------------------------------------------------------
(***************************************************************************)
(* The environment                                                         *)
(***************************************************************************)

Fails(s) ==
    /\ s \notin bad /\ bad' = bad \union {s}
    /\ UNCHANGED <<counter, stamp, inhibitor, pc, seen, left, bootdone, resetting, observers>>

Recovers(s) ==
    /\ s \in bad /\ bad' = bad \ {s}
    /\ overdue' = [overdue EXCEPT ![s] = 0]
    /\ UNCHANGED <<counter, stamp, inhibitor, pc, seen, left, bootdone, resetting, floor, intact>>

Asleep ==
    /\ \A s \in Services :
          \/ pc[s] \in Waiting /\ ~(pc[s] = "sleep" /\ left[s] = 0)
          \/ pc[s] = "watch" /\ s \notin Blocking \union bad
    /\ ~inhibitor /\ resetting # "write" /\ ~(bootdone = 0 /\ resetting = "no")
    /\ bootdone = Empty => \E s \in Blocking : pc[s] # "done"

Older(age) == IF age = Empty THEN age ELSE Cap(age + 1, InhibitTimeout)
Shorter(n) == IF n \in {0, Empty} THEN n ELSE n - 1

Tick ==
    /\ Asleep
    /\ stamp' = Older(stamp) /\ bootdone' = Shorter(bootdone)
    /\ left' = [s \in Services |-> Shorter(left[s])]
    /\ pc' = [s \in Services |-> IF pc[s] = "pause" THEN "watch" ELSE pc[s]]
    /\ overdue' = [s \in Services |->
                      IF s \in bad /\ pc[s] # "off" /\ ~Inhibited /\ ~Debug
                      THEN Cap(overdue[s] + 1, MaxOverdue) ELSE 0]
    /\ UNCHANGED <<counter, inhibitor, bad, seen, resetting, floor, intact>>

PowerCut ==
    /\ PowerCuts
    /\ Restart
    /\ floor' = IF intact /\ counter # Empty THEN floor ELSE 0
    /\ UNCHANGED counter

-----------------------------------------------------------------------------
Service(s) ==
    Act(s) \/ Pass(s) \/ Truncate(s) \/ Write(s) \/ Check(s) \/ Wake(s) \/ Reboot(s)

Environment ==
    Tick \/ PowerCut \/ \E s \in Services : Fails(s) \/ Recovers(s)

Next ==
    \/ \E s \in Services : Service(s)
    \/ InhibitStarts \/ InhibitEnds \/ FinishBoot \/ ResetStarts \/ ResetEnds
    \/ Environment

Spec == Init /\ [][Next]_vars

-----------------------------------------------------------------------------
(***************************************************************************)
(* Properties                                                              *)
(***************************************************************************)

\* "Reboot at least once an hour in case of panic" (panic:5), for every watcher: a
\* service that keeps failing with no inhibition in force is answered by a reboot
\* within the longest delay, whatever inhibitions, other panics and resets came
\* before.
Overdue(S) == \A s \in S : overdue[s] <= DelayMax + 1
WatchedFailureReboots == Overdue(Services \ (Blocking \union OneShot))

\* The delay grows from each boot that ends in a panic to the next, unless the counter
\* was reset or updated by two actions at once in between.
BackoffKept ==
    intact => \A s \in Services : pc[s] \in {"sleep", "reboot"} => Delay(seen[s]) >= floor

\* An inhibition that began while an action slept stops it (panic:75-78): nothing
\* reboots over an inhibition more than a moment old.
InhibitedPanicsDoNotReboot ==
    [][\A s \in Services : pc[s] = "reboot" /\ pc'[s] # "reboot" =>
          stamp \in {Empty, 0, InhibitTimeout}]_vars
=============================================================================
