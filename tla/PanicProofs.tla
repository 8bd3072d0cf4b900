---------------------------- MODULE PanicProofs ----------------------------
(***************************************************************************)
(* Proofs about Panic, for any services, delays and bounds: the types, the *)
(* growing delays, the inhibitions and the answer within the longest delay.*)
(***************************************************************************)
EXTENDS Panic, TLAPS

\* Whatever the counter, the delay is one of panic_action's (panic:46-51).
LEMMA DelayInRange ==
    ASSUME NEW n \in Nat
    PROVE  Delay(n) \in 0..DelayMax
<1>1. DelayFactor * n \in Nat
  BY TimeAssumption
<1> QED BY <1>1, TimeAssumption DEF Delay, Cap

LEMMA DelayOfNothing == Delay(0) = 0
BY TimeAssumption DEF Delay, Cap

\* A higher counter does not mean a shorter delay.
LEMMA DelayGrows ==
    ASSUME NEW m \in Nat, NEW n \in Nat, m <= n
    PROVE  Delay(m) <= Delay(n)
<1>1. PICK k \in Nat : n = m + k
  <2>1. n - m \in Nat /\ n = m + (n - m)
    OBVIOUS
  <2> QED BY <2>1
<1>2. DelayFactor * n = DelayFactor * m + DelayFactor * k
  BY <1>1, TimeAssumption
<1>3. DelayFactor * k \in Nat /\ DelayFactor * m \in Nat /\ DelayFactor * n \in Nat
  BY TimeAssumption
<1> QED BY <1>2, <1>3, TimeAssumption DEF Delay, Cap

\* Where the bound MaxCounter stops the counter, the delay is the longest anyway.
LEMMA IncreasedIsEnough ==
    ASSUME NEW n \in 0..MaxCounter
    PROVE  /\ Increased(n) \in 0..MaxCounter
           /\ Delay(Increased(n)) >= Delay(n + 1)
<1>1. CASE n < MaxCounter
  <2>1. CASE n + 1 < MaxCounter
    <3>1. Increased(n) = n + 1
      BY <2>1 DEF Increased, Cap
    <3>2. Delay(n + 1) \in 0..DelayMax
      BY DelayInRange
    <3> QED BY <2>1, <3>1, <3>2, TimeAssumption
  <2>2. CASE n + 1 = MaxCounter
    <3>1. Increased(n) = n + 1
      BY <2>2 DEF Increased, Cap
    <3>2. Delay(n + 1) \in 0..DelayMax
      BY DelayInRange
    <3> QED BY <2>2, <3>1, <3>2, TimeAssumption
  <2> QED BY <1>1, <2>1, <2>2, TimeAssumption
<1>2. CASE n = MaxCounter
  <2>1. Increased(n) = MaxCounter
    BY <1>2, TimeAssumption DEF Increased, Cap
  <2>2. Delay(MaxCounter) = DelayMax
    BY TimeAssumption DEF Delay, Cap
  <2>3. Delay(n + 1) \in 0..DelayMax
    BY DelayInRange
  <2> QED BY <2>1, <2>2, <2>3, TimeAssumption
<1> QED BY <1>1, <1>2, TimeAssumption

-----------------------------------------------------------------------------
(***************************************************************************)
(* Types                                                                   *)
(***************************************************************************)

LEMMA ConstantTypes ==
    /\ FirstStep \in [Services -> Pcs]
    /\ [s \in Services |-> 0] \in [Services -> 0..MaxCounter]
    /\ [s \in Services |-> 0] \in [Services -> 0..DelayMax]
    /\ [s \in Services |-> 0] \in [Services -> 0..MaxOverdue]
<1>1. "off" \in Pcs /\ "watch" \in Pcs
  BY DEF Pcs, Waiting
<1>2. 0 \in 0..MaxCounter /\ 0 \in 0..DelayMax /\ 0 \in 0..MaxOverdue
  BY TimeAssumption DEF MaxOverdue
<1> QED BY <1>1, <1>2 DEF FirstStep

LEMMA InitType == Init => TypeOK
<1> SUFFICES ASSUME Init PROVE TypeOK
  OBVIOUS
<1>1. counter = Empty /\ floor = 0 /\ stamp = Empty /\ bad = {} /\ bootdone = Empty
      /\ resetting = "no" /\ intact \in BOOLEAN /\ inhibitor \in BOOLEAN
  BY DEF Init
<1>2. pc \in [Services -> Pcs] /\ seen \in [Services -> 0..MaxCounter]
      /\ left \in [Services -> 0..DelayMax] /\ overdue \in [Services -> 0..MaxOverdue]
  BY ConstantTypes DEF Init
<1> QED BY <1>1, <1>2, TimeAssumption DEF TypeOK

LEMMA RestartType ==
    ASSUME TypeOK, Restart, counter' = counter, floor' \in 0..DelayMax
    PROVE  TypeOK'
<1>1. /\ stamp' = Empty /\ bad' = bad /\ bootdone' = Empty
      /\ resetting' = "no" /\ intact' \in BOOLEAN /\ inhibitor' \in BOOLEAN
  BY DEF Restart
<1>2. pc' \in [Services -> Pcs] /\ seen' \in [Services -> 0..MaxCounter]
      /\ left' \in [Services -> 0..DelayMax] /\ overdue' \in [Services -> 0..MaxOverdue]
  BY ConstantTypes DEF Restart
<1> QED BY <1>1, <1>2, TimeAssumption DEF TypeOK

LEMMA ServiceType ==
    ASSUME TypeOK, NEW s \in Services, Service(s)
    PROVE  TypeOK'
<1> USE TimeAssumption DEF TypeOK
<1>1. CASE Act(s)
  <2>1. (IF counter = Empty THEN 0 ELSE counter) \in 0..MaxCounter
    OBVIOUS
  <2> QED BY <1>1, <2>1 DEF Act, Goto, Pcs, Updating
<1>2. CASE Pass(s)
  BY <1>2 DEF Pass, Goto, Pcs, Waiting, observers
<1>3. CASE Truncate(s)
  BY <1>3 DEF Truncate, Goto, Pcs, Updating, observers
<1>4. CASE Write(s)
  BY <1>4, IncreasedIsEnough DEF Write, Goto, Pcs, observers
<1>5. CASE Check(s)
  <2>1. AfterAction(s) \in Pcs /\ "sleep" \in Pcs
    BY DEF AfterAction, Pcs, Waiting
  <2>2. Delay(seen[s]) \in 0..DelayMax
    BY DelayInRange
  <2> QED BY <1>5, <2>1, <2>2 DEF Check, Return, Goto, observers
<1>6. CASE Wake(s)
  <2>1. AfterAction(s) \in Pcs /\ "reboot" \in Pcs
    BY DEF AfterAction, Pcs, Waiting
  <2> QED BY <1>6, <2>1 DEF Wake, Return, Goto, observers
<1>7. CASE Reboot(s)
  <2>1. Delay(seen[s] + 1) \in 0..DelayMax
    <3>1. seen[s] + 1 \in Nat
      OBVIOUS
    <3> QED BY <3>1, DelayInRange
  <2>2. floor' \in 0..DelayMax
    BY <1>7, <2>1 DEF Reboot
  <2> QED BY <1>7, <2>2, RestartType DEF Reboot
<1> QED BY <1>1, <1>2, <1>3, <1>4, <1>5, <1>6, <1>7 DEF Service

LEMMA TickType ==
    ASSUME TypeOK, Tick
    PROVE  TypeOK'
<1> USE TimeAssumption DEF TypeOK
<1>1. stamp' \in 0..InhibitTimeout \union {Empty}
  BY DEF Tick, Older, Cap
<1>2. bootdone' \in 0..DelayMax \union {Empty}
  BY DEF Tick, Shorter
<1>3. left' \in [Services -> 0..DelayMax]
  BY DEF Tick, Shorter
<1>4. pc' \in [Services -> Pcs]
  BY DEF Tick, Pcs
<1>5. overdue' \in [Services -> 0..MaxOverdue]
  BY DEF Tick, Cap, MaxOverdue
<1> QED BY <1>1, <1>2, <1>3, <1>4, <1>5 DEF Tick

LEMMA NextType == TypeOK /\ [Next]_vars => TypeOK'
<1> SUFFICES ASSUME TypeOK, [Next]_vars PROVE TypeOK'
  OBVIOUS
<1> USE TimeAssumption
<1>1. ASSUME NEW s \in Services, Service(s) PROVE TypeOK'
  BY <1>1, ServiceType
<1>2. CASE InhibitStarts
  BY <1>2 DEF InhibitStarts, TypeOK, observers
<1>3. CASE InhibitEnds
  <2>1. stamp' = 0 /\ inhibitor' \in BOOLEAN
    BY <1>3, Zenon DEF InhibitEnds
  <2> QED BY <1>3, <2>1 DEF InhibitEnds, TypeOK, observers
<1>4. CASE FinishBoot
  <2>1. pc' \in [Services -> Pcs]
    <3>1. "watch" \in Pcs
      BY DEF Pcs
    <3> QED BY <1>4, <3>1 DEF FinishBoot, TypeOK
  <2> QED BY <1>4, <2>1 DEF FinishBoot, TypeOK, observers
<1>5. CASE ResetStarts
  BY <1>5 DEF ResetStarts, TypeOK
<1>6. CASE ResetEnds
  BY <1>6 DEF ResetEnds, TypeOK, observers
<1>7. CASE Tick
  BY <1>7, TickType
<1>8. CASE PowerCut
  <2>1. floor' \in 0..DelayMax
    BY <1>8 DEF PowerCut, TypeOK
  <2> QED BY <1>8, <2>1, RestartType DEF PowerCut
<1>9. ASSUME NEW s \in Services, Fails(s) PROVE TypeOK'
  BY <1>9 DEF Fails, TypeOK, observers
<1>10. ASSUME NEW s \in Services, Recovers(s) PROVE TypeOK'
  <2>1. overdue' \in [Services -> 0..MaxOverdue]
    BY <1>10 DEF Recovers, TypeOK, MaxOverdue
  <2> QED BY <1>10, <2>1 DEF Recovers, TypeOK
<1>11. CASE UNCHANGED vars
  BY <1>11 DEF vars, observers, TypeOK
<1> QED BY <1>1, <1>2, <1>3, <1>4, <1>5, <1>6, <1>7, <1>8, <1>9, <1>10, <1>11
        DEF Next, Environment

\* Every variable of panic, its callers and bootdone keeps its type (panic:17-100).
THEOREM TypeCorrect == Spec => []TypeOK
BY InitType, NextType, PTL DEF Spec
-----------------------------------------------------------------------------
(***************************************************************************)
(* Inhibitions                                                             *)
(***************************************************************************)

\* An action that is about to reboot has found no inhibition, and time has not passed.
NoneInForce ==
    \A s \in Services : pc[s] = "reboot" => stamp \in {Empty, 0, InhibitTimeout}

LEMMA ServiceKeepsNone ==
    ASSUME TypeOK, NoneInForce, NEW q \in Services, Service(q)
    PROVE  NoneInForce'
<1> SUFFICES ASSUME NEW s \in Services, pc'[s] = "reboot"
             PROVE  stamp' \in {Empty, 0, InhibitTimeout}
  BY DEF NoneInForce
<1>1. CASE Reboot(q)
  BY <1>1 DEF Reboot, Restart
<1>2. CASE Wake(q)
  <2>1. stamp' = stamp
    BY <1>2 DEF Wake
  <2>2. CASE pc[s] = "reboot"
    BY <2>1, <2>2 DEF NoneInForce
  <2>3. CASE pc[s] # "reboot"
    <3>1. ~Inhibited
      BY <1>2, <2>3 DEF Wake, Stopped, Return, Goto, AfterAction, TypeOK
    <3> QED BY <2>1, <3>1, TimeAssumption DEF Inhibited, TypeOK
  <2> QED BY <2>2, <2>3
<1>3. CASE ~Reboot(q) /\ ~Wake(q)
  <2>1. stamp' = stamp /\ pc[s] = "reboot"
    BY <1>3 DEF Service, Act, Pass, Truncate, Write, Check, Return, AfterAction, Goto, TypeOK
  <2> QED BY <2>1 DEF NoneInForce
<1> QED BY <1>1, <1>2, <1>3

LEMMA NextKeepsNone == TypeOK /\ NoneInForce /\ [Next]_vars => NoneInForce'
<1> SUFFICES ASSUME TypeOK, NoneInForce, [Next]_vars PROVE NoneInForce'
  OBVIOUS
<1>1. ASSUME NEW s \in Services, Service(s) PROVE NoneInForce'
  BY <1>1, ServiceKeepsNone
<1>2. CASE InhibitStarts \/ InhibitEnds
  BY <1>2 DEF InhibitStarts, InhibitEnds, NoneInForce
<1>3. CASE FinishBoot
  BY <1>3 DEF FinishBoot, NoneInForce, TypeOK
<1>4. CASE ResetStarts \/ ResetEnds
  BY <1>4 DEF ResetStarts, ResetEnds, NoneInForce
<1>5. CASE Tick
  <2>1. ASSUME NEW s \in Services PROVE pc[s] # "reboot"
    BY <1>5 DEF Tick, Asleep, Waiting
  <2> QED BY <1>5, <2>1 DEF Tick, NoneInForce
<1>6. CASE PowerCut
  BY <1>6 DEF PowerCut, Restart, NoneInForce
<1>7. ASSUME NEW s \in Services, Fails(s) \/ Recovers(s) PROVE NoneInForce'
  BY <1>7 DEF Fails, Recovers, NoneInForce
<1>8. CASE UNCHANGED vars
  BY <1>8 DEF vars, NoneInForce
<1> QED BY <1>1, <1>2, <1>3, <1>4, <1>5, <1>6, <1>7, <1>8 DEF Next, Environment

\* Nothing reboots over an inhibition more than a moment old (panic:75-78).
THEOREM InhibitedPanicsStop == Spec => InhibitedPanicsDoNotReboot
<1>1. Init => NoneInForce
  BY DEF Init, NoneInForce, FirstStep
<1>2. NoneInForce /\ [Next]_vars =>
        [\A s \in Services : pc[s] = "reboot" /\ pc'[s] # "reboot" =>
            stamp \in {Empty, 0, InhibitTimeout}]_vars
  BY DEF NoneInForce
<1> QED BY <1>1, <1>2, InitType, NextType, NextKeepsNone, PTL
        DEF Spec, InhibitedPanicsDoNotReboot
-----------------------------------------------------------------------------
(***************************************************************************)
(* The growing delays                                                      *)
(***************************************************************************)

Counted == {"check", "sleep", "reboot"}
Writing == \E q \in Services : pc[q] = "write"

\* Watchers started late are not started yet (rcS).
LateAreOff == bootdone = Empty => \A s \in Late : pc[s] = "off"

\* Nobody else is between reading and writing the counter.
OneUpdate ==
    intact => /\ resetting = "no"
              /\ \A s, q \in Services : pc[s] \in Updating /\ pc[q] \in Updating => s = q

\* The counter, and what has been read of it, stands for the delay reached so far.
FloorKept ==
    intact => /\ counter = Empty => floor = 0 \/ Writing
              /\ counter # Empty => Delay(counter) >= floor
              /\ \A s \in Services : pc[s] \in Updating \union Counted => Delay(seen[s]) >= floor

\* Who has counted has left a counter that is ahead of the one read.
CounterAhead ==
    intact => \A s \in Services : pc[s] \in Counted =>
                 /\ Writing \/ (counter # Empty /\ Delay(counter) >= Delay(seen[s] + 1))
                 /\ \A q \in Services : pc[q] \in Updating => Delay(seen[q]) >= Delay(seen[s] + 1)

DelayInv == TypeOK /\ LateAreOff /\ OneUpdate /\ FloorKept /\ CounterAhead

\* A boot starts with nobody between two steps.
LEMMA RestartKeepsDelays ==
    ASSUME Restart, counter' = counter, TypeOK',
           counter = Empty => floor' = 0, counter # Empty => Delay(counter) >= floor'
    PROVE  DelayInv'
<1>1. \A s \in Services : pc'[s] \notin Updating \union Counted
  BY DEF Restart, FirstStep, Updating, Counted
<1>2. LateAreOff'
  BY ServicesAssumption DEF Restart, FirstStep, LateAreOff
<1>3. OneUpdate'
  BY <1>1 DEF Restart, OneUpdate, Updating
<1>4. FloorKept'
  BY <1>1 DEF FloorKept
<1>5. CounterAhead'
  BY <1>1 DEF CounterAhead
<1> QED BY <1>2, <1>3, <1>4, <1>5 DEF DelayInv

LEMMA ActKeepsDelays ==
    ASSUME DelayInv, NEW s \in Services, Act(s), TypeOK'
    PROVE  DelayInv'
<1> DEFINE n == IF counter = Empty THEN 0 ELSE counter
<1>1. /\ pc[s] = "watch" /\ pc' = [pc EXCEPT ![s] = "trunc"] /\ seen' = [seen EXCEPT ![s] = n]
      /\ counter' = counter /\ floor' = floor /\ bootdone' = bootdone /\ resetting' = resetting
  BY DEF Act, Goto
<1>2. /\ pc'[s] = "trunc" /\ seen'[s] = n
      /\ \A q \in Services \ {s} : pc'[q] = pc[q] /\ seen'[q] = seen[q]
  BY <1>1 DEF DelayInv, TypeOK
<1>3. LateAreOff'
  BY <1>1, <1>2, ServicesAssumption DEF DelayInv, LateAreOff
<1>4. CASE ~intact'
  BY <1>3, <1>4 DEF DelayInv, OneUpdate, FloorKept, CounterAhead
<1>5. CASE intact'
  <2>1. intact /\ ~OtherUpdates(s)
    BY <1>5, Zenon DEF Act
  <2>2. \A q \in Services : pc[q] \notin Updating
    BY <1>1, <2>1 DEF OtherUpdates, Updating
  <2>3. ~Writing
    BY <2>2 DEF Writing, Updating
  <2>4. Delay(n) >= floor
    BY <2>1, <2>3, DelayOfNothing DEF DelayInv, FloorKept, TypeOK
  <2>5. OneUpdate'
    BY <1>1, <1>2, <2>1, <2>2 DEF DelayInv, OneUpdate
  <2>6. FloorKept'
    <3>1. counter' = Empty => floor' = 0
      BY <1>1, <2>1, <2>3 DEF DelayInv, FloorKept
    <3>2. counter' # Empty => Delay(counter') >= floor'
      BY <1>1, <2>1 DEF DelayInv, FloorKept
    <3>3. ASSUME NEW q \in Services, pc'[q] \in Updating \union Counted
          PROVE  Delay(seen'[q]) >= floor'
      BY <1>1, <1>2, <2>1, <2>4, <3>3 DEF DelayInv, FloorKept
    <3> QED BY <3>1, <3>2, <3>3 DEF FloorKept
  <2>7. CounterAhead'
    <3>1. ASSUME NEW q \in Services, pc'[q] \in Counted
          PROVE  /\ counter' # Empty /\ Delay(counter') >= Delay(seen'[q] + 1)
                 /\ \A r \in Services : pc'[r] \in Updating => Delay(seen'[r]) >= Delay(seen'[q] + 1)
      <4>1. q # s /\ pc[q] \in Counted /\ seen'[q] = seen[q]
        BY <1>2, <3>1 DEF Counted
      <4>2. counter # Empty /\ Delay(counter) >= Delay(seen[q] + 1)
        BY <2>1, <2>3, <4>1 DEF DelayInv, CounterAhead
      <4>3. ASSUME NEW r \in Services, pc'[r] \in Updating
            PROVE  seen'[r] = counter
        BY <1>2, <2>2, <4>2, <4>3
      <4> QED BY <1>1, <4>1, <4>2, <4>3
    <3> QED BY <3>1 DEF CounterAhead
  <2> QED BY <1>3, <2>5, <2>6, <2>7 DEF DelayInv
<1> QED BY <1>4, <1>5

LEMMA TruncateKeepsDelays ==
    ASSUME DelayInv, NEW s \in Services, Truncate(s), TypeOK'
    PROVE  DelayInv'
<1>1. /\ pc[s] = "trunc" /\ pc' = [pc EXCEPT ![s] = "write"] /\ counter' = Empty
      /\ seen' = seen /\ floor' = floor /\ bootdone' = bootdone /\ resetting' = resetting
      /\ intact' = intact
  BY DEF Truncate, Goto, observers
<1>2. pc'[s] = "write" /\ \A q \in Services \ {s} : pc'[q] = pc[q]
  BY <1>1 DEF DelayInv, TypeOK
<1>3. LateAreOff'
  BY <1>1, <1>2, ServicesAssumption DEF DelayInv, LateAreOff
<1>4. Writing'
  BY <1>2 DEF Writing
<1>5. \A q \in Services : /\ pc'[q] \in Updating <=> pc[q] \in Updating
                          /\ pc'[q] \in Counted <=> pc[q] \in Counted
  BY <1>1, <1>2 DEF Updating, Counted
<1>6. OneUpdate'
  BY <1>1, <1>5 DEF DelayInv, OneUpdate
<1>7. FloorKept'
  BY <1>1, <1>4, <1>5 DEF DelayInv, FloorKept
<1>8. CounterAhead'
  BY <1>1, <1>4, <1>5 DEF DelayInv, CounterAhead
<1> QED BY <1>3, <1>6, <1>7, <1>8 DEF DelayInv

LEMMA WriteKeepsDelays ==
    ASSUME DelayInv, NEW s \in Services, Write(s), TypeOK'
    PROVE  DelayInv'
<1>1. /\ pc[s] = "write" /\ pc' = [pc EXCEPT ![s] = "check"] /\ counter' = Increased(seen[s])
      /\ seen' = seen /\ floor' = floor /\ bootdone' = bootdone /\ resetting' = resetting
      /\ intact' = intact
  BY DEF Write, Goto, observers
<1>2. pc'[s] = "check" /\ \A q \in Services \ {s} : pc'[q] = pc[q]
  BY <1>1 DEF DelayInv, TypeOK
<1>3. LateAreOff'
  BY <1>1, <1>2, ServicesAssumption DEF DelayInv, LateAreOff
<1>4. /\ seen[s] \in 0..MaxCounter /\ counter' \in 0..MaxCounter /\ counter' # Empty
      /\ Delay(counter') >= Delay(seen[s] + 1) /\ Delay(seen[s] + 1) >= Delay(seen[s])
      /\ Delay(counter') \in Nat /\ Delay(seen[s] + 1) \in Nat /\ Delay(seen[s]) \in Nat
  <2>1. seen[s] \in 0..MaxCounter /\ seen[s] \in Nat /\ seen[s] + 1 \in Nat
        /\ seen[s] <= seen[s] + 1
    BY TimeAssumption DEF DelayInv, TypeOK
  <2>2. Delay(seen[s] + 1) \in 0..DelayMax /\ Delay(seen[s]) \in 0..DelayMax
    BY <2>1, DelayInRange
  <2>3. Delay(seen[s] + 1) >= Delay(seen[s])
    <3>1. Delay(seen[s]) <= Delay(seen[s] + 1)
      BY <2>1, DelayGrows
    <3> QED BY <2>2, <3>1, TimeAssumption
  <2>4. counter' \in 0..MaxCounter /\ Delay(counter') >= Delay(seen[s] + 1)
    BY <1>1, <2>1, IncreasedIsEnough
  <2>5. counter' \in Nat
    BY <2>4, TimeAssumption
  <2>6. Delay(counter') \in 0..DelayMax
    BY <2>5, DelayInRange
  <2> QED BY <2>1, <2>2, <2>3, <2>4, <2>5, <2>6, TimeAssumption
<1>5. CASE ~intact
  BY <1>1, <1>3, <1>5 DEF DelayInv, OneUpdate, FloorKept, CounterAhead
<1>6. CASE intact
  <2>1. \A q \in Services : pc'[q] \notin Updating
    BY <1>1, <1>2, <1>6 DEF DelayInv, OneUpdate, Updating
  <2>2. \A q \in Services \ {s} : pc'[q] \in Counted => Delay(seen[s]) >= Delay(seen[q] + 1)
    BY <1>1, <1>2, <1>6 DEF DelayInv, CounterAhead, Updating
  <2>3. OneUpdate'
    BY <1>1, <1>6, <2>1 DEF DelayInv, OneUpdate
  <2>4. Delay(seen[s]) >= floor /\ floor \in Nat
    BY <1>1, <1>6, TimeAssumption DEF DelayInv, FloorKept, Updating, TypeOK
  <2>5. FloorKept'
    <3>1. Delay(counter') >= floor
      BY <1>4, <2>4
    <3>2. \A q \in Services : pc'[q] \in Updating \union Counted => Delay(seen[q]) >= floor
      BY <1>1, <1>2, <1>6, <2>4 DEF DelayInv, FloorKept
    <3> QED BY <1>1, <1>4, <3>1, <3>2 DEF FloorKept
  <2>6. CounterAhead'
    <3>1. ASSUME NEW q \in Services, pc'[q] \in Counted
          PROVE  Delay(counter') >= Delay(seen[q] + 1)
      <4>1. CASE q = s
        BY <1>4, <4>1
      <4>2. CASE q # s
        <5>1. seen[q] + 1 \in Nat
          BY TimeAssumption DEF DelayInv, TypeOK
        <5>2. Delay(seen[q] + 1) \in 0..DelayMax
          BY <5>1, DelayInRange
        <5> QED BY <1>4, <2>2, <3>1, <4>2, <5>2, TimeAssumption
      <4> QED BY <4>1, <4>2
    <3> QED BY <1>1, <1>4, <2>1, <3>1 DEF CounterAhead
  <2> QED BY <1>3, <2>3, <2>5, <2>6 DEF DelayInv
<1> QED BY <1>5, <1>6

\* Steps that neither read nor write the counter, of a service that is not about to.
LEMMA LaterStepsKeepDelays ==
    ASSUME DelayInv, NEW s \in Services, Pass(s) \/ Check(s) \/ Wake(s), TypeOK'
    PROVE  DelayInv'
<1>1. /\ counter' = counter /\ floor' = floor /\ bootdone' = bootdone
      /\ resetting' = resetting /\ intact' = intact
  BY DEF Pass, Check, Wake, observers
<1>2. /\ \A q \in Services \ {s} : pc'[q] = pc[q] /\ seen'[q] = seen[q]
      /\ pc[s] # "off" /\ pc[s] \notin Updating /\ pc'[s] \notin Updating
      /\ pc'[s] \in Counted => pc[s] \in Counted /\ seen'[s] = seen[s]
  BY DEF DelayInv, TypeOK, Pass, Check, Wake, Return, Goto, AfterAction, Counted, Updating
<1>3. LateAreOff'
  BY <1>1, <1>2, ServicesAssumption DEF DelayInv, LateAreOff
<1>4. \A q \in Services : pc'[q] \in Updating <=> pc[q] \in Updating
  BY <1>2
<1>5. Writing' <=> Writing
  BY <1>2 DEF Writing, Updating
<1>6. OneUpdate'
  BY <1>1, <1>4 DEF DelayInv, OneUpdate
<1>7. FloorKept'
  BY <1>1, <1>2, <1>4, <1>5 DEF DelayInv, FloorKept
<1>8. CounterAhead'
  BY <1>1, <1>2, <1>4, <1>5 DEF DelayInv, CounterAhead
<1> QED BY <1>3, <1>6, <1>7, <1>8 DEF DelayInv

LEMMA RebootKeepsDelays ==
    ASSUME DelayInv, NEW s \in Services, Reboot(s), TypeOK'
    PROVE  DelayInv'
<1>1. pc[s] = "reboot" /\ Restart /\ counter' = counter
      /\ floor' = IF intact /\ ~OtherUpdates(s) THEN Delay(seen[s] + 1) ELSE 0
  BY DEF Reboot
<1>2. CASE intact /\ ~OtherUpdates(s)
  <2>1. ~Writing
    BY <1>1, <1>2 DEF OtherUpdates, Writing, Updating
  <2>2. counter # Empty /\ Delay(counter) >= Delay(seen[s] + 1)
    BY <1>1, <1>2, <2>1 DEF DelayInv, CounterAhead, Counted
  <2> QED BY <1>1, <1>2, <2>2, RestartKeepsDelays
<1>3. CASE ~(intact /\ ~OtherUpdates(s))
  <2>1. floor' = 0
    BY <1>1, <1>3
  <2>2. counter # Empty => Delay(counter) >= 0
    <3>1. counter # Empty => counter \in Nat
      BY TimeAssumption DEF DelayInv, TypeOK
    <3> QED BY <3>1, DelayInRange, TimeAssumption
  <2> QED BY <1>1, <2>1, <2>2, RestartKeepsDelays
<1> QED BY <1>2, <1>3

LEMMA OthersKeepDelays ==
    ASSUME DelayInv, TypeOK',
           \/ InhibitStarts \/ InhibitEnds \/ FinishBoot \/ ResetStarts \/ ResetEnds
           \/ Tick \/ PowerCut \/ UNCHANGED vars
           \/ \E s \in Services : Fails(s) \/ Recovers(s)
    PROVE  DelayInv'
<1>1. CASE \/ InhibitStarts \/ InhibitEnds \/ UNCHANGED vars
           \/ \E s \in Services : Fails(s) \/ Recovers(s)
  <2>1. /\ counter' = counter /\ floor' = floor /\ bootdone' = bootdone /\ pc' = pc
        /\ seen' = seen /\ resetting' = resetting /\ intact' = intact
    BY <1>1 DEF InhibitStarts, InhibitEnds, Fails, Recovers, vars, observers
  <2> QED BY <2>1 DEF DelayInv, LateAreOff, OneUpdate, FloorKept, CounterAhead, Writing
<1>2. CASE FinishBoot \/ Tick
  <2>1. /\ counter' = counter /\ floor' = floor /\ seen' = seen
        /\ resetting' = resetting /\ intact' = intact
    BY <1>2 DEF FinishBoot, Tick, observers
  <2>2. \A q \in Services : pc'[q] = pc[q] \/ (pc'[q] = "watch" /\ pc[q] \in {"pause", "off"})
    BY <1>2, ServicesAssumption DEF FinishBoot, Tick, DelayInv, LateAreOff, TypeOK
  <2>3. LateAreOff'
    <3>1. CASE FinishBoot
      BY <3>1, TimeAssumption DEF FinishBoot, LateAreOff
    <3>2. CASE Tick
      <4>1. bootdone' = Empty => bootdone = Empty
        BY <3>2, TimeAssumption DEF Tick, Shorter, DelayInv, TypeOK
      <4>2. \A q \in Services : pc[q] = "off" => pc'[q] = "off"
        BY <3>2 DEF Tick, DelayInv, TypeOK
      <4> QED BY <4>1, <4>2, ServicesAssumption DEF DelayInv, LateAreOff
    <3> QED BY <1>2, <3>1, <3>2
  <2>4. \A q \in Services : /\ pc'[q] \in Updating <=> pc[q] \in Updating
                            /\ pc'[q] \in Counted <=> pc[q] \in Counted
    BY <2>2 DEF Updating, Counted
  <2>5. Writing' <=> Writing
    BY <2>2 DEF Writing
  <2>6. OneUpdate'
    BY <2>1, <2>4 DEF DelayInv, OneUpdate
  <2>7. FloorKept'
    BY <2>1, <2>4, <2>5 DEF DelayInv, FloorKept
  <2>8. CounterAhead'
    BY <2>1, <2>4, <2>5 DEF DelayInv, CounterAhead
  <2> QED BY <2>3, <2>6, <2>7, <2>8 DEF DelayInv
<1>3. CASE ResetStarts \/ ResetEnds
  <2>1. ~intact'
    BY <1>3, Zenon DEF ResetStarts, ResetEnds, DelayInv, OneUpdate, observers
  <2>2. LateAreOff'
    BY <1>3 DEF ResetStarts, ResetEnds, DelayInv, LateAreOff
  <2> QED BY <2>1, <2>2 DEF DelayInv, OneUpdate, FloorKept, CounterAhead
<1>4. CASE PowerCut
  <2>1. Restart /\ counter' = counter
        /\ floor' = IF intact /\ counter # Empty THEN floor ELSE 0
    BY <1>4 DEF PowerCut
  <2>2. counter # Empty => Delay(counter) >= floor'
    <3>1. counter # Empty => counter \in Nat
      BY TimeAssumption DEF DelayInv, TypeOK
    <3>2. counter # Empty => Delay(counter) >= 0
      BY <3>1, DelayInRange, TimeAssumption
    <3> QED BY <2>1, <3>2 DEF DelayInv, FloorKept
  <2> QED BY <2>1, <2>2, RestartKeepsDelays
<1> QED BY <1>1, <1>2, <1>3, <1>4

LEMMA NextKeepsDelays == DelayInv /\ [Next]_vars => DelayInv'
<1> SUFFICES ASSUME DelayInv, [Next]_vars PROVE DelayInv'
  OBVIOUS
<1>1. TypeOK'
  BY NextType DEF DelayInv
<1>2. ASSUME NEW s \in Services, Service(s) PROVE DelayInv'
  BY <1>1, <1>2, ActKeepsDelays, TruncateKeepsDelays, WriteKeepsDelays,
     LaterStepsKeepDelays, RebootKeepsDelays DEF Service
<1> QED BY <1>1, <1>2, OthersKeepDelays DEF Next, Environment

\* The delay grows from each panic to the next (panic:40-51), unless the counter was
\* reset or updated by two actions at once in between.
THEOREM DelaysGrow == Spec => []BackoffKept
<1>1. Init => DelayInv
  <2> SUFFICES ASSUME Init PROVE DelayInv
    OBVIOUS
  <2>1. /\ \A s \in Services : pc[s] \notin Updating \union Counted
        /\ counter = Empty /\ floor = 0 /\ resetting = "no"
    BY DEF Init, FirstStep, Updating, Counted
  <2>2. LateAreOff
    BY ServicesAssumption DEF Init, FirstStep, LateAreOff
  <2> QED BY <2>1, <2>2, InitType DEF DelayInv, OneUpdate, FloorKept, CounterAhead
<1>2. DelayInv => BackoffKept
  BY DEF DelayInv, FloorKept, Counted, BackoffKept
<1> QED BY <1>1, <1>2, NextKeepsDelays, PTL DEF Spec
-----------------------------------------------------------------------------
(***************************************************************************)
(* The answer within the longest delay                                     *)
(***************************************************************************)

Watched == Services \ (Blocking \union OneShot)

\* How long a watched service can have been failing, by what its watcher is at: one that
\* was stopped by an inhibition finds it still in force when time passes.
Timely(s) ==
    /\ pc[s] # "done"
    /\ pc[s] = "off" => overdue[s] = 0
    /\ pc[s] \in {"watch", "check"} \union Updating => overdue[s] <= 1
    /\ pc[s] = "sleep" => overdue[s] + left[s] <= DelayMax + 1
    /\ pc[s] \in {"reboot", "pause"} => overdue[s] <= DelayMax + 1
    /\ pc[s] = "pause" => overdue[s] = 0 \/ Inhibited \/ inhibitor
    /\ Debug => overdue[s] = 0

WatchedAreTimely == TypeOK /\ LateAreOff /\ \A s \in Watched : Timely(s)

LEMMA TimelyIsSoon ==
    ASSUME TypeOK, NEW s \in Services, Timely(s)
    PROVE  overdue[s] <= DelayMax + 1
BY TimeAssumption DEF TypeOK, Timely, Pcs, Waiting, Updating

LEMMA RestartIsTimely ==
    ASSUME Restart, NEW s \in Services
    PROVE  Timely(s)'
<1>1. overdue'[s] = 0 /\ left'[s] = 0 /\ pc'[s] \in {"off", "watch"}
  BY DEF Restart, FirstStep
<1> QED BY <1>1, TimeAssumption DEF Timely, Updating

\* Steps in which the service itself does not move.
LEMMA StandingIsTimely ==
    ASSUME NEW s \in Services, Timely(s), pc'[s] = pc[s], left'[s] = left[s],
           overdue'[s] = overdue[s] \/ overdue'[s] = 0,
           overdue[s] \in Nat, left[s] \in Nat,
           Inhibited \/ inhibitor => Inhibited' \/ inhibitor'
    PROVE  Timely(s)'
BY TimeAssumption DEF Timely

LEMMA ServiceIsTimely ==
    ASSUME WatchedAreTimely, NEW q \in Services, Service(q), NEW s \in Watched
    PROVE  Timely(s)'
<1>1. s \in Services /\ Timely(s) /\ overdue[s] \in Nat /\ left[s] \in Nat
  BY TimeAssumption DEF WatchedAreTimely, Watched, TypeOK, MaxOverdue
<1>2. CASE Reboot(q)
  BY <1>1, <1>2, RestartIsTimely DEF Reboot
<1>3. CASE ~Reboot(q)
  <2>1. /\ overdue' = overdue /\ stamp' = stamp /\ inhibitor' = inhibitor
        /\ \A r \in Services \ {q} : pc'[r] = pc[r] /\ left'[r] = left[r]
    BY <1>3 DEF Service, Act, Pass, Truncate, Write, Check, Wake, Return, Goto, observers,
        WatchedAreTimely, TypeOK
  <2>2. CASE s # q
    BY <1>1, <2>1, <2>2, StandingIsTimely DEF Inhibited
  <2>3. CASE s = q
    <3>1. AfterAction(s) = "pause"
      BY DEF AfterAction, Watched
    <3>2. CASE Act(s) \/ Truncate(s) \/ Write(s)
      <4>1. pc[s] \in {"watch"} \union Updating /\ pc'[s] \in {"check"} \union Updating
        BY <1>1, <3>2 DEF Act, Truncate, Write, Goto, Updating, WatchedAreTimely, TypeOK
      <4> QED BY <1>1, <2>1, <4>1 DEF Timely, Updating
    <3>3. CASE Pass(s)
      BY <3>3 DEF Pass, Watched
    <3>4. CASE Check(s)
      <4>1. pc[s] = "check" /\ overdue'[s] <= 1 /\ (Debug => overdue'[s] = 0)
        BY <1>1, <2>1, <3>4 DEF Check, Timely
      <4>2. CASE Inhibited \/ Debug
        <5>1. pc'[s] = "pause"
          BY <1>1, <3>1, <3>4, <4>2 DEF Check, Return, Goto, WatchedAreTimely, TypeOK
        <5>2. overdue'[s] = 0 \/ Inhibited'
          BY <2>1, <4>1, <4>2 DEF Inhibited
        <5> QED BY <1>1, <2>1, <4>1, <5>1, <5>2, TimeAssumption DEF Timely, Updating
      <4>3. CASE ~(Inhibited \/ Debug)
        <5>1. pc'[s] = "sleep" /\ left'[s] = Delay(seen[s])
          BY <1>1, <3>4, <4>3 DEF Check, Goto, WatchedAreTimely, TypeOK
        <5>2. Delay(seen[s]) \in 0..DelayMax
          <6>1. seen[s] \in Nat
            BY <1>1, TimeAssumption DEF WatchedAreTimely, TypeOK
          <6> QED BY <6>1, DelayInRange
        <5> QED BY <1>1, <2>1, <4>1, <5>1, <5>2, TimeAssumption DEF Timely, Updating
      <4> QED BY <4>2, <4>3
    <3>5. CASE Wake(s)
      <4>1. pc[s] = "sleep" /\ overdue'[s] <= DelayMax + 1 /\ (Debug => overdue'[s] = 0)
        BY <1>1, <2>1, <3>5, TimeAssumption DEF Wake, Timely
      <4>2. CASE Inhibited
        <5>1. pc'[s] = "pause" /\ Inhibited'
          BY <1>1, <2>1, <3>1, <3>5, <4>2
             DEF Wake, Stopped, Return, Goto, WatchedAreTimely, TypeOK, Inhibited
        <5> QED BY <1>1, <2>1, <4>1, <5>1 DEF Timely, Updating
      <4>3. CASE ~Inhibited
        <5>1. pc'[s] = "reboot"
          BY <1>1, <3>5, <4>3 DEF Wake, Stopped, Goto, WatchedAreTimely, TypeOK
        <5> QED BY <1>1, <2>1, <4>1, <5>1 DEF Timely, Updating
      <4> QED BY <4>2, <4>3
    <3> QED BY <1>3, <2>3, <3>2, <3>3, <3>4, <3>5 DEF Service
  <2> QED BY <2>2, <2>3
<1> QED BY <1>2, <1>3

\* Time passes: who sleeps comes nearer to its end by as much as the failure grows older.
LEMMA TickIsTimely ==
    ASSUME WatchedAreTimely, Tick, NEW s \in Watched
    PROVE  Timely(s)'
<1>1. s \in Services /\ Timely(s) /\ overdue[s] \in 0..MaxOverdue /\ left[s] \in 0..DelayMax
  BY DEF WatchedAreTimely, Watched, TypeOK
<1>2. /\ overdue'[s] \in Nat
      /\ overdue'[s] <= overdue[s] + 1
      /\ pc[s] = "off" \/ s \notin bad \/ Inhibited \/ Debug => overdue'[s] = 0
  BY <1>1, TimeAssumption DEF Tick, Cap, MaxOverdue
<1>3. /\ pc'[s] = IF pc[s] = "pause" THEN "watch" ELSE pc[s]
      /\ left'[s] = IF left[s] = 0 THEN 0 ELSE left[s] - 1
  BY <1>1, TimeAssumption DEF Tick, Shorter, WatchedAreTimely, TypeOK
<1>4. /\ ~inhibitor
      /\ \/ pc[s] = "sleep" /\ left[s] # 0
         \/ pc[s] \in {"pause", "off"}
         \/ pc[s] = "watch" /\ s \notin bad
  BY <1>1 DEF Tick, Asleep, Waiting, Timely
<1>5. CASE pc[s] = "sleep" /\ left[s] # 0
  BY <1>1, <1>2, <1>3, <1>5, TimeAssumption DEF Timely, Updating
<1>6. CASE pc[s] = "pause"
  <2>1. overdue'[s] <= 1
    BY <1>1, <1>2, <1>4, <1>6 DEF Timely
  <2> QED BY <1>2, <1>3, <1>6, <2>1 DEF Timely, Updating
<1>7. CASE pc[s] = "off" \/ (pc[s] = "watch" /\ s \notin bad)
  BY <1>2, <1>3, <1>7 DEF Timely, Updating
<1> QED BY <1>4, <1>5, <1>6, <1>7

LEMMA OthersAreTimely ==
    ASSUME WatchedAreTimely, NEW s \in Watched,
           \/ InhibitStarts \/ InhibitEnds \/ FinishBoot \/ ResetStarts \/ ResetEnds
           \/ PowerCut \/ UNCHANGED vars
           \/ \E q \in Services : Fails(q) \/ Recovers(q)
    PROVE  Timely(s)'
<1>1. s \in Services /\ Timely(s) /\ overdue[s] \in Nat /\ left[s] \in Nat
  BY TimeAssumption DEF WatchedAreTimely, Watched, TypeOK, MaxOverdue
<1>2. CASE PowerCut
  BY <1>1, <1>2, RestartIsTimely DEF PowerCut
<1>3. CASE InhibitStarts
  BY <1>1, <1>3, StandingIsTimely DEF InhibitStarts, observers
<1>4. CASE InhibitEnds
  <2>1. Inhibited'
    BY <1>4, TimeAssumption DEF InhibitEnds, Inhibited
  <2> QED BY <1>1, <1>4, <2>1, StandingIsTimely DEF InhibitEnds, observers
<1>5. CASE FinishBoot
  <2>1. overdue' = overdue /\ left' = left /\ stamp' = stamp /\ inhibitor' = inhibitor
    BY <1>5 DEF FinishBoot, observers
  <2>2. CASE s \in Late
    <3>1. pc[s] = "off" /\ pc'[s] = "watch"
      BY <1>1, <1>5, <2>2 DEF FinishBoot, WatchedAreTimely, LateAreOff
    <3> QED BY <1>1, <2>1, <3>1 DEF Timely, Updating
  <2>3. CASE s \notin Late
    <3>1. pc'[s] = pc[s]
      BY <1>1, <1>5, <2>3 DEF FinishBoot
    <3> QED BY <1>1, <2>1, <3>1, StandingIsTimely DEF Inhibited
  <2> QED BY <2>2, <2>3
<1>6. CASE ResetStarts \/ ResetEnds \/ UNCHANGED vars
  <2>1. /\ overdue' = overdue /\ left' = left /\ stamp' = stamp /\ inhibitor' = inhibitor
        /\ pc' = pc
    BY <1>6 DEF ResetStarts, ResetEnds, vars, observers
  <2> QED BY <1>1, <2>1, StandingIsTimely DEF Inhibited
<1>7. ASSUME NEW q \in Services, Fails(q) \/ Recovers(q)
      PROVE  Timely(s)'
  <2>1. /\ overdue'[s] = overdue[s] \/ overdue'[s] = 0
        /\ left' = left /\ stamp' = stamp /\ inhibitor' = inhibitor /\ pc' = pc
    BY <1>1, <1>7 DEF Fails, Recovers, observers, WatchedAreTimely, TypeOK
  <2> QED BY <1>1, <2>1, StandingIsTimely DEF Inhibited
<1> QED BY <1>2, <1>3, <1>4, <1>5, <1>6, <1>7

LEMMA NextKeepsLateOff == TypeOK /\ LateAreOff /\ [Next]_vars => LateAreOff'
<1> SUFFICES ASSUME TypeOK, LateAreOff, [Next]_vars, bootdone' = Empty, NEW s \in Late
             PROVE  pc'[s] = "off"
  BY DEF LateAreOff
<1>1. s \in Services
  BY ServicesAssumption
<1>2. CASE bootdone = Empty
  <2>1. pc[s] = "off"
    BY <1>2 DEF LateAreOff
  <2>2. ASSUME NEW q \in Services, Service(q) PROVE pc'[s] = "off"
    <3>1. CASE Reboot(q)
      BY <1>1, <3>1 DEF Reboot, Restart, FirstStep
    <3>2. CASE ~Reboot(q)
      BY <1>1, <2>1, <2>2, <3>2 DEF Service, Act, Pass, Truncate, Write, Check, Wake, Return,
         Goto, Updating, TypeOK
    <3> QED BY <3>1, <3>2
  <2>3. CASE PowerCut
    BY <1>1, <2>3 DEF PowerCut, Restart, FirstStep
  <2>4. CASE FinishBoot
    BY <2>4, TimeAssumption DEF FinishBoot
  <2>5. CASE Tick
    BY <1>1, <2>1, <2>5 DEF Tick
  <2>6. CASE \/ InhibitStarts \/ InhibitEnds \/ ResetStarts \/ ResetEnds \/ UNCHANGED vars
             \/ \E q \in Services : Fails(q) \/ Recovers(q)
    BY <2>1, <2>6 DEF InhibitStarts, InhibitEnds, ResetStarts, ResetEnds, Fails, Recovers, vars
  <2> QED BY <2>2, <2>3, <2>4, <2>5, <2>6 DEF Next, Environment
<1>3. CASE bootdone # Empty
  <2>1. \/ PowerCut
        \/ \E q \in Services : Reboot(q)
    BY <1>3, TimeAssumption DEF Next, Environment, Service, Act, Pass, Truncate, Write, Check,
       Wake, InhibitStarts, InhibitEnds, FinishBoot, ResetStarts, ResetEnds, Tick, Shorter,
       Fails, Recovers, vars, TypeOK
  <2> QED BY <1>1, <2>1 DEF PowerCut, Reboot, Restart, FirstStep
<1> QED BY <1>2, <1>3

\* "Reboot at least once an hour in case of panic" (panic:5), for every watcher that polls
\* again: a service that keeps failing with no inhibition in force is answered within the
\* longest delay.
THEOREM FailuresAreAnswered == Spec => []WatchedFailureReboots
<1>1. Init => WatchedAreTimely
  <2> SUFFICES ASSUME Init PROVE WatchedAreTimely
    OBVIOUS
  <2>1. ASSUME NEW s \in Watched PROVE Timely(s)
    <3>1. overdue[s] = 0 /\ left[s] = 0 /\ pc[s] \in {"off", "watch"}
      BY DEF Init, FirstStep, Watched
    <3> QED BY <3>1, TimeAssumption DEF Timely, Updating
  <2>2. LateAreOff
    BY ServicesAssumption DEF Init, FirstStep, LateAreOff
  <2> QED BY <2>1, <2>2, InitType DEF WatchedAreTimely
<1>2. WatchedAreTimely /\ [Next]_vars => WatchedAreTimely'
  <2> SUFFICES ASSUME WatchedAreTimely, [Next]_vars PROVE WatchedAreTimely'
    OBVIOUS
  <2>1. TypeOK' /\ LateAreOff'
    BY NextType, NextKeepsLateOff DEF WatchedAreTimely
  <2>2. ASSUME NEW s \in Watched PROVE Timely(s)'
    BY ServiceIsTimely, TickIsTimely, OthersAreTimely DEF Next, Environment
  <2> QED BY <2>1, <2>2 DEF WatchedAreTimely, Watched
<1>3. WatchedAreTimely => WatchedFailureReboots
  BY TimelyIsSoon DEF WatchedAreTimely, WatchedFailureReboots, Overdue, Watched
<1> QED BY <1>1, <1>2, <1>3, PTL DEF Spec
=============================================================================
