-------------------------- MODULE SafetyGateProofs --------------------------
(***************************************************************************)
(* Proofs about SafetyGate for every number of roles and ports and every   *)
(* value of the limits that its assumptions admit.                         *)
(***************************************************************************)
EXTENDS SafetyGate, TLAPS

-----------------------------------------------------------------------------
(* The inductive invariant.                                                *)

\* s_ports_held is the hold at the last page write or step that moved a port.
HeldFollows == held <=> quiet # {}

\* What the link's watchdog leaves behind, and what a consent rests on.
WatchKept == /\ dev.silent => dev.failsafe /\ dev.latched
             /\ dev.failsafe => dev.latched
             /\ consent # "none" => dev.heard

\* How far the monitor's age can lag behind the line.
LineLag == /\ moved => still <= passAge
           /\ beat.have /\ beat.age < EdgeCap => still <= beat.age + MaxPass

\* What a driving bank still remembers of the pass that armed it.
BankAge == bank # {} =>
  /\ beat.have /\ beat.age <= MaxGap - 1 + passAge
  /\ dev.heard /\ dev.age <= Silence - 1 + passAge

IInv == /\ TypeOK
        /\ HeldFollows
        /\ WatchKept
        /\ ArmStandsOnTrust
        /\ LatchRemembers
        /\ HoldsExclude
        /\ LineLag
        /\ BankAge
-----------------------------------------------------------------------------
\* The caps of the saturating ages are limits like any other.
LEMMA CapsNat ==
  /\ EdgeCap \in Nat /\ 0 \in 0..EdgeCap
  /\ SilentBound \in Nat /\ 0 \in 0..(SilentBound + 1)
  /\ StillBound \in Nat /\ 0 \in 0..(StillBound + 1)
<1>1. EdgeCap \in Nat /\ SilentBound \in Nat
  BY LimitsAssumption DEF EdgeCap, SilentBound
<1>2. StillBound \in Nat
  BY LimitsAssumption DEF StillBound
<1> QED BY <1>1, <1>2

\* What the monitor's two operations do to its state: an edge always stamps
\* it, and only an age under the limit leaves the line alive.
LEMMA MonKept ==
  ASSUME NEW x \in Beats
  PROVE  /\ MonEdge(x) \in Beats /\ MonEdge(x).have /\ MonEdge(x).age = 0
         /\ MonAlive(x) \in Beats
         /\ MonAlive(x).have = x.have /\ MonAlive(x).age = x.age
         /\ MonAlive(x).alive => x.have /\ x.age < MaxGap
<1> USE LimitsAssumption, CapsNat
<1>1. /\ x.have \in BOOLEAN /\ x.age \in 0..EdgeCap
      /\ x.run \in 0..GoodRun /\ x.alive \in BOOLEAN
      /\ 0 \in 0..GoodRun
  BY DEF Beats
<1>2. LeastOf(x.run + 1, GoodRun) \in 0..GoodRun
  BY <1>1 DEF LeastOf
<1>3. MonEdge(x) \in Beats
  <2>1. CASE ~x.have
    BY <2>1, <1>1 DEF MonEdge, Beats
  <2>2. CASE x.have /\ x.age \notin MinGap..MaxGap
    <3>1. MonEdge(x) = [x EXCEPT !.age = 0, !.run = 0, !.alive = FALSE]
      BY <2>2 DEF MonEdge
    <3> QED BY <3>1, <1>1 DEF Beats
  <2>3. CASE x.have /\ x.age \in MinGap..MaxGap
    BY <2>3, <1>1, <1>2 DEF MonEdge, Beats
  <2> QED BY <2>1, <2>2, <2>3
<1>4. MonEdge(x).have /\ MonEdge(x).age = 0
  BY <1>1 DEF MonEdge, Beats
<1>5. MonAlive(x) \in Beats
  <2>1. CASE ~x.have \/ x.age >= MaxGap
    <3>1. MonAlive(x) = [x EXCEPT !.run = 0, !.alive = FALSE]
      BY <2>1 DEF MonAlive
    <3> QED BY <3>1, <1>1 DEF Beats
  <2>2. CASE x.have /\ ~(x.age >= MaxGap)
    BY <2>2, <1>1 DEF MonAlive
  <2> QED BY <2>1, <2>2
<1>6. /\ MonAlive(x).have = x.have /\ MonAlive(x).age = x.age
      /\ MonAlive(x).alive => x.have /\ x.age < MaxGap
  BY <1>1 DEF MonAlive, Beats
<1> QED BY <1>3, <1>4, <1>5, <1>6

\* The state a start leaves satisfies the invariant.
LEMMA InitInv == Init => IInv
<1> SUFFICES ASSUME Init PROVE IInv
  OBVIOUS
<1> USE LimitsAssumption, ValuesAssumption DEF Init, NoBeat, FreshDev, AtRest
<1>1. BeatType  BY CapsNat DEF BeatType, Beats
<1>2. DevType  BY CapsNat DEF DevType, Devs
<1>3. ControlType  BY DEF ControlType, ArmValues
<1>4. ClockType  BY CapsNat DEF ClockType
<1>5. FlagType  BY DEF FlagType
<1>6. HeldFollows /\ WatchKept /\ ArmStandsOnTrust /\ LatchRemembers
  BY DEF HeldFollows, WatchKept, ArmStandsOnTrust, LatchRemembers
<1>7. HoldsExclude /\ LineLag /\ BankAge
  BY DEF HoldsExclude, LineLag, BankAge
<1> QED BY <1>1, <1>2, <1>3, <1>4, <1>5, <1>6, <1>7 DEF IInv, TypeOK

\* Every frame, edge, pass and start keeps it.
LEMMA NextInv == IInv /\ [Next]_vars => IInv'
<1> SUFFICES ASSUME IInv, [Next]_vars PROVE IInv'
  OBVIOUS
<1>a. /\ TypeOK /\ HeldFollows /\ WatchKept /\ ArmStandsOnTrust
      /\ LatchRemembers /\ HoldsExclude /\ LineLag /\ BankAge
      /\ BeatType /\ DevType /\ ControlType /\ ClockType /\ FlagType
  BY DEF IInv, TypeOK
<1> USE LimitsAssumption, <1>a
<1>1. ASSUME Request PROVE IInv'
  <2>1. BeatType'
    BY CapsNat, <1>1 DEF vars, lineVars, holdVars, Request, Heard,
      BeatType, Beats, DevType, Devs, ControlType, ClockType, FlagType
  <2>2. DevType'
    BY CapsNat, <1>1 DEF vars, lineVars, holdVars, Request, Heard,
      BeatType, Beats, DevType, Devs, ControlType, ClockType, FlagType
  <2>3. ControlType'
    BY <1>1 DEF vars, lineVars, holdVars, Request, Heard, BeatType, Beats,
      DevType, Devs, ControlType, ClockType, FlagType, ArmValues
  <2>4. ClockType' /\ FlagType'
    BY CapsNat, <1>1 DEF vars, lineVars, holdVars, Request, Heard,
      BeatType, Beats, DevType, Devs, ControlType, ClockType, FlagType
  <2>5. HeldFollows' /\ WatchKept' /\ ArmStandsOnTrust' /\ LatchRemembers' /\ HoldsExclude' /\ LineLag' /\ BankAge'
    BY <1>1 DEF vars, lineVars, holdVars, Request, Heard, TypeOK,
      BeatType, Beats, DevType, Devs, ControlType, ClockType, FlagType, HeldFollows,
      WatchKept, ArmStandsOnTrust, LatchRemembers, HoldsExclude,
      LineLag, BankAge, MayArm, SupplyOk
  <2> QED BY <2>1, <2>2, <2>3, <2>4, <2>5 DEF IInv, TypeOK
<1>2. ASSUME NEW f \in Frames, ControlWrite(f) PROVE IInv'
  <2>1. BeatType'
    BY CapsNat, <1>2 DEF vars, lineVars, holdVars, ControlWrite, Heard,
      Nack, AsksArm, RefusalLatches, ClearFailsafe, BeatType, Beats, DevType, Devs,
      ControlType, ClockType, FlagType, Stored, ConsentOf, Frames
  <2>2. DevType'
    <3>1. Heard(dev) \in Devs /\ ClearFailsafe(Heard(dev)) \in Devs
          /\ [Heard(dev) EXCEPT !.latched = TRUE] \in Devs
      BY CapsNat DEF Heard, ClearFailsafe, DevType, Devs
    <3> QED BY <3>1, <1>2 DEF ControlWrite, DevType
  <2>3. ControlType'
    BY ValuesAssumption, <1>2 DEF vars, lineVars, holdVars,
      ControlWrite, Heard, Nack, AsksArm, RefusalLatches, ClearFailsafe,
      BeatType, Beats, DevType, Devs, ControlType, ClockType, FlagType, ArmValues,
      Stored, ConsentOf, Frames
  <2>4. ClockType' /\ FlagType'
    BY CapsNat, <1>2 DEF vars, lineVars, holdVars, ControlWrite, Heard,
      Nack, AsksArm, RefusalLatches, ClearFailsafe, BeatType, Beats, DevType, Devs,
      ControlType, ClockType, FlagType, Stored, ConsentOf, Frames
  <2>5. WatchKept'
    BY <1>2 DEF vars, lineVars, holdVars, ControlWrite, Heard, Nack,
      AsksArm, RefusalLatches, ClearFailsafe, WatchKept, DevType, Devs,
      FlagType, ConsentOf
  <2>6. ArmStandsOnTrust'
    BY ValuesAssumption, <1>2 DEF vars, lineVars, holdVars,
      ControlWrite, Heard, Nack, AsksArm, RefusalLatches, ClearFailsafe,
      ArmStandsOnTrust, DevType, Devs, ControlType, FlagType, Stored, MayArm,
      SupplyOk
  <2>7. LatchRemembers'
    BY ValuesAssumption, <1>2 DEF vars, lineVars, holdVars,
      ControlWrite, Heard, Nack, AsksArm, RefusalLatches, ClearFailsafe,
      LatchRemembers, ArmStandsOnTrust, DevType, Devs, ControlType, FlagType,
      Stored, ConsentOf, MayArm, SupplyOk, Frames, ArmValues
  <2>8. HeldFollows' /\ HoldsExclude' /\ LineLag' /\ BankAge'
    BY <1>2 DEF vars, lineVars, holdVars, ControlWrite, Heard, Nack,
      AsksArm, RefusalLatches, ClearFailsafe, HeldFollows, HoldsExclude,
      LineLag, BankAge, BeatType, Beats, DevType, Devs, ClockType, FlagType
  <2> QED BY <2>1, <2>2, <2>3, <2>4, <2>5, <2>6, <2>7, <2>8 DEF IInv, TypeOK
<1>3. ASSUME NEW p \in Ports, PortEnter(p) PROVE IInv'
  <2>1. BeatType'
    BY CapsNat, <1>3 DEF vars, lineVars, holdVars, PortEnter, Heard,
      BenchArmed, BeatType, Beats, DevType, Devs, ControlType, ClockType, FlagType,
      HoldFollow, AtRest, Withdrawn
  <2>2. DevType'
    BY CapsNat, <1>3 DEF vars, lineVars, holdVars, PortEnter, Heard,
      BenchArmed, BeatType, Beats, DevType, Devs, ControlType, ClockType, FlagType,
      HoldFollow, AtRest, Withdrawn
  <2>3. ControlType'
    BY <1>3 DEF vars, lineVars, holdVars, PortEnter, Heard, BenchArmed,
      BeatType, Beats, DevType, Devs, ControlType, ClockType, FlagType, ArmValues,
      HoldFollow, AtRest, Withdrawn
  <2>4. ClockType' /\ FlagType'
    BY CapsNat, <1>3 DEF vars, lineVars, holdVars, PortEnter, Heard,
      BenchArmed, BeatType, Beats, DevType, Devs, ControlType, ClockType, FlagType,
      HoldFollow, AtRest, Withdrawn
  <2>5. WatchKept' /\ ArmStandsOnTrust' /\ LatchRemembers'
    BY <1>3 DEF vars, lineVars, holdVars, PortEnter, Heard, BenchArmed,
      TypeOK, BeatType, Beats, DevType, Devs, ControlType, ClockType, FlagType,
      HeldFollows, WatchKept, ArmStandsOnTrust, LatchRemembers,
      HoldsExclude, LineLag, BankAge, MayArm, SupplyOk, HoldFollow,
      AtRest, Withdrawn
  <2>6. HeldFollows' /\ HoldsExclude'
    BY <1>3 DEF PortEnter, BenchArmed, HeldFollows, HoldsExclude, FlagType
  <2>7. LineLag'
    BY <1>3 DEF PortEnter, lineVars, LineLag
  <2>8. BankAge'
    BY <1>3 DEF PortEnter, Heard, BankAge, DevType, Devs, ClockType
  <2> QED BY <2>1, <2>2, <2>3, <2>4, <2>5, <2>6, <2>7, <2>8 DEF IInv, TypeOK
<1>4. ASSUME NEW p \in Ports, PortGive(p) PROVE IInv'
  <2>1. BeatType'
    BY CapsNat, <1>4 DEF vars, lineVars, holdVars, PortGive, Heard,
      BeatType, Beats, DevType, Devs, ControlType, ClockType, FlagType, HoldFollow,
      AtRest, Withdrawn
  <2>2. DevType'
    BY CapsNat, <1>4 DEF vars, lineVars, holdVars, PortGive, Heard,
      BeatType, Beats, DevType, Devs, ControlType, ClockType, FlagType, HoldFollow,
      AtRest, Withdrawn
  <2>3. ControlType'
    BY <1>4 DEF vars, lineVars, holdVars, PortGive, Heard, BeatType, Beats,
      DevType, Devs, ControlType, ClockType, FlagType, ArmValues, HoldFollow,
      AtRest, Withdrawn
  <2>4. ClockType' /\ FlagType'
    BY CapsNat, <1>4 DEF vars, lineVars, holdVars, PortGive, Heard,
      BeatType, Beats, DevType, Devs, ControlType, ClockType, FlagType, HoldFollow,
      AtRest, Withdrawn
  <2>5. WatchKept' /\ ArmStandsOnTrust' /\ LatchRemembers'
    BY <1>4 DEF vars, lineVars, holdVars, PortGive, Heard, TypeOK,
      BeatType, Beats, DevType, Devs, ControlType, ClockType, FlagType, HeldFollows,
      WatchKept, ArmStandsOnTrust, LatchRemembers, HoldsExclude,
      LineLag, BankAge, MayArm, SupplyOk, HoldFollow, AtRest, Withdrawn
  <2>6. HeldFollows' /\ HoldsExclude' /\ LineLag' /\ BankAge'
    BY <1>4 DEF vars, lineVars, holdVars, PortGive, Heard, HeldFollows,
      HoldsExclude, LineLag, BankAge, BeatType, Beats, DevType, Devs, ClockType,
      FlagType
  <2> QED BY <2>1, <2>2, <2>3, <2>4, <2>5, <2>6 DEF IInv, TypeOK
<1>5. ASSUME UpdateBegin PROVE IInv'
  <2>1. BeatType'
    BY CapsNat, <1>5 DEF vars, lineVars, holdVars, UpdateBegin, Heard,
      BeatType, Beats, DevType, Devs, ControlType, ClockType, FlagType
  <2>2. DevType'
    BY CapsNat, <1>5 DEF vars, lineVars, holdVars, UpdateBegin, Heard,
      BeatType, Beats, DevType, Devs, ControlType, ClockType, FlagType
  <2>3. ControlType'
    BY <1>5 DEF vars, lineVars, holdVars, UpdateBegin, Heard, BeatType, Beats,
      DevType, Devs, ControlType, ClockType, FlagType, ArmValues
  <2>4. ClockType' /\ FlagType'
    BY CapsNat, <1>5 DEF vars, lineVars, holdVars, UpdateBegin, Heard,
      BeatType, Beats, DevType, Devs, ControlType, ClockType, FlagType
  <2>5. HeldFollows' /\ WatchKept' /\ ArmStandsOnTrust' /\ LatchRemembers' /\ HoldsExclude' /\ LineLag' /\ BankAge'
    BY <1>5 DEF vars, lineVars, holdVars, UpdateBegin, Heard, TypeOK,
      BeatType, Beats, DevType, Devs, ControlType, ClockType, FlagType, HeldFollows,
      WatchKept, ArmStandsOnTrust, LatchRemembers, HoldsExclude,
      LineLag, BankAge, MayArm, SupplyOk
  <2> QED BY <2>1, <2>2, <2>3, <2>4, <2>5 DEF IInv, TypeOK
<1>6. ASSUME UpdateEnd PROVE IInv'
  <2>1. BeatType'
    BY CapsNat, <1>6 DEF vars, lineVars, holdVars, UpdateEnd, Heard,
      BeatType, Beats, DevType, Devs, ControlType, ClockType, FlagType
  <2>2. DevType'
    BY CapsNat, <1>6 DEF vars, lineVars, holdVars, UpdateEnd, Heard,
      BeatType, Beats, DevType, Devs, ControlType, ClockType, FlagType
  <2>3. ControlType'
    BY <1>6 DEF vars, lineVars, holdVars, UpdateEnd, Heard, BeatType, Beats,
      DevType, Devs, ControlType, ClockType, FlagType, ArmValues
  <2>4. ClockType' /\ FlagType'
    BY CapsNat, <1>6 DEF vars, lineVars, holdVars, UpdateEnd, Heard,
      BeatType, Beats, DevType, Devs, ControlType, ClockType, FlagType
  <2>5. HeldFollows' /\ WatchKept' /\ ArmStandsOnTrust' /\ LatchRemembers' /\ HoldsExclude' /\ LineLag' /\ BankAge'
    BY <1>6 DEF vars, lineVars, holdVars, UpdateEnd, Heard, TypeOK,
      BeatType, Beats, DevType, Devs, ControlType, ClockType, FlagType, HeldFollows,
      WatchKept, ArmStandsOnTrust, LatchRemembers, HoldsExclude,
      LineLag, BankAge, MayArm, SupplyOk
  <2> QED BY <2>1, <2>2, <2>3, <2>4, <2>5 DEF IInv, TypeOK
<1>7. ASSUME StartPass PROVE IInv'
  <2>1. BeatType'
    BY CapsNat, <1>7 DEF vars, lineVars, holdVars, StartPass, BeatType, Beats,
      DevType, Devs, ControlType, ClockType, FlagType
  <2>2. DevType'
    BY CapsNat, <1>7 DEF vars, lineVars, holdVars, StartPass, BeatType, Beats,
      DevType, Devs, ControlType, ClockType, FlagType
  <2>3. ControlType'
    BY <1>7 DEF vars, lineVars, holdVars, StartPass, BeatType, Beats, DevType, Devs,
      ControlType, ClockType, FlagType, ArmValues
  <2>4. ClockType' /\ FlagType'
    BY CapsNat, <1>7 DEF vars, lineVars, holdVars, StartPass, BeatType, Beats,
      DevType, Devs, ControlType, ClockType, FlagType
  <2>5. HeldFollows' /\ WatchKept' /\ ArmStandsOnTrust' /\ LatchRemembers' /\ HoldsExclude' /\ LineLag' /\ BankAge'
    BY <1>7 DEF vars, lineVars, holdVars, StartPass, TypeOK, BeatType, Beats,
      DevType, Devs, ControlType, ClockType, FlagType, HeldFollows, WatchKept,
      ArmStandsOnTrust, LatchRemembers, HoldsExclude, LineLag, BankAge,
      MayArm, SupplyOk
  <2> QED BY <2>1, <2>2, <2>3, <2>4, <2>5 DEF IInv, TypeOK
<1>8. ASSUME UpdateSilent PROVE IInv'
  <2>1. BeatType'
    BY CapsNat, <1>8 DEF vars, lineVars, holdVars, UpdateSilent,
      BeatType, Beats, DevType, Devs, ControlType, ClockType, FlagType
  <2>2. DevType'
    BY CapsNat, <1>8 DEF vars, lineVars, holdVars, UpdateSilent,
      BeatType, Beats, DevType, Devs, ControlType, ClockType, FlagType
  <2>3. ControlType'
    BY <1>8 DEF vars, lineVars, holdVars, UpdateSilent, BeatType, Beats,
      DevType, Devs, ControlType, ClockType, FlagType, ArmValues
  <2>4. ClockType' /\ FlagType'
    BY CapsNat, <1>8 DEF vars, lineVars, holdVars, UpdateSilent,
      BeatType, Beats, DevType, Devs, ControlType, ClockType, FlagType
  <2>5. HeldFollows' /\ WatchKept' /\ ArmStandsOnTrust' /\ LatchRemembers' /\ HoldsExclude' /\ LineLag' /\ BankAge'
    BY <1>8 DEF vars, lineVars, holdVars, UpdateSilent, TypeOK,
      BeatType, Beats, DevType, Devs, ControlType, ClockType, FlagType, HeldFollows,
      WatchKept, ArmStandsOnTrust, LatchRemembers, HoldsExclude,
      LineLag, BankAge, MayArm, SupplyOk
  <2> QED BY <2>1, <2>2, <2>3, <2>4, <2>5 DEF IInv, TypeOK
<1>9. ASSUME NEW q \in SUBSET quiet, GatePass(q) PROVE IInv'
  <2> DEFINE e == IF moved THEN MonEdge(beat) ELSE beat
  <2> DEFINE b == MonAlive(e)
  <2> DEFINE lost == beat.alive /\ ~b.alive
  <2> DEFINE d1 == IF lost THEN [dev EXCEPT !.latched = TRUE] ELSE dev
  <2> DEFINE d == DevTick(d1)
  <2> DEFINE off == lost \/ SilenceEdge(d1)
  <2> DEFINE page == PageAfter(off)
  <2>a. /\ beat' = b /\ dev' = d /\ moved' = FALSE
        /\ bank' = IF page.arm # {} /\ MayArm(b, d) /\ quiet = {} /\ ~update
                     THEN RolesOf(page.arm) ELSE {}
        /\ quiet' = q /\ control' = HoldFollow(page, q) /\ held' = (q # {})
        /\ consent' = IF lost \/ (dev.heard /\ dev.age >= Silence) THEN "none"
                      ELSE Withdrawn(consent, q)
        /\ passAge' = 0 /\ inPass' = FALSE /\ update' = update /\ still' = still
    BY <1>9 DEF GatePass
  <2>b. /\ e \in Beats /\ b \in Beats /\ b.have = e.have /\ b.age = e.age
        /\ b.alive => b.have /\ b.age < MaxGap
    BY MonKept DEF BeatType
  <2>c. moved => e.have /\ e.age = 0
    BY MonKept DEF BeatType
  <2>d. /\ d \in Devs /\ d.heard = dev.heard /\ d.age = dev.age
        /\ lost => d.latched
        /\ d.latched <=> lost \/ dev.latched \/ SilenceEdge(dev)
        /\ d.failsafe <=> dev.failsafe \/ SilenceEdge(dev)
        /\ d.silent <=> dev.silent \/ SilenceEdge(dev)
        /\ SilenceEdge(d1) <=> SilenceEdge(dev)
    BY DEF DevTick, SilenceEdge, DevType, Devs
  <2>e. /\ page = IF off THEN AtRest ELSE control
        /\ page \in [arm : ArmValues, throttle : BOOLEAN]
    BY DEF PageAfter, AtRest, ControlType, ArmValues
  <2>f. SilenceEdge(dev) <=> dev.heard /\ ~dev.silent /\ dev.age >= Silence
    BY DEF SilenceEdge
  <2> HIDE DEF e, b, lost, d1, d, off, page
  <2>g. /\ lost <=> beat.alive /\ ~b.alive
        /\ off <=> lost \/ SilenceEdge(dev)
        /\ ~moved => e = beat
    BY <2>d DEF e, lost, off
  <2>1. BeatType'
    BY <2>a, <2>b DEF BeatType
  <2>2. DevType'
    BY <2>a, <2>d DEF DevType
  <2>3. ControlType'
    BY <2>a, <2>e DEF ControlType, HoldFollow, AtRest, ArmValues
  <2>4. ClockType'
    BY <2>a DEF ClockType
  <2>5. FlagType'
    <3>1. bank' \subseteq Roles
      BY <2>a, <2>e DEF RolesOf, ArmValues
    <3>2. consent' \in {"none", "released", "asked"}
      BY <2>a DEF Withdrawn, FlagType
    <3> QED BY <2>a, <3>1, <3>2 DEF FlagType
  <2>6. HeldFollows'
    BY <2>a DEF HeldFollows
  <2>7. WatchKept'
    BY <2>a, <2>d DEF WatchKept, Withdrawn, Devs
  <2>8. ArmStandsOnTrust'
    <3>1. CASE off
      BY <3>1, <2>a, <2>e DEF ArmStandsOnTrust, HoldFollow, AtRest
    <3>2. CASE ~off
      BY <3>2, <2>a, <2>d, <2>e, <2>g DEF ArmStandsOnTrust, HoldFollow,
         AtRest, MayArm, SupplyOk, HeldFollows
    <3> QED BY <3>1, <3>2
  <2>9. LatchRemembers'
    <3>1. CASE off
      BY <3>1, <2>a, <2>d, <2>e, <2>f, <2>g DEF LatchRemembers, WatchKept,
         HoldFollow, AtRest, Withdrawn
    <3>2. CASE ~off
      BY <3>2, <2>a, <2>d, <2>e, <2>f, <2>g DEF LatchRemembers, WatchKept,
         HoldFollow, AtRest, Withdrawn, ArmStandsOnTrust, MayArm, SupplyOk
    <3> QED BY <3>1, <3>2
  <2>10. HoldsExclude'
    BY <2>a DEF HoldsExclude
  <2>11. LineLag'
    BY <2>a, <2>b, <2>c, <2>g DEF LineLag, Beats, ClockType
  <2>12. BankAge'
    <3> SUFFICES ASSUME bank' # {} PROVE BankAge'
      BY DEF BankAge
    <3>1. page.arm # {} /\ MayArm(b, d)
      BY <2>a
    <3>2. dev.heard /\ dev.age < Silence
      <4>1. ~off /\ page = control
        BY <3>1, <2>e DEF AtRest
      <4>2. ~SilenceEdge(dev) /\ ~dev.silent
        BY <3>1, <4>1, <2>d, <2>g DEF MayArm, SupplyOk, WatchKept
      <4>3. dev.heard
        BY <3>1, <2>d DEF MayArm, WatchKept, LatchRemembers
      <4> QED BY <4>2, <4>3, <2>f DEF DevType, Devs
    <3>3. b.have /\ b.age < MaxGap
      BY <3>1, <2>b DEF MayArm, SupplyOk
    <3> QED BY <2>a, <2>b, <2>d, <3>2, <3>3 DEF BankAge, Beats, Devs
  <2> QED BY <2>1, <2>2, <2>3, <2>4, <2>5, <2>6, <2>7, <2>8, <2>9, <2>10,
             <2>11, <2>12 DEF IInv, TypeOK
<1>10. ASSUME NEW t \in BOOLEAN, Boot(t) PROVE IInv'
  <2>1. BeatType'
    BY CapsNat, <1>10 DEF Boot, NoBeat, FreshDev, AtRest, BeatType, Beats,
      DevType, Devs, ControlType, ClockType, FlagType
  <2>2. DevType'
    BY CapsNat, <1>10 DEF Boot, NoBeat, FreshDev, AtRest, BeatType, Beats,
      DevType, Devs, ControlType, ClockType, FlagType
  <2>3. ControlType'
    BY <1>10 DEF Boot, NoBeat, FreshDev, AtRest, BeatType, Beats, DevType, Devs,
      ControlType, ClockType, FlagType, ArmValues
  <2>4. ClockType' /\ FlagType'
    BY CapsNat, 0 \in 0..MaxPass, <1>10 DEF Boot, NoBeat, FreshDev, AtRest, BeatType, Beats,
      DevType, Devs, ControlType, ClockType, FlagType
  <2>5. HeldFollows' /\ WatchKept' /\ ArmStandsOnTrust' /\ LatchRemembers' /\ HoldsExclude' /\ LineLag' /\ BankAge'
    BY <1>10 DEF Boot, NoBeat, FreshDev, AtRest, TypeOK, BeatType, Beats,
      DevType, Devs, ControlType, ClockType, FlagType, HeldFollows, WatchKept,
      ArmStandsOnTrust, LatchRemembers, HoldsExclude, LineLag, BankAge,
      MayArm, SupplyOk
  <2> QED BY <2>1, <2>2, <2>3, <2>4, <2>5 DEF IInv, TypeOK
<1>11. ASSUME LineEdge PROVE IInv'
  <2>1. BeatType'
    BY CapsNat, <1>11 DEF vars, lineVars, holdVars, LineEdge, BeatType, Beats,
      DevType, Devs, ControlType, ClockType, FlagType
  <2>2. DevType'
    BY CapsNat, <1>11 DEF vars, lineVars, holdVars, LineEdge, BeatType, Beats,
      DevType, Devs, ControlType, ClockType, FlagType
  <2>3. ControlType'
    BY <1>11 DEF vars, lineVars, holdVars, LineEdge, BeatType, Beats, DevType, Devs,
      ControlType, ClockType, FlagType, ArmValues
  <2>4. ClockType' /\ FlagType'
    BY CapsNat, <1>11 DEF vars, lineVars, holdVars, LineEdge, BeatType, Beats,
      DevType, Devs, ControlType, ClockType, FlagType
  <2>5. HeldFollows' /\ WatchKept' /\ ArmStandsOnTrust' /\ LatchRemembers' /\ HoldsExclude' /\ LineLag' /\ BankAge'
    BY <1>11 DEF vars, lineVars, holdVars, LineEdge, TypeOK, BeatType, Beats,
      DevType, Devs, ControlType, ClockType, FlagType, HeldFollows, WatchKept,
      ArmStandsOnTrust, LatchRemembers, HoldsExclude, LineLag, BankAge,
      MayArm, SupplyOk
  <2> QED BY <2>1, <2>2, <2>3, <2>4, <2>5 DEF IInv, TypeOK
<1>12. ASSUME Elapse PROVE IInv'
  <2>1. BeatType'
    BY CapsNat, <1>12 DEF vars, lineVars, holdVars, Elapse, LeastOf,
      BeatType, Beats, DevType, Devs, ControlType, ClockType, FlagType
  <2>2. DevType'
    BY CapsNat, <1>12 DEF vars, lineVars, holdVars, Elapse, LeastOf,
      BeatType, Beats, DevType, Devs, ControlType, ClockType, FlagType
  <2>3. ControlType'
    BY <1>12 DEF vars, lineVars, holdVars, Elapse, LeastOf, BeatType, Beats,
      DevType, Devs, ControlType, ClockType, FlagType, ArmValues
  <2>4. ClockType' /\ FlagType'
    BY CapsNat, <1>12 DEF vars, lineVars, holdVars, Elapse, LeastOf,
      BeatType, Beats, DevType, Devs, ControlType, ClockType, FlagType
  <2>5. HeldFollows' /\ WatchKept' /\ ArmStandsOnTrust' /\ LatchRemembers' /\ HoldsExclude'
    BY <1>12 DEF vars, lineVars, holdVars, Elapse, LeastOf, TypeOK,
      BeatType, Beats, DevType, Devs, ControlType, ClockType, FlagType, HeldFollows,
      WatchKept, ArmStandsOnTrust, LatchRemembers, HoldsExclude,
      LineLag, BankAge, MayArm, SupplyOk
  <2>6. LineLag'
    BY <1>12 DEF vars, lineVars, holdVars, Elapse, LeastOf, LineLag,
      BeatType, Beats, ClockType, EdgeCap, StillBound
  <2>7. BankAge'
    BY <1>12 DEF vars, lineVars, holdVars, Elapse, LeastOf, BankAge,
      BeatType, Beats, DevType, Devs, ClockType, EdgeCap, SilentBound
  <2> QED BY <2>1, <2>2, <2>3, <2>4, <2>5, <2>6, <2>7 DEF IInv, TypeOK
<1>13. CASE UNCHANGED vars
  BY <1>13 DEF vars, lineVars, holdVars, IInv, TypeOK, BeatType, Beats, DevType, Devs, ControlType, ClockType, FlagType, HeldFollows, WatchKept, ArmStandsOnTrust, LatchRemembers, HoldsExclude, LineLag, BankAge, MayArm, SupplyOk
<1> QED BY <1>1, <1>2, <1>3, <1>4, <1>5, <1>6, <1>7, <1>8, <1>9, <1>10, <1>11, <1>12, <1>13 DEF Next, Restart

\* The invariant holds in every reachable state, for every instance.
THEOREM Invariant == Spec => []IInv
  BY InitInv, NextInv, PTL DEF Spec

\* The variables keep their types.
THEOREM TypeCorrect == Spec => []TypeOK
<1>1. IInv => TypeOK  BY DEF IInv
<1> QED BY <1>1, Invariant, PTL

\* No ARM stands in the CONTROL page on anything but a trusted heartbeat, a
\* live link, a released latch and no held port (safety_gate_may_arm()).
THEOREM ArmIsTrusted == Spec => []ArmStandsOnTrust
<1>1. IInv => ArmStandsOnTrust  BY DEF IInv
<1> QED BY <1>1, Invariant, PTL

\* The latch is set exactly while the events so far add up to no consent.
THEOREM LatchIsMemory == Spec => []LatchRemembers
<1>1. IInv => LatchRemembers  BY DEF IInv
<1> QED BY <1>1, Invariant, PTL

\* Sessions and updates exclude an armed bank.
THEOREM HoldsExcludeBank == Spec => []HoldsExclude
<1>1. IInv => HoldsExclude  BY DEF IInv
<1> QED BY <1>1, Invariant, PTL

\* The outputs are down StillBound after the last edge of the line and
\* SilentBound after the last request, for every limit and pass length.
THEOREM OutputsDownInTime == Spec => []DownInTime
<1>1. IInv => DownInTime
  BY LimitsAssumption DEF IInv, DownInTime, BankAge, LineLag, TypeOK, BeatType, Beats, DevType, Devs, ClockType,
     EdgeCap, StillBound, SilentBound
<1> QED BY <1>1, Invariant, PTL

\* An edge of a hold leaves neither ARM nor THROTTLE in the page.
THEOREM HoldEdgesLeaveNothing == Spec => HoldEdgesClear
<1>1. IInv /\ [Next]_vars =>
        [(quiet # {}) # (quiet' # {}) => control' = AtRest]_vars
  <2> SUFFICES ASSUME IInv, Next, (quiet # {}) # (quiet' # {})
               PROVE control' = AtRest
    OBVIOUS
  <2> USE DEF IInv, HeldFollows, HoldFollow, holdVars
  <2>1. CASE \E p \in Ports : PortEnter(p) \/ PortGive(p)
    BY <2>1 DEF PortEnter, PortGive
  <2>2. CASE \E q \in SUBSET quiet : GatePass(q)
    BY <2>2 DEF GatePass
  <2>3. CASE Restart
    BY <2>3 DEF Restart, Boot
  <2>4. CASE \E f \in Frames : ControlWrite(f)
    BY <2>4 DEF ControlWrite
  <2>5. CASE Request \/ UpdateBegin \/ UpdateEnd \/ StartPass \/ UpdateSilent
             \/ LineEdge \/ Elapse
    BY <2>5 DEF Request, UpdateBegin, UpdateEnd, StartPass, UpdateSilent,
       LineEdge, Elapse
  <2> QED BY <2>1, <2>2, <2>3, <2>4, <2>5 DEF Next
<1> QED BY <1>1, Invariant, PTL DEF Spec, HoldEdgesClear

-----------------------------------------------------------------------------
(* The gate implements the abstract consent: every step of it is a step of  *)
(* OutputConsent or leaves consent and bank alone.                          *)

\* A frame moves the consent one step at a time and drives nothing.
LEMMA WriteConsents ==
  ASSUME IInv, NEW f \in Frames, ControlWrite(f)
  PROVE  [Consented!Next]_(Consented!vars)
<1>1. /\ consent \in {"none", "released", "asked"} /\ bank' = bank
      /\ consent' \in {ConsentOf(f), "none", consent}
  BY DEF IInv, TypeOK, FlagType, ControlWrite
<1>2. CASE consent' \in {"none", consent}
  BY <1>1, <1>2 DEF Consented!Next, Consented!Revoke, Consented!vars
<1>3. CASE consent' = ConsentOf(f)
  BY <1>1, <1>3 DEF ConsentOf, Consented!Next, Consented!Revoke,
     Consented!Release, Consented!Ask, Consented!Withdraw, Consented!vars
<1> QED BY <1>1, <1>2, <1>3

\* A hold taken or given back withdraws an ask and nothing more.
LEMMA HoldConsents ==
  ASSUME IInv, NEW p \in Ports, PortEnter(p) \/ PortGive(p)
  PROVE  [Consented!Next]_(Consented!vars)
<1>1. /\ consent \in {"none", "released", "asked"} /\ bank' = bank
      /\ consent' = consent \/ (consent = "asked" /\ consent' = "released")
  BY DEF IInv, TypeOK, FlagType, PortEnter, PortGive, Withdrawn
<1> QED BY <1>1 DEF Consented!Next, Consented!Withdraw, Consented!vars

\* A pass drives the bank only on an ask that stands, and takes it down with
\* every consent it revokes or withdraws.
LEMMA PassConsents ==
  ASSUME IInv, NEW q \in SUBSET quiet, GatePass(q)
  PROVE  [Consented!Next]_(Consented!vars)
<1> DEFINE b == MonAlive(IF moved THEN MonEdge(beat) ELSE beat)
<1> DEFINE lost == beat.alive /\ ~b.alive
<1> DEFINE d1 == IF lost THEN [dev EXCEPT !.latched = TRUE] ELSE dev
<1> DEFINE d == DevTick(d1)
<1> DEFINE page == PageAfter(lost \/ SilenceEdge(d1))
<1> DEFINE gone == lost \/ (dev.heard /\ dev.age >= Silence)
<1>1. /\ bank' = IF page.arm # {} /\ MayArm(b, d) /\ quiet = {} /\ ~update
                   THEN RolesOf(page.arm) ELSE {}
      /\ consent' = IF gone THEN "none" ELSE Withdrawn(consent, q)
  BY DEF GatePass
<1>2. gone => ~MayArm(b, d)
  BY DEF IInv, WatchKept, MayArm, SupplyOk, DevTick, SilenceEdge, TypeOK,
     DevType, Devs
<1>3. page.arm # {} => control.arm = page.arm /\ consent = "asked"
  BY DEF PageAfter, AtRest, IInv, LatchRemembers
<1>4. bank' \subseteq Roles
  BY NextInv DEF IInv, TypeOK, FlagType, Next
<1>5. consent \in {"none", "released", "asked"} /\ held = (quiet # {})
  BY DEF IInv, TypeOK, FlagType, HeldFollows
<1> HIDE DEF b, lost, d1, d, page, gone
<1>6. CASE gone
  BY <1>6, <1>1, <1>2 DEF Consented!Next, Consented!Revoke
<1>7. CASE ~gone /\ bank' = {}
  BY <1>7, <1>1, <1>5 DEF Withdrawn, Consented!Next, Consented!Withdraw,
     Consented!Rest
<1>8. CASE ~gone /\ bank' # {}
  <2>1. consent = "asked" /\ q = {} /\ held = FALSE
    BY <1>8, <1>1, <1>3, <1>5
  <2>2. consent' = consent
    BY <2>1, <1>8, <1>1 DEF Withdrawn
  <2> QED BY <2>1, <2>2, <1>8, <1>4 DEF Consented!Next, Consented!Drive
<1> QED BY <1>6, <1>7, <1>8

\* The IOmcu's outputs obey the abstract consent: no interleaving of frames,
\* line edges, holds, updates and restarts drives them without a CLEAR and an
\* ask after it, both after everything that went wrong.
THEOREM Refinement == Spec => ImplementsConsent
<1>1. Init => Consented!Init
  BY DEF Init, Consented!Init
<1>2. IInv /\ [Next]_vars => [Consented!Next]_(Consented!vars)
  <2> SUFFICES ASSUME IInv, [Next]_vars
               PROVE [Consented!Next]_(Consented!vars)
    OBVIOUS
  <2>1. CASE \E f \in Frames : ControlWrite(f)
    BY <2>1, WriteConsents
  <2>2. CASE \E p \in Ports : PortEnter(p) \/ PortGive(p)
    BY <2>2, HoldConsents
  <2>3. CASE \E q \in SUBSET quiet : GatePass(q)
    BY <2>3, PassConsents
  <2>4. CASE Restart
    BY <2>4 DEF Restart, Boot, Consented!Next, Consented!Revoke
  <2>5. CASE Request \/ UpdateBegin \/ UpdateEnd \/ StartPass
             \/ UpdateSilent \/ LineEdge \/ Elapse \/ UNCHANGED vars
    BY <2>5 DEF Request, UpdateBegin, UpdateEnd, StartPass, UpdateSilent,
       LineEdge, Elapse, vars, Consented!vars
  <2> QED BY <2>1, <2>2, <2>3, <2>4, <2>5 DEF Next
<1> QED BY <1>1, <1>2, Invariant, PTL DEF Spec, ImplementsConsent, Consented!Spec
=============================================================================
