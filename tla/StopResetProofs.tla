-------------------------- MODULE StopResetProofs --------------------------
(***************************************************************************)
(* Proofs about StopReset for every bound and every set of served pages:   *)
(* the machine and the arming policy agree, a reset that goes through      *)
(* finds everything off, and it rests on one good hold, or a later break   *)
(* hid the one that cut it.                                                *)
(***************************************************************************)
EXTENDS StopReset, TLAPS

-----------------------------------------------------------------------------
(* The inductive invariant: what the outputs and the reading have shown.   *)

\* An IOmcu that does not answer has failed safe.
SilentIsOff == ~link => on = {}

\* A CLEAR is written for a heartbeat that goes again.
ClearFollowsResume == at = "clear" => latch.state = "RESUMED"

\* The pages a reset's reading has behind it, and this end, are off.
ReadSoFar ==
  at \in Pages /\ Resetting(latch.state) =>
    /\ ~local
    /\ at = "supply" => "status" \notin on
    /\ at = "prog" => on \subseteq {"prog"}

\* What read off in this reset still is.
OffStands == latch.off /\ Resetting(latch.state) => ~local /\ on = {}

\* A reset is confirmed by a reading that is over and found everything off.
ConfirmedOff == latch.state = "CONFIRMED" => latch.off /\ at = "idle"

-----------------------------------------------------------------------------
(* The inductive invariant: the finger and what the render loop holds.     *)

\* The hold goes on at the next frame, unless a break has cancelled it.
Holds == ui.event = "hold" \/ (ui.holding /\ ui.event = "none")

AgeIsOfSilence == ~glass.silent => glass.age = 0

HoldIsContact == Holds => OnContact

\* A silence that counted leaves no hold to go on.
BreakEndsHold == glass.age = Fresh => ui.cancel \/ ~Holds

-----------------------------------------------------------------------------
(* The inductive invariant: the hold a reset rests on.                     *)

\* A request that spans the latest STOP and the latest break.
Spans == request.on /\ request.span = HoldSeen

\* A reset under way, no STOP since.
UnderWay == Resetting(latch.state) /\ ~pressed

\* The hold that asked for a reset is over.
HoldIsSpent == Spans \/ UnderWay => ~Holds

SpanIsGood == Spans => proof.good

\* A silence that a good hold ended in is not counted yet, and is older than
\* the request, on its way and in the machine.
SilenceIsYoung ==
  proof.good /\ proof.silent =>
    /\ glass.silent /\ glass.age < Fresh
    /\ Spans => request.age < glass.age
    /\ UnderWay => latch.hold < glass.age

\* A reset under way loses its hold only to a break it has not looked at, or to
\* one that a later break hid from it.
WayIsGood == UnderWay /\ ~(broke.new /\ broke.early) => proof.good \/ proof.hidden

\* A reset past its first look is past the hold's last moment.
AskedLate ==
  (latch.state = "HOLD_DONE" /\ at \in Pages) \/ latch.state \in {"ASKING", "CONFIRMED"}
    => latch.hold = Fresh

Policy == MachineFollowsPolicy /\ ClearFollowsResume
Outputs == SilentIsOff /\ ReadSoFar /\ OffStands /\ ConfirmedOff
Contact == AgeIsOfSilence /\ HoldIsContact /\ BreakEndsHold
Rests == HoldIsSpent /\ AskedLate /\ SpanIsGood /\ SilenceIsYoung /\ WayIsGood

IInv == TypeOK /\ Policy /\ Outputs /\ Contact /\ Rests

-----------------------------------------------------------------------------
(* The types of the records, and what the helpers leave of them.           *)

Latches == [state : States, hold : 0..Fresh, seen : 0..Floor,
            ask : 0..(Confirm + 1), fresh : BOOLEAN, off : BOOLEAN]
Glasses == [finger : BOOLEAN, silent : BOOLEAN, age : 0..Fresh]
Screens == [event : {"none", "press", "hold", "up"}, cancel : BOOLEAN,
            holding : BOOLEAN, age : 0..UiHold]
Requests == [on : BOOLEAN, age : 0..Fresh, span : 0..HoldSeen]

\* An age counts up to its bound.
LEMMA UpKept ==
  ASSUME NEW bound \in Nat, NEW n \in 0..bound
  PROVE  Up(n, bound) \in 0..bound /\ Up(n, bound) >= n /\ Up(n, bound) <= n + 1
BY DEF Up

\* What follow() leaves of the machine.
LEMMA FollowedIs ==
  ASSUME TypeOK
  PROVE  /\ Followed(latch) \in Latches
         /\ Followed(latch).state = IF pressed \/ Sooner THEN "LATCHED" ELSE latch.state
         /\ Followed(latch).hold = latch.hold
         /\ Followed(latch).off = latch.off
<1>1. latch \in Latches /\ 0 \in 0..Floor /\ "LATCHED" \in States
  BY TimeAssumption DEF TypeOK, Latches, States
<1>2. CASE pressed
  BY <1>1, <1>2 DEF Followed, Latches
<1>3. CASE ~pressed /\ Sooner
  BY <1>1, <1>3 DEF Followed, Latches
<1>4. CASE ~pressed /\ ~Sooner
  BY <1>1, <1>4 DEF Followed, Latches
<1> QED BY <1>2, <1>3, <1>4

-----------------------------------------------------------------------------
(* What a pass may do with the machine.                                    *)

Looks == IF pressed \/ Sooner THEN "LATCHED" ELSE latch.state

\* A reading begins: answered at once without a link or with this end on, and
\* otherwise with the first page.
Begins ==
  /\ Looks \in {"HOLD_DONE", "ASKING"}
  /\ Looks = "HOLD_DONE" => latch.hold = Fresh
  /\ latch'.hold = latch.hold
  /\ \/ /\ latch'.state = "ASKING" /\ at' = "idle"
        /\ latch'.off => ~local /\ ~link
     \/ latch'.state = Looks /\ at' = "status" /\ ~latch'.off /\ ~local

\* It waits, gives up, or has read off for long enough.
Waits ==
  /\ Looks \in {"HOLD_DONE", "ASKING"} /\ at' = "idle"
  /\ latch'.hold = latch.hold /\ latch'.off = latch.off
  /\ \/ latch'.state \in {Looks, "LATCHED"}
     \/ Looks = "ASKING" /\ latch'.state = "CONFIRMED" /\ latch.off

\* A STOP that stands takes the hold that spans it.
Takes ==
  /\ Looks = "LATCHED" /\ at' = "idle"
  /\ \/ held /\ Spans /\ latch'.state = "HOLD_DONE" /\ latch'.hold = request.age
        /\ ~latch'.off
     \/ held /\ latch'.state = "LATCHED"
     \/ ~held /\ latch'.state = "UNLATCHED"

\* It goes through, step by step, or there is nothing to reset.
Goes ==
  \/ Looks = "CONFIRMED" /\ latch'.state = "RESUMED" /\ at' = "idle"
  \/ Looks = "RESUMED" /\ latch'.state = "RESUMED" /\ at' = "clear"
  \/ /\ Looks \in {"RESUMED", "CLEAR_WRITTEN"} /\ latch'.state = "UNLATCHED"
     /\ at' = "idle"
  \/ /\ Looks = "UNLATCHED" /\ at' = "idle"
     /\ latch'.state = IF held THEN "LATCHED" ELSE "UNLATCHED"

LEMMA PassOutcome ==
  ASSUME TypeOK, Pass
  PROVE  latch' \in Latches /\ (Begins \/ Waits \/ Takes \/ Goes)
<1> DEFINE l == Followed(latch)
<1>1. l \in Latches /\ l.state = Looks /\ l.hold = latch.hold /\ l.off = latch.off
  BY FollowedIs DEF Looks
<1>2. passLink' = link /\ at = "idle"
  BY DEF Pass
<1>3. local \in BOOLEAN /\ link \in BOOLEAN /\ held \in BOOLEAN /\ latch \in Latches
      /\ request \in Requests
  BY DEF TypeOK, Latches, Requests
<1>4. Looks \in States
  BY <1>1 DEF Latches
<1>5. 0 \in 0..Floor /\ 0 \in 0..(Confirm + 1)
  BY TimeAssumption
<1>6. ASSUME NEW m \in Latches, Ask(m), m.hold = latch.hold, m.state = Looks,
             Looks \in {"HOLD_DONE", "ASKING"}, Looks = "HOLD_DONE" => latch.hold = Fresh
      PROVE  latch' \in Latches /\ Begins
  <2>1. CASE local \/ ~link
    <3>1. latch' = Asking(Found(m, ~local)) /\ at' = "idle"
      BY <1>6, <1>2, <2>1 DEF Ask
    <3>2. /\ latch' \in Latches /\ latch'.state = "ASKING" /\ latch'.hold = latch.hold
          /\ latch'.off = ~local
      BY <3>1, <1>6, <1>3 DEF Asking, Found, Latches, States
    <3> QED BY <3>1, <3>2, <2>1, <1>6 DEF Begins
  <2>2. CASE ~(local \/ ~link)
    <3>1. latch' = Found(m, FALSE) /\ at' = "status"
      BY <1>6, <1>2, <2>2 DEF Ask
    <3>2. /\ latch' \in Latches /\ latch'.state = Looks /\ latch'.hold = latch.hold
          /\ latch'.off = FALSE
      BY <3>1, <1>6 DEF Found, Latches
    <3> QED BY <3>1, <3>2, <2>2, <1>6 DEF Begins
  <2> QED BY <2>1, <2>2
<1>7. CASE FirstAsk(l)
  <2> DEFINE m == [l EXCEPT !.ask = 0]
  <2>1. m \in Latches /\ m.hold = l.hold /\ m.state = l.state
    BY <1>1, <1>5 DEF Latches
  <2>2. Ask(m)
    <3>1. ~NextAsk(l) /\ ~Stays(l) /\ ~WritesClear(l)
      BY <1>7 DEF FirstAsk, NextAsk, Stays, WritesClear
    <3> QED BY <3>1, <1>7 DEF Pass
  <2>3. l.state = "HOLD_DONE" /\ l.hold = Fresh
    BY <1>7 DEF FirstAsk, HeldLongEnough
  <2> HIDE DEF m, l
  <2> QED BY <2>1, <2>2, <2>3, <1>1, <1>6
<1>8. CASE ~FirstAsk(l) /\ NextAsk(l)
  <2>1. Ask(l)
    <3>1. ~Stays(l) /\ ~WritesClear(l)
      BY <1>8 DEF NextAsk, Stays, WritesClear
    <3> QED BY <3>1, <1>8 DEF Pass
  <2>2. l.state = "ASKING"
    BY <1>8 DEF NextAsk
  <2> HIDE DEF l
  <2> QED BY <2>1, <2>2, <1>1, <1>6
<1>9. CASE ~FirstAsk(l) /\ ~NextAsk(l) /\ Stays(l)
  <2>1. latch' = l /\ at' = "idle"
    <3>1. ~WritesClear(l)
      BY <1>9 DEF Stays, WritesClear
    <3> QED BY <3>1, <1>9 DEF Pass
  <2>2. l.state = "ASKING"
    BY <1>9 DEF Stays
  <2> HIDE DEF l
  <2> QED BY <2>1, <2>2, <1>1 DEF Waits
<1>10. CASE ~FirstAsk(l) /\ ~NextAsk(l) /\ ~Stays(l) /\ WritesClear(l)
  <2>1. latch' = l /\ at' = "clear"
    BY <1>10 DEF Pass
  <2>2. l.state = "RESUMED"
    BY <1>10 DEF WritesClear
  <2> HIDE DEF l
  <2> QED BY <2>1, <2>2, <1>1 DEF Goes
<1>11. CASE ~FirstAsk(l) /\ ~NextAsk(l) /\ ~Stays(l) /\ ~WritesClear(l)
  <2>1. latch' = Moved(l) /\ at' = "idle"
    BY <1>11 DEF Pass
  <2>2. l.state = "ASKING" => l.ask > Confirm \/ l.off
    BY <1>11, <1>1, TimeAssumption DEF NextAsk, Stays, Latches
  <2> HIDE DEF l
  <2>3. CASE l.state = "LATCHED"
    <3>1. CASE held /\ Spans
      <4>1. latch' = [l EXCEPT !.state = "HOLD_DONE", !.hold = request.age, !.off = FALSE,
                              !.fresh = FALSE]
        BY <2>1, <2>3, <3>1 DEF Moved, TakeHold, Spans
      <4>2. /\ latch' \in Latches /\ latch'.state = "HOLD_DONE" /\ latch'.hold = request.age
            /\ latch'.off = FALSE
        BY <4>1, <1>1, <1>3 DEF Latches, States, Requests
      <4> QED BY <4>2, <3>1, <2>1, <2>3, <1>1 DEF Takes
    <3>2. CASE held /\ ~Spans
      BY <2>1, <2>3, <3>2, <1>1 DEF Moved, TakeHold, Spans, Takes
    <3>3. CASE ~held
      BY <2>1, <2>3, <3>3, <1>1 DEF Moved, Takes, Latches, States
    <3> QED BY <3>1, <3>2, <3>3
  <2>4. CASE l.state = "ASKING"
    BY <2>1, <2>2, <2>4, <1>1 DEF Moved, Waits, Latches, States
  <2>5. CASE l.state = "HOLD_DONE"
    BY <2>1, <2>5, <1>1 DEF Moved, Waits
  <2>6. CASE l.state \in {"UNLATCHED", "CONFIRMED", "RESUMED", "CLEAR_WRITTEN"}
    BY <2>1, <2>6, <1>1, <1>5 DEF Moved, Goes, Latches, States
  <2> QED BY <2>3, <2>4, <2>5, <2>6, <1>4, <1>1 DEF States
<1> QED BY <1>7, <1>8, <1>9, <1>10, <1>11

-----------------------------------------------------------------------------
(* What the end of a read and a tick may do with the machine.              *)

\* The page was off and the reading goes on, or it is over.
Reads ==
  /\ latch'.hold = latch.hold
  /\ \/ /\ at' = AfterPage(at) /\ at' # "idle" /\ at \notin on
        /\ latch'.state = Looks /\ latch'.off = latch.off
     \/ /\ at' = "idle"
        /\ latch'.state = IF Looks = "HOLD_DONE" THEN "ASKING" ELSE Looks
        /\ latch'.off => AfterPage(at) = "idle" /\ at \notin on /\ ~local

LEMMA ReadOutcome ==
  ASSUME TypeOK, ReadEnds
  PROVE  latch' \in Latches /\ Reads
<1> DEFINE l == Followed(latch)
<1>1. l \in Latches /\ l.state = Looks /\ l.hold = latch.hold /\ l.off = latch.off
  BY FollowedIs DEF Looks
<1>2. local \in BOOLEAN /\ Back \in BOOLEAN
  BY DEF TypeOK, Back, Sooner
<1>3. PICK answered \in {link, FALSE} :
        IF ReadOff(answered) /\ AfterPage(at) # "idle"
        THEN latch' = l /\ at' = AfterPage(at)
        ELSE latch' = Asking([l EXCEPT !.off = ReadOff(answered) /\ ~local]) /\ at' = "idle"
  BY DEF ReadEnds
<1>4. link \in BOOLEAN
  BY DEF TypeOK
<1> DEFINE off == ReadOff(answered)
<1>5. off \in BOOLEAN /\ (off => at \notin on)
  BY <1>2, <1>4 DEF ReadOff
<1> HIDE DEF l
<1>6. CASE off /\ AfterPage(at) # "idle"
  <2>1. latch' = l /\ at' = AfterPage(at)
    BY <1>3, <1>6
  <2> QED BY <2>1, <1>1, <1>5, <1>6 DEF Reads
<1>7. CASE ~(off /\ AfterPage(at) # "idle")
  <2> DEFINE v == off /\ ~local
             m == [l EXCEPT !.off = v]
  <2>1. latch' = Asking(m) /\ at' = "idle"
    BY <1>3, <1>7
  <2>2. v \in BOOLEAN /\ (v => AfterPage(at) = "idle" /\ at \notin on /\ ~local)
    BY <1>2, <1>5, <1>7
  <2> HIDE DEF v
  <2>3. m \in Latches /\ m.state = Looks /\ m.hold = latch.hold /\ m.off = v
    BY <1>1, <2>2 DEF Latches
  <2> HIDE DEF m
  <2>4. /\ latch' \in Latches /\ latch'.hold = latch.hold /\ latch'.off = v
        /\ latch'.state = IF Looks = "HOLD_DONE" THEN "ASKING" ELSE Looks
    BY <2>1, <2>3 DEF Asking, Latches, States
  <2> QED BY <2>1, <2>2, <2>4 DEF Reads
<1> QED BY <1>6, <1>7

\* A tick ages the machine and the glass, and may count a break.
Breaks == glass.silent /\ glass.age < Fresh /\ glass'.age = Fresh

LEMMA TickOutcome ==
  ASSUME TypeOK, Tick
  PROVE  /\ latch' \in Latches /\ latch'.state = latch.state /\ latch'.off = latch.off
         /\ latch'.hold = Up(latch.hold, Fresh)
         /\ glass' \in Glasses /\ glass'.finger = glass.finger
         /\ glass'.silent = glass.silent
         /\ glass'.age = IF glass.silent THEN Up(glass.age, Fresh) ELSE glass.age
         /\ Breaks => /\ broke' \in [new : BOOLEAN, early : BOOLEAN] /\ broke'.new = TRUE
                      /\ broke'.early <=> latch'.hold < Fresh
                      /\ since' = 0 /\ request'.span = 0 /\ ui'.cancel = TRUE
         /\ ~Breaks => /\ broke' = broke /\ since' = Up(since, HoldSeen)
                       /\ request'.span = request.span /\ ui'.cancel = ui.cancel
         /\ request' \in Requests /\ request'.on = request.on
         /\ request'.age = Up(request.age, Fresh)
         /\ ui' \in Screens /\ ui'.event = ui.event /\ ui'.holding = ui.holding
<1>1. /\ latch \in Latches /\ glass \in Glasses /\ ui \in Screens /\ request \in Requests
      /\ since \in 0..HoldSeen
  BY DEF TypeOK, Latches, Glasses, Screens, Requests
<1>2. /\ Fresh \in Nat \ {0} /\ HoldSeen \in Nat \ {0} /\ UiHold \in Nat /\ Floor \in Nat
      /\ Confirm + 1 \in Nat
  BY TimeAssumption
<1>3. /\ Up(latch.hold, Fresh) \in 0..Fresh /\ Up(latch.seen, Floor) \in 0..Floor
      /\ Up(latch.ask, Confirm + 1) \in 0..(Confirm + 1)
      /\ Up(glass.age, Fresh) \in 0..Fresh /\ Up(request.age, Fresh) \in 0..Fresh
      /\ Up(ui.age, UiHold) \in 0..UiHold
  BY <1>1, <1>2, UpKept DEF Latches, Glasses, Screens, Requests
<1>4. latch' = [latch EXCEPT !.hold = Up(@, Fresh), !.seen = Up(@, Floor),
                             !.ask = Up(@, Confirm + 1), !.fresh = FALSE]
  BY DEF Tick
<1>5. /\ latch' \in Latches /\ latch'.state = latch.state /\ latch'.off = latch.off
      /\ latch'.hold = Up(latch.hold, Fresh)
  BY <1>1, <1>3, <1>4 DEF Latches
<1>6. glass' = [glass EXCEPT !.age = IF glass.silent THEN Up(@, Fresh) ELSE @]
  BY DEF Tick
<1>7. /\ glass' \in Glasses /\ glass'.finger = glass.finger /\ glass'.silent = glass.silent
      /\ glass'.age = IF glass.silent THEN Up(glass.age, Fresh) ELSE glass.age
  BY <1>1, <1>3, <1>6 DEF Glasses
<1>8. Counts(glass') <=> Breaks
  BY <1>7 DEF Counts, Breaks
<1> DEFINE b == Counts(glass')
<1>9. b \in BOOLEAN
  BY DEF Counts
<1>10. /\ broke' = IF b THEN [new |-> TRUE, early |-> latch'.hold < Fresh] ELSE broke
       /\ since' = IF b THEN 0 ELSE Up(since, HoldSeen)
       /\ request' = [request EXCEPT !.age = Up(@, Fresh), !.span = IF b THEN 0 ELSE @]
       /\ ui' = [ui EXCEPT !.cancel = @ \/ b, !.age = IF ui.holding THEN Up(@, UiHold) ELSE @]
  BY DEF Tick
<1> HIDE DEF b
<1> DEFINE sp == IF b THEN 0 ELSE request.span
           ra == Up(request.age, Fresh)
<1>16. sp \in 0..HoldSeen /\ ra \in 0..Fresh
  BY <1>1, <1>2, <1>3 DEF Requests
<1>17. request' = [request EXCEPT !.age = ra, !.span = sp]
  BY <1>10
<1>11. /\ request' \in Requests /\ request'.on = request.on
       /\ request'.age = Up(request.age, Fresh)
       /\ request'.span = IF b THEN 0 ELSE request.span
  <2> HIDE DEF sp, ra
  <2>1. request' \in Requests /\ request'.on = request.on /\ request'.age = ra /\ request'.span = sp
    BY <1>1, <1>16, <1>17 DEF Requests
  <2> QED BY <2>1 DEF sp, ra
<1> DEFINE c == ui.cancel \/ b
<1>12. c \in BOOLEAN /\ (b => c = TRUE) /\ (~b => c = ui.cancel)
  BY <1>1, <1>9 DEF Screens
<1>13. ui' = [ui EXCEPT !.cancel = c, !.age = IF ui.holding THEN Up(@, UiHold) ELSE @]
  BY <1>10
<1> HIDE DEF c
<1>14. /\ ui' \in Screens /\ ui'.event = ui.event /\ ui'.holding = ui.holding
       /\ ui'.cancel = c
  BY <1>1, <1>3, <1>12, <1>13 DEF Screens
<1>15. b <=> Breaks
  BY <1>8 DEF b
<1>18. Breaks => /\ broke' \in [new : BOOLEAN, early : BOOLEAN] /\ broke'.new = TRUE
                 /\ broke'.early <=> latch'.hold < Fresh
  <2>1. Breaks => broke' = [new |-> TRUE, early |-> latch'.hold < Fresh]
    BY <1>10, <1>15
  <2>2. ASSUME NEW e \in BOOLEAN
        PROVE  LET r == [new |-> TRUE, early |-> e]
               IN r \in [new : BOOLEAN, early : BOOLEAN] /\ r.new = TRUE /\ r.early = e
    OBVIOUS
  <2> SUFFICES ASSUME Breaks
               PROVE  broke' \in [new : BOOLEAN, early : BOOLEAN] /\ broke'.new = TRUE
                      /\ (broke'.early <=> latch'.hold < Fresh)
    OBVIOUS
  <2>3. CASE latch'.hold < Fresh
    <3>1. broke' = [new |-> TRUE, early |-> TRUE]
      BY <2>1, <2>3
    <3> QED BY <3>1, <2>2, <2>3
  <2>4. CASE ~(latch'.hold < Fresh)
    <3>2. (latch'.hold < Fresh) = FALSE
      BY <2>4
    <3>1. broke' = [new |-> TRUE, early |-> FALSE]
      BY <2>1, <3>2
    <3> QED BY <3>1, <2>2, <2>4
  <2> QED BY <2>3, <2>4
<1> QED BY <1>5, <1>7, <1>10, <1>11, <1>12, <1>14, <1>15, <1>18

-----------------------------------------------------------------------------
(* What the fingers and the frames leave of the screen's hold.             *)

Proofs == [good : BOOLEAN, silent : BOOLEAN, hidden : BOOLEAN]

LEMMA FrameOutcome ==
  ASSUME TypeOK, UiFrame
  PROVE  /\ ui' \in Screens /\ ui'.event = "none" /\ ~ui'.cancel
         /\ request' \in Requests /\ proof' \in Proofs
         /\ \/ /\ Holds /\ ~ui.cancel /\ ~ui'.holding
               /\ request'.age = 0 /\ request'.span = since
               /\ proof'.good <=> since = HoldSeen /\ OnContact
               /\ proof'.silent <=> glass.age > 0
            \/ /\ request' = request /\ proof' = proof
               /\ ui'.holding => Holds /\ ~ui.cancel
<1>1. /\ ui \in Screens /\ request \in Requests /\ proof \in Proofs /\ glass \in Glasses
      /\ since \in 0..HoldSeen /\ held \in BOOLEAN
  BY DEF TypeOK, Screens, Requests, Proofs, Glasses
<1>2. 0 \in 0..UiHold /\ 0 \in 0..Fresh
  BY TimeAssumption
<1> DEFINE c == CASE ui.event = "hold" -> [ui EXCEPT !.holding = TRUE, !.age = 0]
                  [] ui.event \in {"press", "up"} -> [ui EXCEPT !.holding = FALSE, !.age = 0]
                  [] OTHER -> ui
<1>3. c \in Screens /\ (c.holding <=> Holds)
  <2>1. CASE ui.event = "hold"
    <3>1. c = [ui EXCEPT !.holding = TRUE, !.age = 0]
      BY <2>1
    <3> QED BY <3>1, <1>1, <1>2, <2>1 DEF Screens, Holds
  <2>2. CASE ui.event \in {"press", "up"}
    <3>1. c = [ui EXCEPT !.holding = FALSE, !.age = 0]
      BY <2>2
    <3> QED BY <3>1, <1>1, <1>2, <2>2 DEF Screens, Holds
  <2>3. CASE ui.event = "none"
    <3>1. c = ui
      BY <2>3
    <3> QED BY <3>1, <1>1, <2>3 DEF Screens, Holds
  <2> QED BY <2>1, <2>2, <2>3, <1>1 DEF Screens
<1>4. HoldNow = [c EXCEPT !.event = "none", !.cancel = FALSE,
                          !.holding = @ /\ ~ui.cancel, !.age = IF ui.cancel THEN 0 ELSE @]
  BY DEF HoldNow
<1> HIDE DEF c
<1> DEFINE g == c.holding /\ ~ui.cancel
           h == HoldNow
<1>5. g \in BOOLEAN /\ (g <=> Holds /\ ~ui.cancel)
  BY <1>1, <1>3 DEF Screens, Holds
<1>6. HoldNow = [c EXCEPT !.event = "none", !.cancel = FALSE, !.holding = g,
                          !.age = IF ui.cancel THEN 0 ELSE @]
  BY <1>4
<1> HIDE DEF g
<1>7. h \in Screens /\ h.event = "none" /\ ~h.cancel /\ h.holding = g
  BY <1>2, <1>3, <1>5, <1>6 DEF Screens
<1> DEFINE fires == h.holding /\ h.age = UiHold /\ held
<1>8. /\ ui' = IF fires THEN [h EXCEPT !.holding = FALSE, !.age = 0] ELSE h
      /\ request' = IF fires THEN [on |-> TRUE, age |-> 0, span |-> since] ELSE request
      /\ proof' = IF fires THEN [good |-> since = HoldSeen /\ OnContact,
                                 silent |-> glass.age > 0, hidden |-> FALSE]
                  ELSE proof
  BY DEF UiFrame
<1> HIDE DEF h
<1>9. CASE fires
  <2>1. /\ ui' = [h EXCEPT !.holding = FALSE, !.age = 0]
        /\ request' = [on |-> TRUE, age |-> 0, span |-> since]
    BY <1>8, <1>9
  <2> DEFINE gd == since = HoldSeen /\ OnContact
             sl == glass.age > 0
  <2>2. proof' = [good |-> gd, silent |-> sl, hidden |-> FALSE] /\ gd \in BOOLEAN /\ sl \in BOOLEAN
    BY <1>8, <1>9
  <2> HIDE DEF gd, sl
  <2>3. proof' \in Proofs /\ proof'.good = gd /\ proof'.silent = sl
    BY <2>2 DEF Proofs
  <2>4. ui' \in Screens /\ ui'.event = "none" /\ ~ui'.cancel /\ ~ui'.holding
    BY <2>1, <1>2, <1>7 DEF Screens
  <2>5. request' \in Requests /\ request'.age = 0 /\ request'.span = since
    BY <2>1, <1>1, <1>2 DEF Requests
  <2>6. Holds /\ ~ui.cancel
    BY <1>5, <1>7, <1>9
  <2> QED BY <2>3, <2>4, <2>5, <2>6 DEF gd, sl
<1>10. CASE ~fires
  BY <1>1, <1>5, <1>7, <1>8, <1>10
<1> QED BY <1>9, <1>10

-----------------------------------------------------------------------------
(* Every step keeps the type.                                              *)

LEMMA InitIInv == Init => IInv
<1> SUFFICES ASSUME Init PROVE IInv
  OBVIOUS
<1>1. /\ latch = [state |-> "UNLATCHED", hold |-> 0, seen |-> 0, ask |-> 0,
                  fresh |-> FALSE, off |-> FALSE]
      /\ glass = [finger |-> FALSE, silent |-> FALSE, age |-> 0]
      /\ ui = [event |-> "none", cancel |-> FALSE, holding |-> FALSE, age |-> 0]
      /\ request = [on |-> FALSE, age |-> 0, span |-> 0]
      /\ proof = [good |-> FALSE, silent |-> FALSE, hidden |-> FALSE]
      /\ broke = [new |-> FALSE, early |-> FALSE]
      /\ held = FALSE /\ at = "idle" /\ on = {} /\ pressed = FALSE
  BY DEF Init, NoHold, NoRequest
<1>2. TypeOK
  <2>1. /\ 0 \in 0..Fresh /\ 0 \in 0..Floor /\ 0 \in 0..(Confirm + 1) /\ 0 \in 0..Timeout
        /\ 0 \in 0..HoldSeen /\ HoldSeen \in 0..HoldSeen /\ 0 \in 0..UiHold
    BY TimeAssumption
  <2>2. latch \in Latches /\ glass \in Glasses /\ ui \in Screens
    BY <1>1, <2>1 DEF Latches, Glasses, Screens, States
  <2>3. request \in Requests /\ proof \in Proofs /\ broke \in [new : BOOLEAN, early : BOOLEAN]
    BY <1>1, <2>1 DEF Requests, Proofs
  <2>4. /\ held \in BOOLEAN /\ link \in BOOLEAN /\ passLink \in BOOLEAN /\ local \in BOOLEAN
        /\ pressed \in BOOLEAN /\ since \in 0..HoldSeen /\ waited \in 0..Timeout
        /\ on \subseteq Served /\ at \in Served \cup {"idle", "clear"}
    BY <2>1 DEF Init
  <2> QED BY <2>2, <2>3, <2>4 DEF TypeOK, Latches, Glasses, Screens, Requests, Proofs
<1>3. Policy /\ Outputs
  BY <1>1 DEF Policy, MachineFollowsPolicy, ClearFollowsResume, Outputs, SilentIsOff,
              ReadSoFar, OffStands, ConfirmedOff, Stands, Resetting, Pages
<1>4. Contact
  BY <1>1, TimeAssumption DEF Contact, AgeIsOfSilence, HoldIsContact, BreakEndsHold,
              Holds
<1>5. Rests
  BY <1>1 DEF Rests, HoldIsSpent, AskedLate, SpanIsGood, SilenceIsYoung, WayIsGood,
              Spans, UnderWay, Holds, Resetting
<1> QED BY <1>2, <1>3, <1>4, <1>5 DEF IInv

LEMMA TypeStep == TypeOK /\ Next => TypeOK'
<1> SUFFICES ASSUME TypeOK, Next PROVE TypeOK'
  OBVIOUS
<1>1. /\ held \in BOOLEAN /\ link \in BOOLEAN /\ passLink \in BOOLEAN
      /\ latch \in Latches /\ at \in Served \cup {"idle", "clear"} /\ waited \in 0..Timeout
      /\ pressed \in BOOLEAN /\ broke \in [new : BOOLEAN, early : BOOLEAN]
      /\ since \in 0..HoldSeen /\ glass \in Glasses /\ ui \in Screens
      /\ request \in Requests /\ on \subseteq Served /\ local \in BOOLEAN
      /\ proof \in Proofs
  BY DEF TypeOK, Latches, Glasses, Screens, Requests, Proofs
<1>2. /\ 0 \in 0..HoldSeen /\ 0 \in 0..Fresh /\ 0 \in 0..Timeout /\ Timeout \in Nat
      /\ HoldSeen \in Nat
  BY TimeAssumption
<1> DEFINE T == /\ held' \in BOOLEAN /\ link' \in BOOLEAN /\ passLink' \in BOOLEAN
                /\ latch' \in Latches /\ at' \in Served \cup {"idle", "clear"}
                /\ waited' \in 0..Timeout
                /\ pressed' \in BOOLEAN /\ broke' \in [new : BOOLEAN, early : BOOLEAN]
                /\ since' \in 0..HoldSeen /\ glass' \in Glasses /\ ui' \in Screens
                /\ request' \in Requests /\ on' \subseteq Served /\ local' \in BOOLEAN
                /\ proof' \in Proofs
<1>3. SUFFICES T
  BY DEF TypeOK, Latches, Glasses, Screens, Requests, Proofs
<1>4. CASE Press
  <2>1. glass' \in Glasses /\ request' \in Requests /\ proof' \in Proofs
    BY <1>1, <1>2, <1>4 DEF Press, Glasses, Requests, Proofs
  <2>2. ui' \in Screens
    BY <1>1, <1>4 DEF Press, Screens
  <2> QED BY <2>1, <2>2, <1>1, <1>2, <1>4 DEF Press, machine, ends
<1>5. CASE Lift \/ FallsSilent \/ Answers
  <2>1. glass' \in Glasses /\ proof' \in Proofs
    BY <1>1, <1>2, <1>5 DEF Lift, FallsSilent, Answers, Glasses, Proofs
  <2>2. ui' \in Screens
    BY <1>1, <1>5 DEF Lift, FallsSilent, Answers, Screens
  <2> QED BY <2>1, <2>2, <1>1, <1>5 DEF Lift, FallsSilent, Answers, machine, ends
<1>6. CASE UiFrame
  <2>1. ui' \in Screens /\ request' \in Requests /\ proof' \in Proofs
    BY <1>6, FrameOutcome
  <2> QED BY <2>1, <1>1, <1>6 DEF UiFrame, machine, ends
<1>7. CASE Pass
  <2>1. latch' \in Latches /\ at' \in {"idle", "status", "clear"}
    BY <1>7, PassOutcome DEF Begins, Waits, Takes, Goes
  <2>2. held' \in BOOLEAN
    BY <1>7 DEF Pass
  <2>3. /\ UNCHANGED <<since, glass, ui, proof, link, on, local>> /\ passLink' = link
        /\ waited' = 0 /\ request' = NoRequest /\ Looked
    BY <1>7 DEF Pass, ends
  <2>4. request' \in Requests
    BY <2>3, <1>2 DEF NoRequest, Requests
  <2> QED BY <2>1, <2>2, <2>3, <2>4, <1>1, <1>2, PagesAssumption DEF Looked
<1>8. CASE ReadEnds
  <2>1. latch' \in Latches /\ (at' = AfterPage(at) \/ at' = "idle")
    BY <1>8, ReadOutcome DEF Reads
  <2>2. AfterPage(at) \in Served \cup {"idle"}
    BY DEF AfterPage
  <2>3. /\ UNCHANGED <<held, passLink, since, glass, ui, request, proof, link, on, local>>
        /\ waited' = 0 /\ Looked
    BY <1>8 DEF ReadEnds, ends
  <2> QED BY <2>1, <2>2, <2>3, <1>1, <1>2 DEF Looked
<1>9. CASE ClearEnds \/ Error
  <2>1. latch' \in Latches
    BY <1>1, <1>9 DEF ClearEnds, Error, Latches, States
  <2> QED BY <2>1, <1>1, <1>2, <1>9 DEF ClearEnds, Error, touch, ends
<1>10. CASE SwitchOn \/ SwitchOff \/ LinkLost \/ LinkFound
  BY <1>1, <1>10 DEF SwitchOn, SwitchOff, LinkLost, LinkFound, machine, touch
<1>11. CASE Tick
  <2>1. latch' \in Latches /\ glass' \in Glasses /\ ui' \in Screens /\ request' \in Requests
    BY <1>11, TickOutcome
  <2>2. since' \in 0..HoldSeen /\ broke' \in [new : BOOLEAN, early : BOOLEAN]
    <3>1. CASE Breaks
      BY <3>1, <1>2, <1>11, TickOutcome
    <3>2. CASE ~Breaks
      BY <3>2, <1>1, <1>2, <1>11, TickOutcome, UpKept
    <3> QED BY <3>1, <3>2
  <2>3. waited' \in 0..Timeout
    BY <1>1, <1>2, <1>11 DEF Tick
  <2>4. proof' \in Proofs
    <3> DEFINE gd == proof.good /\ ~(proof.silent /\ glass'.age = Fresh)
           hd == proof.hidden \/ (Sooner /\ ~broke'.early)
    <3>1. proof' = [proof EXCEPT !.good = gd, !.hidden = hd] /\ gd \in BOOLEAN /\ hd \in BOOLEAN
      BY <1>1, <1>11 DEF Tick, Proofs
    <3> HIDE DEF gd, hd
    <3> QED BY <3>1, <1>1 DEF Proofs
  <2> QED BY <2>1, <2>2, <2>3, <2>4, <1>1, <1>11 DEF Tick
<1> QED BY <1>4, <1>5, <1>6, <1>7, <1>8, <1>9, <1>10, <1>11 DEF Next

-----------------------------------------------------------------------------
(* Every step keeps what relates the machine, the policy and the outputs.  *)

LEMMA PolicyStep == TypeOK /\ Policy /\ Next => Policy'
<1> SUFFICES ASSUME TypeOK, Policy, Next PROVE Policy'
  OBVIOUS
<1>1. /\ latch \in Latches /\ held \in BOOLEAN /\ pressed \in BOOLEAN
      /\ held <=> (pressed \/ Stands(latch.state))
      /\ at = "clear" => latch.state = "RESUMED"
  BY DEF TypeOK, Latches, Policy, MachineFollowsPolicy, ClearFollowsResume
<1>2. SUFFICES /\ held' <=> (pressed' \/ Stands(latch'.state))
               /\ at' = "clear" => latch'.state = "RESUMED"
  BY DEF Policy, MachineFollowsPolicy, ClearFollowsResume
<1>3. CASE Press
  BY <1>1, <1>3 DEF Press, machine
<1>4. CASE Lift \/ FallsSilent \/ Answers \/ UiFrame
  BY <1>1, <1>4 DEF Lift, FallsSilent, Answers, UiFrame, machine
<1>5. CASE Pass
  <2>1. Begins \/ Waits \/ Takes \/ Goes
    BY <1>5, PassOutcome
  <2>2. held' = (held /\ Looks # "CONFIRMED") /\ pressed' = FALSE
    BY <1>5, FollowedIs DEF Pass, Looked, Looks
  <2>3. Looks # "LATCHED" => ~pressed /\ Looks = latch.state
    BY DEF Looks
  <2>4. Looks = "LATCHED" => held
    BY <1>1 DEF Looks, Sooner, Stands
  <2> QED BY <2>1, <2>2, <2>3, <2>4, <1>1
          DEF Begins, Waits, Takes, Goes, Stands, Resetting
<1>6. CASE ReadEnds
  <2>1. Reads
    BY <1>6, ReadOutcome
  <2>2. held' = held /\ pressed' = FALSE
    BY <1>6 DEF ReadEnds, Looked
  <2>3. at' # "clear"
    BY <2>1 DEF Reads, AfterPage
  <2>4. Stands(latch'.state) <=> Stands(Looks)
    BY <2>1 DEF Reads, Stands, Resetting
  <2>5. held <=> Stands(Looks)
    BY <1>1 DEF Looks, Sooner, Stands
  <2> QED BY <2>2, <2>3, <2>4, <2>5
<1>7. CASE ClearEnds
  <2>1. latch'.state = "CLEAR_WRITTEN" /\ latch.state = "RESUMED" /\ at' = "idle"
        /\ held' = held /\ pressed' = pressed
    BY <1>1, <1>7 DEF ClearEnds, Latches, touch
  <2> QED BY <2>1, <1>1 DEF Stands, Resetting
<1>8. CASE Error
  <2>1. latch'.state = "LATCHED" /\ Resetting(latch.state) /\ at' = at
        /\ held' = held /\ pressed' = pressed
    BY <1>1, <1>8 DEF Error, Latches, touch
  <2> QED BY <2>1, <1>1 DEF Stands, Resetting
<1>9. CASE SwitchOn \/ SwitchOff \/ LinkLost \/ LinkFound
  BY <1>1, <1>9 DEF SwitchOn, SwitchOff, LinkLost, LinkFound, machine, touch
<1>10. CASE Tick
  BY <1>1, <1>10, TickOutcome DEF Tick
<1> QED BY <1>3, <1>4, <1>5, <1>6, <1>7, <1>8, <1>9, <1>10 DEF Next

LEMMA OutputsStep == TypeOK /\ Policy /\ Outputs /\ Next => Outputs'
<1> SUFFICES ASSUME TypeOK, Policy, Outputs, Next PROVE Outputs'
  OBVIOUS
<1>1. /\ latch \in Latches /\ on \subseteq Served /\ local \in BOOLEAN /\ link \in BOOLEAN
      /\ held \in BOOLEAN
  BY DEF TypeOK, Latches
<1>2. /\ ~link => on = {}
      /\ at \in Pages /\ Resetting(latch.state) =>
           /\ ~local
           /\ at = "supply" => "status" \notin on
           /\ at = "prog" => on \subseteq {"prog"}
      /\ latch.off /\ Resetting(latch.state) => ~local /\ on = {}
      /\ latch.state = "CONFIRMED" => latch.off /\ at = "idle"
  BY DEF Outputs, SilentIsOff, ReadSoFar, OffStands, ConfirmedOff
<1>3. SUFFICES
      /\ ~link' => on' = {}
      /\ at' \in Pages /\ Resetting(latch'.state) =>
           /\ ~local'
           /\ at' = "supply" => "status" \notin on'
           /\ at' = "prog" => on' \subseteq {"prog"}
      /\ latch'.off /\ Resetting(latch'.state) => ~local' /\ on' = {}
      /\ latch'.state = "CONFIRMED" => latch'.off /\ at' = "idle"
  BY DEF Outputs, SilentIsOff, ReadSoFar, OffStands, ConfirmedOff
<1>4. Looks # "LATCHED" => Looks = latch.state
  BY DEF Looks
<1>5. CASE Press \/ Lift \/ FallsSilent \/ Answers \/ UiFrame
  BY <1>2, <1>5 DEF Press, Lift, FallsSilent, Answers, UiFrame, machine, ends
<1>6. CASE Pass
  <2>1. Begins \/ Waits \/ Takes \/ Goes
    BY <1>6, PassOutcome
  <2>2. UNCHANGED <<link, on, local>>
    BY <1>6 DEF Pass, ends
  <2>3. CASE Begins
    BY <2>2, <2>3, <1>2, <1>4 DEF Begins, Resetting, Pages
  <2>4. CASE Waits
    BY <2>2, <2>4, <1>2, <1>4 DEF Waits, Resetting, Pages
  <2>5. CASE Takes \/ Goes
    BY <2>2, <2>5, <1>2, <1>4 DEF Takes, Goes, Resetting, Pages
  <2> QED BY <2>1, <2>3, <2>4, <2>5
<1>7. CASE ReadEnds
  <2>1. Reads
    BY <1>7, ReadOutcome
  <2>2. UNCHANGED <<link, on, local>> /\ at \in Pages
    BY <1>7 DEF ReadEnds, ends
  <2>3. Resetting(latch'.state) => Resetting(latch.state)
    BY <2>1, <1>4 DEF Reads, Resetting
  <2>4. on \subseteq Pages
    BY <1>1, PagesAssumption
  <2>5. CASE at' = "idle"
    <3>1. latch'.off => AfterPage(at) = "idle" /\ at \notin on /\ ~local
      BY <2>1, <2>5 DEF Reads
    <3>2. AfterPage(at) = "idle" /\ at \notin on /\ Resetting(latch.state) => on = {}
      BY <2>2, <2>4, <1>1, <1>2 DEF AfterPage, Pages
    <3>3. latch'.state # "CONFIRMED"
      BY <2>1, <2>2, <1>2, <1>4 DEF Reads, Pages
    <3> QED BY <3>1, <3>2, <3>3, <2>1, <2>2, <2>3, <2>5, <1>2, <1>4 DEF Reads, Pages
  <2>6. CASE at' # "idle"
    <3>1. at' = AfterPage(at) /\ at \notin on /\ latch'.state = Looks /\ latch'.off = latch.off
      BY <2>1, <2>6 DEF Reads
    <3>2. /\ at' = "supply" => at = "status"
          /\ at' = "prog" => at # "prog" /\ (at = "status" => "supply" \notin Served)
      BY <3>1, <2>2 DEF AfterPage, Pages
    <3> QED BY <3>1, <3>2, <2>2, <2>3, <2>4, <1>1, <1>2, <1>4 DEF Pages
  <2> QED BY <2>5, <2>6
<1>8. CASE ClearEnds \/ Error
  <2>1. ~Resetting(latch'.state) /\ UNCHANGED <<link, on, local>>
    BY <1>1, <1>8 DEF ClearEnds, Error, Latches, Resetting, ends
  <2> QED BY <2>1, <1>2 DEF Resetting
<1>9. CASE SwitchOn
  <2>1. ~Resetting(latch.state)
    BY <1>9 DEF SwitchOn, Policy, MachineFollowsPolicy, Stands
  <2> QED BY <2>1, <1>1, <1>2, <1>9 DEF SwitchOn, machine, Resetting
<1>10. CASE SwitchOff \/ LinkLost \/ LinkFound
  BY <1>1, <1>2, <1>10 DEF SwitchOff, LinkLost, LinkFound, machine
<1>11. CASE Tick
  BY <1>2, <1>11, TickOutcome DEF Tick
<1> QED BY <1>5, <1>6, <1>7, <1>8, <1>9, <1>10, <1>11 DEF Next

-----------------------------------------------------------------------------
(* Every step keeps what relates the finger, the controller and the hold.  *)

\* A press that falls on a STOP already latched is held, another is not.
LEMMA PressOutcome ==
  ASSUME TypeOK, Press
  PROVE  /\ ~glass.silent /\ ~glass'.silent /\ glass'.finger /\ glass'.age = glass.age
         /\ ui'.event = (IF held THEN "hold" ELSE "press")
         /\ held' = TRUE /\ pressed' = TRUE /\ request'.span = 0
         /\ proof'.good = FALSE
         /\ UNCHANGED <<latch, at, broke>>
<1>1. glass \in Glasses /\ ui \in Screens /\ request \in Requests /\ proof \in Proofs
  BY DEF TypeOK, Glasses, Screens, Requests, Proofs
<1> QED BY <1>1 DEF Press, machine, Glasses, Screens, Requests, Proofs

LEMMA GlassOutcome ==
  ASSUME TypeOK, Lift \/ FallsSilent \/ Answers
  PROVE  /\ UNCHANGED <<held, latch, at, pressed, broke, request>>
         /\ proof'.good = proof.good /\ proof'.hidden = proof.hidden
         /\ \/ /\ glass'.silent = glass.silent /\ glass'.age = glass.age
               /\ proof' = proof
               /\ (glass.silent /\ ui' = ui) \/ ui'.event = "up"
            \/ /\ ~glass.silent /\ glass'.silent /\ glass'.age = 0
               /\ ui' = ui /\ proof' = proof
            \/ /\ glass.silent /\ ~glass'.silent /\ glass'.age = 0
               /\ glass'.finger = glass.finger /\ proof'.silent = FALSE
               /\ (glass.finger /\ ui' = ui) \/ ui'.event = "up"
<1>1. glass \in Glasses /\ ui \in Screens /\ proof \in Proofs
  BY DEF TypeOK, Glasses, Screens, Proofs
<1>2. CASE Lift
  BY <1>1, <1>2 DEF Lift, machine, Glasses, Screens
<1>3. CASE FallsSilent
  BY <1>1, <1>3 DEF FallsSilent, machine, Glasses
<1>4. CASE Answers
  BY <1>1, <1>4 DEF Answers, machine, Glasses, Screens, Proofs
<1> QED BY <1>2, <1>3, <1>4

LEMMA ContactStep == TypeOK /\ Contact /\ Next => Contact'
<1> SUFFICES ASSUME TypeOK, Contact, Next PROVE Contact'
  OBVIOUS
<1>0. TypeOK
  OBVIOUS
<1>1. /\ glass \in Glasses /\ ui \in Screens /\ broke.new \in BOOLEAN
      /\ Fresh \in Nat \ {0}
  BY TimeAssumption DEF TypeOK, Glasses, Screens
<1>2. /\ ~glass.silent => glass.age = 0
      /\ Holds => glass.finger \/ glass.silent
      /\ glass.age = Fresh => ui.cancel \/ ~Holds
  BY DEF Contact, AgeIsOfSilence, HoldIsContact, BreakEndsHold, OnContact
<1>3. SUFFICES
      /\ ~glass'.silent => glass'.age = 0
      /\ Holds' => glass'.finger \/ glass'.silent
      /\ glass'.age = Fresh => ui'.cancel \/ ~Holds'
  BY DEF Contact, AgeIsOfSilence, HoldIsContact, BreakEndsHold, OnContact
<1>4. CASE Press
  BY <1>1, <1>2, <1>4, PressOutcome
<1>5. CASE Lift \/ FallsSilent \/ Answers
  <2>1. broke' = broke
    BY <1>5, GlassOutcome
  <2>2. CASE glass'.silent = glass.silent /\ glass'.age = glass.age
             /\ ((glass.silent /\ ui' = ui) \/ ui'.event = "up")
    BY <2>1, <2>2, <1>2 DEF Holds
  <2>3. CASE ~glass.silent /\ glass'.silent /\ glass'.age = 0 /\ ui' = ui
    BY <2>1, <2>3, <1>1, <1>2 DEF Holds
  <2>4. CASE /\ glass.silent /\ ~glass'.silent /\ glass'.age = 0
             /\ glass'.finger = glass.finger
             /\ (glass.finger /\ ui' = ui) \/ ui'.event = "up"
    BY <2>1, <2>4, <1>1, <1>2 DEF Holds
  <2> QED BY <2>2, <2>3, <2>4, <1>5, GlassOutcome
<1>6. CASE UiFrame
  <2>1. UNCHANGED <<glass, broke>> /\ ui'.event = "none" /\ (Holds' => Holds /\ ~ui.cancel)
    BY <1>6, FrameOutcome DEF UiFrame, Holds
  <2> QED BY <2>1, <1>1, <1>2
<1>7. CASE Pass \/ ReadEnds
  <2>1. UNCHANGED <<glass, ui>> /\ broke' = [new |-> FALSE, early |-> FALSE]
    BY <1>7 DEF Pass, ReadEnds, Looked
  <2> QED BY <2>1, <1>2 DEF Holds
<1>8. CASE ClearEnds \/ Error \/ SwitchOn \/ SwitchOff \/ LinkLost \/ LinkFound
  BY <1>2, <1>8 DEF ClearEnds, Error, SwitchOn, SwitchOff, LinkLost, LinkFound, touch, Holds
<1>9. CASE Tick
  <2>1. /\ glass'.finger = glass.finger /\ glass'.silent = glass.silent
        /\ glass'.age = IF glass.silent THEN Up(glass.age, Fresh) ELSE glass.age
        /\ Breaks => broke'.new = TRUE /\ ui'.cancel = TRUE
        /\ ~Breaks => broke' = broke /\ ui'.cancel = ui.cancel
        /\ ui'.event = ui.event /\ ui'.holding = ui.holding
    BY <1>0, <1>9, TickOutcome
  <2>3. Holds' <=> Holds
    BY <2>1 DEF Holds
  <2>2. glass.age \in 0..Fresh
    BY <1>1 DEF Glasses
  <2> QED BY <2>1, <2>2, <2>3, <1>1, <1>2 DEF Breaks, Up
<1> QED BY <1>4, <1>5, <1>6, <1>7, <1>8, <1>9 DEF Next

-----------------------------------------------------------------------------
(* Every step keeps what a reset rests on.                                 *)

LEMMA RestsStep == IInv /\ Next => Rests'
<1> SUFFICES ASSUME IInv, Next PROVE Rests'
  OBVIOUS
<1>0. TypeOK /\ Policy /\ Contact
  BY DEF IInv
<1>1. /\ latch \in Latches /\ glass \in Glasses /\ ui \in Screens /\ request \in Requests
      /\ proof \in Proofs /\ pressed \in BOOLEAN /\ since \in 0..HoldSeen
      /\ broke \in [new : BOOLEAN, early : BOOLEAN]
      /\ Fresh \in Nat \ {0} /\ HoldSeen \in Nat \ {0}
  BY <1>0, TimeAssumption DEF TypeOK, Latches, Glasses, Screens, Requests, Proofs
<1>2. /\ Spans \/ UnderWay => ~Holds
      /\ (latch.state = "HOLD_DONE" /\ at \in Pages) \/ latch.state \in {"ASKING", "CONFIRMED"}
           => latch.hold = Fresh
  BY DEF IInv, Rests, HoldIsSpent, AskedLate
<1>3. /\ Spans => proof.good
      /\ proof.good /\ proof.silent =>
           /\ glass.silent /\ glass.age < Fresh
           /\ Spans => request.age < glass.age
           /\ UnderWay => latch.hold < glass.age
      /\ UnderWay /\ ~(broke.new /\ broke.early) => proof.good \/ proof.hidden
  BY DEF IInv, Rests, SpanIsGood, SilenceIsYoung, WayIsGood
<1>4. SUFFICES
      /\ Spans' \/ UnderWay' => ~Holds'
      /\ (latch'.state = "HOLD_DONE" /\ at' \in Pages) \/ latch'.state \in {"ASKING", "CONFIRMED"}
           => latch'.hold = Fresh
      /\ Spans' => proof'.good
      /\ proof'.good /\ proof'.silent =>
           /\ glass'.silent /\ glass'.age < Fresh
           /\ Spans' => request'.age < glass'.age
           /\ UnderWay' => latch'.hold < glass'.age
      /\ UnderWay' /\ ~(broke'.new /\ broke'.early) => proof'.good \/ proof'.hidden
  BY DEF Rests, HoldIsSpent, AskedLate, SpanIsGood, SilenceIsYoung, WayIsGood
<1>5. CASE Press
  <2>1. ~Spans' /\ ~UnderWay' /\ UNCHANGED <<latch, at>> /\ proof'.good = FALSE
    BY <1>0, <1>1, <1>5, PressOutcome DEF Spans, UnderWay
  <2> QED BY <2>1, <1>2
<1>6. CASE Lift \/ FallsSilent \/ Answers
  <2>1. /\ UNCHANGED <<latch, at, pressed, broke, request>>
        /\ proof'.good = proof.good /\ proof'.hidden = proof.hidden
    BY <1>0, <1>6, GlassOutcome
  <2>2. (Spans' <=> Spans) /\ (UnderWay' <=> UnderWay)
    BY <2>1 DEF Spans, UnderWay
  <2>3. Holds' => Holds
    BY <1>0, <1>6, GlassOutcome DEF Holds
  <2>4. ASSUME proof'.good, proof'.silent
        PROVE  glass'.silent /\ glass'.age = glass.age /\ proof.silent
    BY <2>4, <1>0, <1>3, <1>6, GlassOutcome
  <2> QED BY <2>1, <2>2, <2>3, <2>4, <1>2, <1>3
<1>7. CASE UiFrame
  <2>1. UNCHANGED <<latch, at, pressed, broke, glass>>
    BY <1>7 DEF UiFrame, machine
  <2>2. UnderWay' <=> UnderWay
    BY <2>1 DEF UnderWay
  <2>3. CASE /\ Holds /\ ~ui.cancel /\ ~ui'.holding
             /\ request'.age = 0 /\ request'.span = since
             /\ proof'.good <=> since = HoldSeen /\ OnContact
             /\ proof'.silent <=> glass.age > 0
    <3>1. ~Holds' /\ ~UnderWay
      BY <2>3, <1>0, <1>2, <1>7, FrameOutcome DEF Holds
    <3>2. OnContact /\ glass.age # Fresh /\ (glass.age > 0 => glass.silent)
      BY <2>3, <1>0, <1>1 DEF Contact, HoldIsContact, BreakEndsHold, AgeIsOfSilence, Glasses
    <3>3. Spans' => since = HoldSeen
      BY <2>3 DEF Spans
    <3>4. glass.age \in 0..Fresh
      BY <1>1 DEF Glasses
    <3> QED BY <3>1, <3>2, <3>3, <3>4, <2>1, <2>2, <2>3, <1>1, <1>2
  <2>4. CASE request' = request /\ proof' = proof /\ (ui'.holding => Holds /\ ~ui.cancel)
    <3>1. (Spans' <=> Spans) /\ (Holds' => Holds)
      BY <2>4, <1>0, <1>7, FrameOutcome DEF Spans, Holds
    <3> QED BY <3>1, <2>1, <2>2, <2>4, <1>2, <1>3
  <2> QED BY <2>3, <2>4, <1>0, <1>7, FrameOutcome
<1>8. CASE Pass
  <2>1. Begins \/ Waits \/ Takes \/ Goes
    BY <1>0, <1>8, PassOutcome
  <2>2. /\ UNCHANGED <<glass, ui, proof>> /\ pressed' = FALSE /\ ~Spans' /\ at = "idle"
        /\ Holds' <=> Holds
    BY <1>8 DEF Pass, Looked, NoRequest, Spans, Holds
  <2>3. Looks # "LATCHED" =>
          ~pressed /\ Looks = latch.state /\ (Resetting(latch.state) => ~(broke.new /\ broke.early))
    BY DEF Looks, Sooner
  <2>4. CASE held /\ Spans /\ latch'.state = "HOLD_DONE" /\ latch'.hold = request.age /\ at' = "idle"
    BY <2>2, <2>4, <1>2, <1>3 DEF Pages
  <2>5. CASE /\ latch'.hold = latch.hold /\ Looks \in {"HOLD_DONE", "ASKING"}
             /\ Looks = "HOLD_DONE" /\ latch'.state = Looks /\ at' \in Pages => latch.hold = Fresh
             /\ Looks = "HOLD_DONE" /\ latch'.state # Looks /\ Resetting(latch'.state) =>
                  latch.hold = Fresh
    <3>1. UnderWay /\ Looks = latch.state /\ ~(broke.new /\ broke.early)
      BY <2>3, <2>5 DEF UnderWay, Resetting
    <3> QED BY <3>1, <2>2, <2>5, <1>2, <1>3 DEF UnderWay, Resetting
  <2>6. CASE ~Resetting(latch'.state)
    BY <2>2, <2>6, <1>2, <1>3 DEF UnderWay, Resetting
  <2> QED BY <2>1, <2>4, <2>5, <2>6 DEF Begins, Waits, Takes, Goes, Resetting, Pages
<1>9. CASE ReadEnds
  <2>1. Reads
    BY <1>0, <1>9, ReadOutcome
  <2>2. /\ UNCHANGED <<glass, ui, request, proof>> /\ pressed' = FALSE /\ at \in Pages
        /\ (Holds' <=> Holds) /\ (Spans' <=> Spans)
    BY <1>9 DEF ReadEnds, Looked, Holds, Spans
  <2>3. Looks # "LATCHED" =>
          ~pressed /\ Looks = latch.state /\ (Resetting(latch.state) => ~(broke.new /\ broke.early))
    BY DEF Looks, Sooner
  <2>4. Resetting(latch'.state) =>
          UnderWay /\ Looks = latch.state /\ ~(broke.new /\ broke.early) /\ latch.hold = Fresh
    BY <2>1, <2>2, <2>3, <1>2 DEF Reads, UnderWay, Resetting
  <2>5. latch'.hold = latch.hold
    BY <2>1 DEF Reads
  <2>6. latch'.state \in {"HOLD_DONE", "ASKING", "CONFIRMED"} <=> Resetting(latch'.state)
    BY DEF Resetting
  <2> QED BY <2>2, <2>4, <2>5, <2>6, <1>2, <1>3 DEF UnderWay
<1>10. CASE ClearEnds \/ Error
  <2>1. ~Resetting(latch'.state) /\ UNCHANGED touch
    BY <1>1, <1>10 DEF ClearEnds, Error, Latches, Resetting
  <2>2. (Spans' <=> Spans) /\ (Holds' <=> Holds)
    BY <2>1 DEF touch, Spans, Holds
  <2> QED BY <2>1, <2>2, <1>2, <1>3 DEF touch, UnderWay, Resetting
<1>11. CASE SwitchOn \/ SwitchOff \/ LinkLost \/ LinkFound
  <2>1. UNCHANGED <<machine, touch>>
    BY <1>11 DEF SwitchOn, SwitchOff, LinkLost, LinkFound
  <2>2. (Spans' <=> Spans) /\ (Holds' <=> Holds) /\ (UnderWay' <=> UnderWay)
    BY <2>1 DEF machine, touch, Spans, Holds, UnderWay
  <2> QED BY <2>1, <2>2, <1>2, <1>3 DEF machine, touch
<1>12. CASE Tick
  <2>1. /\ latch'.state = latch.state /\ latch'.hold = Up(latch.hold, Fresh)
        /\ glass'.silent = glass.silent
        /\ glass'.age = IF glass.silent THEN Up(glass.age, Fresh) ELSE glass.age
        /\ request'.on = request.on /\ request'.age = Up(request.age, Fresh)
        /\ Breaks => request'.span = 0 /\ broke'.new = TRUE /\ (broke'.early <=> latch'.hold < Fresh)
        /\ ~Breaks => request'.span = request.span /\ broke' = broke
        /\ ui'.event = ui.event /\ ui'.holding = ui.holding
    BY <1>0, <1>12, TickOutcome
  <2>9. Holds' <=> Holds
    BY <2>1 DEF Holds
  <2>2. at' = at /\ pressed' = pressed
    BY <1>12 DEF Tick
  <2>3. /\ proof'.good <=> proof.good /\ ~(proof.silent /\ glass'.age = Fresh)
        /\ proof'.silent <=> proof.silent
        /\ proof'.hidden <=> proof.hidden \/ (Sooner /\ ~broke'.early)
    BY <1>1, <1>12 DEF Tick, Proofs
  <2>4. (UnderWay' <=> UnderWay) /\ (Spans' => Spans /\ ~Breaks)
    BY <2>1, <2>2, <1>1 DEF UnderWay, Spans
  <2>5. /\ latch.hold \in 0..Fresh /\ glass.age \in 0..Fresh /\ request.age \in 0..Fresh
    BY <1>1 DEF Latches, Glasses, Requests
  <2>6. (Spans' \/ UnderWay' => ~Holds')
        /\ ((latch'.state = "HOLD_DONE" /\ at' \in Pages) \/ latch'.state \in {"ASKING", "CONFIRMED"}
             => latch'.hold = Fresh)
    BY <2>1, <2>2, <2>4, <2>5, <2>9, <1>1, <1>2 DEF Up
  <2>7. /\ Spans' => proof'.good
        /\ proof'.good /\ proof'.silent =>
             /\ glass'.silent /\ glass'.age < Fresh
             /\ Spans' => request'.age < glass'.age
             /\ UnderWay' => latch'.hold < glass'.age
    BY <2>1, <2>3, <2>4, <2>5, <1>1, <1>3 DEF Up, Breaks
  <2>8. ASSUME UnderWay', ~(broke'.new /\ broke'.early), ~proof'.hidden
        PROVE  proof'.good
    <3>1. ~(broke.new /\ broke.early)
      <4>1. CASE Breaks
        BY <4>1, <2>1, <2>3, <2>4, <2>8 DEF UnderWay, Sooner
      <4>2. CASE ~Breaks
        BY <4>2, <2>1, <2>8
      <4> QED BY <4>1, <4>2
    <3>2. proof.good
      BY <3>1, <2>3, <2>4, <2>8, <1>3
    <3>3. ASSUME proof.silent, glass'.age = Fresh PROVE FALSE
      <4>1. glass.silent /\ glass.age < Fresh /\ latch.hold < glass.age /\ Breaks
        BY <3>2, <3>3, <2>4, <2>8, <1>3 DEF Breaks
      <4>2. latch'.hold < Fresh
        BY <4>1, <2>1, <2>5, <1>1 DEF Up
      <4> QED BY <4>1, <4>2, <2>1, <2>8
    <3> QED BY <3>2, <3>3, <2>3
  <2> QED BY <2>6, <2>7, <2>8
<1> QED BY <1>5, <1>6, <1>7, <1>8, <1>9, <1>10, <1>11, <1>12 DEF Next

-----------------------------------------------------------------------------
(* The theorems.                                                           *)

LEMMA Inductive == IInv /\ [Next]_vars => IInv'
<1> SUFFICES ASSUME IInv, [Next]_vars PROVE IInv'
  OBVIOUS
<1>1. CASE Next
  BY <1>1, TypeStep, PolicyStep, OutputsStep, ContactStep, RestsStep DEF IInv
<1>2. CASE UNCHANGED vars
  BY <1>2 DEF vars, IInv, TypeOK, Policy, MachineFollowsPolicy, ClearFollowsResume, Outputs,
              SilentIsOff, ReadSoFar, OffStands, ConfirmedOff, Contact, AgeIsOfSilence,
              HoldIsContact, OnContact, BreakEndsHold, Rests, HoldIsSpent, AskedLate,
              SpanIsGood, SilenceIsYoung, WayIsGood, Spans, UnderWay, Holds
<1> QED BY <1>1, <1>2

THEOREM IInvHolds == Spec => []IInv
<1>1. Init => IInv
  BY InitIInv
<1>2. IInv /\ [Next]_vars => IInv'
  BY Inductive
<1> QED BY <1>1, <1>2, PTL DEF Spec

\* The state of the reset keeps its type for every bound (stop_latch.c).
THEOREM TypeCorrect == Spec => []TypeOK
<1>1. IInv => TypeOK
  BY DEF IInv
<1> QED BY <1>1, IInvHolds, PTL

\* The machine and the arming policy agree on whether the STOP stands
\* (stop_latch.c, follow() and stop_latch_run()).
THEOREM PolicyIsFollowed == Spec => []MachineFollowsPolicy
<1>1. IInv => MachineFollowsPolicy
  BY DEF IInv, Policy
<1> QED BY <1>1, IInvHolds, PTL

\* The heartbeat goes again only from a confirmation with no STOP and no early
\* break to look at.
LEMMA ResumesFromConfirmed ==
  ASSUME TypeOK, Next, Resumes
  PROVE  latch.state = "CONFIRMED" /\ ~pressed /\ ~(broke.new /\ broke.early)
<1>1. held \in BOOLEAN /\ held' # held
  BY DEF TypeOK, Resumes
<1>2. Pass
  BY <1>1 DEF Next, Resumes, Press, Lift, FallsSilent, Answers, UiFrame, ReadEnds, ClearEnds,
              Error, SwitchOn, SwitchOff, LinkLost, LinkFound, Tick
<1>3. held' = (held /\ Looks # "CONFIRMED")
  BY <1>2, FollowedIs DEF Pass, Looks
<1>4. Looks = "CONFIRMED"
  BY <1>3 DEF Resumes
<1> QED BY <1>4 DEF Looks, Sooner, Resetting

\* A reset that goes through finds this end off, and every page of an IOmcu the
\* link reaches (stop_latch.c, ask() and far_read()).
THEOREM ResumesAllOff == Spec => ResumeFindsAllOff
<1>1. IInv /\ [Next]_vars => (Resumes => ~local /\ (link => on = {}))
  <2> SUFFICES ASSUME IInv, Next, Resumes PROVE ~local /\ on = {}
    BY DEF vars, Resumes
  <2>1. latch.state = "CONFIRMED"
    BY ResumesFromConfirmed DEF IInv
  <2> QED BY <2>1 DEF IInv, Outputs, OffStands, ConfirmedOff, Resetting
<1>2. IInv /\ [Next]_vars => [Resumes => ~local /\ (link => on = {})]_vars
  BY <1>1
<1> QED BY <1>2, IInvHolds, PTL DEF Spec, ResumeFindsAllOff

\* A reset goes through only on one good hold, wherever a STOP or a break falls
\* (stop_latch.c, take_hold() and follow()) and however often the controller
\* falls silent: only a break hidden by a later one goes unseen.
THEOREM ResumesOnAHold == Spec => ResumeRestsOnAHoldUnlessHidden
<1> DEFINE A == Resumes => proof.hidden \/ (proof.good /\ ~proof.silent)
<1>1. IInv /\ [Next]_vars => A
  <2> SUFFICES ASSUME IInv, Next, Resumes, ~proof.hidden
               PROVE  proof.good /\ ~proof.silent
    BY DEF vars, Resumes
  <2>1. latch.state = "CONFIRMED" /\ ~pressed /\ ~(broke.new /\ broke.early)
    BY ResumesFromConfirmed DEF IInv
  <2>2. UnderWay /\ latch.hold = Fresh
    BY <2>1 DEF UnderWay, Resetting, IInv, Rests, AskedLate
  <2>3. proof.good
    BY <2>1, <2>2 DEF IInv, Rests, WayIsGood
  <2>4. ASSUME proof.silent PROVE FALSE
    <3>1. glass.age < Fresh /\ latch.hold < glass.age
      BY <2>2, <2>3, <2>4 DEF IInv, Rests, SilenceIsYoung
    <3>2. glass.age \in Int /\ Fresh \in Int
      BY TimeAssumption DEF IInv, TypeOK
    <3> QED BY <3>1, <3>2, <2>2
  <2> QED BY <2>3, <2>4
<1>2. IInv /\ [Next]_vars => [A]_vars
  BY <1>1
<1> QED BY <1>2, IInvHolds, PTL DEF Spec, ResumeRestsOnAHoldUnlessHidden
=============================================================================
