----------------------------- MODULE SafetyGate -----------------------------
(***************************************************************************)
(* The IOmcu's decision whether its outputs may drive                      *)
(* (shared/safety/safety_gate.c), with everything it reads: the monitor of *)
(* the panel's heartbeat line (heartbeat.c), the silence watchdog and the  *)
(* arm latch of the link (link_dev.c), the CONTROL page (link_control.c),  *)
(* and the order the main loop calls them in (firmware/iomcu/src/main.c).  *)
(*                                                                         *)
(* Time is in milliseconds and passes only between two passes of the main  *)
(* loop, because a pass reads its clock once.  Every timeout of the code   *)
(* is an unsigned difference against one timestamp, so the model keeps the *)
(* difference (an age) and lets it saturate just above the limit it is     *)
(* compared with.                                                          *)
(***************************************************************************)
EXTENDS Integers, FiniteSets

CONSTANTS Roles,     \* roles an ARM can name (LINK_ARM_ROLES)
          ArmAll,    \* LINK_ARM_ALL, the value that names every role
          Absent,    \* a register outside the frame's window
          Ports,     \* pins a programming session can hold
          MinGap,    \* HEARTBEAT_MIN_GAP_MS
          MaxGap,    \* HEARTBEAT_MAX_GAP_MS
          GoodRun,   \* HEARTBEAT_GOOD_RUN
          Silence,   \* LINK_DEV_SILENCE_MS
          MaxPass    \* the longest pass of the main loop

ASSUME LimitsAssumption ==
  /\ MinGap \in Nat /\ MaxGap \in Nat
  /\ GoodRun \in Nat \ {0}
  /\ Silence \in Nat \ {0}
  /\ MaxPass \in Nat \ {0}

ASSUME ValuesAssumption ==
  /\ \A r \in SUBSET Roles : r # ArmAll /\ r # Absent
  /\ ArmAll # Absent

VARIABLES
  beat,       \* heartbeat_mon_t: [have, age, run, alive]
  dev,        \* link_dev_t: [heard, silent, failsafe, latched, age]
  control,    \* the CONTROL page: [arm, throttle]; throttle TRUE is non-zero
  quiet,      \* the ports out of PWM, ports_quiet()
  held,       \* s_ports_held, the hold at the last ports_hold_follow()
  update,     \* link_update_dev_holds_arm()
  bank,       \* the roles outputs.c is armed for
  moved,      \* the line's level is not s_beat_level, the last sample
  still,      \* how long the line has kept its level
  passAge,    \* time since the last gate step
  inPass,     \* TRUE from the pass's clock read to its gate step
  consent     \* history: the consent the events so far add up to

lineVars == <<moved, still>>
holdVars == <<quiet, held, update>>
vars == <<beat, dev, control, quiet, held, update, bank, moved, still,
          passAge, inPass, consent>>

ArmValues == {ArmAll} \cup SUBSET Roles
EdgeCap == MaxGap + MaxPass
\* The longest a level can stand with the outputs still driving: just under
\* the monitor's limit when it was last judged, the pass that sampled the
\* edge late, and the pass until it is judged again.  The same for requests,
\* which are stamped in the pass that takes them.
StillBound == (MaxGap - 1) + 2 * MaxPass
SilentBound == (Silence - 1) + MaxPass

LeastOf(a, b) == IF a < b THEN a ELSE b

-----------------------------------------------------------------------------
(* The heartbeat monitor.                                                  *)

NoBeat == [have |-> FALSE, age |-> 0, run |-> 0, alive |-> FALSE]

\* An interval outside MinGap..MaxGap drops the line and the run with it;
\* the first edge is no interval.
MonEdge(b) ==
  LET good == b.age \in MinGap..MaxGap
      run == LeastOf(b.run + 1, GoodRun)
  IN IF ~b.have THEN [b EXCEPT !.have = TRUE, !.age = 0]
     ELSE IF ~good THEN [b EXCEPT !.age = 0, !.run = 0, !.alive = FALSE]
     ELSE [b EXCEPT !.age = 0, !.run = run, !.alive = @ \/ run = GoodRun]

\* A plausible bug: the limit itself still counts as a beat.
MonAliveLate(b) ==
  IF ~b.have \/ b.age > MaxGap
    THEN [b EXCEPT !.run = 0, !.alive = FALSE]
    ELSE b

\* Asked on every pass, because silence raises no edge.
MonAlive(b) ==
  IF ~b.have \/ b.age >= MaxGap
    THEN [b EXCEPT !.run = 0, !.alive = FALSE]
    ELSE b

-----------------------------------------------------------------------------
(* The link's watchdog and latch.                                          *)

FreshDev == [heard |-> FALSE, silent |-> FALSE, failsafe |-> FALSE,
             latched |-> TRUE, age |-> 0]

\* Every request that arrives, read or write, repeat or not.
Heard(d) == [d EXCEPT !.heard = TRUE, !.silent = FALSE, !.age = 0]

ClearFailsafe(d) == [d EXCEPT !.failsafe = FALSE, !.latched = FALSE,
                              !.silent = FALSE]

SilenceEdge(d) == d.heard /\ ~d.silent /\ d.age >= Silence

\* A plausible bug: the silence is reported and not remembered.
DevTickForgets(d) == IF SilenceEdge(d)
                       THEN [d EXCEPT !.silent = TRUE, !.failsafe = TRUE]
                       ELSE d

\* link_dev_tick(): the edge of a silence, once.
DevTick(d) == IF SilenceEdge(d)
                THEN [d EXCEPT !.silent = TRUE, !.failsafe = TRUE,
                               !.latched = TRUE]
                ELSE d

SupplyOk(b, d) == b.alive /\ ~d.failsafe
MayArm(b, d) == SupplyOk(b, d) /\ ~d.latched

-----------------------------------------------------------------------------
(* The CONTROL page.                                                       *)

AtRest == [arm |-> {}, throttle |-> FALSE]

RolesOf(a) == IF a = ArmAll THEN Roles ELSE a

\* A frame is a window of the page.  ARM is its first register, so a window
\* that holds both ARM and CLEAR holds THROTTLE too.  fault "arm": an ARM
\* that names no role; "other": THROTTLE over its maximum, an odd pole count
\* or a CLEAR without the magic.
Frames == {f \in [arm : ArmValues \cup {Absent},
                  throttle : {TRUE, FALSE, Absent}, clear : BOOLEAN,
                  fault : {"none", "arm", "other"}] :
             /\ f.fault = "arm" => f.arm \notin {Absent, {}}
             /\ f.clear /\ f.arm # Absent => f.throttle # Absent}

AsksArm(f) == f.arm \notin {Absent, {}}

\* The first register that is refused decides, and ARM is register 0.
Nack(f) ==
  IF AsksArm(f) /\ (f.fault = "arm" \/ (control.arm # {} /\ f.arm # control.arm))
    THEN "BAD_VALUE"
  ELSE IF AsksArm(f) /\ ~MayArm(beat, dev) THEN "NOT_ARMED"
  ELSE IF f.fault = "other" THEN "BAD_VALUE"
  ELSE "ack"

Stored(f) == [arm |-> IF f.arm = Absent THEN control.arm ELSE f.arm,
              throttle |-> IF f.throttle = Absent THEN control.throttle
                                                  ELSE f.throttle]

\* Only the gate's own refusal latches; a BAD_VALUE is no request to arm.
RefusalForgotten(f) == FALSE
RefusalLatches(f) == Nack(f) = "NOT_ARMED"

\* The page on an edge that takes the outputs down.
PageAfterHalf(off) == IF off THEN [control EXCEPT !.throttle = FALSE]
                             ELSE control
PageAfter(off) == IF off THEN AtRest ELSE control

\* safety_gate_hold_follow(): the page is cleared on each edge of a hold.
HoldFollow(c, q) == IF (q # {}) # held THEN AtRest ELSE c

\* The history variable: what the consent becomes when a frame is taken.
ConsentOf(f) ==
  LET asked == IF AsksArm(f) THEN "asked"
               ELSE IF f.arm = {} THEN "released" ELSE consent
  IN IF consent = "none"
       THEN IF f.clear THEN "released" ELSE "none"
       ELSE asked

Withdrawn(c, q) == IF (q # {}) # held /\ c = "asked" THEN "released" ELSE c

-----------------------------------------------------------------------------
Beats == [have : BOOLEAN, age : 0..EdgeCap, run : 0..GoodRun,
          alive : BOOLEAN]
Devs == [heard : BOOLEAN, silent : BOOLEAN, failsafe : BOOLEAN,
         latched : BOOLEAN, age : 0..(SilentBound + 1)]

BeatType == beat \in Beats
DevType == dev \in Devs
ControlType == control \in [arm : ArmValues, throttle : BOOLEAN]
ClockType == still \in 0..(StillBound + 1) /\ passAge \in 0..MaxPass
FlagType == /\ quiet \subseteq Ports
            /\ held \in BOOLEAN /\ update \in BOOLEAN
            /\ bank \subseteq Roles
            /\ moved \in BOOLEAN /\ inPass \in BOOLEAN
            /\ consent \in {"none", "released", "asked"}

TypeOK == BeatType /\ DevType /\ ControlType /\ ClockType /\ FlagType

Boot(trial) ==
  /\ beat' = NoBeat /\ dev' = FreshDev /\ control' = AtRest
  /\ quiet' = {} /\ held' = FALSE /\ update' = trial /\ bank' = {}
  /\ moved' = FALSE
  /\ passAge' = 0 /\ inPass' = FALSE
  /\ consent' = "none"
  /\ UNCHANGED still

Init ==
  /\ beat = NoBeat /\ dev = FreshDev /\ control = AtRest
  /\ quiet = {} /\ held = FALSE /\ update \in BOOLEAN /\ bank = {}
  /\ moved = FALSE /\ still = 0
  /\ passAge = 0 /\ inPass = FALSE
  /\ consent = "none"

-----------------------------------------------------------------------------
(* Requests on the link.  can_service() takes them at the head of a pass,  *)
(* before the gate step, and at its end.                                   *)

\* A read, or a write of a page that moves nothing here.
Request ==
  /\ dev' = Heard(dev)
  /\ UNCHANGED <<beat, control, holdVars, bank, lineVars, passAge, inPass,
                 consent>>

\* control_write(): the holds refuse before the page's rules run.  An ARM
\* the gate refuses sets the latch; a CLEAR that is taken releases it.
ControlWrite(f) ==
  LET d == Heard(dev)
      refused == AsksArm(f) /\ (update \/ quiet # {})
      latches == RefusalLatches(f)
      taken == ~refused /\ Nack(f) = "ack"
  IN /\ dev' = IF refused THEN d
               ELSE IF latches THEN [d EXCEPT !.latched = TRUE]
               ELSE IF taken /\ f.clear THEN ClearFailsafe(d) ELSE d
     /\ control' = IF taken THEN Stored(f) ELSE control
     /\ consent' = IF taken THEN ConsentOf(f)
                   ELSE IF ~refused /\ Nack(f) = "NOT_ARMED" THEN "none"
                   ELSE consent
     /\ UNCHANGED <<beat, holdVars, bank, lineVars, passAge, inPass>>

\* The three session pages are told each pass whether the bank is armed.
BenchNeverArmed == FALSE
BenchArmed == bank # {}

\* A session page takes a port out of PWM, refused while the last pass left
\* the bank armed; the CONTROL page follows in the same frame.
PortEnter(p) ==
  LET q == IF BenchArmed THEN quiet ELSE quiet \cup {p}
  IN /\ p \notin quiet
     /\ dev' = Heard(dev)
     /\ quiet' = q
     /\ control' = HoldFollow(control, q)
     /\ consent' = Withdrawn(consent, q)
     /\ held' = (q # {})
     /\ UNCHANGED <<beat, update, bank, lineVars, passAge, inPass>>

\* A command that gives the port back.
PortGive(p) ==
  LET q == quiet \ {p}
  IN /\ p \in quiet
     /\ dev' = Heard(dev)
     /\ quiet' = q
     /\ control' = HoldFollow(control, q)
     /\ consent' = Withdrawn(consent, q)
     /\ held' = (q # {})
     /\ UNCHANGED <<beat, update, bank, lineVars, passAge, inPass>>

\* UPDATE_CTL: a session opens only with the bank at rest and no port held
\* (flash_gate_busy()); ABORT, a failed block or a BUY ends the hold.
UpdateBegin ==
  /\ ~update /\ bank = {} /\ quiet = {}
  /\ update' = TRUE
  /\ dev' = Heard(dev)
  /\ UNCHANGED <<beat, control, quiet, held, bank, lineVars, passAge,
                 inPass, consent>>

UpdateEnd ==
  /\ update
  /\ update' = FALSE
  /\ dev' = Heard(dev)
  /\ UNCHANGED <<beat, control, quiet, held, bank, lineVars, passAge,
                 inPass, consent>>

-----------------------------------------------------------------------------
(* The pass of the main loop.                                              *)

\* The pass reads its clock: no time passes until its gate step is done.
StartPass ==
  /\ ~inPass
  /\ inPass' = TRUE
  /\ UNCHANGED <<beat, dev, control, holdVars, bank, lineVars, passAge,
                 consent>>

\* update_hw_poll(): a session with no request for LINK_UPD_SILENCE_MS ends.
UpdateSilent ==
  /\ inPass /\ update
  /\ update' = FALSE
  /\ UNCHANGED <<beat, dev, control, quiet, held, bank, lineVars, passAge,
                 inPass, consent>>

\* safety_gate_step(), then the bank armed or disarmed from it, then the
\* ports' steps, which may bring ports back to PWM, and the hold followed.
GatePass(q) ==
  LET b == MonAlive(IF moved THEN MonEdge(beat) ELSE beat)
      lost == beat.alive /\ ~b.alive
      d1 == IF lost THEN [dev EXCEPT !.latched = TRUE] ELSE dev
      d == DevTick(d1)
      off == lost \/ SilenceEdge(d1)
      page == PageAfter(off)
      armNow == page.arm # {} /\ MayArm(b, d) /\ quiet = {} /\ ~update
  IN /\ inPass
     /\ beat' = b
     /\ dev' = d
     /\ moved' = FALSE
     /\ bank' = IF armNow THEN RolesOf(page.arm) ELSE {}
     /\ quiet' = q
     /\ control' = HoldFollow(page, q)
     /\ held' = (q # {})
     /\ consent' = IF lost \/ (dev.heard /\ dev.age >= Silence) THEN "none"
                   ELSE Withdrawn(consent, q)
     /\ passAge' = 0
     /\ inPass' = FALSE
     /\ UNCHANGED <<update, still>>

Restart == \E trial \in BOOLEAN : Boot(trial)

-----------------------------------------------------------------------------
(* The world: the panel's end of the line, and time.                       *)

\* Any edge, at any time: the panel's own, a ringing line, a loose plug.
LineEdge ==
  /\ moved' = ~moved
  /\ still' = 0
  /\ UNCHANGED <<beat, dev, control, holdVars, bank, passAge,
                 inPass, consent>>

Elapse ==
  /\ ~inPass
  /\ passAge < MaxPass
  /\ passAge' = passAge + 1
  /\ beat' = [beat EXCEPT !.age = IF beat.have THEN LeastOf(@ + 1, EdgeCap)
                                               ELSE 0]
  /\ dev' = [dev EXCEPT !.age = IF dev.heard THEN LeastOf(@ + 1, SilentBound + 1)
                                             ELSE 0]
  /\ still' = LeastOf(still + 1, StillBound + 1)
  /\ UNCHANGED <<control, holdVars, bank, moved, inPass, consent>>

Next ==
  \/ Request
  \/ \E f \in Frames : ControlWrite(f)
  \/ \E p \in Ports : PortEnter(p)
  \/ \E p \in Ports : PortGive(p)
  \/ UpdateBegin
  \/ UpdateEnd
  \/ StartPass
  \/ UpdateSilent
  \/ \E q \in SUBSET quiet : GatePass(q)
  \/ Restart
  \/ LineEdge
  \/ Elapse

Spec == Init /\ [][Next]_vars

-----------------------------------------------------------------------------
(* What makes the gate correct.                                            *)

\* An ARM that stands in the CONTROL page stands on a trusted heartbeat, a
\* link out of failsafe, a released latch and no port out of PWM, at every
\* moment and not only when the gate looks: control_write() and
\* safety_gate_step() would otherwise arm a pass on an older answer.
ArmStandsOnTrust ==
  control.arm # {} => MayArm(beat, dev) /\ quiet = {}

\* The latch is the memory of what went wrong: it is set whenever the events
\* so far add up to no consent (a start, a loss of trust, a silence, a
\* refused ARM, none of them followed by a CLEAR), and an ARM in the page is
\* always one asked for after that CLEAR.
LatchRemembers ==
  /\ dev.latched <=> consent = "none"
  /\ control.arm # {} <=> consent = "asked"

\* The outputs are down within a bounded time of the panel's line standing
\* still and of the panel's requests stopping, whatever the passes sampled.
DownInTime ==
  bank # {} => still <= StillBound /\ dev.age <= SilentBound

\* A programming session and an armed bank exclude each other, and so do an
\* update and an armed bank, in whatever order the frames of one pass ask
\* for them.
HoldsExclude ==
  quiet # {} \/ update => bank = {}

\* Neither edge of a hold leaves an ARM or a THROTTLE in the page, so no way
\* out of a session drives anything without a new ask.
HoldEdgesClear ==
  [][(quiet # {}) # (quiet' # {}) => control' = AtRest]_vars

\* The outputs obey the abstract consent: they start to drive only on a
\* release followed by an ask, both after everything that went wrong.
Consented == INSTANCE OutputConsent
ImplementsConsent == Consented!Spec
=============================================================================
