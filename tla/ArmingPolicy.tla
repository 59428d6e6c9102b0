---------------------------- MODULE ArmingPolicy ----------------------------
(***************************************************************************)
(* The panel's arming policy (shared/safety/arming.c) as operators over    *)
(* its state, arming_t: what each call leaves behind and what it answers.  *)
(* The control task that makes the calls is PanelArm.                      *)
(*                                                                         *)
(* The two deadlines of a waiting arm are one phase that time moves on:    *)
(*   "settling"  before settle_until_ms                                    *)
(*   "open"      from it through the line's bound, settle plus line wait   *)
(*   "past"      after it                                                  *)
(* The code gives an arm up in the bound's own millisecond, one before     *)
(* "past".                                                                 *)
(*                                                                         *)
(* The stop count is read only by comparing a copy of it with the count    *)
(* now.  knows is the set of the copies that still agree; counting a stop  *)
(* empties it.  A screen's stamp on an ask is compared the same way, with  *)
(* the stamp that screen waits on: mine and refused, FALSE with no screen  *)
(* waiting.                                                                *)
(*                                                                         *)
(* A field the code leaves behind and sets again before it is next read is *)
(* put back as soon as it is dead: the phase and the line's answer with no *)
(* arm waiting, the roles and the deadline with no arm in force.           *)
(***************************************************************************)
EXTENDS Naturals, FiniteSets

CONSTANTS Roles,        \* what an arm can be asked for: motor, servos
          NoRole        \* no roles: a bank that is not armed

ASSUME RolesAssumption == NoRole \notin Roles

\* The holders of a copy of the stop count: the screen that drew it, and the
\* command that screen posted.
Copies == {"screen", "command"}

Phases == {"settling", "open", "past"}

\* What time can make of a phase.
Later(p) ==
  CASE p = "settling" -> Phases
    [] p = "open"     -> {"open", "past"}
    [] p = "past"     -> {"past"}

Policies ==
  [armed : BOOLEAN, stopped : BOOLEAN, held : BOOLEAN, wasDead : BOOLEAN,
   pending : BOOLEAN, arming : BOOLEAN, roles : Roles \cup {NoRole},
   switching : BOOLEAN, phase : Phases, trusted : BOOLEAN,
   nobody : BOOLEAN, bounded : BOOLEAN, mine : BOOLEAN, refused : BOOLEAN,
   knows : SUBSET Copies]

\* arming_init(): disarmed, no latch, every copy of the count agrees.
Fresh ==
  [armed |-> FALSE, stopped |-> FALSE, held |-> FALSE, wasDead |-> FALSE,
   pending |-> FALSE, arming |-> FALSE, roles |-> NoRole,
   switching |-> FALSE, phase |-> "settling", trusted |-> FALSE,
   nobody |-> FALSE, bounded |-> FALSE, mine |-> FALSE, refused |-> FALSE,
   knows |-> Copies]

-----------------------------------------------------------------------------
(* Stops.                                                                  *)

\* No arm is waiting; nothing is armed either.
Idle(a) == [a EXCEPT !.arming = FALSE, !.trusted = FALSE,
                     !.phase = IF a.bounded THEN @ ELSE "settling",
                     !.roles = IF a.armed THEN @ ELSE NoRole]
Off(a) == Idle([a EXCEPT !.armed = FALSE, !.bounded = FALSE])

Stop(a) == [Idle(a) EXCEPT !.stopped = TRUE, !.knows = {}]

\* An operator's STOP is held until its reset.
StopPressed(a) == [Stop(a) EXCEPT !.held = TRUE]

StopRelease(a) == [Idle(a) EXCEPT !.held = FALSE, !.stopped = FALSE]

StopFromFarEnd(a) == Off(Stop(a))

\* Touch that stops answering is a stop once, on its edge, and not a latch;
\* what is armed then is disarmed at the next step, answer or not.
TouchPoll(a, dead) ==
  LET b == IF dead /\ ~a.wasDead
             THEN [Idle(a) EXCEPT !.knows = {},
                                  !.pending = @ \/ a.armed]
             ELSE a
  IN [b EXCEPT !.wasDead = dead]

-----------------------------------------------------------------------------
(* Asks and refusals.                                                      *)

\* A plausible bug: a refusal does not name the ask.
NoteRefusedNever(a) == a

\* The policy's own ask is refused under its stamp.
NoteRefused(a) == [a EXCEPT !.refused = @ \/ a.mine]

\* An ask not taken is refused under the stamp it came with.
RefuseAsk(a, stamp) == [a EXCEPT !.refused = @ \/ stamp]

Refused(a) == NoteRefused(Off(a))

RequestDisarm(a) == Off(a)

\* A plausible bug: an ask for other roles is one like any other.
AskedNoSwitch(a, role, stamp) ==
  [a EXCEPT !.mine = stamp, !.roles = role, !.stopped = FALSE,
            !.arming = TRUE, !.phase = "settling", !.trusted = FALSE]

Asked(a, role, stamp) ==
  [a EXCEPT !.mine = stamp, !.switching = @ \/ (a.armed /\ role # a.roles),
            !.roles = role, !.stopped = FALSE, !.arming = TRUE,
            !.phase = "settling", !.trusted = FALSE]

\* The latch is cleared before the line is needed; other roles than the
\* armed ones pass through a disarm.
RequestArm(a, role, stamp, dead) ==
  IF dead \/ a.held THEN a ELSE Asked(a, role, stamp)

-----------------------------------------------------------------------------
(* The line and the link.                                                  *)

LineWanted(a) == a.arming /\ ~a.trusted /\ a.phase = "open"

LineReport(a, trusted) == IF a.arming THEN [a EXCEPT !.trusted = trusted]
                                      ELSE a

\* A bench or an arm that rests on the link stops with it.
LinkNeeded(a, bankArmed) == bankArmed \/ a.armed \/ a.arming

LinkLost(a, bankArmed) == IF LinkNeeded(a, bankArmed) THEN StopFromFarEnd(a)
                                                      ELSE a

\* With the link down it was a probe.
ExchangeUnanswered(a, linkUp, bankArmed) ==
  IF linkUp THEN LinkLost(a, bankArmed) ELSE a

\* A bank armed with no link is stopped when one appears.
LinkFound(a, bankArmed) == IF bankArmed \/ a.armed THEN StopFromFarEnd(a)
                                                   ELSE a

-----------------------------------------------------------------------------
(* The step, once a pass.  It answers with the policy and the act.         *)

\* A plausible bug: only a touch that is dead now disarms, not an outage the
\* poll saw between two steps.
OutageSeen(a) == FALSE
Outage(a) == a.pending /\ a.armed

\* The wait for the line is over: the settle has passed, and the far end's
\* yes came inside the bound or there is nobody to ask.
LineSettled(a, nobody) ==
  nobody \/ (a.trusted /\ a.phase # "past")

Step(a, dead) ==
  LET nobody == a.nobody
      p == TouchPoll([a EXCEPT !.nobody = FALSE], dead)
      q == [p EXCEPT !.pending = FALSE]
      r == [q EXCEPT !.switching = FALSE]
      fit == ~r.stopped /\ ~dead
  IN IF Outage(p)
       THEN [pol |-> Off(q),
             act |-> "DISARM"]
     ELSE IF q.switching /\ q.armed
       THEN [pol |-> [r EXCEPT !.armed = FALSE, !.phase = "settling"],
             act |-> "DISARM"]
     ELSE IF ~fit /\ r.armed
       THEN [pol |-> Off(r), act |-> "DISARM"]
     ELSE IF ~r.arming \/ r.phase = "settling"
       THEN [pol |-> r, act |-> "NONE"]
     ELSE IF ~fit
       THEN [pol |-> Idle(r), act |-> "NONE"]
     ELSE IF LineSettled(r, nobody)
       THEN [pol |-> [r EXCEPT !.arming = FALSE, !.armed = TRUE,
                               !.trusted = FALSE, !.bounded = ~nobody,
                               !.phase = IF nobody THEN "settling" ELSE @],
             act |-> "ARM"]
     ELSE IF r.phase = "past"
       THEN [pol |-> NoteRefused(Idle(r)),
             act |-> "GIVE_UP"]
     ELSE [pol |-> r, act |-> "NONE"]

-----------------------------------------------------------------------------
(* The handshake that writes an arm the step handed out.                   *)

HandshakeOpen(a) == a.armed /\ (a.bounded => a.phase # "past")

\* Past its deadline an arm is a refusal before CLEAR and a stop after it.
HandshakeClosed(a, cleared) ==
  IF ~a.armed THEN a
  ELSE IF cleared THEN StopFromFarEnd(a) ELSE Refused(a)

\* What withdraws an arm whose CLEAR was taken.
WithdrawnNever(a, disarmAsked) == FALSE
Withdrawn(a, disarmAsked) == a.stopped \/ disarmAsked

\* A write of the handshake failed.  Every exchange answered, it is a
\* refusal; one unanswered, the link went quiet under the arm: a stop.
ArmWriteFailed(a, quiet, bankArmed) ==
  IF quiet THEN LinkLost(a, bankArmed) ELSE Refused(a)

\* Whether CLEAR may be written, and after it the frame that arms.  A debt
\* the far end did not take blocks either.
Prepared(a) ==
  IF HandshakeOpen(a) THEN [pol |-> a, go |-> TRUE]
  ELSE [pol |-> HandshakeClosed(a, FALSE), go |-> FALSE]

Cleared(a, disarmAsked, blocked) ==
  IF Withdrawn(a, disarmAsked) \/ blocked
    THEN [pol |-> Refused(a), go |-> FALSE]
  ELSE IF HandshakeOpen(a) THEN [pol |-> a, go |-> TRUE]
  ELSE [pol |-> HandshakeClosed(a, TRUE), go |-> FALSE]

\* The arm is through, and its deadline done with.
Through(a) == [a EXCEPT !.bounded = FALSE, !.phase = "settling"]

\* Endpoints edited under the frame that arms take the arm back.
TakenBack(a) == NoteRefused(RequestDisarm(a))

\* The line asserts that the processor that owns STOP is running its loop.
Heartbeat(a, dead) == ~a.stopped /\ ~dead
=============================================================================
