------------------------------ MODULE PanelArm ------------------------------
(***************************************************************************)
(* The panel's control task around its arming policy, the screens that ask *)
(* it and the far end it arms (firmware/panel/main/panel_arm.c,            *)
(* panel_control.c, panel_link.c, panel_poll.c).                           *)
(*                                                                         *)
(* The task is one loop.  A pass is a walk of `at` from "sleep" back to    *)
(* "sleep"; it stands still only inside an exchange, where control_pump()  *)
(* runs and everything else in the system moves.  What a pass knew before  *)
(* an exchange can be false after it: the guards that read again, and the  *)
(* ones that do not, are what this module is about.                        *)
(*                                                                         *)
(* The far end is what SafetyGate says of it, without its clocks: it arms  *)
(* on a frame only while it trusts the line and its latch is clear, and    *)
(* losing the line or the link takes it down and latches it.  The wire     *)
(* keeps frames in order and may hold one past the wait for its answer.    *)
(*                                                                         *)
(* Time passes in ticks of HEARTBEAT_MAX_GAP_MS.                           *)
(***************************************************************************)
EXTENDS ArmingPolicy, Sequences

CONSTANTS Gap,        \* ticks without an edge before the far end's monitor trips
          Silence,    \* ticks without a frame before the far end fails safe
          MaxWire,    \* frames the wire holds
          Reasons,    \* what a pump may find: see Finds
          Mishaps     \* what goes wrong around the task: see Happens

ASSUME TimeAssumption == Gap \in Nat \ {0} /\ Silence \in Nat \ {0}
ASSUME WireAssumption == MaxWire \in Nat \ {0}

\* What control_pump() finds: nothing; a DOWN in STOP; a touch loss under an
\* arm the screens have not seen; the render loop standing still; an error
\* of the supply or a meter.
Findings == {"nothing", "press", "loss", "stall", "error"}

ASSUME ReasonsAssumption == Reasons \subseteq Findings /\ "nothing" \in Reasons

\* Around it: the command queue fills behind an ARM; touch stops answering;
\* the far end doubts the line or restarts; the wire loses a frame.
Happens == {"evicted", "touch", "doubted", "dropped"}

ASSUME MishapsAssumption == Mishaps \subseteq Happens

VARIABLES
  pol,       \* s_arm, the arming policy
  dead,      \* touch has not answered for ARMING_TOUCH_DEAD_MS
  bank,      \* the roles this end's bank is armed for (s_out)
  asked,     \* s_disarm_request
  inhibit,   \* s_disarm_since: 0 not timing, else 1 + its age in ticks
  resumed,   \* a reset has released the STOP and owes its CLEAR
  cmd,       \* the ARM in the command queue, if any
  screen,    \* the screen's value gate: what it shows and waits for
  at,        \* where the control task is
  reply,     \* the exchange: "idle", "waiting", or its end
  up,        \* link_up
  quiet,     \* s_link_quiet
  wire,      \* frames sent and not arrived, oldest first
  far,       \* the IOmcu
  beating,   \* the edges the last pump made or withheld
  gap,       \* ticks without an edge
  silent     \* ticks without a frame at the far end

vars == <<pol, dead, bank, asked, inhibit, resumed, cmd, screen, at,
          reply, up, quiet, wire, far, beating, gap, silent>>

task == <<at, reply, wire>>
rest == <<pol, bank, asked, inhibit, resumed, cmd, screen, up, quiet,
          dead, beating, gap, far, silent>>
link == <<up, quiet>>
disarm == <<asked, inhibit>>
ui == <<cmd, screen>>
line == <<dead, beating, gap, far, silent>>

\* DISARM_INHIBIT_MS
Inhibit == 2 * Gap

NoCmd == [role |-> NoRole, current |-> FALSE, overtaken |-> FALSE]

\* History: a disarm was asked for after this ARM.
Overtaken(c) == IF c = NoCmd THEN c ELSE [c EXCEPT !.overtaken = TRUE]

Kinds == {"clear", "arm", "keep", "off", "page", "ask"}
Answers == {"ack", "nack", "data", "yes", "no"}

\* Where the task stands while an exchange waits, and where it goes on.
Waits == {"served", "resetCleared", "lineAsked", "stepOff", "prepared",
          "cleared", "armed", "takenBack", "drainServed", "benchRead",
          "written", "statusRead", "probed", "watchOff"}
Places == Waits \cup
  {"sleep", "serve", "reset", "line", "handed", "drain", "entry",
   "poll", "publish", "watch"}

Roles0 == Roles \cup {NoRole}

TypeOK ==
  /\ pol \in Policies
  /\ dead \in BOOLEAN /\ bank \in Roles0 /\ asked \in BOOLEAN
  /\ inhibit \in 0..(Inhibit + 1) /\ resumed \in BOOLEAN
  /\ cmd \in [role : Roles0, current : BOOLEAN, overtaken : BOOLEAN]
  /\ screen \in [waits : Roles0, sees : Roles0]
  /\ at \in Places /\ reply \in {"idle", "waiting", "lost"} \cup Answers
  /\ up \in BOOLEAN /\ quiet \in BOOLEAN
  /\ wire \in Seq([kind : Kinds, role : Roles0, cur : BOOLEAN])
  /\ Len(wire) <= MaxWire
  /\ far \in [trust : BOOLEAN, latched : BOOLEAN, armed : Roles0]
  /\ beating \in BOOLEAN /\ gap \in 0..Gap /\ silent \in 0..Silence

\* control_setup(): disarmed, no stop, the link down.
Init ==
  /\ pol = Fresh /\ dead = FALSE /\ bank = NoRole
  /\ asked = FALSE /\ inhibit = 0 /\ resumed = FALSE
  /\ cmd = NoCmd
  /\ screen = [waits |-> NoRole, sees |-> NoRole]
  /\ at = "sleep" /\ reply = "idle" /\ up = FALSE /\ quiet = FALSE
  /\ wire = <<>>
  /\ far = [trust |-> FALSE, latched |-> TRUE, armed |-> NoRole]
  /\ beating = FALSE /\ gap = Gap /\ silent = Silence

BankArmed == bank # NoRole

\* The bank here takes the policy's roles, one set at a time.
ArmHere == bank' = pol.roles
\* And lets go of them for a stop from the far end or the link.
StopHere == bank' = NoRole
Waiting == screen.waits # NoRole

\* The screen waits for nothing any more, so no stamp is one it waits on.
Forgets(s) == [s EXCEPT !.waits = NoRole]
Unstamped(a) == [a EXCEPT !.mine = FALSE, !.refused = FALSE]

-----------------------------------------------------------------------------
(* Exchanges.                                                              *)

\* exchange(): with the link quiet nothing is sent and nothing answers.  A
\* frame a full wire does not take is one nobody answers.
Exchange(kind, role, next) ==
  /\ at' = next
  /\ reply' = IF quiet THEN "lost" ELSE "waiting"
  /\ wire' = IF quiet \/ Len(wire) = MaxWire THEN wire
             ELSE Append(wire, [kind |-> kind, role |-> role, cur |-> TRUE])

\* The frame that arms: the roles the policy asked for.
ControlArm(next) == Exchange("arm", pol.roles, next)

GoOn(next) == at' = next /\ reply' = "idle" /\ UNCHANGED wire

\* Where a pass goes when the place after this one has nothing to do.
ToReset == IF pol.held \/ resumed THEN "reset" ELSE "line"
ToDrain == IF cmd = NoCmd THEN "poll" ELSE "drain"

\* The exchange the task waits in has ended.
Ended(place) == at = place /\ reply # "waiting"

\* exchange_unanswered(): a link that goes quiet stops what needs it where
\* the exchange ended; with the link down it was a probe.
Unanswered ==
  /\ reply = "waiting"
  /\ reply' = "lost"
  /\ wire' = [i \in DOMAIN wire |-> [wire[i] EXCEPT !.cur = FALSE]]
  /\ pol' = ExchangeUnanswered(pol, up, BankArmed)
  /\ IF up THEN StopHere /\ quiet' = TRUE ELSE UNCHANGED <<bank, quiet>>
  /\ UNCHANGED <<disarm, resumed, ui, at, up, line>>

-----------------------------------------------------------------------------
(* The pump: touch, STOP and the heartbeat.                                *)

\* What the pump can find now.
Finds(why) ==
  /\ why \in Reasons
  /\ why = "loss" => BankArmed /\ screen.sees # bank
  /\ why = "error" => LinkNeeded(pol, BankArmed)

\* The policy after the stop it calls for and the look at touch.
Found(why, stillDead) ==
  TouchPoll(IF why = "press" THEN StopPressed(pol)
            ELSE IF why = "loss" THEN Unstamped(Stop(pol))
            ELSE IF why = "stall" THEN Stop(pol)
            ELSE pol, stillDead)

\* What else a pump leaves: an error posts a disarm, the render side drops
\* its gestures at a loss, and the line beats or does not.
Leaves(why, stillDead) ==
  /\ dead' = stillDead
  /\ asked' = (asked \/ why = "error")
  /\ screen' = IF why = "loss" THEN Forgets(screen) ELSE screen
  /\ beating' = (Heartbeat(Found(why, stillDead), stillDead) /\ ~asked')
  /\ UNCHANGED <<bank, inhibit, resumed, link, gap, far, silent>>

Pump(why) ==
  /\ Finds(why)
  /\ \E stillDead \in {FALSE, dead} :
       Leaves(why, stillDead) /\ pol' = Found(why, stillDead)
  /\ cmd' = IF why = "error" THEN Overtaken(cmd) ELSE cmd

\* At the top of a pass, and again and again while an exchange waits.
PassPump(why) == at = "sleep" /\ Pump(why) /\ GoOn("serve")
WaitPump(why) == reply = "waiting" /\ Pump(why) /\ UNCHANGED task

-----------------------------------------------------------------------------
(* service_arming().                                                       *)

\* The router's STOP for a press the pump missed.
Backstop ==
  /\ at = "serve" /\ "press" \in Reasons
  /\ pol' = StopPressed(pol)
  /\ UNCHANGED <<dead, bank, disarm, resumed, ui, task, link, line>>

\* disarm_here() past the policy: the bank here, and the exchange that tells
\* the far end.
DisarmFar(sent, unsent) ==
  /\ bank' = NoRole
  /\ IF up THEN Exchange("off", NoRole, sent) ELSE GoOn(unsent)

\* The request has stood for as long as the line may be held down for it.
Expired == inhibit > Inhibit

\* service_disarm(), its request posted.  With no link nobody is told.
ServeDisarm(sent, unsent) ==
  /\ asked
  /\ pol' = RequestDisarm(pol)
  /\ DisarmFar(sent, unsent)
  /\ IF ~up /\ Expired THEN asked' = FALSE /\ inhibit' = 0
     ELSE asked' = asked /\ inhibit' = IF inhibit = 0 THEN 1 ELSE inhibit
  /\ UNCHANGED <<resumed, ui, link, line>>

\* A plausible bug: the request is dropped with the exchange that tells the
\* far end, answered or not.
ToldAnyway == TRUE

\* The request stands until the far end has taken it or has failed safe.
Told == reply = "ack" \/ Expired
DisarmServed(place, next) ==
  /\ Ended(place)
  /\ IF Told THEN asked' = FALSE /\ inhibit' = 0 ELSE UNCHANGED disarm
  /\ GoOn(next)
  /\ UNCHANGED <<pol, bank, resumed, ui, link, line>>

Serve ==
  \/ at = "serve" /\ ServeDisarm("served", ToReset)
  \/ /\ at = "serve" /\ ~asked
     /\ GoOn(ToReset)
     /\ UNCHANGED <<pol, bank, disarm, resumed, ui, link, line>>
  \/ DisarmServed("served", ToReset)

\* stop_reset_service(), as far as it moves the policy and the far end.  A
\* hold of STOP past the floor, on a bench that reads off, releases it; the
\* pass after writes CLEAR, unless another STOP stands by then.
MayResume ==
  /\ pol.held /\ ~BankArmed /\ gap = Gap
  /\ up => far.armed = NoRole

Reset ==
  \/ /\ at = "reset" /\ MayResume
     /\ pol' = Unstamped(StopRelease(pol))
     /\ cmd' = [cmd EXCEPT !.current = FALSE]
     /\ screen' = Forgets(screen)
     /\ resumed' = TRUE
     /\ GoOn("line")
     /\ UNCHANGED <<bank, disarm, link, line>>
  \/ /\ at = "reset"
     /\ resumed' = FALSE
     /\ IF resumed /\ ~pol.held /\ up
          THEN Exchange("clear", NoRole, "resetCleared")
          ELSE GoOn("line")
     /\ UNCHANGED <<pol, bank, disarm, ui, link, line>>
  \/ /\ Ended("resetCleared")
     /\ GoOn("line")
     /\ UNCHANGED <<pol, bank, disarm, resumed, ui, link, line>>

\* arming_step() and the act it asks for.
Stepped(a) ==
  LET s == Step(a, dead) IN
    /\ pol' = s.pol
    /\ bank' = IF s.act = "DISARM" THEN NoRole ELSE bank
    /\ IF s.act = "DISARM" /\ up THEN Exchange("off", NoRole, "stepOff")
       ELSE GoOn(IF s.act = "ARM" THEN "handed" ELSE ToDrain)

\* The question an arm past its settle asks of the far end comes first.  Not
\* answered, the link has gone under the arm.
ArmingStep ==
  /\ \/ /\ at = "line"
        /\ IF up /\ LineWanted(pol)
             THEN Exchange("ask", NoRole, "lineAsked") /\ UNCHANGED <<pol, bank>>
             ELSE Stepped([pol EXCEPT !.nobody = ~up])
     \/ /\ Ended("lineAsked")
        /\ Stepped(IF reply = "lost" THEN LinkLost(pol, BankArmed)
                   ELSE LineReport(pol, reply = "yes"))
  /\ UNCHANGED <<disarm, resumed, ui, link, line>>

\* Exchanges whose answer moves nothing here: these writes of ARM = 0 and the
\* pages read after a poll.
Unheeded ==
  /\ \/ Ended("stepOff") /\ GoOn(ToDrain)
     \/ Ended("takenBack") /\ GoOn(ToDrain)
     \/ Ended("statusRead") /\ GoOn("publish")
     \/ Ended("watchOff") /\ GoOn("sleep")
  /\ UNCHANGED rest

-----------------------------------------------------------------------------
(* The handshake of an arm the step handed out.                            *)

\* arm_write_failed()
WriteFailed ==
  /\ pol' = ArmWriteFailed(pol, quiet, BankArmed)
  /\ IF quiet THEN StopHere ELSE UNCHANGED bank
  /\ GoOn(ToDrain)

\* A programming port taken since, which no armed bench lets happen, gives
\* the arm up; the surfaces' centre and their rate can take an exchange before
\* the first write.
Handed ==
  /\ at = "handed"
  /\ \/ ~BankArmed /\ pol' = Refused(pol) /\ GoOn(ToDrain)
     \/ UNCHANGED pol /\ GoOn("prepared")
     \/ UNCHANGED pol /\ up /\ Exchange("page", NoRole, "prepared")
  /\ UNCHANGED <<bank, disarm, resumed, ui, link, line>>

\* With no link the bank here is armed and nothing is written.
HandshakePrepared ==
  /\ Ended("prepared")
  /\ \/ /\ ~up
        /\ ArmHere /\ UNCHANGED pol /\ GoOn(ToDrain)
     \/ up /\ WriteFailed
     \/ /\ up
        /\ pol' = Prepared(pol).pol /\ UNCHANGED bank
        /\ IF Prepared(pol).go THEN Exchange("clear", NoRole, "cleared")
                               ELSE GoOn(ToDrain)
  /\ UNCHANGED <<disarm, resumed, ui, link, line>>

HandshakeCleared ==
  /\ Ended("cleared")
  /\ \/ reply # "ack" /\ WriteFailed
     \/ /\ reply = "ack"
        /\ \E blocked \in BOOLEAN :
             LET c == Cleared(pol, asked, blocked) IN
               /\ pol' = c.pol
               /\ IF c.go THEN ControlArm("armed")
                          ELSE GoOn(ToDrain)
        /\ UNCHANGED bank
  /\ UNCHANGED <<disarm, resumed, ui, link, line>>

\* Acknowledged, the bank here is armed as well, whatever the wait brought:
\* the next step disarms it.
HandshakeArmed ==
  /\ Ended("armed")
  /\ \/ reply # "ack" /\ WriteFailed
     \/ /\ reply = "ack"
        /\ ArmHere /\ pol' = Through(pol) /\ GoOn(ToDrain)
     \/ /\ reply = "ack"
        /\ pol' = TakenBack(pol) /\ bank' = NoRole
        /\ Exchange("off", NoRole, "takenBack")
  /\ UNCHANGED <<disarm, resumed, ui, link, line>>

-----------------------------------------------------------------------------
(* drain_commands(): the queued ARM.                                       *)

Drain ==
  \/ at = "drain" /\ ServeDisarm("drainServed", "entry")
  \/ at = "drain" /\ ~asked /\ GoOn("entry") /\ UNCHANGED rest
  \/ DisarmServed("drainServed", "entry")

\* A plausible bug: the let-go count is checked and the stop count is not.
StaleStopLost(c, a) == ~c.current
Stale(c, a) == ~c.current \/ "command" \notin a.knows

\* Not taken: asked before a stop, a let-go or a reset, while a STOP is
\* held, or with a port or the radio busy.  Each is refused.
EntryRefused ==
  /\ at = "entry"
  /\ pol' = RefuseAsk(pol, Waiting)
  /\ cmd' = NoCmd
  /\ GoOn("poll")
  /\ UNCHANGED <<bank, disarm, resumed, screen, link, line>>

\* A plausible bug: the entry relies on its own look at STOP, and the policy
\* does not look at what the pump found since.
ApplyArmHeld(p, stillDead) ==
  IF stillDead THEN p ELSE Asked(p, cmd.role, Waiting)

\* apply_motor_cmd() and the servo's like it: the ARM, under its stamp.
ApplyArm(p, stillDead) == RequestArm(p, cmd.role, Waiting, stillDead)

\* Taken: the pump looks once more, a touch loss it finds refuses, and
\* anything else it finds is not asked about again.
EntryTaken(why) ==
  /\ at = "entry" /\ ~Stale(cmd, pol) /\ ~pol.held
  /\ Finds(why)
  /\ \E stillDead \in {FALSE, dead}, lost \in BOOLEAN :
       /\ why = "loss" => lost
       /\ Leaves(why, stillDead)
       /\ pol' = LET p == Found(why, stillDead) IN
                   IF lost THEN RefuseAsk(p, Waiting /\ why # "loss")
                   ELSE ApplyArm(p, stillDead)
  /\ cmd' = NoCmd
  /\ GoOn("poll")

-----------------------------------------------------------------------------
(* poll_far_end(), publish_snapshot() and arm_watch_service().             *)

\* The poll is done.  Answered, the status page and others may follow, and a
\* link they find quiet waits for the next poll.
PollAnswered ==
  \/ GoOn("publish")
  \/ up' /\ Exchange("page", NoRole, "statusRead")

\* A link gone quiet is taken down, and an armed bench or a waiting arm stops
\* with it.
PollQuiet ==
  /\ quiet
  /\ up' = FALSE /\ quiet' = FALSE
  /\ pol' = LinkLost(pol, BankArmed) /\ bank' = NoRole
  /\ GoOn("publish")

\* Due or not; a link quiet already is asked nothing.
Poll ==
  /\ at = "poll"
  /\ \/ PollQuiet
     \/ ~quiet /\ GoOn("publish") /\ UNCHANGED <<pol, bank, link>>
     \/ /\ ~quiet
        /\ Exchange("page", NoRole, IF up THEN "benchRead" ELSE "probed")
        /\ UNCHANGED <<pol, bank, link>>
  /\ UNCHANGED <<disarm, resumed, ui, line>>

\* ARM is written again at every poll while this end's bank is armed and
\* nothing asks it down; a debt to the far end holds it for a poll.
Keeps == BankArmed /\ ~pol.stopped /\ ~asked

\* A plausible bug: a poll with nothing to keep armed writes no ARM at all.
PollWritesKept == IF Keeps THEN {"keep", "off"} ELSE {"page"}
PollWrites == IF Keeps THEN {"keep", "off"} ELSE {"off"}

BenchRead ==
  /\ Ended("benchRead")
  /\ \/ PollQuiet
     \/ /\ reply = "data"
        /\ \E kind \in PollWrites :
             Exchange(kind, IF kind = "keep" THEN bank ELSE NoRole, "written")
        /\ UNCHANGED <<pol, bank, link>>
  /\ UNCHANGED <<disarm, resumed, ui, line>>

\* ARM refused: the far end is not driving, and this end stops.
PollWritten ==
  /\ Ended("written")
  /\ \/ PollQuiet
     \/ /\ ~quiet
        /\ IF reply = "nack" THEN pol' = StopFromFarEnd(pol) /\ bank' = NoRole
                             ELSE UNCHANGED <<pol, bank>>
        /\ UNCHANGED link
        /\ PollAnswered
  /\ UNCHANGED <<disarm, resumed, ui, line>>

\* A far end answers the probe: a bank armed without one stops.
Probed ==
  /\ Ended("probed")
  /\ IF reply = "data"
       THEN up' = TRUE /\ pol' = LinkFound(pol, BankArmed) /\ bank' = NoRole
       ELSE UNCHANGED <<up, pol, bank>>
  /\ PollAnswered
  /\ UNCHANGED <<quiet, disarm, resumed, ui, line>>

\* The snapshot is out; a frame reads it before the next, or none does.
PublishedTo(seen) ==
  /\ GoOn(IF BankArmed /\ seen # bank THEN "watch" ELSE "sleep")
  /\ UNCHANGED <<bank, disarm, resumed, cmd, link, line>>

Unread ==
  /\ at = "publish"
  /\ UNCHANGED <<pol, screen>>
  /\ PublishedTo(screen.sees)

\* A stop the screen had not seen, a refusal of the ask it waits on and the
\* bench armed for it end its wait.
Drawn ==
  /\ at = "publish"
  /\ LET waits == /\ Waiting /\ "screen" \in pol.knows
                  /\ ~pol.refused /\ bank # screen.waits
         drawn == [pol EXCEPT !.knows = @ \cup {"screen"}]
     IN /\ screen' = [waits |-> IF waits THEN screen.waits ELSE NoRole,
                      sees |-> bank]
        /\ pol' = IF waits THEN drawn ELSE Unstamped(drawn)
  /\ PublishedTo(bank)

\* A touch loss under an arm the screens have not seen undoes it.
Watch ==
  /\ at = "watch"
  /\ \/ GoOn("sleep") /\ UNCHANGED <<pol, bank, screen>>
     \/ /\ screen' = Forgets(screen)
        /\ pol' = Unstamped(RequestDisarm(pol))
        /\ DisarmFar("watchOff", "sleep")
  /\ UNCHANGED <<disarm, resumed, cmd, link, line>>

-----------------------------------------------------------------------------
(* The screens (ui_value_gate.h), on their own task.                       *)

\* A hold on ARM completes: the ask carries a new stamp and the stop count
\* the screen drew.  A stop ends every hold and the next one takes UI_HOLD_S,
\* far more than a tick: under a stop it knows of, a screen asks only once the
\* line has been down for as long as the monitor waits.
PostArm(role) ==
  /\ ~dead /\ ~Waiting /\ screen.sees # role /\ cmd = NoCmd
  /\ pol.stopped /\ "screen" \in pol.knows => gap = Gap
  /\ cmd' = [role |-> role, current |-> TRUE, overtaken |-> FALSE]
  /\ screen' = [screen EXCEPT !.waits = role]
  /\ pol' = [pol EXCEPT !.knows = IF "screen" \in @ THEN @ \cup {"command"}
                                                  ELSE @ \ {"command"}]
  /\ UNCHANGED <<bank, disarm, resumed, task, link, line>>

\* A screen's DISARM is a flag besides its queue entry, and an ARM still in
\* the queue is out of date.
PostDisarm ==
  /\ Waiting \/ screen.sees # NoRole
  /\ asked' = TRUE
  /\ cmd' = Overtaken([cmd EXCEPT !.current = FALSE])
  /\ screen' = Forgets(screen)
  /\ pol' = Unstamped(pol)
  /\ UNCHANGED <<bank, inhibit, resumed, task, link, line>>

\* The queue, full, drops its oldest entry: nobody is told that it was an
\* ARM.
Evicted ==
  /\ "evicted" \in Mishaps /\ cmd # NoCmd
  /\ cmd' = NoCmd
  /\ UNCHANGED <<pol, bank, disarm, resumed, screen, task, link, line>>

-----------------------------------------------------------------------------
(* The wire, the far end and time.                                         *)

Down(f) == [f EXCEPT !.latched = TRUE, !.armed = NoRole]

\* A different non-zero ARM is refused while one stands; one the gate does
\* not trust is refused and latches.
Refuses(f, m) == m.kind \in {"arm", "keep"}
                 /\ (f.armed \notin {NoRole, m.role} \/ ~f.trust \/ f.latched)
After(f, m) ==
  CASE m.kind = "clear" -> [f EXCEPT !.latched = FALSE]
    [] m.kind = "off" -> [f EXCEPT !.armed = NoRole]
    [] m.kind \in {"arm", "keep"} ->
         IF ~Refuses(f, m) THEN [f EXCEPT !.armed = m.role]
         ELSE IF f.armed = NoRole THEN [f EXCEPT !.latched = TRUE] ELSE f
    [] OTHER -> f

AnswerTo(f, m) ==
  CASE m.kind = "page" -> "data"
    [] m.kind = "ask" -> IF f.trust THEN "yes" ELSE "no"
    [] OTHER -> IF Refuses(f, m) THEN "nack" ELSE "ack"

\* The oldest frame arrives; the answer to the frame waited for may be lost.
FarTakes ==
  /\ wire # <<>>
  /\ far' = After(far, Head(wire))
  /\ silent' = 0
  /\ reply' \in IF Head(wire).cur THEN {AnswerTo(far, Head(wire)), reply}
                                  ELSE {reply}
  /\ wire' = Tail(wire)
  /\ UNCHANGED <<pol, bank, disarm, resumed, ui, at, link, dead, beating, gap>>

\* The oldest frame is lost.
WireDrops ==
  /\ "dropped" \in Mishaps /\ wire # <<>>
  /\ wire' = Tail(wire)
  /\ UNCHANGED <<pol, bank, disarm, resumed, ui, at, reply, link, line>>

\* heartbeat_mon_edge(): a run of good edges is trusted again.
FarTrusts ==
  /\ beating /\ ~far.trust
  /\ far' = [far EXCEPT !.trust = TRUE]
  /\ UNCHANGED <<pol, bank, disarm, resumed, ui, task, link, dead, beating,
                 gap, silent>>

\* A doubted edge, or a restart of the IOmcu.
FarDoubts ==
  /\ "doubted" \in Mishaps
  /\ far' = Down([far EXCEPT !.trust = FALSE])
  /\ UNCHANGED <<pol, bank, disarm, resumed, ui, task, link, dead, beating,
                 gap, silent>>

Upto(n, bound) == IF n < bound THEN n + 1 ELSE bound

\* The arm's deadlines run while one waits and through its handshake.
Timed == pol.arming \/ at \in {"handed", "prepared", "cleared"}

\* A tick.  No tick passes without a pump: the line is what the last one
\* would make of it.
Tick ==
  /\ beating = (Heartbeat(pol, dead) /\ ~asked)
  /\ gap' = IF beating THEN 0 ELSE Upto(gap, Gap)
  /\ silent' = Upto(silent, Silence)
  /\ LET heard == [far EXCEPT !.trust = @ /\ gap' # Gap]
         lost == far.trust # heard.trust
         cut == silent # Silence /\ silent' = Silence
     IN far' = IF lost \/ cut THEN Down(heard) ELSE heard
  /\ dead' \in {dead, dead \/ "touch" \in Mishaps}
  /\ inhibit' = IF inhibit = 0 THEN 0 ELSE Upto(inhibit, Inhibit + 1)
  /\ \E p \in Later(pol.phase) :
       pol' = IF Timed THEN [pol EXCEPT !.phase = p] ELSE pol
  /\ UNCHANGED <<bank, asked, resumed, ui, task, link, beating>>

-----------------------------------------------------------------------------
\* The control task's own steps, the pump inside a wait apart.
Control ==
  \/ \E why \in Reasons : PassPump(why) \/ EntryTaken(why)
  \/ Serve \/ Reset \/ ArmingStep \/ Unheeded
  \/ Handed \/ HandshakePrepared \/ HandshakeCleared \/ HandshakeArmed
  \/ Drain \/ EntryRefused \/ Poll \/ BenchRead \/ PollWritten
  \/ Probed \/ Unread \/ Drawn \/ Watch

Around ==
  \/ Backstop \/ Unanswered
  \/ \E why \in Reasons : WaitPump(why)
  \/ PostDisarm \/ Evicted \/ \E role \in Roles : PostArm(role)
  \/ FarTakes \/ WireDrops \/ FarTrusts \/ FarDoubts \/ Tick

Next == Control \/ Around

Spec == Init /\ [][Next]_vars

-----------------------------------------------------------------------------
(* Fairness.  The control task runs, an exchange ends at its timeout, the  *)
(* pump in it runs and time passes (TaskRuns).  An ask needs besides that  *)
(* the render loop does not miss every snapshot and that a waiting arm's   *)
(* deadlines pass (Shown); an orphaned bank, that polls come due and that  *)
(* the wire loses no more frames or answers from some point on (Heals).    *)

Current == \E i \in DOMAIN wire : wire[i].cur
Loses == \/ WireDrops
         \/ Unanswered /\ Current
         \/ FarTakes /\ Head(wire).cur /\ reply' = reply
Polls == Poll /\ reply' = "waiting"
Ages == Tick /\ pol'.phase # pol.phase

TaskRuns == /\ WF_vars(Control) /\ WF_vars(Unanswered)
            /\ WF_vars(WaitPump("nothing")) /\ SF_vars(Tick)

RunSpec == Spec /\ TaskRuns

Shown == SF_vars(Ages) /\ SF_vars(Drawn)
Heals == SF_vars(Polls) /\ WF_vars(FarTakes) /\ <>[][~Loses]_vars

-----------------------------------------------------------------------------
(* Properties.                                                             *)

\* Between two passes the bank and the policy hold the same roles armed,
\* unless a switch of roles is owed (arming_step()'s switching).
RolesAgree ==
  at = "sleep" /\ BankArmed /\ pol.armed => pol.roles = bank \/ pol.switching

\* A frame that arms or keeps armed is put on the wire only with no stop
\* latched and no disarm asked for, however many waits passed since the act
\* that led to it (service_arming(), poll_bench()).
DrivesOnlyWhenWanted ==
  [][\A kind \in {"arm", "keep"} :
       at' # at /\ wire' # wire /\ wire'[Len(wire')].kind = kind
         => ~pol'.stopped /\ ~asked']_vars

\* A disarm request is taken back only once the far end is down: the frame
\* that says so was acknowledged, or the line was held down long enough for
\* the monitor there (service_disarm(), DISARM_INHIBIT_MS).
RequestStandsUntilDown ==
  [][asked /\ ~asked' => far.armed = NoRole /\ far'.armed = NoRole]_vars

\* An outage of touch under an armed bench is owed to it until the bank is
\* down, also when touch answers again before the step (disarm_pending).
OutageDisarms ==
  [][pol.pending /\ pol.armed /\ BankArmed /\ BankArmed'
       => pol'.pending \/ ~pol'.armed]_vars

Takes == at = "entry" /\ at' = "poll" /\ pol'.arming /\ ~pol.arming

\* An ARM asked for before a stop arms nothing after it: what the comment on
\* drain_commands() says.  A stall of the render loop breaks it.
NothingBeforeAStop == [][Takes => "command" \in pol'.knows]_vars

\* An ARM asked for before a stop is not taken by the drain, whoever made the
\* stop and however many waits lie between; and of the stops that the pump of
\* its own entry makes, only the one for a stalled render loop is overtaken
\* (drain_commands(), s_stops).
NothingBeforeAStopButAStall ==
  [][Takes => /\ "command" \in pol.knows
              /\ "command" \in pol'.knows \/ EntryTaken("stall")]_vars

\* An ARM queued before a disarm arms nothing after it (s_lets_go).
LetGoIsNotPutBack == [][Takes => ~cmd.overtaken]_vars

\* An ARM that is queued or waits in the policy is answered, armed, refused
\* or stopped, unless a disarm overtakes it.
AskAnswered == Shown =>
  Waiting /\ (cmd # NoCmd \/ pol.arming) ~> ~Waiting \/ asked

\* A far end left armed by a bench that is not comes down, or the bench arms.
NobodyLeftDriving == Heals =>
  (far.armed # NoRole /\ bank = NoRole) ~> (far.armed = NoRole \/ bank # NoRole)
=============================================================================
