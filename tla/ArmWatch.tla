------------------------------ MODULE ArmWatch ------------------------------
(***************************************************************************)
(* An arm on its way from the hold that asked for it to a bench whose      *)
(* screens know that it is armed, and the touch losses on that way.        *)
(*                                                                         *)
(* A hold completes on a timer, on a contact whose release may be lost.    *)
(* The render loop answers a loss by dropping the gestures, and a screen   *)
(* that believes the bench disarmed asks for nothing then; so the control  *)
(* task watches an arm until a frame that began with it has seen the touch *)
(* stream whole, and undoes it for a loss of either kind (panel_arm.c,     *)
(* panel_control.c, panel_render.c, panel_frame.c, touch_loss.c).          *)
(*                                                                         *)
(* The stream is TouchStream's with its numbers left out: an item knows    *)
(* whether one before it was dropped, which is what its reader finds.      *)
(* A count that is only compared with an earlier value of itself           *)
(* (s_loss_gen, s_drv_gaps, s_arm_gen) is kept as whether it has moved     *)
(* since.  PanelArm has the arming policy: here an arm may be refused or   *)
(* given up, and a stop may come, for any of its reasons.                  *)
(***************************************************************************)
EXTENDS Naturals, Sequences

CONSTANT QLen     \* TOUCH_Q_LEN

ASSUME QLenAssumption == QLen \in Nat \ {0}

VARIABLES
  tq,        \* s_touch_q
  unread,    \* a notice the render loop has not come to (s_lost_notice_seq)
  pumping,   \* control_pump() runs
  pass,      \* where the control task's pass is
  arm,       \* the arm: asked for, taken by the policy, or in force
  watch,     \* s_arm_watch, and whether s_arm_ack names this arm
  stopping,  \* a stop the task has not let go on yet
  disarm,    \* s_disarm_request
  snap,      \* the snapshot: the bank, and that its arm is this one
  frame,     \* the render loop: where it is, and its locals
  screen,    \* a press on ARM's place, and the command posted
  doomed     \* ghost: a loss was answered with the arm under way, on a bench
             \* believed disarmed

stream == <<tq, unread>>
task == <<pumping, pass>>
bench == <<arm, watch, stopping>>
render == <<frame, screen>>
vars == <<stream, task, bench, disarm, snap, render, doomed>>

Kinds == {"down", "up"}

NoArm == [at |-> "none", moved |-> FALSE, gap |-> FALSE]
Armed == arm.at = "armed"

-----------------------------------------------------------------------------
(* The pump. *)

\* A full queue drops its oldest.
Sent(kind) ==
  LET it == [kind |-> kind, hole |-> FALSE]
  IN  IF Len(tq) < QLen THEN Append(tq, it)
      ELSE [Append(Tail(tq), it) EXCEPT ![1].hole = TRUE]

\* At the top of a pass, and inside any exchange of it.
PumpBegins ==
  /\ ~pumping /\ pass \in {"top", "arming", "commands", "take"}
  /\ pumping' = TRUE
  /\ UNCHANGED <<stream, pass, bench, disarm, snap, render, doomed>>

EventOffered(kind) ==
  /\ pumping
  /\ tq' = Sent(kind)
  /\ UNCHANGED <<unread, task, bench, disarm, snap, render, doomed>>

\* drv_lost(): the driver's stream has a gap, and the render loop is told.  The
\* count is stamped when the policy takes the arm.
GapFound ==
  /\ pumping
  /\ tq' = Sent("lost") /\ unread' = TRUE
  /\ arm' = [arm EXCEPT !.gap = arm.at \in {"wanted", "armed"}]
  /\ UNCHANGED <<task, watch, stopping, disarm, snap, render, doomed>>

\* arming_stop(): an arm that waits is dropped, and what is on is let go when
\* the task is free.
Stops ==
  /\ stopping' = TRUE
  /\ arm' = IF arm.at = "wanted" THEN NoArm ELSE arm

\* arm_watch_lost().  A plausible bug: the pump looks at its own count alone.
WatchLost == arm.moved \/ arm.gap
PumpLostHere == arm.gap
PumpLost == WatchLost

Watched == Armed /\ watch.on
Unwatched == [on |-> FALSE, acked |-> FALSE]

\* The end of a pump: the arm the render side has not seen yet.  A stop may
\* come for any other reason.
PumpEnds ==
  /\ pumping /\ pumping' = FALSE
  /\ pass' = CASE pass = "top" -> "arming" [] pass = "take" -> "taking" [] OTHER -> pass
  /\ \/ /\ Watched /\ PumpLost
        /\ Stops /\ watch' = Unwatched
     \/ /\ ~(Watched /\ PumpLost)
        /\ watch' = IF Watched /\ watch.acked THEN Unwatched ELSE watch
        /\ Stops \/ UNCHANGED <<arm, stopping>>
  /\ UNCHANGED <<stream, disarm, snap, render, doomed>>

-----------------------------------------------------------------------------
(* The rest of the pass. *)

At(p) == pass = p /\ ~pumping

\* A stop or a disarm lets go of the bank, and of an arm that waits.
LetsGo ==
  /\ arm' = IF arm.at = "asked" THEN arm ELSE NoArm
  /\ stopping' = FALSE /\ disarm' = FALSE

\* arm_applied(): the watch begins at the counts the arm was posted and taken
\* under.  A plausible bug: at the counts of the moment.
AppliedAfresh == [NoArm EXCEPT !.at = "armed"]
Applied == [arm EXCEPT !.at = "armed"]

\* service_arming(): let go, or apply the arm that waits, or give it up, or
\* wait on.
Acts ==
  /\ At("arming") /\ pass' = "commands"
  /\ \/ /\ stopping \/ disarm
        /\ LetsGo
        /\ UNCHANGED <<watch, snap, frame>>
     \/ /\ ~stopping /\ ~disarm /\ arm.at = "wanted"
        /\ arm' = Applied /\ watch' = [on |-> TRUE, acked |-> FALSE]
        /\ snap' = [snap EXCEPT !.mine = FALSE]
        /\ frame' = [frame EXCEPT !.mine = FALSE]
        /\ UNCHANGED <<stopping, disarm>>
     \/ /\ ~stopping /\ ~disarm
        /\ arm' \in {arm} \cup {NoArm : w \in {"wanted"} \cap {arm.at}}
        /\ UNCHANGED <<watch, stopping, disarm, snap, frame>>
  /\ UNCHANGED <<stream, pumping, screen, doomed>>

\* An ARM of the queue: a disarm is served first, and a pump of its own run.
ArmComesUp ==
  /\ At("commands") /\ arm.at = "asked"
  /\ pass' = "take" /\ disarm' = FALSE
  /\ UNCHANGED <<stream, pumping, bench, snap, render, doomed>>

\* arm_watch_take_ok(): no gesture dropped since the arm was posted, and no
\* notice still unread.
TakeOk == ~arm.moved /\ ~unread

\* Any other check of drain_commands() may refuse it.
ArmTaken ==
  /\ At("taking") /\ pass' = "publish"
  /\ arm' \in {NoArm} \cup {[arm EXCEPT !.at = "wanted"] : w \in {TRUE} \cap {TakeOk}}
  /\ UNCHANGED <<stream, pumping, watch, stopping, disarm, snap, render, doomed>>

Publishes ==
  /\ At("publish") \/ (At("commands") /\ arm.at # "asked")
  /\ pass' = "watch"
  /\ snap' = [armed |-> Armed, mine |-> Armed]
  /\ UNCHANGED <<stream, pumping, bench, disarm, render, doomed>>

\* arm_watch_service(): the last of a pass.
WatchServed ==
  /\ At("watch") /\ pass' = "top"
  /\ \/ /\ Watched /\ WatchLost
        /\ arm' = NoArm /\ watch' = Unwatched
     \/ /\ ~(Watched /\ WatchLost)
        /\ watch' = IF ~Armed \/ watch.acked THEN Unwatched ELSE watch
        /\ arm' = arm
  /\ UNCHANGED <<stream, pumping, stopping, disarm, snap, render, doomed>>

Task ==
  \/ PumpBegins \/ GapFound \/ PumpEnds
  \/ \E kind \in Kinds : EventOffered(kind)
  \/ Acts \/ ArmComesUp \/ ArmTaken \/ Publishes \/ WatchServed

-----------------------------------------------------------------------------
(* The render loop. *)

In(p) == frame.at = p
NoFrame == [at |-> "start", armed |-> FALSE, mine |-> FALSE, lost |-> FALSE,
            item |-> "none"]

\* What the bench is, before this frame's touch is dispatched.
FrameBegins ==
  /\ In("start")
  /\ frame' = [NoFrame EXCEPT !.at = "first", !.armed = snap.armed, !.mine = snap.mine]
  /\ UNCHANGED <<stream, task, bench, disarm, snap, screen, doomed>>

\* The gestures are dropped, and with them an arm posted and not yet flushed;
\* a finger on a bench that reads armed is a finger on DISARM.
Cancelled ==
  [press |-> FALSE,
   post |-> IF screen.post = "disarm" \/ (frame.armed /\ screen.press)
            THEN "disarm" ELSE "none"]

\* touch_stream_broke(), up to the count of it.
Broke(kind) ==
  /\ screen' = Cancelled
  /\ arm' = [arm EXCEPT !.moved = arm.at # "none"]
  /\ doomed' = (doomed \/ (~frame.armed /\ arm.at # "none"))
  /\ frame' = [frame EXCEPT !.item = kind, !.lost = TRUE]

Touched(s, kind) ==
  CASE kind = "down" /\ frame.armed -> [s EXCEPT !.post = "disarm"]
    [] kind = "down" /\ ~frame.armed -> [s EXCEPT !.press = TRUE]
    [] kind = "up" -> [s EXCEPT !.press = FALSE]
    [] OTHER -> s

\* A drain: an item that shows a loss drops the gestures first.
ItemTaken ==
  /\ frame.at \in {"first", "second"} /\ frame.item = "none" /\ tq # <<>>
  /\ tq' = Tail(tq)
  /\ unread' = \E i \in DOMAIN tq' : tq'[i].kind = "lost"
  /\ \/ /\ Head(tq).hole \/ Head(tq).kind = "lost"
        /\ Broke(Head(tq).kind)
     \/ /\ ~Head(tq).hole /\ Head(tq).kind # "lost"
        /\ screen' = Touched(screen, Head(tq).kind)
        /\ UNCHANGED <<arm, frame, doomed>>
  /\ UNCHANGED <<task, watch, stopping, disarm, snap>>

\* What that posted is flushed at once, and the event that showed it goes on.
BreakEnds ==
  /\ frame.item # "none"
  /\ disarm' = (disarm \/ screen.post = "disarm")
  /\ screen' = Touched([screen EXCEPT !.post = "none"], frame.item)
  /\ frame' = [frame EXCEPT !.item = "none"]
  /\ UNCHANGED <<stream, task, bench, snap, doomed>>

\* A drain ends on an empty queue.
DrainEnds ==
  /\ frame.at \in {"first", "second"} /\ frame.item = "none" /\ tq = <<>>
  /\ frame' = [frame EXCEPT !.at = IF In("first") THEN "flush" ELSE "tick"]
  /\ UNCHANGED <<stream, task, bench, disarm, snap, screen, doomed>>

\* The commands are flushed, with the count of the losses answered so far and
\* the last number taken.
Flushed ==
  /\ In("flush")
  /\ frame' = [frame EXCEPT !.at = "second"]
  /\ IF screen.post = "arm"
     THEN arm' = [NoArm EXCEPT !.at = "asked"] /\ doomed' = FALSE
     ELSE UNCHANGED <<arm, doomed>>
  /\ disarm' = (disarm \/ screen.post = "disarm")
  /\ screen' = [screen EXCEPT !.post = "none"]
  /\ UNCHANGED <<stream, task, watch, stopping, snap>>

\* The screens tick: a hold may complete.  A bound: one arm is on its way at a
\* time.
HoldCompletes == screen.press /\ ~frame.armed /\ arm.at = "none"

\* And the arm this frame began with is acknowledged, if the frame began armed
\* and lost nothing.
FrameEnds ==
  /\ In("tick")
  /\ frame' = NoFrame
  /\ \/ screen' = screen
     \/ /\ HoldCompletes
        /\ screen' = [press |-> FALSE,
                      post |-> IF screen.post = "disarm" THEN "disarm" ELSE "arm"]
  /\ watch' = [watch EXCEPT !.acked =
                 IF frame.armed /\ ~frame.lost THEN watch.on /\ frame.mine ELSE @]
  /\ UNCHANGED <<stream, task, arm, stopping, disarm, snap, doomed>>

Render ==
  \/ FrameBegins \/ ItemTaken \/ BreakEnds \/ DrainEnds \/ Flushed \/ FrameEnds

Init ==
  /\ tq = <<>> /\ unread = FALSE
  /\ pumping = FALSE /\ pass = "top"
  /\ arm = NoArm /\ watch = Unwatched /\ stopping = FALSE /\ disarm = FALSE
  /\ snap = [armed |-> FALSE, mine |-> FALSE]
  /\ frame = NoFrame /\ screen = [press |-> FALSE, post |-> "none"]
  /\ doomed = FALSE

Next == Task \/ Render

Spec == Init /\ [][Next]_vars

-----------------------------------------------------------------------------
(* Properties. *)

Items == [kind : Kinds \cup {"lost"}, hole : BOOLEAN]

TypeOK ==
  /\ tq \in Seq(Items) /\ Len(tq) <= QLen
  /\ unread \in BOOLEAN /\ pumping \in BOOLEAN
  /\ pass \in {"top", "arming", "commands", "take", "taking", "publish", "watch"}
  /\ arm \in [at : {"none", "asked", "wanted", "armed"}, moved : BOOLEAN, gap : BOOLEAN]
  /\ watch \in [on : BOOLEAN, acked : BOOLEAN]
  /\ stopping \in BOOLEAN /\ disarm \in BOOLEAN /\ doomed \in BOOLEAN
  /\ snap \in [armed : BOOLEAN, mine : BOOLEAN]
  /\ frame \in [at : {"start", "first", "flush", "second", "tick"}, armed : BOOLEAN,
                mine : BOOLEAN, lost : BOOLEAN, item : Kinds \cup {"lost", "none"}]
  /\ screen \in [press : BOOLEAN, post : {"none", "arm", "disarm"}]

\* An arm handed over, whose watch has ended, did not outlive a loss that the
\* screens answered as on a disarmed bench: none since the arm was posted
\* (arm_watch_service()).
HandedOverIsWhole == Armed /\ ~watch.on /\ ~stopping => ~doomed

\* And one that has is stopped by the end of the next pump, inside whatever
\* exchange the pass waits for, and not at the end of the pass alone
\* (control_pump()).
UndoneInThePump == [][PumpEnds /\ Armed /\ doomed => stopping']_vars
=============================================================================
