----------------------------- MODULE TouchStream -----------------------------
(***************************************************************************)
(* Touch on its way to the screens, and the mark of a STOP that is applied *)
(* ahead of them.                                                          *)
(*                                                                         *)
(* The control task's pump (panel_control.c) takes the driver's events and *)
(* numbers them into s_touch_q, which drops its oldest when it is full; the*)
(* render loop (panel_frame.c, panel_render.c) drains it twice a frame.    *)
(* A loss is a gap in the numbers (touch_loss.c), which wrap, or a notice  *)
(* the pump offers for a gap in the driver's own stream.  A press on a STOP*)
(* that is drawn is applied by the pump at once; the router latches the    *)
(* same press, and the mark keeps it from being applied a second time.     *)
(*                                                                         *)
(* The driver's queue is the same one a step earlier: what it loses is a   *)
(* gap before any event.                                                   *)
(***************************************************************************)
EXTENDS Integers, Sequences

CONSTANTS
  M,           \* numbers of the stream: 2^32 in the code
  QLen         \* TOUCH_Q_LEN

ASSUME NumbersAssumption ==
  /\ M \in Nat /\ M % 2 = 0 /\ QLen \in Nat \ {0} /\ 2 * (QLen + 2) <= M

VARIABLES
  tq,        \* s_touch_q
  tseq,      \* s_tq_seq, and s_tq_published
  ctl,       \* where the control task is: its pump, or the STOP handed over
  mark,      \* s_stop_counted, 0 for none
  request,   \* s_stop_request
  stopLive,  \* s_stop_live
  frame,     \* where the render loop is, and its drain's locals
  rx,        \* s_tq_rx.next
  latch,     \* the router's stop_latched
  band,      \* the screen on show carries the band
  astray,    \* ghost: what the mark is of went to no screen with a band, or to
             \* the control task as one STOP with another press
  dropped    \* ghost: gestures were dropped since the last event

stream == <<tq, tseq>>
stops == <<mark, request, stopLive>>
render == <<frame, rx, latch, band, astray>>
vars == <<stream, ctl, stops, render, dropped>>

Kinds == {"stop", "other"}

\* A STOP on its way as a latch or a request: one the pump applied at its
\* press, or one that it owes, which the pump's hit test missed.
Unset == "no"
Latches == {Unset, "applied", "owed"}

NoItem == [seq |-> 0, kind |-> "none", owed |-> FALSE, hole |-> FALSE]
Items == [seq : 0 .. M - 1, kind : Kinds \cup {"lost", "none"},
          owed : BOOLEAN, hole : BOOLEAN]

-----------------------------------------------------------------------------
(* touch_loss.c: numbers modulo M, and more than half of them behind is not *)
(* a gap.                                                                   *)

Half == M \div 2
Minus(x, y) == (x - y) % M

Missed(next, seq) == IF Minus(seq, next) >= Half THEN 0 ELSE Minus(seq, next)

\* A plausible bug: the tail taken for one number ahead of the last that came.
TailMissedEarly(next, published) ==
  LET missed == Minus(published + 1, next - 1)
  IN  IF missed >= Half THEN 0 ELSE missed
TailMissed(next, published) ==
  LET missed == Minus(published, next - 1)
  IN  IF missed >= Half THEN 0 ELSE missed

\* A plausible bug: any mark but this number's own is taken to be still to come.
MarkKeepsAny(cur, isEvent) == mark # 0 /\ (Minus(mark, cur) = 0 => isEvent)
MarkKeeps(cur, isEvent) ==
  LET ahead == Minus(mark, cur)
  IN  mark # 0 /\ IF ahead = 0 THEN isEvent ELSE ahead < Half

-----------------------------------------------------------------------------
(* The pump. *)

\* touch_q_put(): a full queue drops its oldest.  hole is a ghost: what came
\* before this item in the queue was dropped.
Sent(kind, owed) ==
  LET it == [seq |-> (tseq + 1) % M, kind |-> kind, owed |-> owed, hole |-> FALSE]
  IN  IF Len(tq) < QLen THEN Append(tq, it)
      ELSE [Append(Tail(tq), it) EXCEPT ![1].hole = TRUE]

\* A bound: the render loop falls less than half the numbers behind, and fewer
\* are offered in one drain.
Room(n) ==
  /\ Minus(tseq, rx - 1) + n < Half
  /\ frame.at \in {"drain", "broke"} => Minus(tseq, frame.pub) + n < Half

Offered(kind, owed) == tq' = Sent(kind, owed) /\ tseq' = (tseq + 1) % M

Free == [at |-> "free", owed |-> FALSE, missed |-> FALSE]

\* drv_lost(): the driver's stream has a gap, before its next event or at its
\* end, and the render loop is told ahead of the event.
GapTold ==
  /\ ctl.at = "free" /\ Room(1)
  /\ Offered("lost", FALSE)
  /\ UNCHANGED <<ctl, stops, render, dropped>>

\* A STOP applied now answers every press that came before it.
Answered(w) == IF w = "owed" THEN "applied" ELSE w
AllAnswered ==
  /\ latch' = Answered(latch) /\ request' = Answered(request)
  /\ tq' = [i \in DOMAIN tq |-> [tq[i] EXCEPT !.owed = FALSE]]
  /\ frame' = [frame EXCEPT !.item.owed = FALSE]

\* The number an event will take.
NextNumber == (tseq + 1) % M

\* The hit test: a press on a STOP that is drawn is applied here, and marked
\* with the number it will take, before it is offered.
StopHit ==
  /\ ctl.at = "free" /\ stopLive /\ Room(1)
  /\ AllAnswered
  /\ mark' = NextNumber /\ astray' = FALSE
  /\ ctl' = [Free EXCEPT !.at = "offer"]
  /\ UNCHANGED <<tseq, stopLive, rx, band, dropped>>

\* A plausible bug: a press in the rectangle is marked whatever is drawn there.
MissMarksAny == NextNumber
MissMarks == mark

\* And one on a STOP that is not: the press goes on to the screens unmarked.
StopMissed ==
  /\ ctl.at = "free" /\ ~stopLive /\ Room(1)
  /\ mark' = MissMarks
  /\ ctl' = [Free EXCEPT !.at = "offer", !.missed = TRUE]
  /\ UNCHANGED <<stream, request, stopLive, render, dropped>>

StopOffered ==
  /\ ctl.at = "offer"
  /\ Offered("stop", ctl.missed)
  /\ ctl' = Free
  /\ UNCHANGED <<stops, render, dropped>>

OtherOffered ==
  /\ ctl.at = "free" /\ Room(1)
  /\ Offered("other", FALSE)
  /\ UNCHANGED <<ctl, stops, render, dropped>>

\* The STOP of the router, handed over: the request first, and then its mark.
\* Without a mark the stop is applied.
RequestTaken ==
  /\ ctl.at = "free" /\ request # Unset
  /\ ctl' = [Free EXCEPT !.at = "mark", !.owed = (request = "owed")]
  /\ request' = Unset
  /\ UNCHANGED <<stream, mark, stopLive, render, dropped>>

MarkTaken ==
  /\ ctl.at = "mark"
  /\ ctl' = Free /\ mark' = 0 /\ astray' = FALSE
  /\ IF mark = 0 THEN AllAnswered ELSE UNCHANGED <<latch, request, tq, frame>>
  /\ UNCHANGED <<tseq, stopLive, rx, band, dropped>>

Control ==
  \/ GapTold \/ StopHit \/ StopMissed \/ StopOffered \/ OtherOffered
  \/ RequestTaken \/ MarkTaken

-----------------------------------------------------------------------------
(* The render loop. *)

In(p) == frame.at = p
NoFrame == [at |-> "first", pub |-> 0, second |-> FALSE, item |-> NoItem]

\* A newer latch is a newer press's.
Joined(w, new) == IF "owed" \in {w, new} THEN "owed" ELSE IF new = Unset THEN w ELSE new

\* History: one STOP was applied and the one that joins it was not, so a mark
\* that takes both is no longer that of a single press.
Joins(w, new) == astray' = (astray \/ (mark # 0 /\ w = "applied" /\ new = "owed"))

\* History: the press the mark is of reaches a screen without the band.
Strays(it) == astray' = (astray \/ (mark # 0 /\ it.kind = "stop" /\ it.seq = mark))

\* The last number published is read before the drain.
DrainBegins ==
  /\ frame.at \in {"first", "second"}
  /\ frame' = [NoFrame EXCEPT !.at = "drain", !.pub = tseq, !.second = In("second")]
  /\ UNCHANGED <<stream, ctl, stops, rx, latch, band, astray, dropped>>

\* An event reaches the router, and may change the screen on show.
Shows == band' \in BOOLEAN

Dispatched(it) ==
  /\ dropped' = FALSE
  /\ \/ /\ it.kind = "stop" /\ band
        /\ LET new == IF it.owed THEN "owed" ELSE "applied" IN
             latch' = Joined(latch, new) /\ Joins(latch, new)
        /\ band' = band
     \/ /\ ~(it.kind = "stop" /\ band)
        /\ latch' = latch /\ Strays(it)
        /\ Shows

\* A plausible bug: an event after a gap is dispatched, and then the screens told.
ShowsLossLate(it) == it.kind = "lost"
ShowsLoss(it) == Missed(rx, it.seq) > 0 \/ it.kind = "lost"

\* touch_stream_broke(): the gestures are dropped, and a STOP in the router is
\* handed over ahead of the look at the mark.
Broke(it) ==
  /\ dropped' = TRUE
  /\ request' = Joined(request, latch) /\ latch' = Unset /\ Joins(request, latch)
  /\ frame' = [frame EXCEPT !.at = "broke", !.item = it]

ItemTaken ==
  /\ In("drain") /\ tq # <<>>
  /\ tq' = Tail(tq)
  /\ rx' = (Head(tq).seq + 1) % M
  /\ \/ /\ ShowsLoss(Head(tq))
        /\ Broke(Head(tq))
        /\ UNCHANGED band
     \/ /\ ~ShowsLoss(Head(tq))
        /\ Dispatched(Head(tq))
        /\ UNCHANGED <<request, frame>>
  /\ UNCHANGED <<tseq, ctl, mark, stopLive>>

\* Then the mark, unless a request is raised or the marked press is still to
\* come; and the event, if it was one that showed the loss.
BreakEnds ==
  /\ In("broke")
  /\ mark' = IF request = Unset /\ ~MarkKeeps(frame.item.seq, frame.item.kind \in Kinds)
             THEN 0 ELSE mark
  /\ IF frame.item.kind \in Kinds
     THEN Dispatched(frame.item)
     ELSE UNCHANGED <<latch, band, astray, dropped>>
  /\ frame' = [frame EXCEPT !.at = "drain", !.item = NoItem]
  /\ UNCHANGED <<stream, ctl, request, stopLive, rx>>

\* The queue is empty: a loss at its end shows against the number published.
DrainEnds ==
  /\ In("drain") /\ tq = <<>>
  /\ \/ /\ TailMissed(rx, frame.pub) = 0
        /\ frame' = [NoFrame EXCEPT !.at = IF frame.second THEN "tick" ELSE "middle"]
        /\ UNCHANGED <<request, rx, latch, astray, dropped>>
     \/ /\ TailMissed(rx, frame.pub) > 0
        /\ rx' = (frame.pub + 1) % M
        /\ Broke([NoItem EXCEPT !.seq = frame.pub, !.kind = "lost"])
  /\ UNCHANGED <<stream, ctl, mark, stopLive, band>>

\* Between the drains: whether a STOP is drawn is told, and the router's STOP
\* is handed over.  A tick of the router may change the screen.
FrameMiddle ==
  /\ In("middle")
  /\ frame' = [NoFrame EXCEPT !.at = "second"]
  /\ stopLive' = band
  /\ request' = Joined(request, latch) /\ latch' = Unset /\ Joins(request, latch)
  /\ UNCHANGED <<stream, ctl, mark, rx, band, dropped>>

FrameTick ==
  /\ In("tick")
  /\ frame' = NoFrame
  /\ Shows
  /\ UNCHANGED <<stream, ctl, stops, rx, latch, astray, dropped>>

Render ==
  \/ DrainBegins \/ ItemTaken \/ BreakEnds \/ DrainEnds \/ FrameMiddle \/ FrameTick

\* The splash is on show, without a band.
Init ==
  /\ tq = <<>> /\ tseq = 0 /\ ctl = Free
  /\ mark = 0 /\ request = Unset /\ stopLive = FALSE
  /\ frame = NoFrame /\ rx = 1 /\ latch = Unset /\ band = FALSE /\ astray = FALSE
  /\ dropped = FALSE

Next == Control \/ Render

Spec == Init /\ [][Next]_vars

-----------------------------------------------------------------------------
(* Properties. *)

TypeOK ==
  /\ tq \in Seq(Items) /\ Len(tq) <= QLen
  /\ {tseq, mark, rx} \subseteq 0 .. M - 1
  /\ {latch, request} \subseteq Latches
  /\ frame.item \in Items

\* No event reaches the screens across a loss they have not been told of: when
\* an item behind a hole is taken, the gestures are dropped first
\* (drain_touch(), touch_seq_take()), wherever the numbers wrap.
ToldBeforeDispatch == [][ItemTaken /\ Head(tq).hole => dropped']_vars

\* And gestures are dropped for a loss alone, never for a number that is only
\* late, repeated or published after the drain began (touch_seq_tail()).
DropsForALoss ==
  [][In("drain") /\ frame'.at = "broke" =>
       tq # <<>> /\ (Head(tq).hole \/ Head(tq).kind = "lost")]_vars

\* A mark consumed is the mark of that press: the STOP of a press the pump's hit
\* test missed is applied when the router hands it over, unless a STOP was
\* applied since (service_arming()'s backstop): what the comment on the mark
\* says.  A screen that takes the band away breaks it.
NoStopSwallowed == [][MarkTaken /\ ctl.owed => mark = 0]_vars

\* The same under every loss and every change of the screen: a mark takes no
\* other press, unless its own went astray: that one came to a screen without
\* the band, or its STOP was handed over as one with the other's
\* (service_arming(), stop_mark_keeps()).
NoStopSwallowedUnlessAstray == [][MarkTaken /\ ctl.owed => mark = 0 \/ astray]_vars
=============================================================================
