----------------------------- MODULE StopReset ------------------------------
(***************************************************************************)
(* The reset of a latched STOP (shared/safety/stop_latch.c), with what it  *)
(* runs between: the operator's finger and the touch controller that       *)
(* reports it, the hold the render loop times (shared/ui/stop_hold.c), the *)
(* reads and the CLEAR of the control task (panel_stop.c), the IOmcu's     *)
(* monitor of the line and what is on at either end.                       *)
(*                                                                         *)
(* The machine looks at counts of presses and breaks; between two looks    *)
(* lie the rest of the control task's pass, or one exchange of its own.    *)
(* Time passes in ticks of STOP_LATCH_FRESH_MS, and an age counts up to    *)
(* the bound it is compared with.                                          *)
(***************************************************************************)
EXTENDS Integers

CONSTANTS Fresh,     \* STOP_LATCH_FRESH_MS
          HoldSeen,  \* STOP_LATCH_HOLD_SEEN_MS
          UiHold,    \* UI_HOLD_S
          Floor,     \* STOP_LATCH_FLOOR_MS
          Confirm,   \* STOP_LATCH_CONFIRM_MS
          Timeout,   \* LINK_HOST_TIMEOUT_MS
          Served     \* the pages the IOmcu serves, of Pages

Pages == {"status", "supply", "prog"}

ASSUME TimeAssumption ==
  /\ {Fresh, HoldSeen, UiHold, Floor, Confirm, Timeout} \subseteq Nat \ {0}
  /\ HoldSeen <= UiHold
ASSUME PagesAssumption == "status" \in Served /\ Served \subseteq Pages

VARIABLES
  held,      \* arming_held(): the STOP stands and the heartbeat is withheld
  latch,     \* s_stop_latch
  at,        \* the control task: "idle", reading a page, writing CLEAR
  waited,    \* ticks of the exchange
  passLink,  \* s_reset_link_up
  link,      \* the link answers
  pressed,   \* a STOP the machine has not looked at
  broke,     \* a break it has not, and whether its contact went before the hold ended
  since,     \* ticks since the latest STOP or break
  glass,     \* the finger on STOP; the controller silent, and for how long
  ui,        \* the render loop: what it has not taken, and its hold
  request,   \* s_stop_reset_request, its age and the time its hold spans
  on,        \* the pages that read on at the IOmcu
  local,     \* this end is on, or an ON is on its way
  proof      \* history: the last hold asked for was one contact, after the last STOP;
             \* a break that cut it was hidden by a later one

vars == <<held, latch, at, waited, passLink, link, pressed, broke, since, glass,
          ui, request, on, local, proof>>
machine == <<latch, at, waited, passLink>>
touch == <<pressed, broke, since, glass, ui, request, proof>>
ends == <<link, on, local>>

Resetting(s) == s \in {"HOLD_DONE", "ASKING", "CONFIRMED"}
Stands(s) == s = "LATCHED" \/ Resetting(s)
States == {"UNLATCHED", "LATCHED", "HOLD_DONE", "ASKING", "CONFIRMED",
           "RESUMED", "CLEAR_WRITTEN"}

TypeOK ==
  /\ held \in BOOLEAN /\ link \in BOOLEAN /\ passLink \in BOOLEAN
  /\ latch \in [state : States, hold : 0..Fresh, seen : 0..Floor,
                ask : 0..(Confirm + 1), fresh : BOOLEAN, off : BOOLEAN]
  /\ at \in Served \cup {"idle", "clear"} /\ waited \in 0..Timeout
  /\ pressed \in BOOLEAN /\ broke \in [new : BOOLEAN, early : BOOLEAN]
  /\ since \in 0..HoldSeen
  /\ glass \in [finger : BOOLEAN, silent : BOOLEAN, age : 0..Fresh]
  /\ ui \in [event : {"none", "press", "hold", "up"}, cancel : BOOLEAN,
             holding : BOOLEAN, age : 0..UiHold]
  /\ request \in [on : BOOLEAN, age : 0..Fresh, span : 0..HoldSeen]
  /\ on \subseteq Served /\ local \in BOOLEAN
  /\ proof \in [good : BOOLEAN, silent : BOOLEAN, hidden : BOOLEAN]

NoRequest == [on |-> FALSE, age |-> 0, span |-> 0]
NoHold == [event |-> "none", cancel |-> FALSE, holding |-> FALSE, age |-> 0]

\* stop_reset_init(): nothing latched.
Init ==
  /\ held = FALSE /\ passLink = FALSE /\ link \in BOOLEAN
  /\ latch = [state |-> "UNLATCHED", hold |-> 0, seen |-> 0, ask |-> 0,
              fresh |-> FALSE, off |-> FALSE]
  /\ at = "idle" /\ waited = 0
  /\ pressed = FALSE /\ broke = [new |-> FALSE, early |-> FALSE]
  /\ since = HoldSeen
  /\ glass = [finger |-> FALSE, silent |-> FALSE, age |-> 0]
  /\ ui = NoHold /\ request = NoRequest
  /\ on = {} /\ local = FALSE
  /\ proof = [good |-> FALSE, silent |-> FALSE, hidden |-> FALSE]

-----------------------------------------------------------------------------
(* The finger and the controller.                                          *)

\* A DOWN in STOP: the pump applies it at once, and the render loop learns
\* later that it fell on a stop already latched, or latched one.  A request
\* whose hold is older spans nothing any more.
Press ==
  /\ ~glass.finger /\ ~glass.silent
  /\ glass' = [glass EXCEPT !.finger = TRUE]
  /\ held' = TRUE /\ pressed' = TRUE /\ since' = 0
  /\ ui' = [ui EXCEPT !.event = IF held THEN "hold" ELSE "press"]
  /\ request' = [request EXCEPT !.span = 0]
  /\ proof' = [proof EXCEPT !.good = FALSE, !.hidden = FALSE]
  /\ UNCHANGED <<machine, broke, ends>>

\* The finger leaves; nobody is told while the controller is silent.
Lift ==
  /\ glass.finger
  /\ glass' = [glass EXCEPT !.finger = FALSE]
  /\ ui' = IF glass.silent THEN ui ELSE [ui EXCEPT !.event = "up"]
  /\ UNCHANGED <<held, machine, pressed, broke, since, request, proof, ends>>

FallsSilent ==
  /\ ~glass.silent
  /\ glass' = [glass EXCEPT !.silent = TRUE, !.age = 0]
  /\ UNCHANGED <<held, machine, pressed, broke, since, ui, request, proof, ends>>

\* It answers again, with what is on the glass.
Answers ==
  /\ glass.silent
  /\ glass' = [glass EXCEPT !.silent = FALSE, !.age = 0]
  /\ ui' = IF glass.finger THEN ui ELSE [ui EXCEPT !.event = "up"]
  /\ proof' = [proof EXCEPT !.silent = FALSE]
  /\ UNCHANGED <<held, machine, pressed, broke, since, request, ends>>

-----------------------------------------------------------------------------
(* The render loop.                                                        *)

\* stop_hold_press(), stop_hold_release(), stop_hold_cancel(): what the frame
\* finds, the touch first.
HoldNow ==
  LET h == CASE ui.event = "hold" -> [ui EXCEPT !.holding = TRUE, !.age = 0]
             [] ui.event \in {"press", "up"} -> [ui EXCEPT !.holding = FALSE, !.age = 0]
             [] OTHER -> ui
  IN [h EXCEPT !.event = "none", !.cancel = FALSE,
               !.holding = @ /\ ~ui.cancel, !.age = IF ui.cancel THEN 0 ELSE @]

\* The finger is on STOP as far as anybody was told: a silence shorter than
\* Fresh is not a break, whatever the finger does in it.
OnContact == glass.finger \/ glass.silent

\* A frame: the hold that has run its time asks for the reset, stamped now,
\* and spans the time since the latest STOP or break.
UiFrame ==
  /\ ui.event # "none" \/ ui.cancel \/ (ui.holding /\ ui.age = UiHold)
  /\ LET h == HoldNow
         fires == h.holding /\ h.age = UiHold /\ held
     IN /\ ui' = IF fires THEN [h EXCEPT !.holding = FALSE, !.age = 0] ELSE h
        /\ request' = IF fires THEN [on |-> TRUE, age |-> 0, span |-> since] ELSE request
        /\ proof' = IF fires THEN [good |-> since = HoldSeen /\ OnContact,
                                   silent |-> glass.age > 0, hidden |-> FALSE]
                    ELSE proof
  /\ UNCHANGED <<held, machine, pressed, broke, since, glass, ends>>

-----------------------------------------------------------------------------
(* The machine.                                                            *)

Sooner == broke.new /\ broke.early /\ Resetting(latch.state)

\* Mutant: only the presses are followed.
FollowedPresses(l) == IF pressed THEN [l EXCEPT !.state = "LATCHED", !.seen = 0] ELSE l

\* follow(): a STOP from any state, a break only while it resets.
Followed(l) ==
  IF pressed THEN [l EXCEPT !.state = "LATCHED", !.seen = 0]
  ELSE IF Sooner THEN [l EXCEPT !.state = "LATCHED"] ELSE l

Back == Sooner \/ (pressed /\ latch.state # "LATCHED")

Looked == pressed' = FALSE /\ broke' = [new |-> FALSE, early |-> FALSE]

\* Mutant: any request is taken.
TakeAnyHold(l) ==
  IF request.on THEN [l EXCEPT !.state = "HOLD_DONE", !.hold = request.age, !.off = FALSE,
                               !.fresh = FALSE]
  ELSE l

\* take_hold(): the hold spans the latest STOP and the latest break.
TakeHold(l) ==
  IF request.on /\ request.span = HoldSeen
  THEN [l EXCEPT !.state = "HOLD_DONE", !.hold = request.age, !.off = FALSE,
                 !.fresh = FALSE]
  ELSE l

\* What a reading finds before its first page: this end, and a link to ask.
Found(l, isOff) == [l EXCEPT !.off = isOff, !.fresh = TRUE]

\* Mutant: the reset does not wait for a break in the hold's last moment.
HeldLongEnoughAtOnce(l) == TRUE

HeldLongEnough(l) == l.hold = Fresh

Asking(l) == IF l.state = "HOLD_DONE" THEN [l EXCEPT !.state = "ASKING"] ELSE l

\* Mutant: each reading starts the bound again.
AskAnew(l) ==
  IF local \/ ~passLink'
  THEN latch' = Asking([Found(l, ~local) EXCEPT !.ask = 0]) /\ at' = "idle"
  ELSE latch' = [Found(l, FALSE) EXCEPT !.ask = 0] /\ at' = "status"

\* ask(): a reading begins with l, and goes on page by page with the link up.
Ask(l) ==
  IF local \/ ~passLink'
  THEN latch' = Asking(Found(l, ~local)) /\ at' = "idle"
  ELSE latch' = Found(l, FALSE) /\ at' = "status"

\* STOP_LATCH_FLOOR_MS after the STOP was seen.
Floored(l) == l.seen = Floor

\* What stop_latch_run() does with the machine when it asks nothing.
Moved(l) ==
  CASE l.state = "UNLATCHED" -> IF held THEN [l EXCEPT !.state = "LATCHED", !.seen = 0] ELSE l
    [] l.state = "LATCHED" -> IF held THEN TakeHold(l) ELSE [l EXCEPT !.state = "UNLATCHED"]
    [] l.state = "ASKING" -> IF l.ask > Confirm THEN [l EXCEPT !.state = "LATCHED"]
                             ELSE [l EXCEPT !.state = "CONFIRMED"]
    [] l.state = "CONFIRMED" -> [l EXCEPT !.state = "RESUMED"]
    [] l.state \in {"RESUMED", "CLEAR_WRITTEN"} -> [l EXCEPT !.state = "UNLATCHED"]
    [] OTHER -> l

\* A reading is due: the first of a reset, or one STOP_LATCH_ASK_MS old.
FirstAsk(l) == l.state = "HOLD_DONE" /\ HeldLongEnough(l)
NextAsk(l) == /\ l.state = "ASKING" /\ l.ask <= Confirm
              /\ ~(l.off /\ Floored(l)) /\ ~l.fresh
Stays(l) == /\ l.state = "ASKING" /\ l.ask <= Confirm
            /\ ~(l.off /\ Floored(l)) /\ l.fresh

WritesClear(l) == l.state = "RESUMED" /\ link

\* stop_reset_service() in a pass: the inputs read now, one transition.
Pass ==
  /\ at = "idle"
  /\ passLink' = link /\ waited' = 0
  /\ request' = NoRequest
  /\ Looked
  /\ LET l == Followed(latch)
     IN /\ CASE FirstAsk(l) -> Ask([l EXCEPT !.ask = 0])
             [] NextAsk(l) -> Ask(l)
             [] Stays(l) -> latch' = l /\ at' = "idle"
             [] WritesClear(l) -> latch' = l /\ at' = "clear"
             [] OTHER -> latch' = Moved(l) /\ at' = "idle"
        /\ held' = (held /\ l.state # "CONFIRMED")
  /\ UNCHANGED <<since, glass, ui, proof, ends>>

\* Mutant: the ports' own page is not asked.
AfterPageNoPorts(p) == IF p = "status" /\ "supply" \in Served THEN "supply" ELSE "idle"

\* The page read after p, of those served.
AfterPage(p) ==
  IF p = "status" /\ "supply" \in Served THEN "supply"
  ELSE IF p # "prog" /\ "prog" \in Served THEN "prog" ELSE "idle"

\* far_read(): the page read off, and nothing sent the machine back meanwhile.
ReadOff(answered) == answered /\ at \notin on /\ ~Back

\* The end of one read: the inputs again, then the next page or the verdict.
ReadEnds ==
  /\ at \in Pages /\ waited' = 0
  /\ Looked
  /\ \E answered \in {link, FALSE} :
       LET l == Followed(latch)
           off == ReadOff(answered)
       IN IF off /\ AfterPage(at) # "idle"
          THEN latch' = l /\ at' = AfterPage(at)
          ELSE latch' = Asking([l EXCEPT !.off = off /\ ~local]) /\ at' = "idle"
  /\ UNCHANGED <<held, passLink, since, glass, ui, request, proof, ends>>

\* The CLEAR's exchange is over, answered or not.
ClearEnds ==
  /\ at = "clear" /\ at' = "idle" /\ waited' = 0
  /\ latch' = [latch EXCEPT !.state = "CLEAR_WRITTEN"]
  /\ UNCHANGED <<held, passLink, touch, ends>>

\* stop_latch_error(), of error_act(): an error sends a reset not yet resumed back.
Error ==
  /\ Resetting(latch.state)
  /\ latch' = [latch EXCEPT !.state = "LATCHED"]
  /\ UNCHANGED <<held, at, waited, passLink, touch, ends>>

-----------------------------------------------------------------------------
(* What the outputs, the link and the clocks do.                           *)

\* An ON is refused while the STOP stands.
SwitchOn ==
  /\ ~held
  /\ \/ local' = TRUE /\ UNCHANGED on
     \/ link /\ \E p \in Served : on' = on \cup {p} /\ UNCHANGED local
  /\ UNCHANGED <<held, machine, touch, link>>

SwitchOff ==
  /\ \/ local /\ local' = FALSE /\ UNCHANGED on
     \/ \E p \in on : on' = on \ {p} /\ UNCHANGED local
  /\ UNCHANGED <<held, machine, touch, link>>

\* The IOmcu fails safe on its own silence before this end calls the link down.
LinkLost ==
  /\ link /\ link' = FALSE /\ on' = {}
  /\ UNCHANGED <<held, machine, touch, local>>

LinkFound ==
  /\ ~link /\ link' = TRUE
  /\ UNCHANGED <<held, machine, touch, on, local>>

Up(n, bound) == IF n < bound THEN n + 1 ELSE n

\* Mutant: a break is not told to the machine.
CountsNone(g) == FALSE

\* stop_touch_watch(): the reports have stopped for STOP_LATCH_FRESH_MS.
Counts(g) == g.silent /\ glass.age < Fresh /\ g.age = Fresh

Tick ==
  /\ at # "idle" => waited < Timeout
  /\ waited' = IF at = "idle" THEN 0 ELSE waited + 1
  /\ glass' = [glass EXCEPT !.age = IF glass.silent THEN Up(@, Fresh) ELSE @]
  /\ latch' = [latch EXCEPT !.hold = Up(@, Fresh), !.seen = Up(@, Floor),
                            !.ask = Up(@, Confirm + 1), !.fresh = FALSE]
  /\ LET breaks == Counts(glass')
     IN /\ broke' = IF breaks THEN [new |-> TRUE, early |-> latch'.hold < Fresh] ELSE broke
        /\ since' = IF breaks THEN 0 ELSE Up(since, HoldSeen)
        /\ request' = [request EXCEPT !.age = Up(@, Fresh),
                                      !.span = IF breaks THEN 0 ELSE @]
        /\ ui' = [ui EXCEPT !.cancel = @ \/ breaks,
                            !.age = IF ui.holding THEN Up(@, UiHold) ELSE @]
  /\ proof' = [proof EXCEPT !.good = @ /\ ~(proof.silent /\ glass'.age = Fresh),
                            !.hidden = @ \/ (Sooner /\ ~broke'.early)]
  /\ UNCHANGED <<held, at, passLink, pressed, link, on, local>>

-----------------------------------------------------------------------------
Next ==
  \/ Press \/ Lift \/ FallsSilent \/ Answers \/ UiFrame
  \/ Pass \/ ReadEnds \/ ClearEnds \/ Error
  \/ SwitchOn \/ SwitchOff \/ LinkLost \/ LinkFound \/ Tick

Spec == Init /\ [][Next]_vars

\* The control task runs, an exchange ends, and time passes.
FairSpec == /\ Spec /\ WF_vars(Pass) /\ WF_vars(ReadEnds) /\ WF_vars(ClearEnds)
            /\ WF_vars(Tick)

-----------------------------------------------------------------------------
(* Properties.                                                             *)

Resumes == held /\ ~held'

\* The heartbeat goes again only after a hold on one contact: what stop_latch.h
\* says ("a hold of STOP on one unbroken contact asks for the reset").  Two
\* breaks between two looks break it.
ResumeRestsOnAHold == [][Resumes => proof.good /\ ~proof.silent]_vars

\* The heartbeat goes again only after a hold on one contact, asked for after
\* the latest STOP, wherever STOPs and breaks of the contact fall among the
\* passes and the exchanges of the reset, and no silence begun before the
\* hold's end is still to be counted; only a break whose time a later one took
\* away before the machine looked at either goes unseen (follow(),
\* touch_broke_ms).
ResumeRestsOnAHoldUnlessHidden ==
  [][Resumes => proof.hidden \/ (proof.good /\ ~proof.silent)]_vars

\* And with everything off, at this end and at an IOmcu the link reaches: no
\* reading older than the latest STOP, cut short or half answered counts.
ResumeFindsAllOff == [][Resumes => ~local /\ (link => on = {})]_vars

\* The machine and the arming policy agree on whether the STOP stands, but
\* for a STOP the machine has not looked at yet: the band's alert and the
\* alerts it hides rest on it.
MachineFollowsPolicy == held <=> (pressed \/ Stands(latch.state))

\* A reset under way goes through, goes back or is overtaken by another STOP,
\* whatever its reads bring: STOP_LATCH_CONFIRM_MS bounds the whole of it.
ResetEnds == Resetting(latch.state) ~> ~Resetting(latch.state) \/ pressed
=============================================================================
