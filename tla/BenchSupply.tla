----------------------------- MODULE BenchSupply -----------------------------
(***************************************************************************)
(* The bench supply at the IOmcu: its page, which the panel writes and a   *)
(* programming port may hold (supply_page.c), the driver below it (PdMini) *)
(* and what iomcu_sense.c does between them: the wiring taken, saved and   *)
(* attached.  At the other end of the UART is a module that keeps its      *)
(* output whatever becomes of its pins, can be switched by its own button, *)
(* and may not hear or not be heard.                                       *)
(***************************************************************************)
EXTENDS PdMini

CONSTANTS
  Mishaps,   \* what may go wrong or happen by itself
  Upsets     \* bound: how often

Wirings == {"none", "module"}
Happenings == {"lost", "junk", "press", "restart", "held"}
ASSUME MishapsAssumption == Mishaps \subseteq Happenings /\ Upsets \in Nat

VARIABLES
  page,      \* the page: what is asked, and what holds an OFF back
  rig,       \* wiring: in force, kept in flash, waiting; driver attached
  beat,      \* heartbeat trusted and link alive (safety_gate_supply_ok())
  drv,       \* the driver, PdMini's
  line,      \* what the read under way comes to
  module,    \* its output, an argument not yet obeyed, which one means on,
             \* and whether that one is an ON's, and no hand came between
  upsets,    \* the mishaps still to come
  ours,      \* history: the output is on by a frame of ours
  since,     \* history: how far the state read a change waits for has got,
             \* "on" once told and the output has come on by no ON of ours
  wish       \* history: the last word on the output, as it stands

vars == <<page, rig, beat, drv, line, module, upsets, ours, since,
          wish>>

Replies == {"on", "off", "ok", "junk"}

Mishap(m) == m \in Mishaps /\ upsets > 0 /\ upsets' = upsets - 1

\* supply_page_init().
Blank == [out |-> FALSE, held |-> FALSE, offHeld |-> FALSE,
          sticky |-> FALSE, offWait |-> FALSE, wasOn |-> FALSE,
          wire |-> "idle", ask |-> FALSE, next |-> "none"]

\* A start: the wiring as kept, the module on or off.
Init ==
  /\ page = Blank /\ beat = FALSE /\ drv = Attached
  /\ rig = [wiring |-> "module", kept |-> "module", unsaved |-> FALSE,
            open |-> TRUE]
  /\ line = "quiet" /\ wish = "off"
  /\ \E on \in BOOLEAN, a \in Arg :
       module = [on |-> on, todo |-> NoArg, onArg |-> a, asOn |-> FALSE]
  /\ ours = FALSE /\ since = "none" /\ upsets = Upsets

-----------------------------------------------------------------------------
(* What has come in is taken before anything is judged by it.              *)

\* The driver once the reply has been taken.  A reading may show an input
\* that sags under a live output.
Reads(d, r) ==
  IF r = "junk" THEN {Finished(d, FALSE, TRUE)}
  ELSE CASE d.cmd = "who" -> {Finished(Identified(d), TRUE, TRUE)}
    [] d.cmd = "state" -> {Finished(ReadAs(d, r = "on"), TRUE, TRUE)}
    [] OTHER -> {Finished(e, TRUE, TRUE) :
                  e \in {d} \cup (IF d.output /\ d.want /\ d.known
                                  THEN {HoldOff(d)} ELSE {})}

\* The bytes that have arrived, taken (supply_take()).
Drained(d) == IF rig.open /\ line \in Replies THEN Reads(d, line) ELSE {d}
LineDrained == IF line \in Replies THEN "quiet" ELSE line

Live(d) == rig.open /\ MayBeOn(d)

-----------------------------------------------------------------------------
(* The wiring.                                                             *)

\* supply_rewire(): the driver starts anew, on these pins or closed.
Rewired(w, saved) ==
  /\ rig' = [rig EXCEPT !.wiring = w, !.unsaved = ~saved,
                        !.open = saved /\ w # "none"]
  /\ drv' = Attached /\ line' = "quiet"

\* New wiring in force: attached once it is in flash.
Wired(w) == Rewired(w, w = rig.kept)

\* No UART for its pins: the wiring is as it was, and is attached again
\* unless it still waits for flash.
NoRoom == Rewired(rig.wiring, ~rig.unsaved)

\* No change waits.
Unwired(p) == [p EXCEPT !.wire = "idle", !.ask = FALSE, !.next = "none"]

\* A change a state read has cleared is written: not under an output that is
\* asked on, or may have come on since.
WireTaken(p, d) ==
  /\ page' = Unwired(p)
  /\ \/ /\ ~p.out /\ ~Live(d)
        /\ Wired(p.next) \/ (p.next # "none" /\ NoRoom)
     \/ /\ p.out \/ Live(d)
        /\ drv' = d /\ line' = LineDrained /\ UNCHANGED rig

\* A write of the wiring.  A change waits for a state read where a module
\* has answered.
PanelWires(w) ==
  /\ \E d \in Drained(drv) :
       \/ /\ w = rig.wiring
          /\ page' = Unwired(page)
          /\ drv' = d /\ line' = LineDrained /\ UNCHANGED <<rig, since>>
       \/ /\ w # rig.wiring /\ ~page.out /\ ~Live(d)
          /\ rig.open /\ d.answered
          /\ page' = [page EXCEPT !.wire = "wait", !.ask = TRUE, !.next = w]
          /\ drv' = d /\ line' = LineDrained /\ since' = "none"
          /\ UNCHANGED rig
       \/ /\ w # rig.wiring /\ ~page.out /\ ~Live(d)
          /\ ~(rig.open /\ d.answered)
          /\ WireTaken([page EXCEPT !.next = w], d) /\ UNCHANGED since
  /\ UNCHANGED <<beat, module, upsets, ours, wish>>

\* The save lands, with nothing driven (out_store_tick(), main.c).
Saved ==
  /\ rig.unsaved
  /\ ~page.out /\ ~page.held
  /\ rig' = [rig EXCEPT !.kept = rig.wiring, !.unsaved = FALSE,
                        !.open = rig.wiring # "none"]
  /\ drv' = Attached /\ line' = "quiet"
  /\ UNCHANGED <<page, beat, module, upsets, ours, since, wish>>

-----------------------------------------------------------------------------
(* The output, asked.                                                      *)

PanelOn ==
  /\ ~rig.unsaved /\ ~page.held
  /\ rig.wiring # "none" /\ page.wire = "idle" /\ beat
  /\ \E d \in Drained(drv) : drv' = d
  /\ line' = LineDrained
  /\ page' = [page EXCEPT !.out = TRUE]
  /\ wish' = "on"
  /\ UNCHANGED <<rig, beat, module, upsets, ours, since>>

\* A plausible bug: a held page is told no more than OFF.
HeldOffForgotten(p, writing) ==
  [p EXCEPT !.offHeld = @ \/ (writing /\ p.out), !.out = FALSE]

\* The panel's OFF of a held page stands until the port lets go, and an
\* output on waits for a write of the port's (held_off()).
HeldOff(p, writing) ==
  [p EXCEPT !.sticky = TRUE,
            !.offHeld = @ \/ (writing /\ p.out), !.out = FALSE]

PanelOff ==
  /\ \E d \in Drained(drv) : drv' = d
  /\ line' = LineDrained
  /\ \/ ~page.held /\ page' = [page EXCEPT !.out = FALSE]
     \/ page.held /\ \E writing \in BOOLEAN : page' = HeldOff(page, writing)
  /\ wish' = IF page.held THEN "cut" ELSE "off"
  /\ UNCHANGED <<rig, beat, module, upsets, ours, since>>

\* supply_page_port_set().
PortOn ==
  /\ page.held /\ ~rig.unsaved
  /\ ~page.sticky /\ beat /\ rig.wiring # "none" /\ page.wire = "idle"
  /\ page' = [page EXCEPT !.out = TRUE]
  /\ wish' = IF wish = "cut" THEN "cut" ELSE "on"
  /\ UNCHANGED <<rig, beat, drv, line, module, upsets, ours, since>>

PortOff ==
  /\ page.held
  /\ page' = [page EXCEPT !.out = FALSE, !.offHeld = FALSE]
  /\ wish' = IF wish = "cut" THEN "cut" ELSE "off"
  /\ UNCHANGED <<rig, beat, drv, line, module, upsets, ours, since>>

PortHolds ==
  /\ Mishap("held")
  /\ ~page.held
  /\ page' = [page EXCEPT !.held = TRUE]
  /\ UNCHANGED <<rig, beat, drv, line, module, ours, since, wish>>

PortLetsGo ==
  /\ page.held
  /\ page' = [page EXCEPT !.held = FALSE, !.sticky = FALSE]
  /\ wish' = IF wish = "cut" THEN "off" ELSE wish
  /\ UNCHANGED <<rig, beat, drv, line, module, upsets, ours, since>>

BeatTurns ==
  /\ beat' = ~beat
  /\ UNCHANGED <<page, rig, drv, line, module, upsets, ours, since, wish>>
-----------------------------------------------------------------------------
(* The page's step (supply_page_step()).                                   *)

\* Without a heartbeat nothing is asked.
Beaten(p) == IF beat THEN p ELSE [p EXCEPT !.out = FALSE]

\* The panel's OFF held back for a port's write, until that ends or the bound
\* passes, the port lets go or the heartbeat stops.
HeldBack(p, over) ==
  [p EXCEPT !.offHeld = @ /\ beat /\ p.held /\ ~over]

Asked(p) == p.out \/ p.offHeld

\* An OFF that finds a frame of the port on the wire waits for its end, or
\* the bound.
Waited(p, frame, over) ==
  [p EXCEPT !.wasOn = Asked(p),
            !.offWait = ~Asked(p) /\ IF p.wasOn THEN frame ELSE @ /\ ~over]

\* The change waiting: its read asked of the driver, its answer taken.
AsksCheck(p) ==
  /\ p.wire = "wait" /\ rig.open
  /\ p.ask \/ drv.check = "none"

WireStepped(p) ==
  IF p.wire # "wait" THEN p
  ELSE IF ~rig.open THEN [p EXCEPT !.wire = "ready"]
  ELSE IF AsksCheck(p) THEN [p EXCEPT !.ask = FALSE]
  ELSE IF drv.check = "off" THEN [p EXCEPT !.wire = "ready"]
  ELSE IF drv.check = "not_off" THEN Unwired(p) ELSE p

Stepped(frame, over) ==
  WireStepped(Waited(HeldBack(Beaten(page), over), frame, over))

\* What the driver is told in the pass.
Told(p) ==
  LET d == IF AsksCheck(page) THEN CheckOff(drv) ELSE drv
  IN  Want(d, Asked(p) \/ p.offWait)

-----------------------------------------------------------------------------
(* The driver's step in the same pass (pdmini_rx(), pdmini_step()).        *)

Keeps == UNCHANGED <<module, upsets, ours>>

\* The reply is taken.
Takes(d) ==
  /\ d.phase = "wait" /\ line \in Replies
  /\ drv' \in Reads(d, line) /\ line' = "quiet" /\ Keeps

\* Nothing is due: a phase has not had its time, no reading its period.
Rests(d) ==
  /\ line \notin Replies
  /\ drv' = d /\ UNCHANGED line /\ Keeps

Starts(d, c) == /\ d.phase = "idle"
                /\ drv' = Started(d, c) /\ UNCHANGED line /\ Keeps

SendsOffBlind(d) == SeeksBlind(d) /\ Starts(Unread(d), "blind")
AsksWho(d)       == SeeksWho(d) /\ Starts(Unread(d), "who")
WaitsForWho(d) == /\ d.phase = "idle" /\ SeeksWho(d)
                  /\ drv' = Unread(d) /\ UNCHANGED line /\ Keeps
ReadsState(d) == (MustRead(d) \/ CheckDue(d)) /\ Starts(d, "state")

WritesOff(d) == /\ d.phase = "idle" /\ OffDue(d)
                /\ drv' = Written(d) /\ UNCHANGED line /\ Keeps

\* The set points read back as asked; an ON that did not take waits.
WritesOn(d) == /\ d.phase = "idle" /\ OnDue(d)
               /\ d.enTries = Tries => d.age = Retry
               /\ drv' = Written(d) /\ UNCHANGED line /\ Keeps

\* The readings and the set points in turn; an ON that is due puts its
\* argument in doubt, and set points that will not take hold it off.
Polls(d) ==
  /\ AtLeisure(d)
  /\ \E e \in {d} \cup (IF OnDue(d) THEN {Doubted(d)} ELSE {})
                   \cup (IF d.want THEN {HoldOff(d)} ELSE {}) :
       Starts(e, "poll")

\* The state in its turn; not while a write waits for its own read.
PollsState(d) == AtLeisure(d) /\ ~d.enPending /\ Starts(d, "state")

\* An ON is overtaken by new set points as well.
Drops(d) ==
  /\ d.phase = "attach"
  /\ Overtaken(d) \/ (d.cmd = "enable" /\ d.enPending /\ d.enFor)
  /\ drv' = Dropped(d) /\ UNCHANGED line /\ Keeps

\* The request goes out; a write is obeyed within Confirm where it is heard.
Sends(d, heard) ==
  /\ d.phase = "attach" /\ ~Overtaken(d)
  /\ drv' = Sent(d)
  /\ line' = IF d.cmd \in Writes THEN "quiet"
             ELSE IF heard THEN "asked" ELSE "silent"
  /\ module' = IF d.cmd \in Writes /\ heard
               THEN [module EXCEPT !.todo = Argument(d),
                                       !.asOn = d.cmd = "enable" /\ d.enFor]
               ELSE module
  /\ UNCHANGED ours

\* A read other than the state's is left for an OFF.
Leaves(d) ==
  /\ d.phase = "wait" /\ d.cmd \notin Writes \cup {"state"}
  /\ OffNow(d) /\ line \notin Replies
  /\ drv' = Idle(d) /\ line' = "quiet" /\ Keeps

\* A write's bytes have left; a read has been answered by nothing, for longer
\* than the module takes to obey.
Ends(d) ==
  /\ d.phase = "wait"
  /\ d.cmd \in Writes \/ (line = "silent" /\ module.todo = NoArg)
  /\ drv' = Finished(d, d.cmd \in Writes, FALSE)
  /\ line' = "quiet"
  /\ ours' = (ours /\ ~TakenForAbsent(drv'))
  /\ UNCHANGED <<module, upsets>>

Moves(d) ==
  \/ Takes(d) \/ SendsOffBlind(d) \/ AsksWho(d) \/ ReadsState(d)
  \/ WritesOff(d) \/ WritesOn(d) \/ Polls(d) \/ PollsState(d)
  \/ Drops(d) \/ (Sends(d, TRUE) /\ UNCHANGED upsets) \/ Leaves(d) \/ Ends(d)

Rest(d) == Rests(d) \/ WaitsForWho(d)

Loses(d) == Mishap("lost") /\ Sends(d, FALSE)

\* ON is no one's word once the heartbeat is gone.
WishKept == wish' = IF beat \/ wish # "on" THEN wish ELSE "off"

StateAsked ==
  drv'.cmd = "state" /\ drv.phase = "attach" /\ drv'.phase = "wait"

\* A frame of the port's, where an OFF would look for one; a bound that is
\* over, where a wait runs.
Frames == IF "held" \in Mishaps /\ page.wasOn THEN BOOLEAN ELSE {FALSE}
Overs == IF page.offHeld \/ page.offWait THEN BOOLEAN ELSE {FALSE}

\* The driver is attached, and its pass ends in one of these steps.
Drives(over, Step(_)) ==
  /\ rig.open
  /\ \E frame \in Frames :
       LET p == Stepped(frame, over)
       IN  p.wire # "ready" /\ page' = p /\ Step(Told(p))
  /\ WishKept
  /\ since' = IF page.wire = "idle" THEN "none"
              ELSE IF since = "none" /\ StateAsked THEN "sent" ELSE since
  /\ UNCHANGED <<rig, beat>>

\* A pass in which the wiring that waited is taken, before the driver's step.
PassTakesWiring ==
  /\ \E frame \in Frames, over \in Overs :
       LET p == Stepped(frame, over)
       IN  /\ p.wire = "ready"
           /\ \E d \in Drained(IF rig.open THEN Told(p) ELSE drv) :
                WireTaken(p, d)
  /\ WishKept
  /\ UNCHANGED <<beat, module, upsets, ours, since>>

\* A pass with no driver attached.
PassDetached ==
  /\ ~rig.open
  /\ \E frame \in Frames, over \in Overs :
       LET p == Stepped(frame, over) IN p.wire # "ready" /\ page' = p
  /\ WishKept
  /\ UNCHANGED <<rig, beat, drv, line, module, upsets, ours, since>>

Pass ==
  \/ \E over \in Overs :
       Drives(over, Moves) \/ Drives(over, Rest) \/ Drives(over, Loses)
  \/ PassTakesWiring \/ PassDetached

-----------------------------------------------------------------------------
(* The module, the clock and a restart.                                    *)

CameOn == IF since = "told" THEN "on" ELSE since

\* It does what it was written.  An OFF whose argument is not yet learnt may
\* say ON to an output that has gone off since it was read.
Obeys ==
  /\ module.todo # NoArg
  /\ LET on == module.todo = module.onArg
         came == on /\ ~module.on
     IN  /\ module' = [module EXCEPT !.on = on, !.todo = NoArg, !.asOn = FALSE]
         /\ ours' = (on /\ (ours \/ (came /\ module.asOn)))
         /\ since' = IF came /\ ~module.asOn THEN CameOn ELSE since
  /\ UNCHANGED <<page, rig, beat, drv, line, wish, upsets>>

\* It answers the read, garbled or not.
Answers ==
  /\ line = "asked"
  /\ line' = IF drv.cmd # "state" THEN "ok"
             ELSE IF module.on THEN "on" ELSE "off"
  /\ since' = IF drv.cmd = "state" /\ since # "none" THEN "told" ELSE since
  /\ UNCHANGED <<page, rig, beat, drv, module, upsets, ours, wish>>

Garbles ==
  /\ Mishap("junk")
  /\ line = "asked" /\ line' = "junk"
  /\ UNCHANGED <<page, rig, beat, drv, module, ours, since, wish>>

\* Its own button, its AUTO OUT, its protection.
Press ==
  /\ Mishap("press")
  /\ module' = [module EXCEPT !.on = ~@, !.asOn = FALSE]
  /\ since' = IF module'.on THEN CameOn ELSE since
  /\ ours' = FALSE
  /\ UNCHANGED <<page, rig, beat, drv, line, wish>>

\* A tick is long against a pass, and what has come is taken in the next.
Tick ==
  /\ drv.age < Retry
  /\ line \notin Replies
  /\ module.todo # NoArg => drv.age + 1 < Confirm
  /\ drv' = [drv EXCEPT !.age = @ + 1]
  /\ UNCHANGED <<page, rig, beat, line, module, upsets, ours, since, wish>>

\* The IOmcu restarts, which takes longer than the module takes to obey: the
\* wiring as kept, the output not asked.
Restart ==
  /\ Mishap("restart")
  /\ module.todo = NoArg
  /\ page' = Blank /\ beat' = FALSE /\ wish' = "off"
  /\ rig' = [rig EXCEPT !.wiring = rig.kept, !.unsaved = FALSE,
                        !.open = rig.kept # "none"]
  /\ drv' = Attached /\ line' = "quiet"
  /\ UNCHANGED <<module, ours, since>>

Next ==
  \/ Pass
  \/ PanelOn \/ PanelOff \/ (\E w \in Wirings : PanelWires(w)) \/ Saved
  \/ PortOn \/ PortOff \/ PortHolds \/ PortLetsGo
  \/ BeatTurns
  \/ Obeys \/ Answers \/ Garbles \/ Press \/ Tick \/ Restart

Spec == Init /\ [][Next]_vars

-----------------------------------------------------------------------------
(* Properties.                                                             *)

TypeOK ==
  /\ page \in [out : BOOLEAN, held : BOOLEAN, offHeld : BOOLEAN,
               sticky : BOOLEAN, offWait : BOOLEAN, wasOn : BOOLEAN,
               wire : {"idle", "wait", "ready"}, ask : BOOLEAN,
               next : Wirings]
  /\ rig \in [wiring : Wirings, kept : Wirings, unsaved : BOOLEAN,
              open : BOOLEAN]
  /\ beat \in BOOLEAN /\ drv \in Driver
  /\ line \in {"quiet", "asked", "silent"} \cup Replies
  /\ module \in [on : BOOLEAN, todo : Arg \cup {NoArg}, onArg : Arg,
                 asOn : BOOLEAN]
  /\ ours \in BOOLEAN /\ since \in {"none", "sent", "told", "on"} /\ wish \in {"on", "off", "cut"}

\* An output our own ON switched on stays known as on or maybe on, to a
\* driver that is attached to it, until it has been read off or the module
\* has been taken not to be there (pdmini_may_be_on()).
OursIsWatched == ours => rig.open /\ rig.wiring = "module" /\ MayBeOn(drv)

\* New wiring finds a module that has answered switched off and no ON on its
\* way to it, but for one that came on by no ON of ours after it told its state
\* to a read sent since the change was asked (supply_page.c, wire_step();
\* pdmini.c, pdmini_finish(); iomcu_sense.c, supply_pass()).
WiringLeavesItOff ==
  [][rig.open /\ drv.answered /\ rig'.wiring # rig.wiring
     => \/ since = "on"
        \/ ~module.on /\ ~(module.asOn /\ module.todo = module.onArg)]_vars

\* The frame of an ON leaves under a heartbeat of the same pass, and only
\* with ON the last word of who may speak, or an OFF held back for a port
\* (supply_page.c, held_off(); pdmini_jobs.c, overtaken()).
OnLeaves == /\ drv.phase = "attach" /\ drv'.phase = "wait"
            /\ drv.cmd = "enable" /\ drv.enFor
OnLeavesWanted ==
  [][OnLeaves => \/ beat /\ wish = "on"
                 \/ page'.offHeld \/ page'.offWait]_vars
=============================================================================
