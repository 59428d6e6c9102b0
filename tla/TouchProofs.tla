---------------------------- MODULE TouchProofs ----------------------------
(***************************************************************************)
(* Proofs about touch on its way to the screens.                           *)
(*                                                                         *)
(* Of ArmWatch, for every length of the queue: an arm that the control task*)
(* has stopped watching outlived no loss, and one that did is stopped by   *)
(* the end of the next pump.  Of TouchStream, for every length of the queue*)
(* and every even number of numbers that is large enough for it: the       *)
(* screens are told of every loss ahead of the event behind it, and of a   *)
(* loss alone, and a mark consumed is that of the press itself, unless that*)
(* press went astray.                                                      *)
(***************************************************************************)
EXTENDS ArmWatch, SequenceTheorems, TLAPS

-----------------------------------------------------------------------------
(* The inductive invariant.                                                *)

\* A loss answered while an arm is under way stays on that arm.
LossIsKept == doomed /\ arm.at # "none" => arm.moved

\* The watch of an arm that outlived one has not ended, but by a stop.
WatchStands == Armed /\ doomed /\ ~stopping => watch.on

\* What the render loop knows of the arm in force: a frame or a snapshot that
\* names it found the bench armed.
NamedIsKnown ==
  Armed => /\ snap.mine => snap.armed
           /\ frame.mine => frame.armed /\ snap.mine

\* An arm that was acknowledged, or is no longer watched, is known to every
\* frame there is.
AckedIsKnown ==
  Armed /\ ~stopping /\ (watch.acked \/ ~watch.on) =>
    snap.armed /\ (frame.at # "start" => frame.armed)

\* What the drain takes is an arm that was asked for.
Asked == pass \in {"take", "taking"} => arm.at = "asked"

IInv == TypeOK /\ Asked /\ LossIsKept /\ WatchStands /\ NamedIsKnown /\ AckedIsKnown

-----------------------------------------------------------------------------
\* What touch_q_put() leaves is a queue of items, no longer than the queue is.
LEMMA SentKept ==
  ASSUME tq \in Seq(Items), Len(tq) <= QLen, NEW kind \in Kinds \cup {"lost"}
  PROVE  Sent(kind) \in Seq(Items) /\ Len(Sent(kind)) <= QLen
<1> DEFINE it == [kind |-> kind, hole |-> FALSE]
           left == Append(Tail(tq), it)
<1>1. it \in Items
  BY DEF Items
<1>2. CASE Len(tq) < QLen
  <2>1. Sent(kind) = Append(tq, it)
    BY <1>2 DEF Sent
  <2> QED BY <2>1, <1>1, <1>2, QLenAssumption
<1>3. CASE ~(Len(tq) < QLen)
  <2>1. Len(tq) = QLen /\ tq # <<>>
    BY <1>3, QLenAssumption
  <2>2. left \in Seq(Items) /\ Len(left) = QLen
    BY <2>1, <1>1, QLenAssumption
  <2>3. 1 \in DOMAIN left /\ DOMAIN left = 1 .. QLen /\ \A i \in 1 .. QLen : left[i] \in Items
    BY <2>2, QLenAssumption
  <2> DEFINE head == [left[1] EXCEPT !.hole = TRUE]
             marked == [left EXCEPT ![1] = head]
  <2>4. head \in Items
    BY <2>3 DEF Items
  <2>5. marked \in Seq(Items) /\ Len(marked) = QLen
    <3> HIDE DEF head, left
    <3> QED BY <2>2, <2>3, <2>4, ExceptSeq, QLenAssumption
  <2>6. Sent(kind) = marked
    BY <1>3 DEF Sent
  <2> HIDE DEF marked
  <2> QED BY <2>5, <2>6, QLenAssumption
<1> QED BY <1>2, <1>3

\* An event on the screens leaves a press and a command.
LEMMA TouchedKept ==
  ASSUME NEW s \in [press : BOOLEAN, post : {"none", "arm", "disarm"}], NEW kind
  PROVE  Touched(s, kind) \in [press : BOOLEAN, post : {"none", "arm", "disarm"}]
BY DEF Touched

LEMMA InitIInv == Init => IInv
<1> SUFFICES ASSUME Init PROVE IInv
  OBVIOUS
<1>1. tq \in Seq(Items) /\ Len(tq) <= QLen
  BY QLenAssumption DEF Init
<1>2. TypeOK
  BY <1>1 DEF Init, TypeOK, NoArm, NoFrame, Unwatched
<1>3. Asked /\ LossIsKept /\ WatchStands /\ NamedIsKnown /\ AckedIsKnown
  BY DEF Init, NoArm, Armed, Asked, LossIsKept, WatchStands, NamedIsKnown, AckedIsKnown
<1> QED BY <1>2, <1>3 DEF IInv

-----------------------------------------------------------------------------
(* What a step has to leave alone for the relations of the invariant.      *)

Relations == LossIsKept /\ WatchStands /\ NamedIsKnown /\ AckedIsKnown

Arms == [at : {"none", "asked", "wanted", "armed"}, moved : BOOLEAN, gap : BOOLEAN]
Watches == [on : BOOLEAN, acked : BOOLEAN]
Frames == [at : {"start", "first", "flush", "second", "tick"}, armed : BOOLEAN,
           mine : BOOLEAN, lost : BOOLEAN, item : Kinds \cup {"lost", "none"}]
Screens == [press : BOOLEAN, post : {"none", "arm", "disarm"}]

\* A step that leaves alone everything the relations speak of, but the gap of the
\* arm, keeps them.
LEMMA Untouched ==
  ASSUME Relations, arm'.at = arm.at, arm'.moved = arm.moved, frame' = frame,
         UNCHANGED <<watch, stopping, snap, doomed>>
  PROVE  Relations'
BY DEF Relations, LossIsKept, WatchStands, NamedIsKnown, AckedIsKnown, Armed

\* A step after which no arm is in force, nor any under way, keeps them.
LEMMA GivenUp == arm'.at = "none" => Relations'
BY DEF Relations, LossIsKept, WatchStands, NamedIsKnown, AckedIsKnown, Armed

-----------------------------------------------------------------------------
\* Nothing takes an arm from the drain that has come to it: a stop drops one
\* that waits in the policy, and a flush posts another in its place.
LEMMA AskedKept == TypeOK /\ Asked /\ Next => Asked'
<1> SUFFICES ASSUME TypeOK, Asked, Next PROVE Asked'
  OBVIOUS
<1>a. arm \in Arms
  BY DEF TypeOK, Arms
<1>1. CASE PumpBegins \/ ArmComesUp \/ \E kind \in Kinds : EventOffered(kind)
  BY <1>1 DEF PumpBegins, ArmComesUp, EventOffered, At, Asked, task, bench
<1>2. CASE GapFound
  <2>1. arm'.at = arm.at /\ pass' = pass
    BY <1>2, <1>a DEF GapFound, Arms, task
  <2> QED BY <2>1 DEF Asked
<1>3. CASE PumpEnds
  <2>1. arm' = arm \/ arm.at = "wanted"
    BY <1>3 DEF PumpEnds, Stops
  <2>2. pass' \in {"take", "taking"} => pass \in {"take", "taking"}
    BY <1>3 DEF PumpEnds
  <2> QED BY <2>1, <2>2 DEF Asked
<1>4. CASE Acts \/ ArmTaken \/ Publishes \/ WatchServed
  <2>1. pass' \in {"commands", "publish", "watch", "top"}
    BY <1>4 DEF Acts, ArmTaken, Publishes, WatchServed
  <2> QED BY <2>1 DEF Asked
<1>5. CASE FrameBegins \/ BreakEnds \/ DrainEnds \/ FrameEnds
  BY <1>5 DEF FrameBegins, BreakEnds, DrainEnds, FrameEnds, Asked, task, bench
<1>6. CASE ItemTaken
  <2>1. pass' = pass
    BY <1>6 DEF ItemTaken, task
  <2>2. arm'.at = arm.at
    BY <1>6, <1>a DEF ItemTaken, Broke, Arms
  <2> QED BY <2>1, <2>2 DEF Asked
<1>7. CASE Flushed
  <2>1. pass' = pass /\ (arm' = arm \/ arm'.at = "asked")
    BY <1>7 DEF Flushed, NoArm, task
  <2> QED BY <2>1 DEF Asked
<1> QED BY <1>1, <1>2, <1>3, <1>4, <1>5, <1>6, <1>7 DEF Next, Task, Render

\* A step of the control task keeps the invariant.
LEMMA TaskKeeps == IInv /\ Task => IInv'
<1> SUFFICES ASSUME IInv, Task PROVE TypeOK' /\ Relations'
  BY AskedKept DEF IInv, Relations, Next
<1>0. TypeOK /\ Relations
  BY DEF IInv, Relations
<1>a. arm \in Arms /\ watch \in Watches
  BY <1>0 DEF TypeOK, Arms, Watches
<1>n. NoArm \in Arms /\ NoArm.at = "none" /\ Unwatched \in Watches
  BY DEF NoArm, Arms, Unwatched, Watches
<1>1. CASE PumpBegins
  <2>1. TypeOK'
    BY <1>0, <1>1 DEF PumpBegins, TypeOK, stream, bench, render
  <2> QED BY <2>1, <1>0, <1>1, Untouched DEF PumpBegins, bench, render
<1>2. CASE GapFound
  <2>1. Sent("lost") \in Seq(Items) /\ Len(Sent("lost")) <= QLen
    BY <1>0, SentKept DEF TypeOK
  <2>2. arm'.at = arm.at /\ arm'.moved = arm.moved
    BY <1>2, <1>a DEF GapFound, Arms
  <2>3. arm' \in Arms
    <3> DEFINE g == arm.at \in {"wanted", "armed"}
    <3>1. g \in BOOLEAN /\ arm' = [arm EXCEPT !.gap = g]
      BY <1>2 DEF GapFound
    <3> HIDE DEF g
    <3> QED BY <3>1, <1>a DEF Arms
  <2>4. TypeOK'
    BY <2>1, <2>3, <1>0, <1>2 DEF GapFound, TypeOK, Arms, task, render
  <2> QED BY <2>2, <2>4, <1>0, <1>2, Untouched DEF GapFound, render
<1>3. CASE \E kind \in Kinds : EventOffered(kind)
  <2>1. PICK kind \in Kinds : EventOffered(kind)
    BY <1>3
  <2>2. Sent(kind) \in Seq(Items) /\ Len(Sent(kind)) <= QLen
    BY <1>0, SentKept DEF TypeOK
  <2>3. TypeOK'
    BY <2>1, <2>2, <1>0 DEF EventOffered, TypeOK, task, bench, render
  <2> QED BY <2>1, <2>3, <1>0, Untouched DEF EventOffered, bench, render
<1>4. CASE PumpEnds
  <2>1. UNCHANGED <<snap, doomed, frame, tq, unread, disarm, screen>>
    BY <1>4 DEF PumpEnds, stream, render
  <2>2. arm' \in {arm, NoArm} /\ stopping' \in {TRUE, stopping}
    BY <1>4 DEF PumpEnds, Stops
  <2>3. watch' \in {watch, Unwatched}
    BY <1>4 DEF PumpEnds
  <2>4. pass' \in {pass, "arming", "taking"}
    BY <1>4 DEF PumpEnds
  <2>5. TypeOK'
    <3>1. arm' \in Arms /\ watch' \in Watches /\ stopping' \in BOOLEAN
      BY <2>2, <2>3, <1>0, <1>a, <1>n DEF TypeOK
    <3>2. pass' \in {"top", "arming", "commands", "take", "taking", "publish", "watch"}
      BY <2>4, <1>0 DEF TypeOK
    <3>3. pumping' \in BOOLEAN
      BY <1>4 DEF PumpEnds
    <3> QED BY <2>1, <3>1, <3>2, <3>3, <1>0 DEF TypeOK, Arms, Watches
  <2>6. CASE arm' = NoArm
    BY <2>5, <2>6, <1>n, GivenUp
  <2>7. CASE arm' = arm
    <3>1. CASE stopping'
      BY <2>1, <2>5, <2>7, <3>1, <1>0 DEF Relations, LossIsKept, WatchStands,
        NamedIsKnown, AckedIsKnown, Armed
    <3>2. CASE ~stopping'
      <4>1. ~stopping /\ ~(Watched /\ PumpLost)
        BY <3>2, <2>2, <1>4, <1>0 DEF PumpEnds, Stops, TypeOK
      <4>2. watch' = IF Watched /\ watch.acked THEN Unwatched ELSE watch
        BY <4>1, <1>4 DEF PumpEnds
      <4>3. CASE Watched /\ watch.acked
        <5>1. ~arm.moved
          BY <4>1, <4>3 DEF PumpLost, WatchLost
        <5>2. ~doomed /\ snap.armed /\ (frame.at # "start" => frame.armed)
          BY <5>1, <4>1, <4>3, <1>0 DEF Relations, LossIsKept, AckedIsKnown, Watched, Armed
        <5> QED BY <5>1, <5>2, <2>1, <2>5, <2>7, <1>0 DEF Relations, LossIsKept,
              WatchStands, NamedIsKnown, AckedIsKnown, Armed
      <4>4. CASE ~(Watched /\ watch.acked)
        <5>1. watch' = watch /\ stopping' = stopping
          BY <4>4, <4>2, <4>1, <3>2, <1>4, <1>0 DEF PumpEnds, Stops, TypeOK
        <5> QED BY <5>1, <2>1, <2>5, <2>7, <1>0, Untouched
      <4> QED BY <4>3, <4>4
    <3> QED BY <3>1, <3>2
  <2> QED BY <2>2, <2>6, <2>7
<1>5. CASE Acts
  <2>0. UNCHANGED <<tq, unread, pumping, screen, doomed>> /\ pass' = "commands"
    BY <1>5 DEF Acts, stream
  <2>1. CASE (stopping \/ disarm) /\ LetsGo /\ UNCHANGED <<watch, snap, frame>>
    <3>1. arm' \in Arms /\ stopping' \in BOOLEAN /\ disarm' \in BOOLEAN
      BY <2>1, <1>a, <1>n DEF LetsGo
    <3>2. TypeOK'
      BY <3>1, <2>0, <2>1, <1>0 DEF TypeOK, Arms
    <3>3. CASE arm' = NoArm
      BY <3>2, <3>3, <1>n, GivenUp
    <3>4. CASE arm' = arm /\ arm.at = "asked"
      BY <3>2, <3>4, <2>0, <2>1, <1>0 DEF Relations, LossIsKept, WatchStands,
        NamedIsKnown, AckedIsKnown, Armed
    <3> QED BY <3>3, <3>4, <2>1 DEF LetsGo
  <2>2. CASE /\ ~stopping /\ ~disarm /\ arm.at = "wanted"
             /\ arm' = Applied /\ watch' = [on |-> TRUE, acked |-> FALSE]
             /\ snap' = [snap EXCEPT !.mine = FALSE]
             /\ frame' = [frame EXCEPT !.mine = FALSE]
             /\ UNCHANGED <<stopping, disarm>>
    <3>1. arm' \in Arms /\ arm'.at = "armed" /\ arm'.moved = arm.moved
      BY <2>2, <1>a DEF Applied, Arms
    <3>2. watch' \in Watches /\ watch'.on /\ ~watch'.acked
      BY <2>2 DEF Watches
    <3>3. snap' \in [armed : BOOLEAN, mine : BOOLEAN] /\ ~snap'.mine
      BY <2>2, <1>0 DEF TypeOK
    <3>4. frame' \in Frames /\ ~frame'.mine
      BY <2>2, <1>0 DEF TypeOK, Frames
    <3>5. TypeOK'
      BY <3>1, <3>2, <3>3, <3>4, <2>0, <2>2, <1>0 DEF TypeOK, Arms, Watches, Frames
    <3>6. LossIsKept'
      BY <3>1, <2>0, <2>2, <1>0 DEF Relations, LossIsKept
    <3>7. WatchStands' /\ NamedIsKnown' /\ AckedIsKnown'
      BY <3>2, <3>3, <3>4 DEF WatchStands, NamedIsKnown, AckedIsKnown
    <3> QED BY <3>5, <3>6, <3>7 DEF Relations
  <2>3. CASE /\ arm' \in {arm} \cup {NoArm : w \in {"wanted"} \cap {arm.at}}
             /\ UNCHANGED <<watch, stopping, disarm, snap, frame>>
    <3>1. arm' \in {arm, NoArm}
      BY <2>3
    <3>2. TypeOK'
      BY <3>1, <2>0, <2>3, <1>0, <1>a, <1>n DEF TypeOK, Arms
    <3> QED BY <3>1, <3>2, <2>0, <2>3, <1>0, <1>n, GivenUp, Untouched
  <2> QED BY <1>5, <2>1, <2>2, <2>3 DEF Acts
<1>6. CASE ArmComesUp
  <2>1. disarm' \in BOOLEAN /\ pass' \in {"take"}
    BY <1>6 DEF ArmComesUp
  <2>2. UNCHANGED <<tq, unread, pumping, arm, watch, stopping, snap, frame, screen, doomed>>
    BY <1>6 DEF ArmComesUp, stream, bench, render
  <2>3. TypeOK'
    BY <2>1, <2>2, <1>0 DEF TypeOK
  <2> QED BY <2>2, <2>3, <1>0, Untouched
<1>7. CASE ArmTaken
  <2>0. UNCHANGED <<tq, unread, pumping, watch, stopping, disarm, snap, frame, screen, doomed>>
    BY <1>7 DEF ArmTaken, stream, render
  <2>1. arm' = NoArm \/ arm' = [arm EXCEPT !.at = "wanted"]
    BY <1>7 DEF ArmTaken
  <2>2. arm' \in Arms
    BY <2>1, <1>a, <1>n DEF Arms
  <2>3. TypeOK'
    BY <2>0, <2>2, <1>0, <1>7 DEF ArmTaken, TypeOK, Arms
  <2>4. CASE arm' = [arm EXCEPT !.at = "wanted"]
    <3>1. arm'.at = "wanted" /\ arm'.moved = arm.moved
      BY <2>4, <1>a DEF Arms
    <3>2. arm.at # "none"
      BY <1>7 DEF IInv, Asked, ArmTaken, At
    <3> QED BY <3>1, <3>2, <2>0, <2>3, <1>0 DEF Relations, LossIsKept, WatchStands,
          NamedIsKnown, AckedIsKnown, Armed
  <2> QED BY <2>1, <2>3, <2>4, <1>n, GivenUp
<1>8. CASE Publishes
  <2>0. UNCHANGED <<tq, unread, pumping, arm, watch, stopping, disarm, frame, screen, doomed>>
    BY <1>8 DEF Publishes, stream, bench, render
  <2>1. pass' = "watch" /\ snap' = [armed |-> Armed, mine |-> Armed] /\ Armed \in BOOLEAN
    BY <1>8 DEF Publishes, Armed
  <2>2. snap' \in [armed : BOOLEAN, mine : BOOLEAN] /\ snap'.armed = Armed /\ snap'.mine = Armed
    <3> HIDE DEF Armed
    <3> QED BY <2>1
  <2>3. TypeOK'
    BY <2>0, <2>1, <2>2, <1>0 DEF TypeOK
  <2>4. LossIsKept' /\ WatchStands'
    BY <2>0, <1>0 DEF Relations, LossIsKept, WatchStands, Armed
  <2>5. NamedIsKnown' /\ AckedIsKnown'
    BY <2>0, <2>2, <1>0 DEF Relations, NamedIsKnown, AckedIsKnown, Armed
  <2> QED BY <2>3, <2>4, <2>5 DEF Relations
<1>9. CASE WatchServed
  <2>0. /\ UNCHANGED <<tq, unread, pumping, stopping, disarm, snap, frame, screen, doomed>>
        /\ pass' = "top"
    BY <1>9 DEF WatchServed, stream, render
  <2>1. arm' \in {arm, NoArm} /\ watch' \in {watch, Unwatched}
    BY <1>9 DEF WatchServed
  <2>2. TypeOK'
    <3>1. arm' \in Arms /\ watch' \in Watches
      BY <2>1, <1>a, <1>n
    <3> QED BY <3>1, <2>0, <1>0 DEF TypeOK, Arms, Watches
  <2>3. CASE arm' = arm /\ watch' = watch
    BY <2>0, <2>2, <2>3, <1>0, Untouched
  <2>4. CASE arm' = NoArm \/ ~Armed
    <3>1. arm'.at # "armed"
      BY <2>1, <2>4, <1>n DEF Armed
    <3>2. LossIsKept'
      BY <2>0, <2>1, <1>0, <1>n DEF Relations, LossIsKept
    <3> QED BY <3>1, <3>2, <2>2 DEF Relations, WatchStands, NamedIsKnown, AckedIsKnown, Armed
  <2>5. CASE Watched /\ ~arm.moved /\ watch.acked /\ arm' = arm
    <3>1. ~doomed
      BY <2>5, <1>0 DEF Relations, LossIsKept, Watched, Armed
    <3> QED BY <3>1, <2>0, <2>2, <2>5, <1>0 DEF Relations, LossIsKept, WatchStands,
          NamedIsKnown, AckedIsKnown, Armed, Watched
  <2>6. CASE Armed /\ ~watch.on /\ arm' = arm /\ watch' = Unwatched
    BY <2>0, <2>2, <2>6, <1>0 DEF Relations, LossIsKept, WatchStands,
      NamedIsKnown, AckedIsKnown, Armed, Unwatched
  <2> QED BY <2>3, <2>4, <2>5, <2>6, <1>9 DEF WatchServed, WatchLost, Watched
<1> QED BY <1>1, <1>2, <1>3, <1>4, <1>5, <1>6, <1>7, <1>8, <1>9 DEF Task

\* And so does one of the render loop.
LEMMA RenderKeeps == IInv /\ Render => IInv'
<1> SUFFICES ASSUME IInv, Render PROVE TypeOK' /\ Relations'
  BY AskedKept DEF IInv, Relations, Next
<1>0. TypeOK /\ Relations
  BY DEF IInv, Relations
<1>a. arm \in Arms /\ watch \in Watches /\ frame \in Frames /\ screen \in Screens
  BY <1>0 DEF TypeOK, Arms, Watches, Frames, Screens
<1>n. NoFrame \in Frames /\ NoFrame.at = "start" /\ ~NoFrame.mine
  BY DEF NoFrame, Frames
<1>1. CASE FrameBegins
  <2>0. UNCHANGED <<tq, unread, pumping, pass, arm, watch, stopping, disarm, snap, screen, doomed>>
    BY <1>1 DEF FrameBegins, stream, task, bench
  <2>1. frame' \in Frames /\ frame'.armed = snap.armed /\ frame'.mine = snap.mine
    BY <1>1, <1>0 DEF FrameBegins, NoFrame, Frames, TypeOK
  <2>2. TypeOK'
    BY <2>0, <2>1, <1>0 DEF TypeOK, Frames
  <2>3. LossIsKept' /\ WatchStands'
    BY <2>0, <1>0 DEF Relations, LossIsKept, WatchStands, Armed
  <2>4. NamedIsKnown' /\ AckedIsKnown'
    BY <2>0, <2>1, <1>0 DEF Relations, NamedIsKnown, AckedIsKnown, Armed
  <2> QED BY <2>2, <2>3, <2>4 DEF Relations
<1>2. CASE ItemTaken
  <2>0. UNCHANGED <<pumping, pass, watch, stopping, disarm, snap>>
    BY <1>2 DEF ItemTaken, task
  <2>1. Tail(tq) \in Seq(Items) /\ Len(Tail(tq)) <= QLen /\ Head(tq) \in Items
    BY <1>0, <1>2, QLenAssumption DEF ItemTaken, TypeOK
  <2>2. Head(tq).kind \in Kinds \cup {"lost"}
    BY <2>1 DEF Items
  <2>3. tq' = Tail(tq) /\ unread' \in BOOLEAN
    BY <1>2 DEF ItemTaken
  <2>4. CASE Broke(Head(tq).kind)
    <3>1. screen' \in Screens
      BY <2>4 DEF Broke, Cancelled, Screens
    <3>2. frame' \in Frames /\ frame'.at = frame.at /\ frame'.armed = frame.armed
                            /\ frame'.mine = frame.mine
      BY <2>4, <2>2, <1>a DEF Broke, Frames
    <3>3. arm' \in Arms /\ arm'.at = arm.at /\ (arm.at # "none" => arm'.moved)
      <4> DEFINE d == arm.at # "none"
      <4>1. d \in BOOLEAN /\ arm' = [arm EXCEPT !.moved = d] /\ (arm.at # "none" => d)
        BY <2>4 DEF Broke
      <4> HIDE DEF d
      <4> QED BY <4>1, <1>a DEF Arms
    <3>4. doomed' \in BOOLEAN /\ (doomed' => doomed \/ (~frame.armed /\ arm.at # "none"))
      BY <2>4, <1>0 DEF Broke, TypeOK
    <3>5. TypeOK'
      BY <3>1, <3>2, <3>3, <3>4, <2>0, <2>1, <2>3, <1>0 DEF TypeOK, Arms, Frames, Screens
    <3>6. LossIsKept' /\ NamedIsKnown' /\ AckedIsKnown'
      BY <3>2, <3>3, <2>0, <1>0 DEF Relations, LossIsKept, NamedIsKnown, AckedIsKnown, Armed
    <3>7. WatchStands'
      BY <3>3, <3>4, <2>0, <1>2, <1>0 DEF Relations, WatchStands, AckedIsKnown, Armed, ItemTaken
    <3> QED BY <3>5, <3>6, <3>7 DEF Relations
  <2>5. CASE screen' = Touched(screen, Head(tq).kind) /\ UNCHANGED <<arm, frame, doomed>>
    <3>1. screen' \in [press : BOOLEAN, post : {"none", "arm", "disarm"}]
      BY <2>5, <1>a, TouchedKept DEF Screens
    <3>2. TypeOK'
      BY <3>1, <2>0, <2>1, <2>3, <2>5, <1>0 DEF TypeOK
    <3> QED BY <3>2, <2>0, <2>5, <1>0, Untouched
  <2> QED BY <1>2, <2>4, <2>5 DEF ItemTaken
<1>3. CASE BreakEnds
  <2>0. UNCHANGED <<tq, unread, pumping, pass, arm, watch, stopping, snap, doomed>>
    BY <1>3 DEF BreakEnds, stream, task, bench
  <2>1. [screen EXCEPT !.post = "none"] \in [press : BOOLEAN, post : {"none", "arm", "disarm"}]
    BY <1>a DEF Screens
  <2>2. screen' \in [press : BOOLEAN, post : {"none", "arm", "disarm"}]
    BY <2>1, <1>3, TouchedKept DEF BreakEnds
  <2>3. disarm' \in BOOLEAN
    BY <1>3, <1>0 DEF BreakEnds, TypeOK
  <2>4. frame' \in Frames /\ frame'.at = frame.at /\ frame'.armed = frame.armed
                          /\ frame'.mine = frame.mine
    BY <1>3, <1>a DEF BreakEnds, Frames
  <2>5. TypeOK'
    BY <2>0, <2>2, <2>3, <2>4, <1>0 DEF TypeOK, Frames
  <2> QED BY <2>0, <2>4, <2>5, <1>0 DEF Relations, LossIsKept, WatchStands,
        NamedIsKnown, AckedIsKnown, Armed
<1>4. CASE DrainEnds
  <2>0. UNCHANGED <<tq, unread, pumping, pass, arm, watch, stopping, disarm, snap, screen, doomed>>
    BY <1>4 DEF DrainEnds, stream, task, bench
  <2>1. /\ frame' \in Frames /\ frame.at # "start"
        /\ frame'.armed = frame.armed /\ frame'.mine = frame.mine
    BY <1>4, <1>a DEF DrainEnds, In, Frames
  <2>2. TypeOK'
    BY <2>0, <2>1, <1>0 DEF TypeOK, Frames
  <2> QED BY <2>0, <2>1, <2>2, <1>0 DEF Relations, LossIsKept, WatchStands,
        NamedIsKnown, AckedIsKnown, Armed
<1>5. CASE Flushed
  <2>0. UNCHANGED <<tq, unread, pumping, pass, watch, stopping, snap>>
    BY <1>5 DEF Flushed, stream, task
  <2>1. /\ frame' \in Frames /\ frame.at # "start"
        /\ frame'.armed = frame.armed /\ frame'.mine = frame.mine
    BY <1>5, <1>a DEF Flushed, In, Frames
  <2>2. screen' \in Screens /\ disarm' \in BOOLEAN
    BY <1>5, <1>0, <1>a DEF Flushed, Screens, TypeOK
  <2>3. CASE screen.post = "arm"
    <3>1. arm' \in Arms /\ arm'.at = "asked" /\ doomed' = FALSE
      BY <2>3, <1>5 DEF Flushed, NoArm, Arms
    <3>2. TypeOK'
      <4>1. /\ tq' \in Seq(Items) /\ Len(tq') <= QLen
            /\ unread' \in BOOLEAN /\ pumping' \in BOOLEAN /\ stopping' \in BOOLEAN
            /\ pass' \in {"top", "arming", "commands", "take", "taking", "publish", "watch"}
            /\ watch' \in Watches /\ snap' \in [armed : BOOLEAN, mine : BOOLEAN]
        BY <2>0, <1>0 DEF TypeOK, Watches
      <4>2. arm' \in Arms /\ doomed' \in BOOLEAN /\ disarm' \in BOOLEAN
        BY <3>1, <2>2
      <4> QED BY <4>1, <4>2, <2>1, <2>2 DEF TypeOK, Arms, Watches, Frames, Screens
    <3> QED BY <3>1, <3>2 DEF Relations, LossIsKept, WatchStands,
          NamedIsKnown, AckedIsKnown, Armed
  <2>4. CASE screen.post # "arm"
    <3>1. UNCHANGED <<arm, doomed>>
      BY <2>4, <1>5 DEF Flushed
    <3>2. TypeOK'
      BY <3>1, <2>0, <2>1, <2>2, <1>0 DEF TypeOK, Frames, Screens
    <3> QED BY <3>1, <3>2, <2>0, <2>1, <1>0 DEF Relations, LossIsKept, WatchStands,
          NamedIsKnown, AckedIsKnown, Armed
  <2> QED BY <2>3, <2>4
<1>6. CASE FrameEnds
  <2>0. UNCHANGED <<tq, unread, pumping, pass, arm, stopping, disarm, snap, doomed>>
    BY <1>6 DEF FrameEnds, stream, task
  <2>1. frame' = NoFrame /\ frame.at = "tick"
    BY <1>6 DEF FrameEnds, In
  <2>2. screen' \in Screens
    <3>1. CASE screen' = screen
      BY <3>1, <1>a
    <3>2. CASE screen' # screen
      <4> DEFINE c == IF screen.post = "disarm" THEN "disarm" ELSE "arm"
      <4>1. screen' = [press |-> FALSE, post |-> c] /\ c \in {"none", "arm", "disarm"}
        BY <3>2, <1>6 DEF FrameEnds
      <4> HIDE DEF c
      <4> QED BY <4>1 DEF Screens
    <3> QED BY <3>1, <3>2
  <2>3. /\ watch' \in Watches /\ watch'.on = watch.on
        /\ watch'.acked => watch.acked \/ (frame.armed /\ frame.mine)
    <3> DEFINE k == IF frame.armed /\ ~frame.lost THEN watch.on /\ frame.mine ELSE watch.acked
    <3>1. k \in BOOLEAN /\ (k => watch.acked \/ (frame.armed /\ frame.mine))
      BY <1>a DEF Watches, Frames
    <3>2. watch' = [watch EXCEPT !.acked = k]
      BY <1>6 DEF FrameEnds
    <3> HIDE DEF k
    <3> QED BY <3>1, <3>2, <1>a DEF Watches
  <2>4. TypeOK'
    <3>1. frame' \in Frames
      BY <2>1, <1>n
    <3> QED BY <2>0, <2>2, <2>3, <3>1, <1>0 DEF TypeOK, Frames, Screens, Watches
  <2>5. LossIsKept' /\ WatchStands'
    BY <2>0, <2>3, <1>0 DEF Relations, LossIsKept, WatchStands, Armed
  <2>6. NamedIsKnown' /\ AckedIsKnown'
    BY <2>0, <2>1, <2>3, <1>0, <1>n DEF Relations, NamedIsKnown, AckedIsKnown, Armed
  <2> QED BY <2>4, <2>5, <2>6 DEF Relations
<1> QED BY <1>1, <1>2, <1>3, <1>4, <1>5, <1>6 DEF Render

\* The strengthened invariant holds of every behaviour.
THEOREM IInvHolds == Spec => []IInv
<1>1. IInv /\ [Next]_vars => IInv'
  <2> SUFFICES ASSUME IInv, [Next]_vars PROVE IInv'
    OBVIOUS
  <2>1. CASE Next
    BY <2>1, TaskKeeps, RenderKeeps DEF Next
  <2>2. CASE UNCHANGED vars
    BY <2>2 DEF vars, stream, task, bench, render, IInv, TypeOK, Asked, LossIsKept,
      WatchStands, NamedIsKnown, AckedIsKnown, Armed
  <2> QED BY <2>1, <2>2
<1> QED BY InitIInv, <1>1, PTL DEF Spec

-----------------------------------------------------------------------------
\* Every state of ArmWatch has its type, whatever the length of the queue.
THEOREM TypeCorrect == Spec => []TypeOK
<1>1. IInv => TypeOK
  BY DEF IInv
<1> QED BY <1>1, IInvHolds, PTL

\* An arm that was handed over to the screens, its watch ended, outlived no loss
\* that they answered as on a disarmed bench (arm_watch_service()).
THEOREM HandedOver == Spec => []HandedOverIsWhole
<1>1. IInv => HandedOverIsWhole
  BY DEF IInv, WatchStands, HandedOverIsWhole
<1> QED BY <1>1, IInvHolds, PTL

\* An arm that outlived one is stopped by the end of the next pump, wherever in
\* the pass that pump runs (control_pump()).
THEOREM UndoneAtOnce == Spec => UndoneInThePump
<1>1. IInv /\ [Next]_vars => [PumpEnds /\ Armed /\ doomed => stopping']_vars
  <2> SUFFICES ASSUME IInv, PumpEnds, Armed, doomed PROVE stopping'
    OBVIOUS
  <2>1. arm.moved /\ stopping \in BOOLEAN
    BY DEF IInv, TypeOK, LossIsKept, Armed
  <2>2. CASE stopping
    BY <2>2, <2>1 DEF PumpEnds, Stops
  <2>3. CASE ~stopping
    <3>1. Watched /\ PumpLost
      BY <2>1, <2>3 DEF IInv, WatchStands, Watched, PumpLost, WatchLost
    <3> QED BY <3>1 DEF PumpEnds, Stops
  <2> QED BY <2>2, <2>3
<1> QED BY <1>1, IInvHolds, PTL DEF Spec, UndoneInThePump

-----------------------------------------------------------------------------
(* The touch stream itself, which is TouchStream: a machine of its own, which *)
(* follows each number and each STOP of the queue where ArmWatch follows the  *)
(* losses alone.  QLen is the same TOUCH_Q_LEN.                               *)

CONSTANT M
VARIABLES queue, tseq, ctl, mark, request, stopLive, loop, rx, latch, band, astray, dropped

S == INSTANCE TouchStream WITH tq <- queue, frame <- loop

(* The inductive invariant of the stream.                                  *)

Loops == [at : {"first", "drain", "broke", "middle", "second", "tick"},
          pub : 0 .. M - 1, second : BOOLEAN, item : S!Items]
Controls == [at : {"free", "offer", "mark"}, owed : BOOLEAN, missed : BOOLEAN]

Types ==
  /\ S!TypeOK
  /\ loop \in Loops /\ ctl \in Controls
  /\ {stopLive, band, astray, dropped} \subseteq BOOLEAN

\* How far the numbers run ahead of the render loop, and of what it read of them.
Ahead == S!Minus(tseq + 1, rx)
SincePub == S!Minus(tseq, loop.pub)

\* The queue holds the newest numbers, one after the other, and a hole is ahead
\* of its first item only: what lies between that and the number expected next.
QueueIsNewest ==
  /\ Len(queue) <= Ahead
  /\ queue = <<>> => Ahead = 0
  /\ \A i \in 1 .. Len(queue) :
       /\ queue[i].seq = (tseq - Len(queue) + i) % M
       /\ queue[i].kind \in S!Kinds \cup {"lost"}
       /\ queue[i].hole <=> i = 1 /\ Len(queue) < Ahead

\* No number is half of them ahead, the one that a press is about to take included.
InHalf ==
  /\ Ahead < S!Half /\ (ctl.at = "offer" => Ahead + 1 < S!Half)
  /\ loop.at \in {"drain", "broke"} =>
       SincePub < S!Half /\ (ctl.at = "offer" => SincePub + 1 < S!Half)

Numbered == Types /\ QueueIsNewest /\ InHalf

-----------------------------------------------------------------------------
(* The numbers.                                                            *)

LEMMA Sizes ==
  ASSUME S!NumbersAssumption
  PROVE  /\ M \in Nat /\ QLen \in Nat \ {0} /\ S!Half \in Nat /\ M = 2 * S!Half
         /\ QLen + 2 <= S!Half
<1>1. M \in Nat /\ M % 2 = 0 /\ QLen \in Nat \ {0} /\ 2 * (QLen + 2) <= M
  BY DEF S!NumbersAssumption
<1>2. M = 2 * (M \div 2) /\ M \div 2 \in Nat
  BY <1>1
<1> QED BY <1>1, <1>2 DEF S!Half

\* A number is brought back among the M by one turn when it is within one of them.
Turned(x) == IF x < 0 THEN x + M ELSE IF x < M THEN x ELSE x - M

LEMMA OneTurn ==
  ASSUME S!NumbersAssumption, NEW x \in Int, 0 - M <= x, x < 2 * M
  PROVE  x % M = Turned(x) /\ Turned(x) \in 0 .. M - 1
<1>1. M \in Nat \ {0}
  BY Sizes
<1>2. \A y \in 0 .. M - 1 : y % M = y
  BY <1>1
<1>3. CASE x < 0
  <2>1. x % M = (x + M) % M
    BY <1>1, <1>3
  <2> QED BY <2>1, <1>1, <1>2, <1>3 DEF Turned
<1>4. CASE 0 <= x /\ x < M
  BY <1>1, <1>2, <1>4 DEF Turned
<1>5. CASE M <= x
  <2>1. x % M = (x - M) % M
    BY <1>1, <1>5
  <2> QED BY <2>1, <1>1, <1>2, <1>5 DEF Turned
<1> QED BY <1>1, <1>3, <1>4, <1>5

LEMMA OwnTurn ==
  ASSUME S!NumbersAssumption, NEW x \in 0 .. M - 1
  PROVE  x % M = x
<1>1. M \in Nat \ {0}
  BY Sizes
<1> QED BY <1>1

\* How far one of two numbers is ahead of the other.
LEMMA MinusIs ==
  ASSUME S!NumbersAssumption, NEW x \in 0 .. M, NEW y \in -1 .. M - 1
  PROVE  S!Minus(x, y) = Turned(x - y) /\ S!Minus(x, y) \in 0 .. M - 1
<1>1. M \in Nat /\ x - y \in Int /\ 0 - M <= x - y /\ x - y < 2 * M
  BY Sizes
<1> QED BY <1>1, OneTurn DEF S!Minus

-----------------------------------------------------------------------------
(* The queue.                                                              *)

Item(kind, owed) ==
  [seq |-> (tseq + 1) % M, kind |-> kind, owed |-> owed, hole |-> FALSE]

\* touch_q_put(): one more, or each one place nearer and a hole ahead of them.
LEMMA SentIs ==
  ASSUME S!NumbersAssumption,
         queue \in Seq(S!Items), Len(queue) <= QLen, tseq \in 0 .. M - 1,
         NEW kind \in S!Kinds \cup {"lost"}, NEW owed \in BOOLEAN
  PROVE  /\ Item(kind, owed) \in S!Items
         /\ S!Sent(kind, owed) \in Seq(S!Items)
         /\ Len(queue) < QLen =>
              /\ Len(S!Sent(kind, owed)) = Len(queue) + 1
              /\ \A i \in 1 .. Len(queue) : S!Sent(kind, owed)[i] = queue[i]
              /\ S!Sent(kind, owed)[Len(queue) + 1] = Item(kind, owed)
         /\ ~(Len(queue) < QLen) =>
              /\ Len(queue) = QLen /\ Len(S!Sent(kind, owed)) = QLen
              /\ \A i \in 1 .. QLen :
                   LET was == IF i < QLen THEN queue[i + 1] ELSE Item(kind, owed)
                   IN  S!Sent(kind, owed)[i] = IF i = 1 THEN [was EXCEPT !.hole = TRUE] ELSE was
<1> DEFINE it == Item(kind, owed)
           left == Append(Tail(queue), it)
<1>1. it \in S!Items
  <2>1. tseq + 1 \in Int /\ 0 - M <= tseq + 1 /\ tseq + 1 < 2 * M
    BY Sizes
  <2>2. (tseq + 1) % M \in 0 .. M - 1
    BY <2>1, OneTurn
  <2> QED BY <2>2 DEF Item, S!Items
<1>2. CASE Len(queue) < QLen
  <2>1. S!Sent(kind, owed) = Append(queue, it)
    BY <1>2 DEF S!Sent, Item
  <2> HIDE DEF it
  <2>2. /\ Append(queue, it) \in Seq(S!Items) /\ Len(Append(queue, it)) = Len(queue) + 1
        /\ \A i \in 1 .. Len(queue) : Append(queue, it)[i] = queue[i]
        /\ Append(queue, it)[Len(queue) + 1] = it
    BY <1>1, AppendProperties
  <2> QED BY <1>1, <1>2, <2>1, <2>2 DEF it
<1>3. CASE ~(Len(queue) < QLen)
  <2>1. Len(queue) = QLen /\ queue # <<>>
    BY <1>3, Sizes
  <2> HIDE DEF it
  <2>2. /\ Tail(queue) \in Seq(S!Items) /\ Len(Tail(queue)) = QLen - 1
        /\ \A i \in 1 .. QLen - 1 : Tail(queue)[i] = queue[i + 1]
    BY <2>1, HeadTailProperties
  <2>3. /\ left \in Seq(S!Items) /\ Len(left) = QLen
        /\ \A i \in 1 .. QLen : left[i] = IF i < QLen THEN queue[i + 1] ELSE it
    BY <1>1, <2>2, AppendProperties, Sizes
  <2> DEFINE head == [left[1] EXCEPT !.hole = TRUE]
             marked == [left EXCEPT ![1] = head]
  <2>4. S!Sent(kind, owed) = marked
    BY <1>3 DEF S!Sent, it, Item
  <2> HIDE DEF left
  <2>5. 1 \in 1 .. Len(left) /\ left[1] \in S!Items /\ head \in S!Items
    <3>1. 1 \in 1 .. Len(left) /\ left[1] \in S!Items
      BY <2>3, Sizes, ElementOfSeq
    <3>2. \A x \in S!Items : [x EXCEPT !.hole = TRUE] \in S!Items
      BY DEF S!Items
    <3> QED BY <3>1, <3>2
  <2> HIDE DEF head
  <2>6. /\ marked \in Seq(S!Items) /\ Len(marked) = QLen
        /\ \A i \in 1 .. QLen : marked[i] = IF i = 1 THEN head ELSE left[i]
    BY <2>3, <2>5, ExceptSeq
  <2> HIDE DEF marked
  <2>7. head = [left[1] EXCEPT !.hole = TRUE]
    BY DEF head
  <2> QED BY <1>1, <1>3, <2>1, <2>3, <2>4, <2>6, <2>7 DEF it
<1> QED BY <1>2, <1>3

\* One number more: all are one further behind it.
LEMMA OneMore ==
  ASSUME S!NumbersAssumption, NEW t \in 0 .. M - 1
  PROVE  /\ (t + 1) % M \in 0 .. M - 1
         /\ \A y \in 0 .. M - 1 :
              /\ S!Minus(t + 1, y) + 1 < M =>
                   S!Minus(((t + 1) % M) + 1, y) = S!Minus(t + 1, y) + 1
              /\ S!Minus(t, y) + 1 < M => S!Minus((t + 1) % M, y) = S!Minus(t, y) + 1
         /\ \A x \in Int : 0 - QLen <= x /\ x <= 0 =>
              (((t + 1) % M) + x) % M = (t + 1 + x) % M
<1> DEFINE u == (t + 1) % M
<1>1. M \in Nat /\ QLen \in Nat /\ QLen + 2 < M /\ t + 1 \in Int
      /\ 0 - M <= t + 1 /\ t + 1 < 2 * M
  BY Sizes
<1>2. u = Turned(t + 1) /\ u \in 0 .. M - 1
  BY <1>1, OneTurn
<1> HIDE DEF u
<1>3. ASSUME NEW y \in 0 .. M - 1
      PROVE  /\ S!Minus(t + 1, y) + 1 < M => S!Minus(u + 1, y) = S!Minus(t + 1, y) + 1
             /\ S!Minus(t, y) + 1 < M => S!Minus(u, y) = S!Minus(t, y) + 1
  <2>1. /\ S!Minus(t + 1, y) = Turned(t + 1 - y) /\ S!Minus(u + 1, y) = Turned(u + 1 - y)
        /\ S!Minus(t, y) = Turned(t - y) /\ S!Minus(u, y) = Turned(u - y)
    <3>1. y \in -1 .. M - 1 /\ {t, t + 1, u, u + 1} \subseteq 0 .. M
      BY <1>1, <1>2
    <3>2. \A x \in 0 .. M : S!Minus(x, y) = Turned(x - y)
      BY <3>1, MinusIs
    <3> QED BY <3>1, <3>2
  <2>2. u = IF t = M - 1 THEN 0 ELSE t + 1
    BY <1>1, <1>2 DEF Turned
  <2>3. S!Minus(t + 1, y) + 1 < M => S!Minus(u + 1, y) = S!Minus(t + 1, y) + 1
    BY <1>1, <2>1, <2>2 DEF Turned
  <2>4. S!Minus(t, y) + 1 < M => S!Minus(u, y) = S!Minus(t, y) + 1
    BY <1>1, <2>1, <2>2 DEF Turned
  <2> QED BY <2>3, <2>4
<1>4. ASSUME NEW x \in Int, 0 - QLen <= x, x <= 0
      PROVE  (u + x) % M = (t + 1 + x) % M
  <2>1. (u + x) % M = Turned(u + x)
    BY <1>1, <1>2, <1>4, OneTurn
  <2>2. (t + 1 + x) % M = Turned(t + 1 + x)
    BY <1>1, <1>4, OneTurn
  <2> QED BY <1>1, <1>2, <1>4, <2>1, <2>2 DEF Turned
<1> QED BY <1>2, <1>3, <1>4 DEF u

\* An item offered: the queue holds the newest numbers still, the new one and
\* those it had, which are one further from its end.
EachIsNewOrOneBack(kind, owed) ==
  \A i \in 1 .. Len(queue') :
    \/ i = Len(queue') /\ queue'[i].kind = kind /\ queue'[i].owed = owed
    \/ \E j \in 1 .. Len(queue) : /\ Len(queue') - i = Len(queue) - j + 1
                                 /\ queue'[i].kind = queue[j].kind
                                 /\ queue'[i].owed = queue[j].owed

LEMMA OfferedKeeps ==
  ASSUME S!NumbersAssumption, Types, QueueIsNewest, Ahead + 1 < S!Half, UNCHANGED rx,
         NEW kind \in S!Kinds \cup {"lost"}, NEW owed \in BOOLEAN, S!Offered(kind, owed)
  PROVE  /\ queue' \in Seq(S!Items) /\ Len(queue') <= QLen /\ tseq' \in 0 .. M - 1
         /\ QueueIsNewest' /\ Ahead' = Ahead + 1
         /\ EachIsNewOrOneBack(kind, owed)
<1> DEFINE n == Len(queue)
<1>1. /\ queue \in Seq(S!Items) /\ n \in Nat /\ n <= QLen
      /\ tseq \in 0 .. M - 1 /\ rx \in 0 .. M - 1
  BY DEF Types, S!TypeOK
<1>2. queue' = S!Sent(kind, owed) /\ tseq' = (tseq + 1) % M /\ Item(kind, owed).seq = tseq'
  BY DEF S!Offered, Item
<1>3. Ahead' = Ahead + 1 /\ tseq' \in 0 .. M - 1 /\ Ahead \in 0 .. M - 1
  <2>1. M \in Nat /\ S!Half < M
    BY Sizes
  <2>2. Ahead \in 0 .. M - 1
    BY <1>1, <2>1, MinusIs DEF Ahead
  <2>3. S!Minus(tseq + 1, rx) + 1 < M
    BY <2>1, <2>2, Sizes DEF Ahead
  <2>4. S!Minus(tseq' + 1, rx') = S!Minus(tseq + 1, rx) + 1 /\ tseq' \in 0 .. M - 1
    <3>1. tseq' = (tseq + 1) % M /\ rx' = rx
      BY <1>2
    <3>2. /\ S!Minus(((tseq + 1) % M) + 1, rx) = S!Minus(tseq + 1, rx) + 1
          /\ (tseq + 1) % M \in 0 .. M - 1
      BY <1>1, <2>3, OneMore
    <3> QED BY <3>1, <3>2
  <2> QED BY <2>2, <2>4 DEF Ahead
<1>4. \A x \in Int : 0 - QLen <= x /\ x <= 0 => (tseq' + x) % M = (tseq + 1 + x) % M
  BY <1>1, <1>2, OneMore
<1>5. tseq' % M = tseq'
  BY <1>3, OwnTurn
<1>6. \A i \in 1 .. n :
        /\ queue[i].seq = (tseq - n + i) % M /\ queue[i].kind \in S!Kinds \cup {"lost"}
        /\ queue[i].hole <=> i = 1 /\ n < Ahead
        /\ queue[i] \in S!Items
  BY <1>1, ElementOfSeq DEF QueueIsNewest
<1>7. n <= Ahead /\ (queue = <<>> => Ahead = 0)
  BY DEF QueueIsNewest
<1>8. CASE n < QLen
  <2>1. /\ queue' \in Seq(S!Items) /\ Len(queue') = n + 1
        /\ \A i \in 1 .. n : queue'[i] = queue[i]
        /\ queue'[n + 1] = Item(kind, owed)
    <3> DEFINE sent == S!Sent(kind, owed)
    <3>1. /\ sent \in Seq(S!Items) /\ Len(sent) = n + 1
          /\ \A i \in 1 .. n : sent[i] = queue[i]
          /\ sent[n + 1] = Item(kind, owed)
      BY <1>1, <1>8, SentIs
    <3> HIDE DEF sent
    <3>2. queue' = sent
      BY <1>2 DEF sent
    <3> QED BY <3>1, <3>2
  <2>2. ASSUME NEW i \in 1 .. n + 1
        PROVE  /\ queue'[i].seq = (tseq' - (n + 1) + i) % M
               /\ queue'[i].kind \in S!Kinds \cup {"lost"}
               /\ queue'[i].hole <=> i = 1 /\ n + 1 < Ahead + 1
               /\ \/ i = n + 1 /\ queue'[i].kind = kind /\ queue'[i].owed = owed
                  \/ i \in 1 .. n /\ queue'[i] = queue[i]
    <3>1. CASE i = n + 1
      <4>1. (tseq' - (n + 1) + i) % M = tseq'
        <5>1. tseq' - (n + 1) + i = tseq'
          BY <1>1, <1>3, <3>1
        <5> QED BY <5>1, <1>5
      <4>2. n = 0 => Ahead = 0
        BY <1>1, <1>7
      <4>3. /\ queue'[i].seq = tseq' /\ queue'[i].kind = kind /\ queue'[i].owed = owed
            /\ queue'[i].hole = FALSE
        BY <1>2, <2>1, <3>1 DEF Item
      <4>4. ~(i = 1 /\ n + 1 < Ahead + 1)
        BY <1>1, <3>1, <4>2
      <4> QED BY <3>1, <4>1, <4>3, <4>4
    <3>2. CASE i \in 1 .. n
      <4>1. (tseq' + (i - (n + 1))) % M = (tseq + 1 + (i - (n + 1))) % M
        BY <1>1, <1>4, <3>2, Sizes
      <4>2. tseq' - (n + 1) + i = tseq' + (i - (n + 1))
            /\ tseq - n + i = tseq + 1 + (i - (n + 1))
        BY <1>1, <1>3
      <4>3. queue'[i] = queue[i] /\ (n < Ahead <=> n + 1 < Ahead + 1)
        BY <1>1, <1>3, <2>1, <3>2
      <4> QED BY <1>6, <3>2, <4>1, <4>2, <4>3
    <3> QED BY <1>1, <3>1, <3>2
  <2>3. QueueIsNewest'
    <3>1. n + 1 <= Ahead' /\ queue' # <<>>
      BY <1>1, <1>3, <1>7, <2>1
    <3> QED BY <1>3, <2>1, <2>2, <3>1 DEF QueueIsNewest
  <2>4. EachIsNewOrOneBack(kind, owed)
    <3>1. \A i \in 1 .. n : (n + 1) - i = n - i + 1
      BY <1>1
    <3> QED BY <2>1, <2>2, <3>1 DEF EachIsNewOrOneBack
  <2>5. Len(queue') <= QLen
    BY <1>1, <1>8, <2>1, Sizes
  <2> QED BY <1>3, <2>1, <2>3, <2>4, <2>5
<1>9. CASE ~(n < QLen)
  <2> DEFINE was(i) == IF i < n THEN queue[i + 1] ELSE Item(kind, owed)
  <2>1. /\ n = QLen /\ n > 0 /\ queue' \in Seq(S!Items) /\ Len(queue') = n
        /\ \A i \in 1 .. n :
             queue'[i] = IF i = 1 THEN [was(i) EXCEPT !.hole = TRUE] ELSE was(i)
    <3>1. /\ n = QLen /\ queue' \in Seq(S!Items) /\ Len(queue') = n
          /\ \A i \in 1 .. QLen :
               LET w == IF i < QLen THEN queue[i + 1] ELSE Item(kind, owed)
               IN  queue'[i] = IF i = 1 THEN [w EXCEPT !.hole = TRUE] ELSE w
      BY <1>1, <1>2, <1>9, SentIs
    <3>2. n > 0
      BY <3>1, Sizes
    <3> QED BY <3>1, <3>2
  <2>2. ASSUME NEW i \in 1 .. n
        PROVE  /\ was(i) \in S!Items
               /\ was(i).seq = (tseq' - n + i) % M
               /\ was(i).kind \in S!Kinds \cup {"lost"} /\ ~was(i).hole
               /\ \/ i = n /\ was(i).kind = kind /\ was(i).owed = owed
                  \/ i + 1 \in 1 .. n /\ was(i) = queue[i + 1]
    <3>1. CASE i = n
      <4>1. (tseq' - n + i) % M = tseq'
        <5>1. tseq' - n + i = tseq'
          BY <1>1, <1>3, <3>1
        <5> QED BY <5>1, <1>5
      <4>2. was(i) = Item(kind, owed) /\ Item(kind, owed) \in S!Items
        <5>1. Item(kind, owed) \in S!Items
          BY <1>1, SentIs
        <5>2. ~(i < n)
          BY <1>1, <3>1
        <5> QED BY <5>1, <5>2
      <4>3. /\ was(i).seq = tseq' /\ was(i).kind = kind /\ was(i).owed = owed
            /\ was(i).hole = FALSE
        BY <1>2, <4>2 DEF Item
      <4> QED BY <3>1, <4>1, <4>2, <4>3
    <3>2. CASE i < n
      <4>1. (tseq' + (i - n)) % M = (tseq + 1 + (i - n)) % M
        BY <1>1, <1>4, <3>2, Sizes
      <4>2. tseq' - n + i = tseq' + (i - n) /\ tseq - n + (i + 1) = tseq + 1 + (i - n)
        BY <1>1, <1>3
      <4>3. was(i) = queue[i + 1] /\ i + 1 \in 1 .. n /\ i + 1 # 1
        BY <1>1, <3>2
      <4> QED BY <1>6, <4>1, <4>2, <4>3
    <3> QED BY <1>1, <3>1, <3>2
  <2> HIDE DEF was
  <2>3. ASSUME NEW i \in 1 .. n
        PROVE  /\ queue'[i].seq = (tseq' - n + i) % M
               /\ queue'[i].kind \in S!Kinds \cup {"lost"}
               /\ queue'[i].hole <=> i = 1 /\ n < Ahead + 1
               /\ \/ i = n /\ queue'[i].kind = kind /\ queue'[i].owed = owed
                  \/ /\ i + 1 \in 1 .. n
                     /\ queue'[i].kind = queue[i + 1].kind
                     /\ queue'[i].owed = queue[i + 1].owed
    <3>1. n < Ahead + 1
      BY <1>1, <1>3, <1>7
    <3>2. CASE i = 1
      <4>1. \A x \in S!Items : LET y == [x EXCEPT !.hole = TRUE]
                            IN  y.seq = x.seq /\ y.kind = x.kind /\ y.owed = x.owed /\ y.hole
        BY DEF S!Items
      <4>2. queue'[i] = [was(i) EXCEPT !.hole = TRUE]
        BY <2>1, <3>2
      <4>3. /\ queue'[i].seq = was(i).seq /\ queue'[i].kind = was(i).kind
            /\ queue'[i].owed = was(i).owed /\ queue'[i].hole
        BY <2>2, <4>1, <4>2
      <4> QED BY <2>2, <3>1, <3>2, <4>3
    <3>3. CASE i # 1
      BY <2>1, <2>2, <3>3
    <3> QED BY <3>2, <3>3
  <2>4. QueueIsNewest'
    <3>1. n <= Ahead' /\ queue' # <<>>
      BY <1>1, <1>3, <1>7, <2>1
    <3> QED BY <1>3, <2>1, <2>3, <3>1 DEF QueueIsNewest
  <2>5. EachIsNewOrOneBack(kind, owed)
    <3>1. \A i \in 1 .. n : n - i = n - (i + 1) + 1
      BY <1>1
    <3>2. Len(queue') = n
      BY <2>1
    <3>3. ASSUME NEW i \in 1 .. n
          PROVE  \/ i = n /\ queue'[i].kind = kind /\ queue'[i].owed = owed
                 \/ \E j \in 1 .. n : /\ n - i = n - j + 1
                                     /\ queue'[i].kind = queue[j].kind
                                     /\ queue'[i].owed = queue[j].owed
      BY <2>3, <3>1
    <3> HIDE DEF n
    <3>4. n = Len(queue)
      BY DEF n
    <3> QED BY <3>2, <3>3, <3>4 DEF EachIsNewOrOneBack
  <2> QED BY <1>1, <1>3, <2>1, <2>4, <2>5
<1> QED BY <1>8, <1>9

\* The bound, as the invariant has it.
LEMMA RoomIs ==
  ASSUME S!NumbersAssumption, Types, S!Room(1)
  PROVE  Ahead + 1 < S!Half /\ (loop.at \in {"drain", "broke"} => SincePub + 1 < S!Half)
<1>1. tseq \in Int /\ rx \in Int
  BY DEF Types, S!TypeOK
<1>2. tseq - (rx - 1) = (tseq + 1) - rx
  BY <1>1
<1>3. S!Minus(tseq, rx - 1) = Ahead
  BY <1>2 DEF Ahead, S!Minus
<1> QED BY <1>3 DEF S!Room, SincePub

\* How far the numbers are ahead is a number.
LEMMA AheadIs ==
  ASSUME S!NumbersAssumption, Types
  PROVE  Ahead \in 0 .. M - 1 /\ SincePub \in 0 .. M - 1
<1>1. /\ tseq \in 0 .. M - 1 /\ rx \in 0 .. M - 1 /\ loop.pub \in 0 .. M - 1 /\ M \in Nat
  BY Sizes DEF Types, S!TypeOK, Loops
<1>2. /\ tseq \in 0 .. M /\ tseq + 1 \in 0 .. M
      /\ rx \in -1 .. M - 1 /\ loop.pub \in -1 .. M - 1
  BY <1>1
<1> QED BY <1>2, MinusIs DEF Ahead, SincePub

\* An item offered where there is room for it, and no press on its way after.
LEMMA OfferNumbers ==
  ASSUME S!NumbersAssumption, Numbered, UNCHANGED <<S!stops, S!render, dropped>>,
         ctl' \in Controls, ctl'.at # "offer",
         Ahead + 1 < S!Half, loop.at \in {"drain", "broke"} => SincePub + 1 < S!Half,
         NEW kind \in S!Kinds \cup {"lost"}, NEW owed \in BOOLEAN, S!Offered(kind, owed)
  PROVE  Numbered'
<1>1. Types /\ QueueIsNewest /\ UNCHANGED <<mark, request, stopLive, loop, rx, latch, band, astray>>
  BY DEF Numbered, S!stops, S!render
<1>2. /\ queue' \in Seq(S!Items) /\ Len(queue') <= QLen /\ tseq' \in 0 .. M - 1
      /\ QueueIsNewest' /\ Ahead' = Ahead + 1
  BY <1>1, OfferedKeeps
<1>3. Types'
  BY <1>1, <1>2 DEF Types, S!TypeOK
<1>4. InHalf'
  <2>1. loop.at \in {"drain", "broke"} => SincePub' < S!Half
    <3>1. SUFFICES ASSUME loop.at \in {"drain", "broke"} PROVE SincePub' < S!Half
      OBVIOUS
    <3>2. loop.pub \in 0 .. M - 1 /\ tseq \in 0 .. M - 1 /\ tseq' = (tseq + 1) % M
      BY <1>1 DEF Types, S!TypeOK, Loops, S!Offered
    <3>3. SincePub + 1 < M /\ SincePub + 1 < S!Half
      BY <1>1, <3>1, AheadIs, Sizes
    <3>4. S!Minus(tseq', loop.pub) = S!Minus(tseq, loop.pub) + 1
      BY <3>2, <3>3, OneMore DEF SincePub
    <3> QED BY <1>1, <3>3, <3>4 DEF SincePub
  <2> QED BY <1>1, <1>2, <2>1 DEF InHalf
<1> QED BY <1>2, <1>3, <1>4 DEF Numbered

LEMMA OfferSteps ==
  ASSUME S!NumbersAssumption, Numbered, S!GapTold \/ S!OtherOffered \/ S!StopOffered
  PROVE  Numbered'
<1>1. Types /\ ctl \in Controls /\ InHalf /\ S!Free \in Controls /\ S!Free.at = "free"
  BY DEF Numbered, Types, S!Free, Controls
<1>2. CASE S!GapTold
  <2>1. S!Offered("lost", FALSE) /\ UNCHANGED <<ctl, S!stops, S!render, dropped>>
        /\ ctl.at = "free" /\ S!Room(1)
    BY <1>2 DEF S!GapTold
  <2> QED BY <1>1, <2>1, RoomIs, OfferNumbers
<1>3. CASE S!OtherOffered
  <2>1. S!Offered("other", FALSE) /\ UNCHANGED <<ctl, S!stops, S!render, dropped>>
        /\ ctl.at = "free" /\ S!Room(1)
    BY <1>3 DEF S!OtherOffered
  <2> QED BY <1>1, <2>1, RoomIs, OfferNumbers DEF S!Kinds
<1>4. CASE S!StopOffered
  <2>1. /\ S!Offered("stop", ctl.missed) /\ UNCHANGED <<S!stops, S!render, dropped>>
        /\ ctl.at = "offer" /\ ctl' = S!Free /\ ctl.missed \in BOOLEAN
    BY <1>1, <1>4 DEF S!StopOffered, Controls
  <2> QED BY <1>1, <2>1, OfferNumbers DEF S!Kinds, InHalf
<1> QED BY <1>2, <1>3, <1>4

\* A STOP applied: all that was owed is, and nothing else has changed.
LEMMA AnsweredIs ==
  ASSUME S!NumbersAssumption, Types, S!AllAnswered
  PROVE  /\ queue' \in Seq(S!Items) /\ Len(queue') = Len(queue)
         /\ \A i \in 1 .. Len(queue) :
              /\ queue'[i].seq = queue[i].seq /\ queue'[i].kind = queue[i].kind
              /\ (queue'[i].hole <=> queue[i].hole) /\ ~queue'[i].owed
         /\ loop' \in Loops /\ ~loop'.item.owed
         /\ loop'.at = loop.at /\ loop'.pub = loop.pub
         /\ {latch', request'} \subseteq {S!Unset, "applied"}
<1>1. queue \in Seq(S!Items) /\ loop \in Loops /\ {latch, request} \subseteq S!Latches
  BY DEF Types, S!TypeOK
<1>2. /\ Len(queue) \in Nat /\ DOMAIN queue = 1 .. Len(queue)
      /\ \A i \in 1 .. Len(queue) : queue[i] \in S!Items
  BY <1>1, ElementOfSeq, LenProperties
<1>3. queue' = [i \in 1 .. Len(queue) |-> [queue[i] EXCEPT !.owed = FALSE]]
  BY <1>2 DEF S!AllAnswered
<1>4. \A x \in S!Items : LET y == [x EXCEPT !.owed = FALSE]
                       IN  /\ y \in S!Items /\ y.seq = x.seq /\ y.kind = x.kind
                           /\ y.hole = x.hole /\ y.owed = FALSE
  BY DEF S!Items
<1>5. queue' \in [1 .. Len(queue) -> S!Items]
  BY <1>2, <1>3, <1>4
<1>6. queue' \in Seq(S!Items) /\ Len(queue') = Len(queue)
  <2> DEFINE n == Len(queue)
  <2>1. n \in Nat /\ queue' \in [1 .. n -> S!Items]
    BY <1>2, <1>5
  <2> HIDE DEF n
  <2>2. queue' \in Seq(S!Items)
    BY <2>1, SeqDef
  <2>3. Len(queue') = n
    BY <2>1, <2>2, LenProperties
  <2> QED BY <2>2, <2>3 DEF n
<1>7. \A i \in 1 .. Len(queue) : queue'[i] = [queue[i] EXCEPT !.owed = FALSE]
  BY <1>3
<1>8. \A i \in 1 .. Len(queue) :
        /\ queue'[i].seq = queue[i].seq /\ queue'[i].kind = queue[i].kind
        /\ (queue'[i].hole <=> queue[i].hole) /\ ~queue'[i].owed
  <2>1. ASSUME NEW i \in 1 .. Len(queue)
        PROVE  /\ queue'[i].seq = queue[i].seq /\ queue'[i].kind = queue[i].kind
               /\ queue'[i].hole = queue[i].hole /\ queue'[i].owed = FALSE
    <3> DEFINE x == queue[i]
               y == [x EXCEPT !.owed = FALSE]
    <3>1. x \in S!Items
      BY <1>2
    <3>2. queue'[i] = y
      BY <1>7
    <3> HIDE DEF x
    <3>3. y.seq = x.seq /\ y.kind = x.kind /\ y.hole = x.hole /\ y.owed = FALSE
      BY <1>4, <3>1
    <3> HIDE DEF y
    <3> QED BY <3>2, <3>3 DEF x
  <2> QED BY <2>1
<1>9. /\ loop' \in Loops /\ ~loop'.item.owed
      /\ loop'.at = loop.at /\ loop'.pub = loop.pub
  <2>1. loop' = [loop EXCEPT !.item = [loop.item EXCEPT !.owed = FALSE]]
    BY <1>1 DEF S!AllAnswered, Loops
  <2>2. loop.item \in S!Items
    BY <1>1 DEF Loops
  <2>3. [loop.item EXCEPT !.owed = FALSE] \in S!Items
        /\ [loop.item EXCEPT !.owed = FALSE].owed = FALSE
    BY <1>4, <2>2
  <2> DEFINE new == [loop.item EXCEPT !.owed = FALSE]
  <2> HIDE DEF new
  <2>4. loop' = [loop EXCEPT !.item = new] /\ new \in S!Items /\ ~new.owed
    BY <2>1, <2>3 DEF new
  <2> QED BY <1>1, <2>4 DEF Loops
<1>10. {latch', request'} \subseteq {S!Unset, "applied"}
  BY <1>1 DEF S!AllAnswered, S!Answered, S!Latches
<1> QED BY <1>6, <1>8, <1>9, <1>10

\* The numbers do not see a step that leaves them and their queue's alone.
LEMMA QueueKept ==
  ASSUME S!NumbersAssumption,
         Types, QueueIsNewest, UNCHANGED <<tseq, rx>>, Len(queue') = Len(queue),
         queue' \in Seq(S!Items),
         \A i \in 1 .. Len(queue) :
           /\ queue'[i].seq = queue[i].seq /\ queue'[i].kind = queue[i].kind
           /\ (queue'[i].hole <=> queue[i].hole)
  PROVE  QueueIsNewest' /\ Ahead' = Ahead
<1>1. Ahead' = Ahead
  BY DEF Ahead, S!Minus
<1>2. queue' = <<>> <=> queue = <<>>
  BY EmptySeq DEF Types, S!TypeOK
<1> QED BY <1>1, <1>2 DEF QueueIsNewest

\* A step that leaves the numbers, the queue's too, and the loop's place.
LEMMA NumbersKept ==
  ASSUME S!NumbersAssumption,
         Numbered, UNCHANGED <<tseq, rx>>, Len(queue') = Len(queue), queue' \in Seq(S!Items),
         \A i \in 1 .. Len(queue) :
           /\ queue'[i].seq = queue[i].seq /\ queue'[i].kind = queue[i].kind
           /\ (queue'[i].hole <=> queue[i].hole),
         loop' \in Loops, loop'.at = loop.at, loop'.pub = loop.pub,
         ctl' \in Controls, mark' \in 0 .. M - 1, {latch', request'} \subseteq S!Latches,
         {stopLive', band', astray', dropped'} \subseteq BOOLEAN,
         ctl'.at = "offer" => S!Room(1)
  PROVE  Numbered'
<1>1. Types /\ QueueIsNewest /\ InHalf
  BY DEF Numbered
<1>2. QueueIsNewest' /\ Ahead' = Ahead
  BY <1>1, QueueKept
<1>3. Types'
  BY <1>1 DEF Types, S!TypeOK, Loops
<1>4. SincePub' = SincePub
  BY DEF SincePub, S!Minus
<1>5. ctl'.at = "offer" => /\ Ahead + 1 < S!Half
                           /\ loop.at \in {"drain", "broke"} => SincePub + 1 < S!Half
  BY <1>1, RoomIs
<1>6. InHalf'
  BY <1>1, <1>2, <1>4, <1>5 DEF InHalf
<1> QED BY <1>2, <1>3, <1>6 DEF Numbered

LEMMA ControlNumbers ==
  ASSUME S!NumbersAssumption,
         Numbered, S!StopHit \/ S!StopMissed \/ S!RequestTaken \/ S!MarkTaken
  PROVE  Numbered'
<1>1. /\ Types /\ queue \in Seq(S!Items) /\ loop \in Loops /\ ctl \in Controls
      /\ mark \in 0 .. M - 1 /\ {latch, request} \subseteq S!Latches
      /\ {stopLive, band, astray, dropped} \subseteq BOOLEAN /\ tseq \in 0 .. M - 1
  BY DEF Numbered, Types, S!TypeOK
<1>2. S!Free \in Controls /\ [S!Free EXCEPT !.at = "offer"] \in Controls
      /\ [S!Free EXCEPT !.at = "offer", !.missed = TRUE] \in Controls
      /\ [S!Free EXCEPT !.at = "mark", !.owed = (request = "owed")] \in Controls
      /\ S!Free.at = "free"
      /\ [S!Free EXCEPT !.at = "mark", !.owed = (request = "owed")].at = "mark"
  BY DEF S!Free, Controls
<1>3. S!NextNumber \in 0 .. M - 1 /\ 0 \in 0 .. M - 1
  <2>1. M \in Nat \ {0}
    BY Sizes
  <2> QED BY <1>1, <2>1, OneMore DEF S!NextNumber
<1>4. CASE S!StopHit
  <2>1. /\ S!AllAnswered /\ mark' = S!NextNumber /\ ctl' = [S!Free EXCEPT !.at = "offer"]
        /\ S!Room(1) /\ UNCHANGED <<tseq, stopLive, rx, band, dropped>> /\ astray' = FALSE
    BY <1>4 DEF S!StopHit
  <2>2. {latch', request'} \subseteq S!Latches
    BY <1>1, <2>1, AnsweredIs DEF S!Latches, S!Unset
  <2> QED BY <1>1, <1>2, <1>3, <2>1, <2>2, AnsweredIs, NumbersKept
<1>5. CASE S!StopMissed
  BY <1>1, <1>2, <1>5, NumbersKept DEF S!StopMissed, S!MissMarks, S!stream, S!render
<1>6. CASE S!RequestTaken
  BY <1>1, <1>2, <1>6, NumbersKept DEF S!RequestTaken, S!stream, S!render, S!Latches
<1>7. CASE S!MarkTaken
  <2>1. /\ ctl' = S!Free /\ mark' = 0 /\ astray' = FALSE
        /\ UNCHANGED <<tseq, stopLive, rx, band, dropped>>
    BY <1>7 DEF S!MarkTaken
  <2>2. CASE S!AllAnswered
    <3>1. {latch', request'} \subseteq S!Latches
      BY <1>1, <2>2, AnsweredIs DEF S!Latches, S!Unset
    <3> QED BY <1>1, <1>2, <1>3, <2>1, <2>2, <3>1, AnsweredIs, NumbersKept
  <2>3. CASE UNCHANGED <<latch, request, queue, loop>>
    BY <1>1, <1>2, <1>3, <2>1, <2>3, NumbersKept
  <2> QED BY <1>7, <2>2, <2>3 DEF S!MarkTaken
<1> QED BY <1>4, <1>5, <1>6, <1>7

-----------------------------------------------------------------------------
(* The render loop.                                                        *)

\* The first item of n that end with the number t, when a are expected from r on.
LEMMA FirstIs ==
  ASSUME S!NumbersAssumption,
         NEW t \in 0 .. M - 1, NEW r \in 0 .. M - 1, NEW n \in 1 .. QLen, NEW h,
         h = (t - n + 1) % M, n <= S!Minus(t + 1, r)
  PROVE  /\ h \in 0 .. M - 1 /\ (h + 1) % M \in 0 .. M - 1
         /\ S!Minus(h, r) = S!Minus(t + 1, r) - n
         /\ S!Minus(t + 1, (h + 1) % M) = n - 1
<1> DEFINE a == S!Minus(t + 1, r)
           x == (h + 1) % M
<1>1. M \in Nat /\ QLen \in Nat /\ QLen + 2 < M /\ n \in Nat /\ 0 < n /\ n <= QLen
  BY Sizes
<1>2. h = IF t - n + 1 < 0 THEN t - n + 1 + M ELSE t - n + 1
  <2>1. t - n + 1 \in Int /\ 0 - M <= t - n + 1 /\ t - n + 1 < M
    BY <1>1
  <2>2. (t - n + 1) % M = Turned(t - n + 1)
    BY <1>1, <2>1, OneTurn
  <2> QED BY <2>1, <2>2 DEF Turned
<1>3. h \in 0 .. M - 1
  BY <1>1, <1>2
<1>4. \A y \in 0 .. M : \A z \in 0 .. M - 1 : S!Minus(y, z) = Turned(y - z)
  <2>1. ASSUME NEW y \in 0 .. M, NEW z \in 0 .. M - 1
        PROVE  S!Minus(y, z) = Turned(y - z)
    <3>1. z \in -1 .. M - 1
      BY <1>1
    <3> QED BY <3>1, MinusIs
  <2> QED BY <2>1
<1>5. a = Turned((t + 1) - r) /\ a \in Nat /\ n <= a
  <2>1. t + 1 \in 0 .. M
    BY <1>1
  <2>2. a = Turned((t + 1) - r)
    BY <1>4, <2>1
  <2>3. a \in Int
    BY <1>1, <2>2 DEF Turned
  <2> QED BY <1>1, <2>2, <2>3
<1> HIDE DEF a
<1>6. S!Minus(h, r) = a - n
  <2>1. h \in 0 .. M
    BY <1>1, <1>3
  <2>2. S!Minus(h, r) = Turned(h - r)
    BY <1>4, <2>1
  <2>3. a = IF (t + 1) - r < 0 THEN (t + 1) - r + M ELSE (t + 1) - r
    BY <1>1, <1>5 DEF Turned
  <2> QED BY <1>1, <1>2, <1>3, <1>5, <2>2, <2>3 DEF Turned
<1>7. x = IF h = M - 1 THEN 0 ELSE h + 1
  <2>1. h + 1 \in Int /\ 0 - M <= h + 1 /\ h + 1 < 2 * M
    BY <1>1, <1>3
  <2>2. x = Turned(h + 1)
    BY <1>1, <2>1, OneTurn
  <2> QED BY <1>1, <1>3, <2>2 DEF Turned
<1> HIDE DEF x
<1>8. x \in 0 .. M - 1
  BY <1>1, <1>3, <1>7
<1>9. S!Minus(t + 1, x) = n - 1
  <2>1. t + 1 \in 0 .. M
    BY <1>1
  <2>2. S!Minus(t + 1, x) = Turned((t + 1) - x)
    BY <1>4, <1>8, <2>1
  <2>3. CASE h = M - 1
    BY <1>1, <1>2, <1>3, <1>7, <2>2, <2>3 DEF Turned
  <2>4. CASE h # M - 1
    BY <1>1, <1>2, <1>3, <1>7, <2>2, <2>4 DEF Turned
  <2> QED BY <2>3, <2>4
<1> QED BY <1>3, <1>6, <1>8, <1>9 DEF a, x

\* touch_seq_missed() finds what is missing ahead of the first item, and the
\* item taken is the number expected next but for that.
LEMMA TakenIs ==
  ASSUME S!NumbersAssumption,
         Numbered, queue # <<>>, UNCHANGED tseq, queue' = Tail(queue),
         rx' = (Head(queue).seq + 1) % M
  PROVE  /\ Head(queue) \in S!Items /\ Head(queue).kind \in S!Kinds \cup {"lost"}
         /\ S!Missed(rx, Head(queue).seq) > 0 <=> Head(queue).hole
         /\ queue' \in Seq(S!Items) /\ Len(queue') = Len(queue) - 1 /\ rx' \in 0 .. M - 1
         /\ \A i \in 1 .. Len(queue') : queue'[i] = queue[i + 1]
         /\ QueueIsNewest' /\ Ahead' \in Nat /\ Ahead' < Ahead /\ Ahead' = Len(queue')
<1> DEFINE n == Len(queue)
           h == Head(queue)
<1>1. /\ Types /\ QueueIsNewest /\ InHalf /\ queue \in Seq(S!Items) /\ n <= QLen
      /\ tseq \in 0 .. M - 1 /\ rx \in 0 .. M - 1
  BY DEF Numbered, Types, S!TypeOK
<1>2. M \in Nat /\ S!Half \in Nat /\ M = 2 * S!Half /\ QLen + 2 <= S!Half /\ QLen \in Nat
  BY Sizes
<1>3. n \in Nat \ {0} /\ h = queue[1] /\ h \in S!Items
  BY <1>1, EmptySeq, HeadTailProperties, ElementOfSeq
<1>4. /\ queue' \in Seq(S!Items) /\ Len(queue') = n - 1
      /\ \A i \in 1 .. n - 1 : queue'[i] = queue[i + 1]
  BY <1>1, HeadTailProperties
<1>5. Ahead \in Nat /\ Ahead < S!Half /\ n <= Ahead
  BY <1>1, AheadIs DEF InHalf, QueueIsNewest
<1>6. n \in 1 .. QLen /\ h.seq = (tseq - n + 1) % M /\ n <= S!Minus(tseq + 1, rx)
  BY <1>1, <1>2, <1>3, <1>5 DEF QueueIsNewest, Ahead
<1>7. /\ rx' \in 0 .. M - 1 /\ S!Minus(h.seq, rx) = S!Minus(tseq + 1, rx) - n
      /\ S!Minus(tseq + 1, rx') = n - 1
  BY <1>1, <1>6, FirstIs
<1>8. S!Minus(h.seq, rx) = Ahead - n /\ Ahead' = n - 1
  BY <1>7 DEF Ahead
<1>9. S!Missed(rx, h.seq) > 0 <=> h.hole
  <2>1. S!Missed(rx, h.seq) = Ahead - n
    BY <1>2, <1>3, <1>5, <1>8 DEF S!Missed
  <2>2. h.hole <=> n < Ahead
    BY <1>1, <1>3 DEF QueueIsNewest
  <2> QED BY <1>3, <1>5, <2>1, <2>2
<1>12. QueueIsNewest'
  <2>1. queue' = <<>> => n = 1
    <3>1. queue' = <<>> => Len(queue') = 0
      OBVIOUS
    <3> QED BY <1>3, <1>4, <3>1
  <2>2. ASSUME NEW i \in 1 .. n - 1
        PROVE  /\ queue'[i].seq = (tseq - (n - 1) + i) % M
               /\ queue'[i].kind \in S!Kinds \cup {"lost"} /\ ~queue'[i].hole
    <3>1. i + 1 \in 1 .. n /\ i + 1 # 1 /\ queue'[i] = queue[i + 1]
      BY <1>3, <1>4
    <3>2. tseq - n + (i + 1) = tseq - (n - 1) + i
      BY <1>1, <1>3
    <3> QED BY <1>1, <3>1, <3>2 DEF QueueIsNewest
  <2>3. /\ Len(queue') = n - 1 /\ ~(Len(queue') < Ahead') /\ Len(queue') <= Ahead'
        /\ queue' = <<>> => Ahead' = 0
    BY <1>3, <1>4, <1>8, <2>1
  <2>4. ASSUME NEW i \in 1 .. Len(queue')
        PROVE  /\ queue'[i].seq = (tseq' - Len(queue') + i) % M
               /\ queue'[i].kind \in S!Kinds \cup {"lost"}
               /\ queue'[i].hole <=> i = 1 /\ Len(queue') < Ahead'
    BY <1>4, <2>2, <2>3
  <2> QED BY <2>3, <2>4 DEF QueueIsNewest
<1>13. h.kind \in S!Kinds \cup {"lost"}
  BY <1>1, <1>3 DEF QueueIsNewest
<1>14. Ahead' \in Nat /\ Ahead' < Ahead /\ Ahead' = Len(queue')
  BY <1>3, <1>4, <1>5, <1>8
<1> QED BY <1>3, <1>4, <1>7, <1>9, <1>12, <1>13, <1>14

\* An event on the screens owes a STOP if it did.
LEMMA DispatchedIs ==
  ASSUME S!NumbersAssumption, Types, NEW it \in S!Items, S!Dispatched(it)
  PROVE  /\ latch' \in S!Latches /\ {band', astray'} \subseteq BOOLEAN /\ dropped' = FALSE
         /\ latch' = "owed" => latch = "owed" \/ it.owed
<1>1. latch \in S!Latches /\ {band, astray} \subseteq BOOLEAN /\ it.owed \in BOOLEAN
  BY DEF Types, S!TypeOK, S!Items
<1>2. CASE it.kind = "stop" /\ band
  BY <1>1, <1>2 DEF S!Dispatched, S!Joined, S!Joins, S!Latches, S!Unset
<1>3. CASE ~(it.kind = "stop" /\ band)
  BY <1>1, <1>3 DEF S!Dispatched, S!Shows, S!Strays
<1> QED BY <1>2, <1>3

\* The gestures dropped, and the latch handed over.
LEMMA BrokeIs ==
  ASSUME S!NumbersAssumption, Types, NEW it \in S!Items, S!Broke(it)
  PROVE  /\ loop' \in Loops /\ loop'.at = "broke" /\ loop'.pub = loop.pub
         /\ loop'.item = it /\ dropped' = TRUE /\ astray' \in BOOLEAN
         /\ {latch', request'} \subseteq S!Latches
         /\ "owed" \in {latch', request'} => "owed" \in {latch, request}
<1>1. {latch, request} \subseteq S!Latches /\ loop \in Loops /\ astray \in BOOLEAN
  BY DEF Types, S!TypeOK
<1>2. /\ loop' \in Loops /\ loop'.at = "broke" /\ loop'.pub = loop.pub
      /\ loop'.item = it
  BY <1>1 DEF S!Broke, Loops
<1>3. /\ request' = S!Joined(request, latch) /\ latch' = S!Unset /\ dropped' = TRUE
      /\ astray' \in BOOLEAN
  BY <1>1 DEF S!Broke, S!Joins
<1> QED BY <1>1, <1>2, <1>3 DEF S!Joined, S!Latches, S!Unset

\* touch_seq_tail(): the end of a queue that is empty is never missed.
LEMMA TailIsThere ==
  ASSUME S!NumbersAssumption, Numbered, S!In("drain"), queue = <<>>
  PROVE  S!TailMissed(rx, loop.pub) = 0
<1> DEFINE p == loop.pub
<1>1. /\ M \in Nat /\ S!Half \in Nat /\ M = 2 * S!Half /\ 0 < S!Half
      /\ tseq \in 0 .. M - 1 /\ rx \in 0 .. M - 1 /\ p \in 0 .. M - 1
  BY Sizes DEF Numbered, Types, S!TypeOK, Loops
<1> HIDE DEF p
<1>2. S!Minus(tseq + 1, rx) = 0 /\ S!Minus(tseq, p) < S!Half
  BY DEF Numbered, QueueIsNewest, InHalf, Ahead, SincePub, S!In, p
<1>3. /\ S!Minus(tseq + 1, rx) = Turned((tseq + 1) - rx)
      /\ S!Minus(tseq, p) = Turned(tseq - p)
      /\ S!Minus(p, rx - 1) = Turned(p - (rx - 1))
  <2>1. /\ tseq + 1 \in 0 .. M /\ tseq \in 0 .. M /\ p \in 0 .. M
        /\ rx \in -1 .. M - 1 /\ p \in -1 .. M - 1 /\ rx - 1 \in -1 .. M - 1
    BY <1>1
  <2> QED BY <2>1, MinusIs
<1>4. rx = IF tseq = M - 1 THEN 0 ELSE tseq + 1
  BY <1>1, <1>2, <1>3 DEF Turned
<1>5. S!Minus(p, rx - 1) = 0 \/ S!Minus(p, rx - 1) >= S!Half
  <2>1. CASE tseq = M - 1
    BY <1>1, <1>2, <1>3, <1>4, <2>1 DEF Turned
  <2>2. CASE tseq # M - 1
    BY <1>1, <1>2, <1>3, <1>4, <2>2 DEF Turned
  <2> QED BY <2>1, <2>2
<1> QED BY <1>1, <1>5 DEF S!TailMissed, p

\* A step of the loop that leaves the queue and its reader.
LEMMA LoopKept ==
  ASSUME S!NumbersAssumption,
         Numbered, UNCHANGED <<S!stream, rx, ctl>>, loop' \in Loops,
         loop'.at \in {"drain", "broke"} =>
           \/ loop.at \in {"drain", "broke"} /\ loop'.pub = loop.pub
           \/ loop'.pub = tseq,
         mark' \in 0 .. M - 1, {latch', request'} \subseteq S!Latches,
         {stopLive', band', astray', dropped'} \subseteq BOOLEAN
  PROVE  Numbered'
<1>1. Types /\ QueueIsNewest /\ InHalf /\ UNCHANGED <<queue, tseq>>
  BY DEF Numbered, S!stream
<1>2. Types'
  BY <1>1 DEF Types, S!TypeOK, Loops
<1>3. QueueIsNewest' /\ Ahead' = Ahead
  BY <1>1 DEF QueueIsNewest, Ahead, S!Minus
<1>4. InHalf'
  <2>1. SUFFICES ASSUME loop'.at \in {"drain", "broke"}
                 PROVE  SincePub' < S!Half /\ (ctl.at = "offer" => SincePub' + 1 < S!Half)
    BY <1>1, <1>3 DEF InHalf
  <2>2. CASE loop.at \in {"drain", "broke"} /\ loop'.pub = loop.pub
    <3>1. SincePub' = SincePub
      BY <1>1, <2>2 DEF SincePub, S!Minus
    <3> QED BY <1>1, <2>2, <3>1 DEF InHalf
  <2>3. CASE loop'.pub = tseq
    <3>1. tseq \in 0 .. M - 1 /\ M \in Nat /\ S!Half \in Nat /\ 2 <= S!Half - 1
      BY <1>1, Sizes DEF Types, S!TypeOK
    <3>2. SincePub' = S!Minus(tseq, tseq)
      BY <1>1, <2>3 DEF SincePub
    <3>3. tseq \in 0 .. M /\ tseq \in -1 .. M - 1
      BY <3>1
    <3>4. S!Minus(tseq, tseq) = Turned(tseq - tseq)
      BY <3>3, MinusIs
    <3>5. S!Minus(tseq, tseq) = 0
      BY <3>1, <3>4 DEF Turned
    <3> QED BY <3>1, <3>2, <3>5
  <2> QED BY <2>1, <2>2, <2>3
<1> QED BY <1>2, <1>3, <1>4 DEF Numbered

LEMMA ItemNumbers ==
  ASSUME S!NumbersAssumption, Numbered, S!ItemTaken
  PROVE  Numbered'
<1> DEFINE h == Head(queue)
<1>1. /\ Types /\ InHalf /\ loop \in Loops /\ ctl \in Controls /\ mark \in 0 .. M - 1
      /\ {latch, request} \subseteq S!Latches /\ queue \in Seq(S!Items) /\ Len(queue) <= QLen
      /\ {stopLive, band, astray, dropped} \subseteq BOOLEAN /\ tseq \in 0 .. M - 1
  BY DEF Numbered, Types, S!TypeOK
<1>2. /\ queue # <<>> /\ queue' = Tail(queue) /\ rx' = (h.seq + 1) % M
      /\ UNCHANGED <<tseq, ctl, mark, stopLive>> /\ S!In("drain")
      /\ \/ S!Broke(h) /\ UNCHANGED band
         \/ S!Dispatched(h) /\ UNCHANGED <<request, loop>>
  BY DEF S!ItemTaken
<1>3. /\ h \in S!Items /\ queue' \in Seq(S!Items) /\ Len(queue') = Len(queue) - 1
      /\ rx' \in 0 .. M - 1 /\ QueueIsNewest' /\ Ahead' \in Nat /\ Ahead' < Ahead
  BY <1>2, TakenIs
<1>4. /\ loop' \in Loops /\ loop'.pub = loop.pub /\ {latch', request'} \subseteq S!Latches
      /\ {band', astray', dropped'} \subseteq BOOLEAN
  <2>1. CASE S!Broke(h) /\ UNCHANGED band
    BY <1>1, <1>3, <2>1, BrokeIs
  <2>2. CASE S!Dispatched(h) /\ UNCHANGED <<request, loop>>
    BY <1>1, <1>3, <2>2, DispatchedIs
  <2> QED BY <1>2, <2>1, <2>2
<1>5. Len(queue') <= QLen
  BY <1>1, <1>3, Sizes, LenProperties
<1>6. Types'
  BY <1>1, <1>2, <1>3, <1>4, <1>5 DEF Types, S!TypeOK, Loops
<1>7. SincePub' = SincePub
  BY <1>2, <1>4 DEF SincePub, S!Minus
<1>8. Ahead' + 1 < Ahead + 1 /\ Ahead \in Nat /\ S!Half \in Nat
  <2>1. Ahead \in Nat
    BY <1>1, AheadIs, Sizes
  <2>2. \A x, y \in Nat : x < y => x + 1 < y + 1
    OBVIOUS
  <2>3. Ahead' + 1 < Ahead + 1
    BY <1>3, <2>1, <2>2, Zenon
  <2> QED BY <2>1, <2>3, Sizes
<1>9. InHalf'
  <2>1. /\ Ahead < S!Half /\ (ctl.at = "offer" => Ahead + 1 < S!Half)
        /\ SincePub < S!Half /\ (ctl.at = "offer" => SincePub + 1 < S!Half)
    BY <1>1, <1>2 DEF InHalf, S!In
  <2>2. Ahead' < S!Half /\ (ctl.at = "offer" => Ahead' + 1 < S!Half)
    <3>1. Ahead' < S!Half
      BY <1>3, <1>8, <2>1
    <3>2. ASSUME ctl.at = "offer" PROVE Ahead' + 1 < S!Half
      <4>1. Ahead + 1 < S!Half
        BY <2>1, <3>2
      <4>2. Ahead' \in Nat /\ Ahead \in Nat /\ S!Half \in Nat /\ Ahead' < Ahead
        BY <1>3, <1>8
      <4>3. \A x, y, z \in Nat : x < y /\ y + 1 < z => x + 1 < z
        OBVIOUS
      <4> QED BY <4>1, <4>2, <4>3, Zenon
    <3> QED BY <3>1, <3>2
  <2> QED BY <1>2, <1>7, <2>1, <2>2 DEF InHalf
<1> QED BY <1>3, <1>6, <1>9 DEF Numbered

LEMMA LoopNumbers ==
  ASSUME S!NumbersAssumption,
         Numbered, S!DrainBegins \/ S!BreakEnds \/ S!DrainEnds \/ S!FrameMiddle \/ S!FrameTick
  PROVE  Numbered'
<1>1. /\ Types /\ loop \in Loops /\ mark \in 0 .. M - 1 /\ tseq \in 0 .. M - 1
      /\ {latch, request} \subseteq S!Latches /\ {stopLive, band, astray, dropped} \subseteq BOOLEAN
      /\ loop.item \in S!Items
  BY DEF Numbered, Types, S!TypeOK
<1>2. S!NoItem \in S!Items /\ 0 \in 0 .. M - 1 /\ S!NoFrame \in Loops /\ S!NoFrame.at = "first"
  <2>1. 0 \in 0 .. M - 1
    BY Sizes
  <2> QED BY <2>1 DEF S!NoItem, S!Items, S!NoFrame, Loops
<1>3. CASE S!DrainBegins
  <2>1. /\ loop' = [S!NoFrame EXCEPT !.at = "drain", !.pub = tseq, !.second = S!In("second")]
        /\ UNCHANGED <<S!stream, ctl, S!stops, rx, latch, band, astray, dropped>>
    BY <1>3 DEF S!DrainBegins
  <2>2. loop' \in Loops /\ loop'.pub = tseq
    BY <1>1, <1>2, <2>1 DEF S!NoFrame, Loops, S!In
  <2> QED BY <1>1, <2>1, <2>2, LoopKept DEF S!stops
<1>4. CASE S!BreakEnds
  <2>1. /\ loop' = [loop EXCEPT !.at = "drain", !.item = S!NoItem] /\ S!In("broke")
        /\ UNCHANGED <<S!stream, ctl, request, stopLive, rx>> /\ mark' \in {0, mark}
        /\ S!Dispatched(loop.item) \/ UNCHANGED <<latch, band, astray, dropped>>
    BY <1>4 DEF S!BreakEnds
  <2>2. loop' \in Loops /\ loop'.pub = loop.pub /\ mark' \in 0 .. M - 1
    BY <1>1, <1>2, <2>1 DEF Loops
  <2>3. latch' \in S!Latches /\ {band', astray', dropped'} \subseteq BOOLEAN
    BY <1>1, <2>1, DispatchedIs
  <2> QED BY <1>1, <2>1, <2>2, <2>3, LoopKept DEF S!In
<1>5. CASE S!DrainEnds
  <2>1. /\ loop' = [S!NoFrame EXCEPT !.at = IF loop.second THEN "tick" ELSE "middle"]
        /\ UNCHANGED <<S!stream, ctl, mark, stopLive, band, request, rx, latch, astray, dropped>>
    <3>1. S!TailMissed(rx, loop.pub) = 0
      BY <1>5, TailIsThere DEF S!DrainEnds
    <3> QED BY <1>5, <3>1 DEF S!DrainEnds
  <2>2. loop' \in Loops /\ loop'.at \in {"tick", "middle"}
    BY <1>2, <2>1 DEF S!NoFrame, Loops
  <2> QED BY <1>1, <2>1, <2>2, LoopKept
<1>6. CASE S!FrameMiddle
  <2>1. /\ loop' = [S!NoFrame EXCEPT !.at = "second"] /\ stopLive' = band
        /\ request' = S!Joined(request, latch) /\ latch' = S!Unset
        /\ UNCHANGED <<S!stream, ctl, mark, rx, band, dropped>> /\ astray' \in BOOLEAN
    BY <1>1, <1>6 DEF S!FrameMiddle, S!Joins
  <2>2. loop' \in Loops /\ loop'.at = "second"
    BY <1>2, <2>1 DEF S!NoFrame, Loops
  <2>3. {latch', request'} \subseteq S!Latches
    BY <1>1, <2>1 DEF S!Joined, S!Latches, S!Unset
  <2> QED BY <1>1, <2>1, <2>2, <2>3, LoopKept
<1>7. CASE S!FrameTick
  <2>1. loop' = S!NoFrame /\ band' \in BOOLEAN
        /\ UNCHANGED <<S!stream, ctl, S!stops, rx, latch, astray, dropped>>
    BY <1>7 DEF S!FrameTick, S!Shows
  <2> QED BY <1>1, <1>2, <2>1, LoopKept DEF S!stops
<1> QED BY <1>3, <1>4, <1>5, <1>6, <1>7

-----------------------------------------------------------------------------
(* The theorems of the stream.                                             *)

LEMMA StreamStarts ==
  ASSUME S!NumbersAssumption, S!Init
  PROVE  Numbered
<1>1. M \in Nat \ {0} /\ QLen \in Nat /\ S!Half \in Nat /\ 0 < S!Half /\ 1 < M
  BY Sizes
<1>2. 0 \in 0 .. M - 1 /\ 1 \in 0 .. M - 1 /\ 1 \in 0 .. M /\ 1 \in -1 .. M - 1
  BY <1>1
<1>3. S!NoItem \in S!Items
  BY <1>2 DEF S!NoItem, S!Items
<1>4. S!NoFrame \in Loops /\ S!NoFrame.at = "first" /\ S!Free \in Controls /\ S!Free.at = "free"
  BY <1>2, <1>3 DEF S!NoFrame, Loops, S!Free, Controls
<1>5. queue = <<>> /\ Len(queue) = 0 /\ queue \in Seq(S!Items) /\ tseq = 0 /\ rx = 1
  BY DEF S!Init
<1>6. Types
  <2>1. S!NoFrame.item = S!NoItem
    BY DEF S!NoFrame
  <2>2. S!TypeOK
    BY <1>1, <1>2, <1>3, <1>5, <2>1 DEF S!Init, S!TypeOK, S!Latches
  <2> QED BY <1>4, <2>2 DEF S!Init, Types
<1>7. Ahead = 0
  <2>1. S!Minus(1, 1) = Turned(1 - 1)
    BY <1>2, MinusIs
  <2>2. Ahead = S!Minus(1, 1)
    BY <1>5 DEF Ahead
  <2> QED BY <1>1, <2>1, <2>2 DEF Turned
<1>8. QueueIsNewest
  BY <1>5, <1>7 DEF QueueIsNewest
<1>9. InHalf
  BY <1>1, <1>4, <1>7 DEF S!Init, InHalf
<1> QED BY <1>6, <1>8, <1>9 DEF Numbered

LEMMA StreamSteps ==
  ASSUME S!NumbersAssumption, Numbered, [S!Next]_(S!vars)
  PROVE  Numbered'
<1>1. CASE S!GapTold \/ S!OtherOffered \/ S!StopOffered
  BY <1>1, OfferSteps
<1>2. CASE S!StopHit \/ S!StopMissed \/ S!RequestTaken \/ S!MarkTaken
  BY <1>2, ControlNumbers
<1>3. CASE S!ItemTaken
  BY <1>3, ItemNumbers
<1>4. CASE S!DrainBegins \/ S!BreakEnds \/ S!DrainEnds \/ S!FrameMiddle \/ S!FrameTick
  BY <1>4, LoopNumbers
<1>5. CASE UNCHANGED S!vars
  <2>1. UNCHANGED <<S!stream, rx, ctl, mark, request, stopLive, loop, latch, band, astray, dropped>>
    BY <1>5 DEF S!vars, S!stops, S!render
  <2> QED BY <2>1, LoopKept DEF Numbered, Types, S!TypeOK
<1> QED BY <1>1, <1>2, <1>3, <1>4, <1>5 DEF S!Next, S!Control, S!Render

\* The numbers hold of every state.
LEMMA StreamNumbers ==
  ASSUME S!NumbersAssumption
  PROVE  S!Spec => []Numbered
<1>1. S!Init => Numbered
  BY StreamStarts
<1>2. Numbered /\ [S!Next]_(S!vars) => Numbered'
  BY StreamSteps
<1> QED BY <1>1, <1>2, PTL DEF S!Spec

\* The numbers in the queue, the marks and the latches keep their types, and the
\* queue its length (touch_q_put(), touch_seq_take()).
THEOREM StreamTypes ==
  ASSUME S!NumbersAssumption
  PROVE  S!Spec => []S!TypeOK
<1>1. Numbered => S!TypeOK
  BY DEF Numbered, Types
<1> QED BY <1>1, StreamNumbers, PTL DEF S!Spec

\* No event reaches the screens across a loss they have not been told of: when
\* an item behind a hole is taken, the gestures are dropped first
\* (drain_touch(), touch_seq_take()), for every even M and wherever it wraps.
THEOREM Told ==
  ASSUME S!NumbersAssumption
  PROVE  S!Spec => S!ToldBeforeDispatch
<1>1. ASSUME Numbered, S!ItemTaken, Head(queue).hole
      PROVE  dropped'
  <2>1. Types /\ Head(queue) \in S!Items /\ S!ShowsLoss(Head(queue))
    BY <1>1, TakenIs DEF S!ItemTaken, S!ShowsLoss, Numbered
  <2>2. S!Broke(Head(queue))
    BY <1>1, <2>1 DEF S!ItemTaken
  <2> QED BY <2>1, <2>2, BrokeIs
<1>2. Numbered /\ [S!Next]_(S!vars) => [S!ItemTaken /\ Head(queue).hole => dropped']_(S!vars)
  BY <1>1
<1> QED BY <1>2, StreamNumbers, PTL DEF S!Spec, S!ToldBeforeDispatch

\* What drops the gestures is an item that shows a loss.
LEMMA DropIsForALoss ==
  ASSUME S!NumbersAssumption,
         Numbered, [S!Next]_(S!vars), S!In("drain"), loop'.at = "broke"
  PROVE  queue # <<>> /\ (Head(queue).hole \/ Head(queue).kind = "lost")
<1>1. Types /\ loop \in Loops /\ loop.at = "drain"
  BY DEF Numbered, Types, S!In
<1>2. CASE S!ItemTaken
  <2>1. queue # <<>> /\ (S!Missed(rx, Head(queue).seq) > 0 <=> Head(queue).hole)
    BY <1>2, TakenIs DEF S!ItemTaken
  <2>2. CASE S!ShowsLoss(Head(queue))
    BY <2>1, <2>2 DEF S!ShowsLoss
  <2>3. CASE UNCHANGED loop
    BY <1>1, <2>3
  <2> QED BY <1>2, <2>1, <2>2, <2>3 DEF S!ItemTaken
<1>3. CASE S!DrainEnds
  <2>1. S!TailMissed(rx, loop.pub) = 0
    BY <1>3, TailIsThere DEF S!DrainEnds
  <2>2. loop' = [S!NoFrame EXCEPT !.at = IF loop.second THEN "tick" ELSE "middle"]
    BY <1>3, <2>1 DEF S!DrainEnds
  <2> QED BY <2>2 DEF S!NoFrame
<1>4. CASE S!AllAnswered
  BY <1>1, <1>4, AnsweredIs
<1>5. CASE UNCHANGED loop
  BY <1>1, <1>5
<1>6. \/ S!ItemTaken \/ S!DrainEnds \/ S!AllAnswered \/ UNCHANGED loop
  BY <1>1 DEF S!Next, S!Control, S!Render, S!vars, S!render, S!GapTold, S!StopHit, S!StopMissed,
              S!StopOffered, S!OtherOffered, S!RequestTaken, S!MarkTaken, S!DrainBegins,
              S!BreakEnds, S!FrameMiddle, S!FrameTick, S!In
<1> QED BY <1>2, <1>3, <1>4, <1>5, <1>6

\* And gestures are dropped for a loss alone, never for a number that is only
\* late, repeated or published after the drain began (touch_seq_tail()).
THEOREM Drops ==
  ASSUME S!NumbersAssumption
  PROVE  S!Spec => S!DropsForALoss
<1> DEFINE A == S!In("drain") /\ loop'.at = "broke" =>
                  queue # <<>> /\ (Head(queue).hole \/ Head(queue).kind = "lost")
<1>1. Numbered /\ [S!Next]_(S!vars) => [A]_(S!vars)
  BY DropIsForALoss
<1> HIDE DEF A
<1>2. S!Spec => [][A]_(S!vars)
  BY <1>1, StreamNumbers, PTL DEF S!Spec
<1> QED BY <1>2 DEF A, S!DropsForALoss

-----------------------------------------------------------------------------
(* The mark of a STOP.                                                     *)

\* How far the numbers have come since the press the mark is of.
Since == S!Minus(tseq, mark)

\* No STOP that the pump missed is on its way, but for those in the queue.
Unowed == "owed" \notin {latch, request} /\ ~loop.item.owed

\* The marked press is about to be offered: what came before it is answered.
Offering ==
  /\ ctl.at = "offer" /\ ~ctl.missed /\ mark = S!NextNumber
  /\ Unowed /\ \A i \in 1 .. Len(queue) : ~queue[i].owed

\* It is still to come, or lost ahead of the queue: what is owed came after it.
Coming ==
  /\ Since < Ahead /\ Unowed
  /\ \A i \in 1 .. Len(queue) :
       /\ queue[i].owed => Len(queue) - i < Since
       /\ Len(queue) - i = Since => queue[i].kind = "stop"

\* It showed a loss, or an item behind it did: the look at the mark is ahead.
Breaking ==
  /\ loop.at = "broke" /\ latch = S!Unset /\ request # "owed"
  /\ \/ loop.item.seq = mark /\ loop.item.kind = "stop" /\ ~loop.item.owed
     \/ S!Minus(loop.item.seq, mark) \in 1 .. S!Half

\* It is on its way to the control task as the router's STOP.
Latched == request = "applied" \/ (latch = "applied" /\ request = S!Unset)

\* A mark that went no other way finds the STOP of its own press.
MarkIsOwn ==
  mark # 0 /\ ~astray =>
    IF ctl.at = "mark" THEN ~ctl.owed
    ELSE Offering \/ Coming \/ Breaking \/ Latched

\* The number of the first of n items that end with the number t, against a
\* mark: it is the mark's own, or one behind it in the stream.
LEMMA FirstAndMark ==
  ASSUME S!NumbersAssumption,
         NEW t \in 0 .. M - 1, NEW m \in 0 .. M - 1, NEW n \in 1 .. QLen, NEW h,
         h = (t - n + 1) % M, S!Minus(t, m) < S!Half
  PROVE  /\ S!Minus(t, m) = n - 1 => h = m
         /\ S!Minus(t, m) > n - 1 => S!Minus(h, m) \in 1 .. S!Half
<1> DEFINE s == S!Minus(t, m)
<1>1. M \in Nat /\ QLen \in Nat /\ S!Half \in Nat /\ M = 2 * S!Half /\ QLen + 2 <= S!Half
      /\ n \in Nat /\ 0 < n /\ n <= QLen
  BY Sizes
<1>2. h = IF t - n + 1 < 0 THEN t - n + 1 + M ELSE t - n + 1
  <2>1. t - n + 1 \in Int /\ 0 - M <= t - n + 1 /\ t - n + 1 < M
    BY <1>1
  <2>2. (t - n + 1) % M = Turned(t - n + 1)
    BY <1>1, <2>1, OneTurn
  <2> QED BY <2>1, <2>2 DEF Turned
<1>3. h \in 0 .. M - 1
  BY <1>1, <1>2
<1>4. s = Turned(t - m) /\ S!Minus(h, m) = Turned(h - m)
  <2>1. t \in 0 .. M /\ h \in 0 .. M /\ m \in -1 .. M - 1
    BY <1>1, <1>3
  <2> QED BY <2>1, MinusIs
<1>5. s = IF t - m < 0 THEN t - m + M ELSE t - m
  BY <1>1, <1>4 DEF Turned
<1>6. s < S!Half
  OBVIOUS
<1> HIDE DEF s
<1>7. s = n - 1 => h = m
  BY <1>1, <1>2, <1>5
<1>8. ASSUME s > n - 1 PROVE S!Minus(h, m) \in 1 .. S!Half
  <2>1. S!Minus(h, m) = s - (n - 1)
    BY <1>1, <1>2, <1>3, <1>4, <1>5, <1>6, <1>8 DEF Turned
  <2> QED BY <1>1, <1>5, <1>6, <1>8, <2>1
<1> QED BY <1>7, <1>8 DEF s

\* stop_mark_keeps(): a number behind the mark's does not keep it.
LEMMA PastIsNotKept ==
  ASSUME S!NumbersAssumption, mark \in 0 .. M - 1, NEW c \in 0 .. M - 1, NEW isEvent,
         S!Minus(c, mark) \in 1 .. S!Half
  PROVE  ~S!MarkKeeps(c, isEvent)
<1>1. M \in Nat /\ S!Half \in Nat /\ M = 2 * S!Half /\ 0 < S!Half
  BY Sizes
<1>2. S!Minus(c, mark) = Turned(c - mark) /\ S!Minus(mark, c) = Turned(mark - c)
  <2>1. c \in 0 .. M /\ mark \in 0 .. M /\ c \in -1 .. M - 1 /\ mark \in -1 .. M - 1
    BY <1>1
  <2> QED BY <2>1, MinusIs
<1>3. S!Minus(mark, c) # 0 /\ ~(S!Minus(mark, c) < S!Half)
  BY <1>1, <1>2 DEF Turned
<1> QED BY <1>3 DEF S!MarkKeeps

\* Where the marked press is still to come, an item offered comes after it.
LEMMA StillComing ==
  ASSUME S!NumbersAssumption, Numbered, Coming, Ahead + 1 < S!Half,
         UNCHANGED <<rx, mark, latch, request, loop>>,
         NEW kind \in S!Kinds \cup {"lost"}, NEW owed \in BOOLEAN, S!Offered(kind, owed)
  PROVE  Coming'
<1>1. /\ Types /\ QueueIsNewest /\ tseq \in 0 .. M - 1 /\ mark \in 0 .. M - 1
      /\ queue \in Seq(S!Items)
  BY DEF Numbered, Types, S!TypeOK
<1>2. Ahead' = Ahead + 1 /\ EachIsNewOrOneBack(kind, owed) /\ queue' \in Seq(S!Items)
  BY <1>1, OfferedKeeps
<1>3. /\ M \in Nat /\ S!Half \in Nat /\ M = 2 * S!Half /\ Ahead \in Nat /\ Since \in Nat
      /\ Since < Ahead
  <2>1. tseq \in 0 .. M /\ mark \in -1 .. M - 1 /\ M \in Nat
    BY <1>1, Sizes
  <2>2. Since \in Nat
    BY <2>1, MinusIs DEF Since
  <2> QED BY <1>1, <2>2, Sizes, AheadIs DEF Coming
<1>4. Since' = Since + 1
  <2>1. Since + 1 < M
    BY <1>3
  <2>2. S!Minus((tseq + 1) % M, mark) = S!Minus(tseq, mark) + 1
    BY <1>1, <2>1, OneMore DEF Since
  <2>3. tseq' = (tseq + 1) % M /\ mark' = mark
    BY DEF S!Offered
  <2> QED BY <2>2, <2>3 DEF Since
<1>5. Since' < Ahead' /\ Unowed'
  BY <1>2, <1>3, <1>4 DEF Coming, Unowed
<1>6. ASSUME NEW i \in 1 .. Len(queue')
      PROVE  /\ queue'[i].owed => Len(queue') - i < Since'
             /\ Len(queue') - i = Since' => queue'[i].kind = "stop"
  <2>1. CASE i = Len(queue') /\ queue'[i].kind = kind /\ queue'[i].owed = owed
    <3>1. Len(queue') - i = 0
      BY <1>2, <2>1
    <3> QED BY <1>3, <1>4, <3>1
  <2>2. ASSUME NEW j \in 1 .. Len(queue), Len(queue') - i = Len(queue) - j + 1,
               queue'[i].kind = queue[j].kind, queue'[i].owed = queue[j].owed
        PROVE  /\ queue'[i].owed => Len(queue') - i < Since'
               /\ Len(queue') - i = Since' => queue'[i].kind = "stop"
    <3>1. /\ queue[j].owed => Len(queue) - j < Since
          /\ Len(queue) - j = Since => queue[j].kind = "stop"
      BY <2>2 DEF Coming
    <3>2. Len(queue) - j \in Int
      BY <1>1
    <3>3. /\ Len(queue') - i < Since' <=> Len(queue) - j < Since
          /\ Len(queue') - i = Since' <=> Len(queue) - j = Since
      BY <1>3, <1>4, <2>2, <3>2
    <3> QED BY <2>2, <3>1, <3>3
  <2> QED BY <1>2, <2>1, <2>2 DEF EachIsNewOrOneBack
<1> QED BY <1>5, <1>6 DEF Coming

\* The marked press offered is the newest item there is.
LEMMA NowComing ==
  ASSUME S!NumbersAssumption, Numbered, Offering, S!StopOffered
  PROVE  Coming'
<1>1. /\ Types /\ QueueIsNewest /\ tseq \in 0 .. M - 1 /\ mark \in 0 .. M - 1
      /\ queue \in Seq(S!Items) /\ Ahead + 1 < S!Half
  BY DEF Numbered, Types, S!TypeOK, InHalf, Offering
<1>2. /\ S!Offered("stop", FALSE) /\ "stop" \in S!Kinds
      /\ UNCHANGED <<mark, request, stopLive, loop, rx, latch, band>>
  <2>1. ctl.missed = FALSE
    BY <1>1 DEF Offering, Types, Controls
  <2> QED BY <2>1 DEF S!StopOffered, S!stops, S!render, S!Kinds
<1>3. /\ Ahead' = Ahead + 1 /\ EachIsNewOrOneBack("stop", FALSE) /\ queue' \in Seq(S!Items)
      /\ tseq' \in 0 .. M - 1
  BY <1>1, <1>2, OfferedKeeps
<1>4. Since' = 0 /\ 0 < Ahead'
  <2>1. mark' = tseq'
    BY <1>2 DEF Offering, S!NextNumber, S!Offered
  <2>2. M \in Nat /\ 0 < M
    BY Sizes
  <2>3. ASSUME NEW t \in 0 .. M - 1 PROVE S!Minus(t, t) = 0
    <3>1. t \in 0 .. M /\ t \in -1 .. M - 1 /\ t - t = 0
      BY <2>2
    <3>2. S!Minus(t, t) = Turned(0)
      BY <3>1, MinusIs
    <3> QED BY <2>2, <3>2 DEF Turned
  <2>4. Since' = S!Minus(tseq', tseq')
    BY <2>1 DEF Since
  <2>5. Since' = 0
    BY <1>3, <2>3, <2>4
  <2>6. Ahead \in Nat
    BY <1>1, <2>2, AheadIs
  <2> QED BY <1>3, <2>5, <2>6
<1>5. Unowed'
  BY <1>2 DEF Offering, Unowed
<1>6. ASSUME NEW i \in 1 .. Len(queue')
      PROVE  /\ ~queue'[i].owed
             /\ Len(queue') - i = 0 => queue'[i].kind = "stop"
  <2>1. CASE i = Len(queue') /\ queue'[i].kind = "stop" /\ queue'[i].owed = FALSE
    BY <2>1
  <2>2. ASSUME NEW j \in 1 .. Len(queue), Len(queue') - i = Len(queue) - j + 1,
               queue'[i].owed = queue[j].owed
        PROVE  ~queue'[i].owed /\ Len(queue') - i # 0
    BY <1>1, <2>2 DEF Offering
  <2> QED BY <1>3, <2>1, <2>2 DEF EachIsNewOrOneBack
<1> QED BY <1>4, <1>5, <1>6 DEF Coming

\* STOPs that join: owed if either is, and neither is lost.
LEMMA JoinedIs ==
  ASSUME NEW w \in S!Latches, NEW new \in S!Latches
  PROVE  /\ S!Joined(w, new) = "owed" <=> "owed" \in {w, new}
         /\ S!Joined(w, new) = S!Unset <=> w = S!Unset /\ new = S!Unset
         /\ S!Joined(w, new) \in S!Latches
BY DEF S!Joined, S!Latches, S!Unset

LEMMA OffersOwn ==
  ASSUME S!NumbersAssumption,
         Numbered, MarkIsOwn, S!GapTold \/ S!OtherOffered \/ S!StopOffered
  PROVE  MarkIsOwn'
<1>1. Types /\ InHalf /\ ctl \in Controls /\ S!Free.at = "free"
  BY DEF Numbered, Types, S!Free
<1>2. UNCHANGED <<mark, request, stopLive, loop, rx, latch, band, astray>>
  BY DEF S!GapTold, S!OtherOffered, S!StopOffered, S!stops, S!render
<1>3. PICK kind \in S!Kinds \cup {"lost"}, owed \in BOOLEAN :
        S!Offered(kind, owed) /\ Ahead + 1 < S!Half
  <2>1. CASE S!GapTold \/ S!OtherOffered
    <3>1. S!Room(1) /\ (S!Offered("lost", FALSE) \/ S!Offered("other", FALSE))
      BY <2>1 DEF S!GapTold, S!OtherOffered
    <3> QED BY <1>1, <3>1, RoomIs DEF S!Kinds
  <2>2. CASE S!StopOffered
    <3>1. S!Offered("stop", ctl.missed) /\ ctl.at = "offer" /\ ctl.missed \in BOOLEAN
      BY <1>1, <2>2 DEF S!StopOffered, Controls
    <3> QED BY <1>1, <3>1 DEF S!Kinds, InHalf
  <2> QED BY <2>1, <2>2
<1>4. ctl.at # "mark" /\ ctl'.at # "mark"
  BY <1>1 DEF S!GapTold, S!OtherOffered, S!StopOffered
<1>5. SUFFICES ASSUME mark # 0, ~astray
               PROVE  Offering' \/ Coming' \/ Breaking' \/ Latched'
  BY <1>2, <1>4 DEF MarkIsOwn
<1>6. Offering \/ Coming \/ Breaking \/ Latched
  BY <1>4, <1>5 DEF MarkIsOwn
<1>7. CASE Offering
  <2>1. S!StopOffered
    BY <1>7 DEF Offering, S!GapTold, S!OtherOffered
  <2> QED BY <1>7, <2>1, NowComing
<1>8. CASE Coming
  BY <1>2, <1>3, <1>8, StillComing
<1>9. CASE Breaking
  BY <1>2, <1>9 DEF Breaking
<1>10. CASE Latched
  BY <1>2, <1>10 DEF Latched
<1> QED BY <1>6, <1>7, <1>8, <1>9, <1>10

LEMMA ControlOwn ==
  ASSUME S!NumbersAssumption,
         Numbered, MarkIsOwn, S!StopHit \/ S!StopMissed \/ S!RequestTaken \/ S!MarkTaken
  PROVE  MarkIsOwn'
<1>1. Types /\ {latch, request} \subseteq S!Latches
  BY DEF Numbered, Types, S!TypeOK
<1>2. CASE S!StopHit
  <2>1. /\ S!AllAnswered /\ mark' = S!NextNumber /\ ctl' = [S!Free EXCEPT !.at = "offer"]
        /\ UNCHANGED tseq
    BY <1>2 DEF S!StopHit
  <2>2. ctl'.at = "offer" /\ ~ctl'.missed /\ mark' = S!NextNumber'
    BY <2>1 DEF S!Free, S!NextNumber
  <2>3. Offering'
    BY <1>1, <2>1, <2>2, AnsweredIs DEF Offering, Unowed, S!Unset
  <2> QED BY <2>2, <2>3 DEF MarkIsOwn
<1>3. CASE S!StopMissed
  <2>1. /\ UNCHANGED <<queue, tseq, mark, request, loop, rx, latch, band, astray>>
        /\ ctl.at = "free" /\ ctl' = [S!Free EXCEPT !.at = "offer", !.missed = TRUE]
    BY <1>3 DEF S!StopMissed, S!MissMarks, S!stream, S!render
  <2>2. ctl'.at = "offer"
    BY <2>1 DEF S!Free
  <2>3. ~Offering /\ (Coming => Coming') /\ (Breaking => Breaking') /\ (Latched => Latched')
    BY <2>1 DEF Offering, Coming, Unowed, Breaking, Latched, Since, Ahead, S!Minus
  <2> QED BY <2>1, <2>2, <2>3 DEF MarkIsOwn
<1>4. CASE S!RequestTaken
  <2>1. /\ ctl' = [S!Free EXCEPT !.at = "mark", !.owed = (request = "owed")]
        /\ request # S!Unset /\ ctl.at = "free" /\ UNCHANGED <<mark, astray>>
    BY <1>4 DEF S!RequestTaken, S!render
  <2>2. ctl'.at = "mark" /\ (ctl'.owed <=> request = "owed")
    BY <2>1 DEF S!Free
  <2>3. mark # 0 /\ ~astray => request # "owed"
    BY <2>1 DEF MarkIsOwn, Offering, Coming, Unowed, Breaking, Latched
  <2> QED BY <2>1, <2>2, <2>3 DEF MarkIsOwn
<1>5. CASE S!MarkTaken
  BY <1>5 DEF S!MarkTaken, MarkIsOwn
<1> QED BY <1>2, <1>3, <1>4, <1>5

\* A STOP on its way to the control task stays on it, or another joins it.
LEMMA LatchedOrAstray ==
  ASSUME Types, Latched, mark # 0,
         \/ /\ request' = S!Joined(request, latch) /\ latch' = S!Unset
            /\ S!Joins(request, latch)
         \/ request' = request /\ \E it \in S!Items : S!Dispatched(it)
  PROVE  Latched' \/ astray'
<1>1. {latch, request} \subseteq S!Latches /\ astray \in BOOLEAN
  BY DEF Types, S!TypeOK
<1>2. CASE /\ request' = S!Joined(request, latch) /\ latch' = S!Unset
           /\ S!Joins(request, latch)
  BY <1>1, <1>2 DEF Latched, S!Joined, S!Joins, S!Latches, S!Unset
<1>3. ASSUME request' = request, NEW it \in S!Items, S!Dispatched(it)
      PROVE  Latched' \/ astray'
  <2>1. CASE request = "applied"
    BY <1>3, <2>1 DEF Latched
  <2>2. CASE latch = "applied" /\ request = S!Unset
    <3>1. CASE it.owed /\ it.kind = "stop" /\ band
      BY <1>3, <2>2, <3>1 DEF S!Dispatched, S!Joins
    <3>2. CASE ~it.owed /\ it.kind = "stop" /\ band
      BY <1>3, <2>2, <3>2 DEF S!Dispatched, S!Joined, Latched, S!Unset
    <3>3. CASE ~(it.kind = "stop" /\ band)
      BY <1>3, <2>2, <3>3 DEF S!Dispatched, Latched
    <3> QED BY <3>1, <3>2, <3>3
  <2> QED BY <2>1, <2>2 DEF Latched
<1> QED BY <1>2, <1>3

\* The marked press on the screens: it is latched, or there is no band.
LEMMA MarkedIsLatched ==
  ASSUME Types, mark # 0, request # "owed", latch # "owed", UNCHANGED request,
         NEW it \in S!Items, it.kind = "stop", it.seq = mark, ~it.owed, S!Dispatched(it)
  PROVE  Latched' \/ astray'
<1>1. {latch, request} \subseteq S!Latches
  BY DEF Types, S!TypeOK
<1>2. CASE band
  BY <1>1, <1>2 DEF S!Dispatched, S!Joined, Latched, S!Latches, S!Unset
<1>3. CASE ~band
  BY <1>3 DEF S!Dispatched, S!Strays
<1> QED BY <1>2, <1>3

\* Where the marked press is still to come, the first item of the queue is ahead
\* of it, is it, or shows that it is lost.
LEMMA TakenInComing ==
  ASSUME S!NumbersAssumption, Numbered, Coming, mark # 0, S!ItemTaken
  PROVE  Coming' \/ Breaking' \/ Latched' \/ astray'
<1> DEFINE n == Len(queue)
           h == Head(queue)
<1>1. /\ Types /\ QueueIsNewest /\ InHalf /\ queue \in Seq(S!Items) /\ n <= QLen
      /\ tseq \in 0 .. M - 1 /\ mark \in 0 .. M - 1
      /\ {latch, request} \subseteq S!Latches
  BY DEF Numbered, Types, S!TypeOK
<1>2. /\ queue # <<>> /\ queue' = Tail(queue) /\ rx' = (h.seq + 1) % M
      /\ UNCHANGED <<tseq, ctl, mark, stopLive>>
      /\ \/ S!ShowsLoss(h) /\ S!Broke(h) /\ UNCHANGED band
         \/ ~S!ShowsLoss(h) /\ S!Dispatched(h) /\ UNCHANGED <<request, loop>>
  BY DEF S!ItemTaken
<1>3. /\ h \in S!Items /\ (S!Missed(rx, h.seq) > 0 <=> h.hole)
      /\ queue' \in Seq(S!Items) /\ Len(queue') = n - 1 /\ Ahead' = Len(queue')
      /\ \A i \in 1 .. Len(queue') : queue'[i] = queue[i + 1]
  BY <1>2, TakenIs
<1>4. n \in Nat \ {0} /\ n \in 1 .. QLen /\ h = queue[1] /\ 1 \in 1 .. n
  <2>1. n \in Nat \ {0} /\ h = queue[1]
    BY <1>1, <1>2, EmptySeq, HeadTailProperties
  <2> QED BY <1>1, <2>1, Sizes
<1>5. /\ h.seq = (tseq - n + 1) % M /\ (h.hole <=> n < Ahead)
      /\ h.owed => n - 1 < Since
      /\ n - 1 = Since => h.kind = "stop"
  BY <1>1, <1>4 DEF QueueIsNewest, Coming
<1>6. Since \in Nat /\ Since < Ahead /\ Since < S!Half /\ Ahead \in Nat
  <2>1. tseq \in 0 .. M /\ mark \in -1 .. M - 1 /\ M \in Nat /\ S!Half \in Nat
    BY <1>1, Sizes
  <2>2. Since \in 0 .. M - 1 /\ Ahead \in 0 .. M - 1
    BY <1>1, <2>1, MinusIs, AheadIs DEF Since
  <2> QED BY <1>1, <2>1, <2>2 DEF Coming, InHalf
<1>7. /\ Since = n - 1 => h.seq = mark
      /\ Since > n - 1 => S!Minus(h.seq, mark) \in 1 .. S!Half
  BY <1>1, <1>4, <1>5, <1>6, FirstAndMark DEF Since
<1>8. "owed" \notin {latch, request} /\ ~loop.item.owed
  BY DEF Coming, Unowed
<1>9. Since' = Since
  BY <1>2 DEF Since
<1> HIDE DEF n, h
<1>10. CASE Since < n - 1
  <2>1. ~h.owed
    BY <1>4, <1>5, <1>6, <1>10
  <2>2. Unowed'
    <3>1. CASE S!Broke(h)
      BY <1>1, <1>3, <1>8, <2>1, <3>1, BrokeIs DEF Unowed
    <3>2. CASE S!Dispatched(h) /\ UNCHANGED <<request, loop>>
      BY <1>1, <1>3, <1>8, <2>1, <3>2, DispatchedIs DEF Unowed
    <3> QED BY <1>2, <3>1, <3>2
  <2>3. Since' < Ahead'
    BY <1>3, <1>9, <1>10
  <2>4. ASSUME NEW i \in 1 .. Len(queue')
        PROVE  /\ queue'[i].owed => Len(queue') - i < Since'
               /\ Len(queue') - i = Since' => queue'[i].kind = "stop"
    <3>1. i + 1 \in 1 .. n /\ n - (i + 1) = Len(queue') - i
      BY <1>3, <1>4
    <3>2. /\ queue[i + 1].owed => n - (i + 1) < Since
          /\ n - (i + 1) = Since => queue[i + 1].kind = "stop"
      BY <3>1 DEF Coming, n
    <3> QED BY <1>3, <1>9, <3>1, <3>2
  <2> QED BY <2>2, <2>3, <2>4 DEF Coming
<1>11. CASE Since = n - 1
  <2>1. h.kind = "stop" /\ h.seq = mark /\ ~h.owed
    BY <1>4, <1>5, <1>6, <1>7, <1>11
  <2>2. CASE S!Broke(h)
    <3>1. /\ loop'.at = "broke" /\ loop'.item = h /\ latch' = S!Unset
          /\ request' = S!Joined(request, latch)
      BY <1>1, <1>3, <2>2, BrokeIs DEF S!Broke
    <3>2. request' # "owed"
      BY <1>1, <1>8, <3>1, JoinedIs
    <3> QED BY <1>2, <2>1, <3>1, <3>2 DEF Breaking
  <2>3. CASE S!Dispatched(h) /\ UNCHANGED <<request, loop>>
    BY <1>1, <1>3, <1>8, <2>1, <2>3, MarkedIsLatched
  <2> QED BY <1>2, <2>2, <2>3
<1>12. CASE Since > n - 1
  <2>1. h.hole /\ S!Minus(h.seq, mark) \in 1 .. S!Half
    BY <1>4, <1>5, <1>6, <1>7, <1>12
  <2>2. S!Broke(h)
    BY <1>2, <1>3, <2>1 DEF S!ShowsLoss
  <2>3. /\ loop'.at = "broke" /\ loop'.item = h /\ latch' = S!Unset
        /\ request' = S!Joined(request, latch)
    BY <1>1, <1>3, <2>2, BrokeIs DEF S!Broke
  <2>4. request' # "owed"
    BY <1>1, <1>8, <2>3, JoinedIs
  <2>5. S!Minus(loop'.item.seq, mark') \in 1 .. S!Half
    BY <1>2, <2>1, <2>3
  <2> QED BY <2>3, <2>4, <2>5 DEF Breaking
<1> QED BY <1>4, <1>6, <1>10, <1>11, <1>12

\* After a loss, the press that showed it is on the screens or the mark is gone.
LEMMA BreakEndsOwn ==
  ASSUME S!NumbersAssumption, Numbered, Breaking, mark' # 0, S!BreakEnds
  PROVE  Latched' \/ astray'
<1> DEFINE it == loop.item
<1>1. /\ Types /\ it \in S!Items /\ {latch, request} \subseteq S!Latches
      /\ mark \in 0 .. M - 1 /\ it.seq \in 0 .. M - 1
  BY DEF Numbered, Types, S!TypeOK, Loops, S!Items
<1>2. /\ mark' = IF request = S!Unset /\ ~S!MarkKeeps(it.seq, it.kind \in S!Kinds)
                 THEN 0 ELSE mark
      /\ IF it.kind \in S!Kinds THEN S!Dispatched(it)
         ELSE UNCHANGED <<latch, band, astray, dropped>>
      /\ UNCHANGED request
  BY DEF S!BreakEnds
<1>3. mark # 0 /\ latch = S!Unset /\ request # "owed"
      /\ (request = S!Unset => S!MarkKeeps(it.seq, it.kind \in S!Kinds))
  BY <1>2 DEF Breaking
<1>4. CASE request # S!Unset
  BY <1>1, <1>2, <1>3, <1>4 DEF Latched, S!Latches, S!Unset
<1>5. CASE request = S!Unset
  <2>1. ~(S!Minus(it.seq, mark) \in 1 .. S!Half)
    BY <1>1, <1>3, <1>5, PastIsNotKept
  <2>2. it.seq = mark /\ it.kind = "stop" /\ ~it.owed
    BY <2>1 DEF Breaking
  <2>3. S!Dispatched(it) /\ latch # "owed"
    BY <1>2, <1>3, <2>2 DEF S!Kinds, S!Unset
  <2> QED BY <1>1, <1>2, <1>3, <2>2, <2>3, MarkedIsLatched
<1> QED BY <1>4, <1>5

LEMMA LoopOwn ==
  ASSUME S!NumbersAssumption, Numbered, MarkIsOwn, S!Render
  PROVE  MarkIsOwn'
<1>1. /\ Types /\ loop \in Loops /\ loop.item \in S!Items /\ {astray, band} \subseteq BOOLEAN
      /\ {latch, request} \subseteq S!Latches
  BY DEF Numbered, Types, S!TypeOK, Loops
<1>2. ~S!NoItem.owed /\ S!NoFrame.item = S!NoItem
  BY DEF S!NoItem, S!NoFrame
<1>3. ctl' = ctl /\ mark' \in {0, mark}
  BY DEF S!Render, S!DrainBegins, S!ItemTaken, S!BreakEnds, S!DrainEnds, S!FrameMiddle,
         S!FrameTick, S!stops
<1>4. astray' \/ ~astray
  BY <1>1 DEF S!Render, S!DrainBegins, S!ItemTaken, S!BreakEnds, S!DrainEnds, S!FrameMiddle,
              S!FrameTick, S!Dispatched, S!Broke, S!Joins, S!Strays
<1>5. SUFFICES ASSUME mark # 0, mark' = mark, ~astray, ~astray', ctl.at # "mark"
               PROVE  Offering' \/ Coming' \/ Breaking' \/ Latched'
  BY <1>3, <1>4 DEF MarkIsOwn
<1>6. Offering \/ Coming \/ Breaking \/ Latched
  BY <1>5 DEF MarkIsOwn
<1>7. CASE S!ItemTaken
  <2> DEFINE h == Head(queue)
  <2>1. /\ queue # <<>> /\ h \in S!Items /\ UNCHANGED <<ctl, tseq>>
        /\ Len(queue') = Len(queue) - 1 /\ \A i \in 1 .. Len(queue') : queue'[i] = queue[i + 1]
        /\ \/ S!Broke(h) /\ UNCHANGED band
           \/ S!Dispatched(h) /\ UNCHANGED <<request, loop>>
        /\ queue \in Seq(S!Items) /\ S!In("drain")
    BY <1>1, <1>7, TakenIs DEF S!ItemTaken, Types, S!TypeOK
  <2>2. CASE Offering
    <3>1. h = queue[1] /\ 1 \in 1 .. Len(queue) /\ Len(queue) \in Nat
      BY <2>1, EmptySeq, HeadTailProperties
    <3>2. ~h.owed /\ \A i \in 1 .. Len(queue') : ~queue'[i].owed
      BY <2>1, <2>2, <3>1 DEF Offering
    <3>3. Unowed'
      <4>1. CASE S!Broke(h)
        BY <1>1, <2>1, <2>2, <3>2, <4>1, BrokeIs DEF Unowed, Offering
      <4>2. CASE S!Dispatched(h) /\ UNCHANGED <<request, loop>>
        BY <1>1, <2>1, <2>2, <3>2, <4>2, DispatchedIs DEF Unowed, Offering
      <4> QED BY <2>1, <4>1, <4>2
    <3> QED BY <1>5, <2>1, <2>2, <3>2, <3>3 DEF Offering, S!NextNumber
  <2>3. CASE Coming
    BY <1>5, <1>7, <2>3, TakenInComing
  <2>4. ~Breaking
    BY <2>1 DEF Breaking, S!In
  <2>5. CASE Latched
    <3>1. S!Broke(h) =>
            request' = S!Joined(request, latch) /\ latch' = S!Unset /\ S!Joins(request, latch)
      BY DEF S!Broke
    <3> QED BY <1>1, <1>5, <2>1, <2>5, <3>1, LatchedOrAstray
  <2> QED BY <1>6, <2>2, <2>3, <2>4, <2>5
<1>8. CASE S!BreakEnds
  <2>1. /\ loop'.item = S!NoItem /\ UNCHANGED <<queue, tseq, ctl, request, rx>>
        /\ S!Dispatched(loop.item) \/ UNCHANGED <<latch, band, astray, dropped>>
    BY <1>1, <1>8 DEF S!BreakEnds, Loops, S!stream
  <2>2. Unowed => Unowed'
    <3>1. Unowed => latch' # "owed"
      <4>1. CASE S!Dispatched(loop.item)
        BY <1>1, <4>1, DispatchedIs DEF Unowed
      <4>2. CASE UNCHANGED <<latch, band, astray, dropped>>
        BY <4>2 DEF Unowed
      <4> QED BY <2>1, <4>1, <4>2
    <3> QED BY <1>2, <2>1, <3>1 DEF Unowed
  <2>3. Offering => Offering'
    BY <1>5, <2>1, <2>2 DEF Offering, S!NextNumber
  <2>4. Coming => Coming'
    BY <1>5, <2>1, <2>2 DEF Coming, Since, Ahead, S!Minus
  <2>5. Breaking => Latched'
    BY <1>5, <1>8, BreakEndsOwn
  <2>6. Latched => Latched'
    <3>1. CASE S!Dispatched(loop.item)
      BY <1>1, <1>5, <2>1, <3>1, LatchedOrAstray
    <3>2. CASE UNCHANGED <<latch, band, astray, dropped>>
      BY <2>1, <3>2 DEF Latched
    <3> QED BY <2>1, <3>1, <3>2
  <2> QED BY <1>6, <2>3, <2>4, <2>5, <2>6
<1>9. CASE S!FrameMiddle
  <2>1. /\ loop' = [S!NoFrame EXCEPT !.at = "second"] /\ S!In("middle")
        /\ request' = S!Joined(request, latch) /\ latch' = S!Unset /\ S!Joins(request, latch)
        /\ UNCHANGED <<queue, tseq, ctl, rx>>
    BY <1>9 DEF S!FrameMiddle, S!stream
  <2>2. loop'.item = S!NoItem
    BY <2>1 DEF S!NoFrame
  <2>3. Unowed => Unowed'
    BY <1>1, <1>2, <2>1, <2>2, JoinedIs DEF Unowed, S!Unset
  <2>4. Offering => Offering'
    BY <1>5, <2>1, <2>3 DEF Offering, S!NextNumber
  <2>5. Coming => Coming'
    BY <1>5, <2>1, <2>3 DEF Coming, Since, Ahead, S!Minus
  <2>6. ~Breaking
    BY <2>1 DEF Breaking, S!In
  <2>7. Latched => Latched'
    BY <1>1, <1>5, <2>1, LatchedOrAstray
  <2> QED BY <1>6, <2>4, <2>5, <2>6, <2>7
<1>10. CASE S!DrainBegins \/ S!DrainEnds \/ S!FrameTick
  <2>1. /\ loop'.item = S!NoItem /\ loop.at # "broke"
        /\ UNCHANGED <<queue, tseq, ctl, request, rx, latch>>
    <3>1. CASE S!DrainBegins
      BY <3>1, <1>2 DEF S!DrainBegins, S!NoFrame, S!stream, S!stops
    <3>2. CASE S!DrainEnds
      <4>1. S!TailMissed(rx, loop.pub) = 0
        BY <3>2, TailIsThere DEF S!DrainEnds
      <4> QED BY <3>2, <4>1, <1>2 DEF S!DrainEnds, S!In, S!NoFrame, S!stream
    <3>3. CASE S!FrameTick
      BY <3>3, <1>2 DEF S!FrameTick, S!In, S!stream, S!stops
    <3> QED BY <1>10, <3>1, <3>2, <3>3
  <2>2. Offering => Offering'
    BY <1>2, <1>5, <2>1 DEF Offering, Unowed, S!NextNumber
  <2>3. Coming => Coming'
    BY <1>2, <1>5, <2>1 DEF Coming, Unowed, Since, Ahead, S!Minus
  <2>4. ~Breaking /\ (Latched => Latched')
    BY <2>1 DEF Breaking, Latched
  <2> QED BY <1>6, <2>2, <2>3, <2>4
<1> QED BY <1>7, <1>8, <1>9, <1>10 DEF S!Render

\* The STOP of a press the pump's hit test missed is applied when the router
\* hands it over, unless one was applied since: a mark consumed is that of the
\* press itself (service_arming()'s backstop), under every loss and every change
\* of the screen.  The exception is the property's own: the marked press came to
\* a screen without the band, or its STOP and the other's were handed over as
\* one (MCTouchStreamLeaves).
THEOREM NoneSwallowed ==
  ASSUME S!NumbersAssumption
  PROVE  S!Spec => S!NoStopSwallowedUnlessAstray
<1>1. S!Init => MarkIsOwn
  BY DEF S!Init, MarkIsOwn
<1>2. Numbered /\ MarkIsOwn /\ [S!Next]_(S!vars) => MarkIsOwn'
  <2>1. ASSUME Numbered, MarkIsOwn, UNCHANGED S!vars PROVE MarkIsOwn'
    <3>1. UNCHANGED <<queue, tseq, rx, ctl, mark, request, loop, latch, astray>>
      BY <2>1 DEF S!vars, S!stream, S!stops, S!render
    <3> QED BY <2>1, <3>1 DEF MarkIsOwn, Offering, Coming, Unowed, Breaking, Latched, Since,
                              Ahead, S!Minus, S!NextNumber
  <2> QED BY <2>1, OffersOwn, ControlOwn, LoopOwn DEF S!Next, S!Control
<1>3. Numbered /\ MarkIsOwn /\ [S!Next]_(S!vars) =>
        [S!MarkTaken /\ ctl.owed => mark = 0 \/ astray]_(S!vars)
  BY DEF MarkIsOwn, S!MarkTaken
<1> QED BY <1>1, <1>2, <1>3, StreamNumbers, PTL DEF S!Spec, S!NoStopSwallowedUnlessAstray
=============================================================================
