-------------------------- MODULE BenchSupplyProofs --------------------------
(***************************************************************************)
(* Proofs about BenchSupply for every time, every bound of the driver and  *)
(* any number of mishaps: an output our ON switched on is never lost sight *)
(* of, new wiring leaves no output on behind it that a read could have     *)
(* found, and an ON leaves only where it is wanted.                        *)
(***************************************************************************)
EXTENDS BenchSupply, TLAPS

-----------------------------------------------------------------------------
(* The inductive invariant.                                                *)

\* What keeps an output in sight, but for an ON that waits to be written.
KnownOn(d) ==
  \/ d.output \/ d.onSent \/ d.offOwed
  \/ d.answered /\ ~d.known
  \/ d.restored /\ ~d.answered /\ d.whoMisses < Absent

\* A driver is attached to wiring that is in force and kept.
RigFits ==
  /\ rig.open => ~rig.unsaved /\ rig.wiring # "none"
  /\ ~rig.unsaved => rig.kept = rig.wiring

\* The line belongs to the request that waits.
LineFits ==
  /\ line # "quiet" => drv.phase = "wait" /\ drv.cmd \notin Writes
  /\ line \in {"on", "off"} => drv.cmd = "state"
  /\ line = "ok" => drv.cmd # "state"

\* A write on its way to the pins is what the driver waits for.
WriteFits == drv.phase = "attach" /\ drv.cmd = "enable" => drv.enPending

\* An ON of ours, obeyed or not yet, is known.
OnIsKnown ==
  ours \/ module.asOn => rig.open /\ rig.wiring = "module" /\ KnownOn(drv)

OursIsOn == ours => module.on

\* An ON not yet obeyed is younger than its confirmation, and still known as
\* sent unless the output was on before it.
OnIsYoung ==
  module.asOn => /\ module.todo # NoArg /\ drv.age < Confirm
                 /\ drv.onSent \/ module.on

\* What was told before an ON of ours took does not settle it.
ToldBefore ==
  /\ line = "off" /\ (ours \/ module.asOn) => drv.onSent /\ drv.age < Confirm
  /\ line = "on" /\ module.asOn => module.on

Sight == /\ RigFits /\ LineFits /\ WriteFits /\ OnIsKnown /\ OursIsOn
         /\ OnIsYoung /\ ToldBefore

-----------------------------------------------------------------------------
(* The inductive invariant: a change of the wiring, and the last word.     *)

\* A change waits for a driver that is attached, and is taken at once.
ChangeFits ==
  /\ page.wire # "ready"
  /\ page.wire = "wait" => rig.open
  /\ drv.check = "sent" => drv.cmd = "state" /\ drv.phase # "idle"

\* The change waits for what has been asked of the driver.
Waiting == page.wire = "wait" /\ ~page.ask

\* The read that is to clear it has been sent since the change was asked.
ReadIsSince ==
  Waiting /\ drv.check = "sent" /\ drv.phase = "wait" =>
    /\ since # "none"
    /\ line \in {"on", "off"} => since \in {"told", "on"}

\* An output that has come on since it told it was off did so by an ON of ours.
CameOnByOurs == line = "off" /\ since = "told" /\ module.on => ours

\* A read has cleared it: nothing of ours is on its way or on.
Cleared ==
  Waiting /\ drv.check = "off" =>
    /\ drv.phase = "idle" /\ ~module.asOn
    /\ since = "on" \/ (since = "told" /\ ~module.on)

Change == ChangeFits /\ ReadIsSince /\ CameOnByOurs /\ Cleared

\* An output asked is the last word of who may speak.
WordStands ==
  /\ page.out => wish = "on"
  /\ wish = "cut" => page.held /\ page.sticky

IInv == TypeOK /\ Sight /\ Change /\ WordStands

-----------------------------------------------------------------------------
(* The driver's functions: their types, and what they leave in sight.      *)

\* What is known of the output and of its writes is the same.
Alike(e, d) ==
  /\ e.output = d.output /\ e.onSent = d.onSent /\ e.offOwed = d.offOwed
  /\ e.answered = d.answered /\ e.known = d.known /\ e.restored = d.restored
  /\ e.whoMisses = d.whoMisses /\ e.age = d.age
  /\ e.enPending = d.enPending /\ e.enFor = d.enFor

LEMMA MinIs ==
  ASSUME NEW m \in Nat, NEW n \in Nat
  PROVE  Min({m, n}) = IF m <= n THEN m ELSE n
<1>1. CASE m <= n
  <2>1. m \in {m, n} /\ \A y \in {m, n} : m =< y
    BY <1>1
  <2>2. \A x \in {m, n} : (\A y \in {m, n} : x =< y) => x = m
    BY <1>1
  <2> QED
    BY <1>1, <2>1, <2>2 DEF Min
<1>2. CASE ~(m <= n)
  <2>1. n \in {m, n} /\ \A y \in {m, n} : n =< y
    BY <1>2
  <2>2. \A x \in {m, n} : (\A y \in {m, n} : x =< y) => x = n
    BY <1>2
  <2> QED
    BY <1>2, <2>1, <2>2 DEF Min
<1> QED
  BY <1>1, <1>2

LEMMA Constants ==
  /\ Confirm \in Nat \ {0} /\ Watch \in Nat \ {0} /\ Retry \in Nat \ {0}
  /\ Fails \in Nat \ {0} /\ Absent \in Nat \ {0} /\ Confirm <= Retry
BY DriverAssumption

LEMMA WantIs ==
  ASSUME NEW d \in Driver, NEW on \in BOOLEAN
  PROVE  /\ Want(d, on) \in Driver /\ Alike(Want(d, on), d)
         /\ Want(d, on).phase = d.phase /\ Want(d, on).cmd = d.cmd
         /\ Want(d, on).check = d.check /\ (Want(d, on).want => on)
<1> DEFINE off == d.heldOff /\ on
           w == on /\ ~d.heldOff
           tries == IF w # d.want THEN 0 ELSE d.enTries
<1>1. off \in BOOLEAN /\ w \in BOOLEAN /\ tries \in 0 .. Tries /\ (w => on)
  BY DEF Driver, Tries
<1>2. Want(d, on) = [d EXCEPT !.heldOff = off, !.want = w, !.enTries = tries]
  BY DEF Want
<1> HIDE DEF off, w, tries
<1> QED
  BY ZenonT(60), <1>1, <1>2 DEF Driver, Alike

LEMMA HoldOffIs ==
  ASSUME NEW d \in Driver
  PROVE  LET e == [d EXCEPT !.heldOff = TRUE, !.want = FALSE, !.enTries = 0]
         IN  /\ e \in Driver /\ Alike(e, d)
             /\ e.phase = d.phase /\ e.cmd = d.cmd /\ e.check = d.check
<1>1. 0 \in 0 .. Tries
  BY DEF Tries
<1> QED
  BY <1>1 DEF Driver, Alike

LEMMA AttachedIs ==
  /\ Attached \in Driver /\ KnownOn(Attached)
  /\ Attached.phase = "idle" /\ Attached.cmd = "poll" /\ Attached.check = "none"
<1>1. /\ 0 \in 0 .. Absent /\ 0 < Absent /\ 0 \in 0 .. Fails - 1 /\ Retry \in 0 .. Retry
      /\ 0 \in 0 .. Tries /\ 1 \in Arg /\ 0 \in Arg /\ "poll" \in Command
  BY Constants DEF Tries, Arg, Command
<1> QED
  BY <1>1 DEF Attached, Driver, KnownOn

LEMMA IdleIs ==
  ASSUME NEW d \in Driver
  PROVE  /\ Idle(d) \in Driver /\ Alike(Idle(d), d)
         /\ Idle(d).phase = "idle" /\ Idle(d).cmd = "poll"
         /\ Idle(d).check = d.check
<1>1. "poll" \in Command
  BY DEF Command
<1> QED
  BY <1>1 DEF Idle, Driver, Alike

LEMMA CheckedIs ==
  ASSUME NEW d \in Driver, NEW ok \in BOOLEAN
  PROVE  LET e == Checked(d, ok)
         IN  /\ e \in Driver /\ Alike(e, d)
             /\ e.phase = d.phase /\ e.cmd = d.cmd
             /\ e.fails = d.fails /\ e.stateFails = d.stateFails
             /\ e.check = "sent" => d.check = "sent" /\ d.cmd # "state"
             /\ e.check = "off" =>
                  \/ d.check = "off"
                  \/ d.cmd = "state" /\ d.check = "sent" /\ ok /\ ~MayBeOn(d)
BY DEF Checked, Driver, Alike

LEMMA GoneIs ==
  ASSUME NEW d \in Driver
  PROVE  LET e == Gone(d)
         IN  /\ e \in Driver /\ e.phase = d.phase /\ e.cmd = d.cmd
             /\ e.check = d.check /\ e.age = d.age /\ e.onSent = d.onSent
             /\ e.answered = d.answered /\ e.restored = d.restored
             /\ e.whoMisses = d.whoMisses
             /\ KnownOn(d) => KnownOn(e)
<1> DEFINE owed == d.offOwed \/ d.output \/ d.onSent \/ OnPending(d)
           e == [d EXCEPT !.offOwed = owed, !.identified = FALSE,
                          !.known = FALSE, !.enPending = FALSE, !.fails = 0]
<1>1. owed \in BOOLEAN /\ 0 \in 0 .. Fails - 1
  BY Constants DEF Driver, OnPending
<1>2. Gone(d) = e
  BY DEF Gone
<1>3. d.offOwed => owed
  OBVIOUS
<1> HIDE DEF owed
<1>4. /\ e \in Driver /\ e.phase = d.phase /\ e.cmd = d.cmd
      /\ e.check = d.check /\ e.age = d.age /\ e.onSent = d.onSent
      /\ e.answered = d.answered /\ e.restored = d.restored
      /\ e.whoMisses = d.whoMisses /\ e.known = FALSE
      /\ e.output = d.output /\ e.offOwed = owed
  BY ZenonT(60), <1>1 DEF Driver
<1> HIDE DEF e
<1>5. KnownOn(d) => KnownOn(e)
  BY <1>3, <1>4 DEF KnownOn
<1> QED
  BY <1>2, <1>4, <1>5

\* A transaction that fails forgets nothing but a module that never answered.
LEMMA MissedIs ==
  ASSUME NEW d \in Driver, NEW heard \in BOOLEAN
  PROVE  LET e == Missed(d, heard)
         IN  /\ e \in Driver /\ e.phase = d.phase /\ e.cmd = d.cmd
             /\ e.check = d.check /\ e.age = d.age /\ e.onSent = d.onSent
             /\ e.answered = d.answered
             /\ KnownOn(d) => KnownOn(e) \/ (TakenForAbsent(e) /\ ~heard)
<1> DEFINE lost == d.cmd = "state" /\ d.stateFails + 1 = Fails
           misses == IF d.cmd # "who" THEN d.whoMisses
                     ELSE IF heard THEN 0 ELSE Min({d.whoMisses + 1, Absent})
           states == IF lost THEN 0 ELSE IF d.cmd = "state" THEN d.stateFails + 1
                     ELSE d.stateFails
           blind == IF lost THEN ~heard
                    ELSE d.blindDue \/ (d.cmd = "who" /\ ~heard)
           e == [d EXCEPT !.whoMisses = misses, !.stateFails = states,
                          !.blindDue = blind]
<1>0. d.whoMisses \in 0 .. Absent /\ d.stateFails \in 0 .. Fails - 1
      /\ d.fails \in 0 .. Fails - 1 /\ d.blindDue \in BOOLEAN
  BY DEF Driver
<1>1. misses \in 0 .. Absent
  BY <1>0, Constants, MinIs
<1>2. /\ states \in 0 .. Fails - 1
      /\ blind \in BOOLEAN /\ lost \in BOOLEAN
  <2>1. ~lost /\ d.cmd = "state" => d.stateFails + 1 \in 0 .. Fails - 1
    BY <1>0, Constants
  <2>2. 0 \in 0 .. Fails - 1
    BY Constants
  <2>3. states \in 0 .. Fails - 1
    BY <1>0, <2>1, <2>2
  <2>4. blind \in BOOLEAN /\ lost \in BOOLEAN
    BY <1>0
  <2> QED
    BY <2>3, <2>4
<1>3. d.whoMisses < Absent => misses < Absent \/ (misses = Absent /\ ~heard)
  BY <1>0, <1>1, Constants
<1>4. Missed(d, heard) = IF lost \/ d.fails + 1 = Fails THEN Gone(e)
                         ELSE [e EXCEPT !.fails = @ + 1]
  BY DEF Missed
<1> HIDE DEF lost, misses, states, blind
<1>5. /\ e \in Driver /\ e.phase = d.phase /\ e.cmd = d.cmd
      /\ e.check = d.check /\ e.age = d.age /\ e.onSent = d.onSent
      /\ e.answered = d.answered /\ e.fails = d.fails
      /\ e.restored = d.restored /\ e.whoMisses = misses
      /\ e.output = d.output /\ e.offOwed = d.offOwed /\ e.known = d.known
  BY <1>1, <1>2 DEF Driver
<1>6. KnownOn(d) => KnownOn(e) \/ (TakenForAbsent(e) /\ ~heard)
  BY <1>3, <1>5 DEF KnownOn, TakenForAbsent
<1> HIDE DEF e
<1>7. CASE lost \/ d.fails + 1 = Fails
  <2>1. TakenForAbsent(e) => TakenForAbsent(Gone(e))
    BY <1>5, GoneIs DEF TakenForAbsent
  <2> QED
    BY <1>4, <1>5, <1>6, <1>7, <2>1, GoneIs
<1>8. CASE ~(lost \/ d.fails + 1 = Fails)
  <2> DEFINE f == [e EXCEPT !.fails = d.fails + 1]
  <2>1. d.fails + 1 \in 0 .. Fails - 1
    BY <1>0, <1>8, Constants
  <2>2. Missed(d, heard) = f
    BY <1>4, <1>5, <1>8
  <2>3. /\ f \in Driver /\ Alike(f, e) /\ f.phase = e.phase /\ f.cmd = e.cmd
        /\ f.check = e.check
    BY <1>5, <2>1 DEF Driver, Alike
  <2> QED
    BY <1>5, <1>6, <2>2, <2>3 DEF Alike, KnownOn, TakenForAbsent
<1> QED
  BY <1>7, <1>8

LEMMA FinishedIs ==
  ASSUME NEW d \in Driver, NEW ok \in BOOLEAN, NEW heard \in BOOLEAN
  PROVE  LET e == Finished(d, ok, heard)
         IN  /\ e \in Driver /\ e.phase = "idle" /\ e.cmd = "poll"
             /\ e.age = d.age /\ e.onSent = d.onSent
             /\ e.answered = d.answered
             /\ KnownOn(d) =>
                  KnownOn(e) \/ (TakenForAbsent(e) /\ ~ok /\ ~heard)
             /\ e.check = "sent" => d.check = "sent" /\ d.cmd # "state"
             /\ e.check = "off" =>
                  d.check = "off" \/ (d.cmd = "state" /\ d.check = "sent" /\ ok)
             /\ KnownOn(e) /\ e.check = "off" => d.check = "off"
<1> DEFINE c == Checked(d, ok)
           f == IF ok THEN [c EXCEPT !.fails = 0] ELSE Missed(c, heard)
<1>1. /\ c \in Driver /\ Alike(c, d)
      /\ c.phase = d.phase /\ c.cmd = d.cmd
      /\ c.check = "sent" => d.check = "sent" /\ d.cmd # "state"
      /\ c.check = "off" =>
           \/ d.check = "off"
           \/ d.cmd = "state" /\ d.check = "sent" /\ ok /\ ~MayBeOn(d)
  BY CheckedIs
<1>2. KnownOn(c) <=> KnownOn(d)
  BY <1>1 DEF Alike, KnownOn
<1>3. Finished(d, ok, heard) = Idle(f)
  BY DEF Finished
<1>4. c.age = d.age /\ c.onSent = d.onSent /\ c.answered = d.answered
  BY <1>1 DEF Alike
<1> HIDE DEF c
<1>5. CASE ok
  <2>1. 0 \in 0 .. Fails - 1
    BY Constants
  <2>2. /\ f \in Driver /\ Alike(f, c) /\ f.check = c.check
    BY <1>1, <1>5, <2>1 DEF Driver, Alike
  <2> HIDE DEF f
  <2>3. /\ Idle(f) \in Driver /\ Alike(Idle(f), f)
        /\ Idle(f).phase = "idle" /\ Idle(f).cmd = "poll"
        /\ Idle(f).check = f.check
    BY <2>2, IdleIs
  <2>4. /\ Idle(f).age = d.age /\ Idle(f).onSent = d.onSent
        /\ Idle(f).answered = d.answered
    BY <1>4, <2>2, <2>3 DEF Alike
  <2>5. KnownOn(Idle(f)) <=> KnownOn(d)
    BY <1>2, <2>2, <2>3 DEF Alike, KnownOn
  <2>6. KnownOn(d) => MayBeOn(d)
    BY DEF KnownOn, MayBeOn
  <2> QED
    BY <1>1, <1>3, <2>2, <2>3, <2>4, <2>5, <2>6
<1>6. CASE ~ok
  <2>1. /\ f \in Driver /\ f.check = c.check /\ f.age = c.age
        /\ f.onSent = c.onSent /\ f.answered = c.answered
        /\ KnownOn(c) => KnownOn(f) \/ (TakenForAbsent(f) /\ ~heard)
    BY <1>1, <1>6, MissedIs
  <2> HIDE DEF f
  <2>2. /\ Idle(f) \in Driver /\ Alike(Idle(f), f)
        /\ Idle(f).phase = "idle" /\ Idle(f).cmd = "poll"
        /\ Idle(f).check = f.check
    BY <2>1, IdleIs
  <2>3. /\ Idle(f).age = d.age /\ Idle(f).onSent = d.onSent
        /\ Idle(f).answered = d.answered
    BY <1>4, <2>1, <2>2 DEF Alike
  <2>4. /\ KnownOn(f) => KnownOn(Idle(f))
        /\ TakenForAbsent(f) => TakenForAbsent(Idle(f))
    BY <2>2 DEF Alike, KnownOn, TakenForAbsent
  <2> QED
    BY <1>1, <1>2, <1>3, <1>6, <2>1, <2>2, <2>3, <2>4
<1> QED
  BY <1>5, <1>6

\* A read that settles a check as off knows of no output.
LEMMA FinishedOff ==
  ASSUME NEW d \in Driver, NEW ok \in BOOLEAN, NEW heard \in BOOLEAN
  PROVE  KnownOn(Finished(d, ok, heard)) /\ Finished(d, ok, heard).check = "off"
           => d.check = "off"
BY FinishedIs

LEMMA IdentifiedIs ==
  ASSUME NEW d \in Driver
  PROVE  LET e == Identified(d)
         IN  /\ e \in Driver /\ KnownOn(e) /\ e.answered
             /\ e.phase = d.phase /\ e.cmd = d.cmd /\ e.check = d.check
             /\ e.age = d.age /\ e.onSent = d.onSent
BY DEF Identified, Driver, KnownOn

LEMMA LearnOnIs ==
  ASSUME NEW d \in Driver
  PROVE  LET e == LearnOn(d)
         IN  /\ e \in Driver /\ Alike(e, d)
             /\ e.phase = d.phase /\ e.cmd = d.cmd /\ e.check = d.check
BY ZenonT(60) DEF LearnOn, Driver, Alike

\* What is known of the output does not change with what is learnt of a write.
LEMMA JudgedIs ==
  ASSUME NEW d \in Driver
  PROVE  LET e == Judged(d)
         IN  /\ e \in Driver
             /\ e.phase = d.phase /\ e.cmd = d.cmd /\ e.check = d.check
             /\ e.age = d.age /\ e.onSent = d.onSent /\ e.output = d.output
             /\ e.offOwed = d.offOwed /\ e.answered = d.answered
             /\ e.known = d.known /\ e.restored = d.restored
             /\ e.whoMisses = d.whoMisses
<1> DEFINE l == LearnOn(d)
           pend == ~d.output /\ d.age < Watch
           tries == IF d.output = d.want THEN 0 ELSE d.enTries
<1>1. /\ l \in Driver /\ Alike(l, d)
      /\ l.phase = d.phase /\ l.cmd = d.cmd /\ l.check = d.check
  BY LearnOnIs
<1>2. l.enTries = d.enTries
  BY DEF LearnOn, Driver
<1>3. pend \in BOOLEAN /\ tries \in 0 .. Tries
  <2>1. d.enTries \in 0 .. Tries /\ 0 \in 0 .. Tries
    BY DEF Driver, Tries
  <2>2. tries \in 0 .. Tries
    BY <2>1
  <2> QED
    BY <2>2
<1>4. \/ Judged(d) = [l EXCEPT !.enPending = pend]
      \/ Judged(d) = [d EXCEPT !.enPending = pend]
      \/ Judged(d) = [l EXCEPT !.enPending = FALSE, !.enTries = tries]
      \/ Judged(d) = [d EXCEPT !.enPending = FALSE, !.enTries = tries]
  BY <1>2 DEF Judged
<1> HIDE DEF l, pend, tries
<1> DEFINE Like(e, x) ==
             /\ e \in Driver
             /\ e.phase = x.phase /\ e.cmd = x.cmd /\ e.check = x.check
             /\ e.age = x.age /\ e.onSent = x.onSent /\ e.output = x.output
             /\ e.offOwed = x.offOwed /\ e.answered = x.answered
             /\ e.known = x.known /\ e.restored = x.restored
             /\ e.whoMisses = x.whoMisses
<1>5. ASSUME NEW x \in Driver
      PROVE  /\ Like([x EXCEPT !.enPending = pend], x)
             /\ Like([x EXCEPT !.enPending = FALSE, !.enTries = tries], x)
  <2>1. Like([x EXCEPT !.enPending = pend], x)
    BY <1>3 DEF Driver
  <2>2. Like([x EXCEPT !.enPending = FALSE, !.enTries = tries], x)
    BY <1>3 DEF Driver
  <2> QED
    BY <2>1, <2>2
<1>6. Like(Judged(d), l) \/ Like(Judged(d), d)
  <2> HIDE DEF Like
  <2> QED
    BY <1>1, <1>4, <1>5
<1> QED
  BY <1>1, <1>6 DEF Alike

\* A state read shows the output as it was, and settles an ON sent once that
\* shows or has had its time.
LEMMA ReadAsIs ==
  ASSUME NEW d \in Driver, NEW on \in BOOLEAN
  PROVE  LET e == ReadAs(d, on)
         IN  /\ e \in Driver /\ e.answered = d.answered
             /\ e.phase = d.phase /\ e.cmd = d.cmd /\ e.check = d.check
             /\ e.age = d.age /\ e.output = on
             /\ d.onSent /\ ~on /\ d.age < Confirm => e.onSent
<1> DEFINE t == IF Tripped(d, on) THEN HoldOff(d) ELSE d
           sent == d.onSent /\ ~Settled(d, on)
           r == [t EXCEPT !.output = on, !.known = TRUE, !.stateFails = 0,
                          !.offOwed = FALSE, !.onSent = sent]
<1>1. /\ t \in Driver /\ Alike(t, d)
      /\ t.phase = d.phase /\ t.cmd = d.cmd /\ t.check = d.check
  BY HoldOffIs DEF HoldOff, Alike
<1>2. ReadAs(d, on) = Judged(r)
  BY <1>1 DEF ReadAs, Alike
<1>3. d.onSent /\ ~on /\ d.age < Confirm => sent
  BY Constants DEF Settled, Driver
<1>4. sent \in BOOLEAN /\ 0 \in 0 .. Fails - 1
  BY Constants DEF Driver, Settled
<1> HIDE DEF t, sent
<1>5. r \in Driver
  BY ZenonT(60), <1>1, <1>4 DEF Driver
<1>6. /\ r.answered = t.answered
      /\ r.phase = t.phase /\ r.cmd = t.cmd /\ r.check = t.check
      /\ r.age = t.age /\ r.output = on /\ r.onSent = sent
  BY <1>1 DEF Driver
<1> HIDE DEF r
<1> QED
  BY <1>1, <1>2, <1>3, <1>5, <1>6, JudgedIs DEF Alike

\* A reply loses sight of an output only where it reads it off, and not while
\* an ON sent has still to be confirmed.
LEMMA ReadsIs ==
  ASSUME NEW d \in Driver, NEW r \in Replies, NEW e \in Reads(d, r),
         r \in {"on", "off"} => d.cmd = "state",
         r = "ok" => d.cmd # "state"
  PROVE  /\ e \in Driver /\ e.phase = "idle" /\ e.cmd = "poll"
         /\ e.age = d.age /\ (d.answered => e.answered)
         /\ d.onSent /\ d.age < Confirm => e.onSent \/ r = "on"
         /\ KnownOn(d) => KnownOn(e) \/ r = "off"
         /\ r = "on" => KnownOn(e)
         /\ e.check # "sent" \/ (d.check = "sent" /\ d.cmd # "state")
         /\ e.check = "off" =>
              \/ d.check = "off"
              \/ /\ d.cmd = "state" /\ d.check = "sent"
                 /\ r \in {"on", "off"} /\ ~KnownOn(e)
<1>0. TRUE \in BOOLEAN /\ FALSE \in BOOLEAN
  OBVIOUS
<1>1. CASE r = "junk"
  <2>1. e = Finished(d, FALSE, TRUE)
    BY <1>1 DEF Reads
  <2>2. /\ e \in Driver /\ e.phase = "idle" /\ e.cmd = "poll"
        /\ e.age = d.age /\ e.onSent = d.onSent /\ e.answered = d.answered
        /\ KnownOn(d) => KnownOn(e)
        /\ e.check = "sent" => d.check = "sent" /\ d.cmd # "state"
        /\ e.check = "off" => d.check = "off"
    BY <2>1, FinishedIs
  <2> QED
    BY <1>1, <2>2
<1>2. CASE r # "junk" /\ d.cmd = "who"
  <2>1. e = Finished(Identified(d), TRUE, TRUE)
    BY <1>2 DEF Reads
  <2> DEFINE i == Identified(d)
  <2>2. /\ i \in Driver /\ KnownOn(i) /\ i.answered
        /\ i.cmd = d.cmd /\ i.check = d.check /\ i.age = d.age
        /\ i.onSent = d.onSent
    BY IdentifiedIs
  <2> HIDE DEF i
  <2>3. /\ e \in Driver /\ e.phase = "idle" /\ e.cmd = "poll"
        /\ e.age = i.age /\ e.onSent = i.onSent /\ e.answered = i.answered
        /\ KnownOn(e)
        /\ e.check = "sent" => i.check = "sent" /\ i.cmd # "state"
        /\ e.check = "off" => i.check = "off" \/ i.cmd = "state"
    BY <2>1, <2>2, FinishedIs DEF i
  <2> QED
    BY <1>2, <2>2, <2>3
<1>3. CASE r # "junk" /\ d.cmd = "state"
  <2>1. e = Finished(ReadAs(d, r = "on"), TRUE, TRUE)
    BY <1>3 DEF Reads
  <2>2. r \in {"on", "off"}
    BY <1>3 DEF Replies
  <2> DEFINE s == ReadAs(d, r = "on")
  <2>a. e = Finished(s, TRUE, TRUE)
    BY <2>1
  <2>3. /\ s \in Driver /\ s.answered = d.answered
        /\ s.phase = d.phase /\ s.cmd = d.cmd /\ s.check = d.check
        /\ s.age = d.age /\ s.output = (r = "on")
        /\ d.onSent /\ ~(r = "on") /\ d.age < Confirm => s.onSent
    BY ReadAsIs
  <2>4. r = "on" => KnownOn(s)
    BY <2>3 DEF KnownOn
  <2>b. s \in Driver
    BY <2>3
  <2> HIDE DEF s
  <2>5. /\ e \in Driver /\ e.phase = "idle" /\ e.cmd = "poll"
        /\ e.age = s.age /\ e.onSent = s.onSent /\ e.answered = s.answered
        /\ KnownOn(s) => KnownOn(e)
        /\ e.check = "sent" => s.check = "sent" /\ s.cmd # "state"
        /\ e.check = "off" => \/ s.check = "off"
                              \/ s.check = "sent" /\ ~KnownOn(e)
    <3>1. /\ e \in Driver /\ e.phase = "idle" /\ e.cmd = "poll"
          /\ e.age = s.age /\ e.onSent = s.onSent /\ e.answered = s.answered
          /\ KnownOn(s) => KnownOn(e)
          /\ e.check = "sent" => s.check = "sent" /\ s.cmd # "state"
          /\ e.check = "off" => s.check = "off" \/ s.check = "sent"
      BY <2>a, <2>b, FinishedIs
    <3>2. KnownOn(e) /\ e.check = "off" => s.check = "off"
      BY <2>a, <2>b, FinishedOff, Zenon
    <3> QED
      BY <3>1, <3>2
  <2>6. d.onSent /\ d.age < Confirm => e.onSent \/ r = "on"
    BY <2>3, <2>5
  <2>7. KnownOn(d) => KnownOn(e) \/ r = "off"
    BY <2>2, <2>4, <2>5
  <2>8. e.check = "off" => \/ d.check = "off"
                           \/ d.check = "sent" /\ ~KnownOn(e)
    BY <2>3, <2>5
  <2>9. e.age = d.age /\ e.answered = d.answered
        /\ (r = "on" => KnownOn(e)) /\ (e.check # "sent")
    BY <1>3, <2>3, <2>4, <2>5
  <2> HIDE DEF KnownOn
  <2> QED
    BY <1>3, <2>2, <2>5, <2>6, <2>7, <2>8, <2>9
<1>4. CASE r # "junk" /\ d.cmd \notin {"who", "state"}
  <2> DEFINE h == [d EXCEPT !.heldOff = TRUE, !.want = FALSE, !.enTries = 0]
  <2>1. h = HoldOff(d)
    BY DEF HoldOff
  <2>2. \E x \in {d, h} : e = Finished(x, TRUE, TRUE)
    BY <1>4, <2>1 DEF Reads
  <2>3. /\ h \in Driver /\ Alike(h, d)
        /\ h.phase = d.phase /\ h.cmd = d.cmd /\ h.check = d.check
    BY HoldOffIs
  <2> HIDE DEF h
  <2>4. PICK x \in {d, h} : e = Finished(x, TRUE, TRUE)
    BY <2>2
  <2>5. /\ x \in Driver /\ Alike(x, d) /\ x.cmd = d.cmd /\ x.check = d.check
    BY <2>3, <2>4 DEF Alike
  <2>6. /\ e \in Driver /\ e.phase = "idle" /\ e.cmd = "poll"
        /\ e.age = x.age /\ e.onSent = x.onSent /\ e.answered = x.answered
        /\ KnownOn(x) => KnownOn(e)
        /\ e.check = "sent" => x.check = "sent" /\ x.cmd # "state"
        /\ e.check = "off" => x.check = "off" \/ x.cmd = "state"
    BY ZenonT(60), <2>4, <2>5, FinishedIs
  <2>7. /\ x.age = d.age /\ x.onSent = d.onSent /\ x.answered = d.answered
        /\ KnownOn(d) => KnownOn(x)
    BY <2>5 DEF Alike, KnownOn
  <2> QED
    BY <1>4, <2>5, <2>6, <2>7 DEF Replies
<1> QED
  BY <1>1, <1>2, <1>3, <1>4

-----------------------------------------------------------------------------
(* The next job: nothing is lost sight of.                                 *)

\* What is known of the output stands, and an ON sent gets no older.
Sees(e, d) ==
  /\ e \in Driver /\ (KnownOn(d) => KnownOn(e)) /\ (d.onSent => e.onSent)
  /\ e.age <= d.age

LEMMA AlikeSees ==
  ASSUME NEW d \in Driver, NEW e \in Driver, Alike(e, d)
  PROVE  Sees(e, d) /\ (KnownOn(e) <=> KnownOn(d))
<1>1. d.age \in Nat
  BY Constants DEF Driver
<1> QED
  BY <1>1 DEF Alike, Sees, KnownOn

LEMMA SeesOn ==
  ASSUME NEW d \in Driver, NEW e \in Driver, NEW f \in Driver,
         Sees(f, e), Sees(e, d)
  PROVE  Sees(f, d)
<1>1. d.age \in Int /\ e.age \in Int /\ f.age \in Int
  BY Constants DEF Driver
<1> QED
  BY <1>1 DEF Sees

LEMMA StartedIs ==
  ASSUME NEW d \in Driver, NEW c \in Command
  PROVE  LET e == Started(d, c)
         IN  /\ e \in Driver /\ Alike(e, d) /\ e.enTries = d.enTries
             /\ e.phase = "attach" /\ e.cmd = c
             /\ e.check = IF c = "state" /\ d.check = "asked" THEN "sent"
                          ELSE d.check
<1> DEFINE check == IF c = "state" /\ d.check = "asked" THEN "sent" ELSE d.check
<1>1. check \in {"none", "asked", "sent", "off", "not_off"}
  BY DEF Driver
<1>2. Started(d, c) = [d EXCEPT !.phase = "attach", !.cmd = c, !.check = check]
  BY DEF Started
<1> HIDE DEF check
<1>3. LET e == Started(d, c)
      IN  /\ e \in Driver /\ Alike(e, d) /\ e.enTries = d.enTries
          /\ e.phase = "attach" /\ e.cmd = c /\ e.check = check
  BY ZenonT(60), <1>1, <1>2 DEF Driver, Alike
<1> QED
  BY <1>3 DEF check

LEMMA UnreadIs ==
  ASSUME NEW d \in Driver
  PROVE  LET e == Unread(d)
         IN  /\ e \in Driver /\ Alike(e, d)
             /\ e.phase = d.phase /\ e.cmd = d.cmd
             /\ e.check \in {d.check, "not_off"}
<1> DEFINE check == IF d.check = "asked" THEN "not_off" ELSE d.check
<1>1. /\ check \in {"none", "asked", "sent", "off", "not_off"}
      /\ check \in {d.check, "not_off"}
  BY DEF Driver
<1>2. Unread(d) = [d EXCEPT !.blindDue = FALSE, !.check = check]
  BY DEF Unread
<1> HIDE DEF check
<1> QED
  BY ZenonT(60), <1>1, <1>2 DEF Driver, Alike

LEMMA DoubtedIs ==
  ASSUME NEW d \in Driver
  PROVE  LET e == Doubted(d)
         IN  /\ e \in Driver /\ Alike(e, d) /\ e.enTries = d.enTries
             /\ e.phase = d.phase /\ e.cmd = d.cmd /\ e.check = d.check
<1> DEFINE e == [d EXCEPT !.onConfirmed = FALSE, !.onSeen = FALSE]
<1>1. /\ e \in Driver /\ Alike(e, d) /\ e.enTries = d.enTries
      /\ e.phase = d.phase /\ e.cmd = d.cmd /\ e.check = d.check
  BY DEF Driver, Alike
<1>2. Doubted(d) = e \/ Doubted(d) = d
  BY DEF Doubted
<1> HIDE DEF e
<1> QED
  BY <1>1, <1>2 DEF Alike

LEMMA WrittenIs ==
  ASSUME NEW d \in Driver
  PROVE  LET e == Written(d)
         IN  /\ Sees(e, d) /\ e.phase = "attach" /\ e.cmd = "enable"
             /\ e.enPending /\ e.check = d.check
<1> DEFINE t == IF d.enTries = Tries THEN 0 ELSE d.enTries
           b == Doubted(d)
           e == [b EXCEPT !.enTries = t]
           s == Started(e, "enable")
           mean == IF e.want THEN e.onValue ELSE Opposite(e.onValue)
           v == IF e.enTries < 2 \/ e.onConfirmed THEN mean ELSE Opposite(mean)
           w == [s EXCEPT !.enValue = v, !.enTries = t + 1, !.enPending = TRUE,
                          !.enFor = e.want, !.age = 0]
<1>1. /\ b \in Driver /\ Alike(b, d) /\ b.enTries = d.enTries
      /\ b.check = d.check
  BY DoubtedIs
<1>2. t \in 0 .. Tries /\ t + 1 \in 0 .. Tries
  <2>1. d.enTries \in 0 .. Tries
    BY DEF Driver
  <2> QED
    BY <2>1 DEF Tries
<1> HIDE DEF t, b
<1>3. e \in Driver /\ Alike(e, b) /\ e.check = b.check /\ e.enTries = t
  BY <1>1, <1>2 DEF Driver, Alike
<1>4. Written(d) = [s EXCEPT !.enValue = v, !.enTries = @ + 1,
                             !.enPending = TRUE, !.enFor = e.want, !.age = 0]
  BY <1>1 DEF Written, t, b
<1>5. e.want \in BOOLEAN /\ v \in Arg
  <2>1. e.want \in BOOLEAN /\ e.onValue \in Arg
    BY <1>3 DEF Driver
  <2>2. \A x \in Arg : Opposite(x) \in Arg
    BY DEF Arg, Opposite
  <2> HIDE DEF e
  <2> QED
    BY <2>1, <2>2
<1> HIDE DEF e, v
<1>6. "enable" \in Command
  BY DEF Command, Writes
<1>7. /\ s \in Driver /\ Alike(s, e) /\ s.enTries = e.enTries
      /\ s.phase = "attach" /\ s.cmd = "enable" /\ s.check = e.check
  BY <1>3, <1>6, StartedIs
<1> HIDE DEF s
<1>8. Written(d) = w
  BY <1>3, <1>4, <1>7
<1>9. 0 \in 0 .. Retry
  BY Constants
<1>10. /\ w \in Driver /\ w.phase = s.phase /\ w.cmd = s.cmd
       /\ w.check = s.check /\ w.age = 0 /\ w.enPending = TRUE
       /\ w.output = s.output /\ w.onSent = s.onSent /\ w.offOwed = s.offOwed
       /\ w.answered = s.answered /\ w.known = s.known
       /\ w.restored = s.restored /\ w.whoMisses = s.whoMisses
  BY <1>2, <1>5, <1>7, <1>9 DEF Driver
<1> HIDE DEF w
<1>11. (KnownOn(d) => KnownOn(w)) /\ (d.onSent => w.onSent)
  BY <1>1, <1>3, <1>7, <1>10 DEF Alike, KnownOn
<1>12. d.age \in Nat
  BY Constants DEF Driver
<1> QED
  BY <1>1, <1>3, <1>7, <1>8, <1>10, <1>11, <1>12 DEF Sees

LEMMA DroppedIs ==
  ASSUME NEW d \in Driver
  PROVE  LET e == Dropped(d)
         IN  /\ Sees(e, d) /\ e.phase = "idle" /\ e.cmd = "poll"
             /\ e.check = d.check
<1> DEFINE t == IF d.enTries > 0 THEN d.enTries - 1 ELSE 0
           i == Idle(d)
           e == [i EXCEPT !.enPending = FALSE, !.enTries = t]
<1>1. /\ i \in Driver /\ Alike(i, d) /\ i.phase = "idle" /\ i.cmd = "poll"
      /\ i.check = d.check
  BY IdleIs
<1>2. i.enTries = d.enTries
  BY DEF Idle, Driver
<1>3. t \in 0 .. Tries
  <2>1. d.enTries \in 0 .. Tries
    BY DEF Driver
  <2> QED
    BY <2>1 DEF Tries
<1>4. Dropped(d) = e
  BY <1>2 DEF Dropped
<1> HIDE DEF i, t
<1>5. /\ e \in Driver /\ e.phase = i.phase /\ e.cmd = i.cmd
      /\ e.check = i.check /\ e.age = i.age
      /\ e.output = i.output /\ e.onSent = i.onSent /\ e.offOwed = i.offOwed
      /\ e.answered = i.answered /\ e.known = i.known
      /\ e.restored = i.restored /\ e.whoMisses = i.whoMisses
  BY <1>1, <1>3 DEF Driver
<1> HIDE DEF e
<1>6. (KnownOn(d) => KnownOn(e)) /\ (d.onSent => e.onSent)
  BY <1>1, <1>5 DEF Alike, KnownOn
<1>7. d.age \in Nat
  BY Constants DEF Driver
<1> QED
  BY <1>1, <1>4, <1>5, <1>6, <1>7 DEF Sees, Alike

LEMMA SentIs ==
  ASSUME NEW d \in Driver
  PROVE  LET e == Sent(d)
         IN  /\ Sees(e, d) /\ e.phase = "wait" /\ e.cmd = d.cmd
             /\ e.check = d.check /\ e.answered = d.answered
             /\ d.cmd \in Writes => e.age = 0
             /\ d.cmd = "enable" /\ OnPending(d) => e.onSent
<1> DEFINE age == IF d.cmd \in Writes THEN 0 ELSE d.age
           on == d.onSent \/ (d.cmd = "enable" /\ OnPending(d))
           e == [d EXCEPT !.phase = "wait", !.age = age, !.onSent = on]
<1>1. age \in 0 .. Retry /\ age <= d.age /\ (d.cmd \in Writes => age = 0)
  BY Constants DEF Driver
<1>2. on \in BOOLEAN
  BY DEF Driver, OnPending
<1>3. (d.onSent => on) /\ (d.cmd = "enable" /\ OnPending(d) => on)
  OBVIOUS
<1>4. Sent(d) = e
  BY DEF Sent
<1> HIDE DEF age, on
<1>5. /\ e \in Driver /\ e.phase = "wait" /\ e.cmd = d.cmd
      /\ e.check = d.check /\ e.age = age
      /\ e.output = d.output /\ e.onSent = on /\ e.offOwed = d.offOwed
      /\ e.answered = d.answered /\ e.known = d.known
      /\ e.restored = d.restored /\ e.whoMisses = d.whoMisses
  BY <1>1, <1>2 DEF Driver
<1> HIDE DEF e
<1>6. KnownOn(d) => KnownOn(e)
  BY <1>3, <1>5 DEF KnownOn
<1> QED
  BY <1>1, <1>3, <1>4, <1>5, <1>6 DEF Sees

-----------------------------------------------------------------------------
(* The page's step.                                                        *)

Pages == [out : BOOLEAN, held : BOOLEAN, offHeld : BOOLEAN,
          sticky : BOOLEAN, offWait : BOOLEAN, wasOn : BOOLEAN,
          wire : {"idle", "wait", "ready"}, ask : BOOLEAN, next : Wirings]

LEMMA UnwiredIs ==
  ASSUME NEW p \in Pages
  PROVE  LET q == Unwired(p)
         IN  /\ q \in Pages /\ q.wire = "idle" /\ ~q.ask
             /\ q.out = p.out /\ q.held = p.held /\ q.sticky = p.sticky
BY DEF Unwired, Pages, Wirings

\* What a step of the page asks, and where it leaves a change that waits.
LEMMA SteppedIs ==
  ASSUME page \in Pages, rig.open \in BOOLEAN, beat \in BOOLEAN,
         drv.check \in {"none", "asked", "sent", "off", "not_off"},
         page.wire # "ready", NEW frame \in BOOLEAN, NEW over \in BOOLEAN
  PROVE  LET p == Stepped(frame, over)
         IN  /\ p \in Pages /\ p.held = page.held /\ p.sticky = page.sticky
             /\ p.out => beat /\ page.out
             /\ p.wire = "wait" => page.wire = "wait" /\ rig.open
             /\ p.wire = "wait" /\ ~p.ask =>
                  \/ AsksCheck(page)
                  \/ Waiting /\ drv.check \in {"asked", "sent"}
             /\ p.wire = "ready" /\ rig.open => Waiting /\ drv.check = "off"
<1> DEFINE b == Beaten(page)
           held == b.offHeld /\ beat /\ b.held /\ ~over
           h == [b EXCEPT !.offHeld = held]
           was == Asked(h)
           offw == ~Asked(h) /\ IF h.wasOn THEN frame ELSE h.offWait /\ ~over
           w == [h EXCEPT !.wasOn = was, !.offWait = offw]
           Same(q) == /\ q \in Pages /\ q.held = page.held
                      /\ q.sticky = page.sticky /\ q.wire = page.wire
                      /\ q.ask = page.ask /\ (q.out => beat /\ page.out)
<1>1. Same(b)
  BY DEF Beaten, Pages
<1>2. held \in BOOLEAN
  <2>1. b.offHeld \in BOOLEAN /\ b.held \in BOOLEAN
    BY <1>1 DEF Pages
  <2> QED
    BY <2>1
<1>3. Stepped(frame, over) = WireStepped(Waited(h, frame, over))
  BY DEF Stepped, HeldBack
<1> HIDE DEF b, held
<1>4. Same(h)
  BY <1>1, <1>2 DEF Pages
<1>5. Waited(h, frame, over) = w
  BY DEF Waited
<1>6. was \in BOOLEAN /\ offw \in BOOLEAN
  <2>1. /\ h.out \in BOOLEAN /\ h.offHeld \in BOOLEAN /\ h.wasOn \in BOOLEAN
        /\ h.offWait \in BOOLEAN
    BY <1>4 DEF Pages
  <2> HIDE DEF h
  <2> QED
    BY <2>1 DEF Asked
<1> HIDE DEF h, was, offw
<1>7. Same(w)
  BY <1>4, <1>6 DEF Pages
<1> HIDE DEF w
<1> DEFINE p == WireStepped(w)
           ready == [w EXCEPT !.wire = "ready"]
           asked == [w EXCEPT !.ask = FALSE]
<1>8. AsksCheck(w) <=> AsksCheck(page)
  BY <1>7 DEF AsksCheck
<1>9. /\ ready \in Pages /\ ready.held = w.held /\ ready.sticky = w.sticky
      /\ ready.out = w.out /\ ready.wire = "ready"
  BY <1>7 DEF Pages
<1>10. /\ asked \in Pages /\ asked.held = w.held /\ asked.sticky = w.sticky
       /\ asked.out = w.out /\ asked.wire = w.wire
  BY <1>7 DEF Pages
<1>11. LET u == Unwired(w)
       IN  /\ u \in Pages /\ u.wire = "idle"
           /\ u.out = w.out /\ u.held = w.held /\ u.sticky = w.sticky
  BY <1>7, UnwiredIs
<1> HIDE DEF ready, asked
<1>12. Stepped(frame, over) = p
  BY <1>3, <1>5
<1>13. CASE page.wire # "wait"
  <2>1. p = w
    BY <1>7, <1>13 DEF WireStepped
  <2> QED
    BY <1>7, <1>12, <1>13, <2>1
<1>14. CASE page.wire = "wait" /\ ~rig.open
  <2>1. p = ready
    BY <1>7, <1>14 DEF WireStepped, ready
  <2> QED
    BY <1>7, <1>9, <1>12, <1>14, <2>1
<1>15. CASE page.wire = "wait" /\ rig.open /\ AsksCheck(page)
  <2>1. p = asked
    BY <1>7, <1>8, <1>15 DEF WireStepped, asked
  <2> QED
    BY <1>7, <1>10, <1>12, <1>15, <2>1
<1>16. CASE page.wire = "wait" /\ rig.open /\ ~AsksCheck(page)
  <2>1. ~page.ask /\ drv.check # "none"
    BY <1>16 DEF AsksCheck
  <2>2. p = IF drv.check = "off" THEN ready
            ELSE IF drv.check = "not_off" THEN Unwired(w) ELSE w
    BY <1>7, <1>8, <1>16 DEF WireStepped, ready
  <2>3. CASE drv.check = "off"
    BY <1>7, <1>9, <1>12, <1>16, <2>1, <2>2, <2>3 DEF Waiting
  <2>4. CASE drv.check = "not_off"
    BY <1>7, <1>11, <1>12, <1>16, <2>2, <2>4
  <2>5. CASE drv.check \in {"asked", "sent"}
    BY <1>7, <1>12, <1>16, <2>1, <2>2, <2>5 DEF Waiting
  <2> QED
    BY <2>1, <2>3, <2>4, <2>5
<1> QED
  BY <1>13, <1>14, <1>15, <1>16

LEMMA ToldIs ==
  ASSUME drv \in Driver, NEW p \in Pages
  PROVE  LET d == Told(p)
         IN  /\ d \in Driver /\ Alike(d, drv)
             /\ d.phase = drv.phase /\ d.cmd = drv.cmd
             /\ d.check = IF AsksCheck(page) THEN "asked" ELSE drv.check
             /\ d.want => Asked(p) \/ p.offWait
<1> DEFINE a == [drv EXCEPT !.check = "asked"]
           d == IF AsksCheck(page) THEN a ELSE drv
           on == Asked(p) \/ p.offWait
<1>1. on \in BOOLEAN
  BY DEF Asked, Pages
<1>2. /\ a \in Driver /\ Alike(a, drv) /\ a.phase = drv.phase
      /\ a.cmd = drv.cmd /\ a.check = "asked"
  BY DEF Driver, Alike
<1>3. Told(p) = Want(d, on)
  BY DEF Told, CheckOff
<1> HIDE DEF a, on
<1>4. /\ d \in Driver /\ Alike(d, drv) /\ d.phase = drv.phase
      /\ d.cmd = drv.cmd
      /\ d.check = IF AsksCheck(page) THEN "asked" ELSE drv.check
  BY <1>2 DEF Alike
<1> HIDE DEF d
<1>5. LET e == Want(d, on)
      IN  /\ e \in Driver /\ Alike(e, d) /\ e.phase = d.phase
          /\ e.cmd = d.cmd /\ e.check = d.check /\ (e.want => on)
  BY <1>1, <1>4, WantIs
<1> QED
  BY <1>3, <1>4, <1>5 DEF Alike, on

-----------------------------------------------------------------------------
(* What every step keeps in sight.                                         *)

\* The driver as a step of the page leaves it: a read is asked of it where a
\* change waits for one that it has not been asked for.
AskedOf(d) ==
  /\ d \in Driver /\ Alike(d, drv) /\ d.phase = drv.phase /\ d.cmd = drv.cmd
  /\ d.check \in {drv.check, "asked"}
  /\ Waiting' => d.check = "asked" \/ (Waiting /\ d.check = drv.check)

PageFits == /\ page.wire # "ready"
            /\ page.wire = "wait" => rig.open

\* How far the read has got is forgotten only with the change.
SinceKept == since' = since \/ (since' = "none" /\ ~Waiting')

\* A reply taken keeps an output of ours in sight: what it can say of one has
\* been sent since, or is that it is on.
LEMMA ReplyKnows ==
  ASSUME IInv, NEW d, d \in Driver, Alike(d, drv), d.phase = drv.phase,
         d.cmd = drv.cmd, line \in Replies, NEW e \in Reads(d, line)
  PROVE  /\ e \in Driver /\ e.phase = "idle" /\ e.cmd = "poll"
         /\ e.age = drv.age /\ (drv.answered => e.answered)
         /\ ours \/ module.asOn => KnownOn(e)
         /\ module.asOn => e.onSent \/ module.on
         /\ d.check \in {drv.check, "asked"} => e.check # "sent"
         /\ e.check = "off" =>
              \/ d.check = "off"
              \/ /\ d.check = "sent" /\ drv.phase = "wait"
                 /\ line \in {"on", "off"} /\ ~KnownOn(e)
<1>1. /\ line \in {"on", "off"} => d.cmd = "state"
      /\ line = "ok" => d.cmd # "state"
      /\ drv.phase = "wait"
  BY DEF IInv, Sight, LineFits, Replies
<1>2. /\ e \in Driver /\ e.phase = "idle" /\ e.cmd = "poll"
      /\ e.age = d.age /\ (d.answered => e.answered)
      /\ d.onSent /\ d.age < Confirm => e.onSent \/ line = "on"
      /\ KnownOn(d) => KnownOn(e) \/ line = "off"
      /\ line = "on" => KnownOn(e)
      /\ e.check # "sent" \/ (d.check = "sent" /\ d.cmd # "state")
      /\ e.check = "off" =>
           \/ d.check = "off"
           \/ /\ d.cmd = "state" /\ d.check = "sent"
              /\ line \in {"on", "off"} /\ ~KnownOn(e)
  BY <1>1, ReadsIs
<1>3. /\ d.onSent = drv.onSent /\ d.age = drv.age /\ d.answered = drv.answered
      /\ KnownOn(d) <=> KnownOn(drv)
  BY DEF Alike, KnownOn
<1>4. ASSUME ours \/ module.asOn
      PROVE  KnownOn(e)
  <2>1. KnownOn(drv)
    BY <1>4 DEF IInv, Sight, OnIsKnown
  <2>2. line = "off" => drv.onSent /\ drv.age < Confirm
    BY <1>4 DEF IInv, Sight, ToldBefore
  <2>3. e.onSent => KnownOn(e)
    BY DEF KnownOn
  <2> QED
    BY <1>2, <1>3, <2>1, <2>2, <2>3
<1>5. ASSUME module.asOn
      PROVE  e.onSent \/ module.on
  <2>1. drv.age < Confirm /\ (drv.onSent \/ module.on)
    BY <1>5 DEF IInv, Sight, OnIsYoung
  <2>2. line = "on" => module.on
    BY <1>5 DEF IInv, Sight, ToldBefore
  <2> QED
    BY <1>2, <1>3, <2>1, <2>2
<1>6. ASSUME d.check \in {drv.check, "asked"}
      PROVE  e.check # "sent"
  <2>1. drv.check = "sent" => drv.cmd = "state"
    BY DEF IInv, Change, ChangeFits
  <2> QED
    BY <1>2, <1>6, <2>1
<1> QED
  BY <1>1, <1>2, <1>3, <1>4, <1>5, <1>6

LEMMA TakenKeeps ==
  ASSUME IInv, NEW d, AskedOf(d), line \in Replies, drv' \in Reads(d, line),
         line' = "quiet", UNCHANGED <<rig, module, ours>>,
         SinceKept, PageFits'
  PROVE  Sight' /\ Change'
<1>1. /\ drv' \in Driver /\ drv'.phase = "idle" /\ drv'.cmd = "poll"
      /\ drv'.age = drv.age
      /\ ours \/ module.asOn => KnownOn(drv')
      /\ module.asOn => drv'.onSent \/ module.on
      /\ drv'.check # "sent"
      /\ drv'.check = "off" =>
           \/ d.check = "off"
           \/ /\ d.check = "sent" /\ drv.phase = "wait"
              /\ line \in {"on", "off"} /\ ~KnownOn(drv')
  BY ReplyKnows DEF AskedOf
<1>2. /\ rig' = rig /\ module' = module /\ ours' = ours
  OBVIOUS
<1>3. Sight'
  <2>1. RigFits' /\ OursIsOn'
    BY <1>2 DEF IInv, Sight, RigFits, OursIsOn
  <2>2. LineFits' /\ WriteFits' /\ ToldBefore'
    BY <1>1 DEF LineFits, WriteFits, ToldBefore
  <2>3. OnIsKnown'
    <3>1. ours \/ module.asOn =>
            rig.open /\ rig.wiring = "module" /\ KnownOn(drv')
      BY <1>1 DEF IInv, Sight, OnIsKnown
    <3> QED
      BY <1>2, <3>1 DEF OnIsKnown, KnownOn
  <2>4. OnIsYoung'
    BY <1>1, <1>2 DEF IInv, Sight, OnIsYoung
  <2> QED
    BY <2>1, <2>2, <2>3, <2>4 DEF Sight
<1>4. Change'
  <2>1. ChangeFits' /\ ReadIsSince' /\ CameOnByOurs'
    BY <1>1 DEF ChangeFits, PageFits, ReadIsSince, CameOnByOurs
  <2>2. ASSUME Waiting', drv'.check = "off"
        PROVE  /\ ~module.asOn
               /\ since = "on" \/ (since = "told" /\ ~module.on)
    <3>1. d.check = "asked" \/ (Waiting /\ d.check = drv.check)
      BY <2>2 DEF AskedOf
    <3>2. CASE d.check = "off"
      BY <3>1, <3>2 DEF IInv, Change, Cleared
    <3>3. CASE d.check = "sent" /\ drv.phase = "wait"
               /\ line \in {"on", "off"} /\ ~KnownOn(drv')
      <4>1. ~ours /\ ~module.asOn /\ line = "off"
        <5>1. ~ours /\ ~module.asOn
          BY <1>1, <3>3
        <5>2. line # "on"
          <6> SUFFICES ASSUME line = "on" PROVE FALSE
            OBVIOUS
          <6>1. d.cmd = "state" /\ "on" \in Replies
            BY DEF IInv, Sight, LineFits, AskedOf, Replies
          <6>2. KnownOn(drv')
            BY <6>1, ReadsIs DEF AskedOf
          <6> QED
            BY <3>3, <6>2
        <5> QED
          BY <3>3, <5>1, <5>2
      <4>2. since \in {"told", "on"}
        BY <3>1, <3>3 DEF IInv, Change, ReadIsSince
      <4>3. since = "told" => ~module.on
        BY <4>1 DEF IInv, Change, CameOnByOurs
      <4> QED
        BY <4>1, <4>2, <4>3
    <3> QED
      BY <1>1, <2>2, <3>2, <3>3
  <2>3. Cleared'
    BY <1>1, <1>2, <2>2 DEF Cleared, SinceKept, Waiting
  <2> QED
    BY <2>1, <2>3 DEF Change
<1> QED
  BY <1>3, <1>4

\* A step that takes no reply and puts no request on the wire.
LEMMA StepKeeps ==
  ASSUME IInv, NEW d, AskedOf(d), Sees(drv', d),
         line' \in {line, "quiet"},
         line' # "quiet" => drv'.phase = "wait" /\ drv'.cmd = drv.cmd,
         WriteFits', UNCHANGED <<rig, module, ours>>, SinceKept, PageFits',
         drv'.check = "sent" => drv'.cmd = "state" /\ drv'.phase # "idle",
         drv'.phase = "wait" => drv.phase = "wait" /\ drv'.check = d.check,
         Waiting' /\ drv'.check = "off" => drv' = drv /\ Waiting
  PROVE  Sight' /\ Change'
<1>1. /\ rig' = rig /\ module' = module /\ ours' = ours
  OBVIOUS
<1>2. /\ drv' \in Driver /\ (KnownOn(drv) => KnownOn(drv'))
      /\ (drv.onSent => drv'.onSent) /\ drv'.age <= drv.age
      /\ drv.age \in Nat /\ drv'.age \in Nat
  <2>1. /\ drv' \in Driver /\ (KnownOn(d) => KnownOn(drv'))
        /\ (d.onSent => drv'.onSent) /\ drv'.age <= d.age
    BY DEF Sees
  <2>2. /\ d.onSent = drv.onSent /\ d.age = drv.age
        /\ KnownOn(d) <=> KnownOn(drv)
    BY DEF AskedOf, Alike, KnownOn
  <2>3. d.age \in Nat /\ drv'.age \in Nat
    BY <2>1, Constants DEF AskedOf, Driver
  <2> QED
    BY <2>1, <2>2, <2>3
<1>3. Sight'
  <2>1. RigFits' /\ OursIsOn'
    BY <1>1 DEF IInv, Sight, RigFits, OursIsOn
  <2>2. LineFits' /\ WriteFits'
    BY DEF IInv, Sight, LineFits
  <2>3. OnIsKnown'
    <3>1. ours \/ module.asOn =>
            rig.open /\ rig.wiring = "module" /\ KnownOn(drv')
      BY <1>2 DEF IInv, Sight, OnIsKnown
    <3> QED
      BY <1>1, <3>1 DEF OnIsKnown, KnownOn
  <2>4. Confirm \in Nat
    BY Constants
  <2>5. OnIsYoung'
    BY <1>1, <1>2, <2>4 DEF IInv, Sight, OnIsYoung
  <2>6. ToldBefore'
    BY <1>1, <1>2, <2>4 DEF IInv, Sight, ToldBefore
  <2> QED
    BY <2>1, <2>2, <2>3, <2>5, <2>6 DEF Sight
<1>4. Change'
  <2>1. ChangeFits'
    BY DEF ChangeFits, PageFits
  <2>2. ReadIsSince'
    <3> SUFFICES ASSUME Waiting', drv'.check = "sent", drv'.phase = "wait"
                 PROVE  /\ since' # "none"
                        /\ line' \in {"on", "off"} => since' \in {"told", "on"}
      BY DEF ReadIsSince
    <3>1. Waiting /\ drv.check = "sent" /\ drv.phase = "wait"
      BY DEF AskedOf
    <3>2. /\ since # "none"
          /\ line \in {"on", "off"} => since \in {"told", "on"}
      BY <3>1 DEF IInv, Change, ReadIsSince
    <3> QED
      BY <3>2 DEF SinceKept
  <2>3. CameOnByOurs'
    BY <1>1 DEF IInv, Change, CameOnByOurs, SinceKept
  <2>4. Cleared'
    BY <1>1 DEF IInv, Change, Cleared, SinceKept, Waiting
  <2> QED
    BY <2>1, <2>2, <2>3, <2>4 DEF Change
<1> QED
  BY <1>3, <1>4

-----------------------------------------------------------------------------
(* A pass of the driver.                                                   *)

\* What a pass with the driver attached has done before its step: the change
\* that waits has been asked for and has not been cleared.
LEMMA TurnIs ==
  ASSUME IInv, rig.open, UNCHANGED rig,
         NEW frame \in BOOLEAN, NEW over \in BOOLEAN, NEW p,
         p = Stepped(frame, over), p.wire # "ready", page' = p
  PROVE  /\ p \in Pages /\ AskedOf(Told(p)) /\ PageFits'
         /\ Told(p).want => Asked(p) \/ p.offWait
         /\ p.out => beat /\ page.out
         /\ p.held = page.held /\ p.sticky = page.sticky
         /\ Waiting' => page.wire = "wait" /\ Told(p).check # "off"
<1>1. /\ page \in Pages /\ rig.open \in BOOLEAN /\ beat \in BOOLEAN
      /\ drv \in Driver /\ page.wire # "ready"
      /\ drv.check \in {"none", "asked", "sent", "off", "not_off"}
  BY DEF IInv, TypeOK, Pages, Driver, Change, ChangeFits
<1>2. /\ p \in Pages /\ p.held = page.held /\ p.sticky = page.sticky
      /\ p.out => beat /\ page.out
      /\ p.wire = "wait" => page.wire = "wait"
      /\ p.wire = "wait" /\ ~p.ask =>
           \/ AsksCheck(page)
           \/ Waiting /\ drv.check \in {"asked", "sent"}
  BY <1>1, SteppedIs
<1>3. LET d == Told(p)
      IN  /\ d \in Driver /\ Alike(d, drv)
          /\ d.phase = drv.phase /\ d.cmd = drv.cmd
          /\ d.check = IF AsksCheck(page) THEN "asked" ELSE drv.check
          /\ d.want => Asked(p) \/ p.offWait
  BY <1>1, <1>2, ToldIs
<1>4. Waiting' <=> p.wire = "wait" /\ ~p.ask
  BY DEF Waiting
<1>5. Waiting' => /\ page.wire = "wait" /\ Told(p).check # "off"
                  /\ \/ Told(p).check = "asked"
                     \/ Waiting /\ Told(p).check = drv.check
  BY <1>2, <1>3, <1>4
<1>6. PageFits'
  BY <1>2 DEF PageFits
<1> QED
  BY <1>2, <1>3, <1>5, <1>6 DEF AskedOf

\* How far the read has got, as a pass leaves it.
SinceStepped ==
  since' = IF page.wire = "idle" THEN "none"
           ELSE IF since = "none" /\ StateAsked THEN "sent" ELSE since

\* An ON goes out as an ON not yet obeyed.
LEMMA SendsKeeps ==
  ASSUME IInv, NEW d, AskedOf(d), rig.open, UNCHANGED rig, SinceStepped,
         PageFits', Waiting' => page.wire = "wait" /\ d.check # "off",
         NEW heard \in BOOLEAN, Sends(d, heard)
  PROVE  Sight' /\ Change'
<1>1. d \in Driver /\ d.phase = "attach" /\ drv.phase = "attach"
      /\ d.cmd = drv.cmd /\ drv' = Sent(d) /\ ours' = ours /\ rig' = rig
  BY DEF AskedOf, Sends
<1>2. /\ drv' \in Driver /\ drv'.phase = "wait" /\ drv'.cmd = d.cmd
      /\ drv'.check = d.check
      /\ KnownOn(d) => KnownOn(drv')
      /\ d.onSent => drv'.onSent
      /\ drv'.age <= d.age
      /\ d.cmd \in Writes => drv'.age = 0
      /\ d.cmd = "enable" /\ OnPending(d) => drv'.onSent
  BY <1>1, SentIs DEF Sees
<1>3. /\ d.onSent = drv.onSent /\ d.age = drv.age /\ d.enPending = drv.enPending
      /\ KnownOn(d) <=> KnownOn(drv)
  BY DEF AskedOf, Alike, KnownOn
<1>4. line = "quiet"
  BY <1>1 DEF IInv, Sight, LineFits
<1>5. rig.wiring = "module"
  BY DEF IInv, TypeOK, Sight, RigFits, Wirings
<1>6. line' \in {"quiet", "asked", "silent"} /\ (line' # "quiet" => d.cmd \notin Writes)
  BY DEF Sends
<1>7. d.cmd = "enable" => d.enPending
  BY <1>1, <1>3 DEF IInv, Sight, WriteFits
<1>8. Sight'
  <2>1. RigFits' /\ OursIsOn'
    <3>1. module'.on = module.on
      BY DEF Sends, IInv, TypeOK
    <3> QED
      BY <1>1, <3>1 DEF IInv, Sight, RigFits, OursIsOn
  <2>2. LineFits' /\ WriteFits' /\ (line' \notin {"on", "off"})
    BY <1>2, <1>6 DEF LineFits, WriteFits
  <2>3. ToldBefore'
    BY <2>2 DEF ToldBefore
  <2>4. CASE d.cmd \in Writes /\ heard
    <3>1. /\ module' = [module EXCEPT !.todo = Argument(d),
                                      !.asOn = d.cmd = "enable" /\ d.enFor]
      BY <2>4 DEF Sends
    <3>2. module'.asOn => d.cmd = "enable" /\ d.enFor
      BY <3>1 DEF IInv, TypeOK
    <3>3. module'.asOn => drv'.onSent
      BY <1>2, <1>7, <3>2 DEF OnPending
    <3>4. module'.todo # NoArg
      <4>1. Argument(d) \in Arg
        BY <1>1 DEF Argument, Driver, Arg, Opposite
      <4>2. module'.todo = Argument(d)
        BY <3>1 DEF IInv, TypeOK
      <4> QED
        BY <4>1, <4>2 DEF Arg, NoArg
    <3>5. OnIsKnown'
      <4>1. drv'.onSent => KnownOn(drv')
        BY DEF KnownOn
      <4>2. ours => KnownOn(drv')
        BY <1>2, <1>3 DEF IInv, Sight, OnIsKnown
      <4>3. ours' \/ module'.asOn =>
              rig'.open /\ rig'.wiring = "module" /\ KnownOn(drv')
        BY <1>1, <1>5, <3>3, <4>1, <4>2
      <4> QED
        BY <4>3 DEF OnIsKnown, KnownOn
    <3>6. OnIsYoung'
      <4>1. drv'.age = 0 /\ 0 < Confirm
        BY <1>2, <2>4, Constants
      <4> QED
        BY <3>3, <3>4, <4>1 DEF OnIsYoung
    <3> QED
      BY <2>1, <2>2, <2>3, <3>5, <3>6 DEF Sight
  <2>5. CASE ~(d.cmd \in Writes /\ heard)
    <3>1. module' = module
      BY <2>5 DEF Sends
    <3>2. OnIsKnown'
      <4>1. ours' \/ module'.asOn =>
              rig'.open /\ rig'.wiring = "module" /\ KnownOn(drv')
        BY <1>1, <1>2, <1>3, <3>1 DEF IInv, Sight, OnIsKnown
      <4> QED
        BY <4>1 DEF OnIsKnown, KnownOn
    <3>3. OnIsYoung'
      <4>1. drv.age \in Nat /\ drv'.age \in Nat /\ Confirm \in Nat
        BY <1>1, <1>2, <1>3, Constants DEF Driver
      <4> QED
        BY <1>2, <1>3, <3>1, <4>1 DEF IInv, Sight, OnIsYoung
    <3> QED
      BY <2>1, <2>2, <2>3, <3>2, <3>3 DEF Sight
  <2> QED
    BY <2>4, <2>5
<1>9. Change'
  <2>1. ChangeFits'
    <3>1. d.check = "sent" => d.cmd = "state"
      BY DEF IInv, Change, ChangeFits, AskedOf
    <3> QED
      BY <1>2, <3>1 DEF ChangeFits, PageFits
  <2>2. ReadIsSince'
    <3> SUFFICES ASSUME Waiting', drv'.check = "sent"
                 PROVE  since' # "none"
      BY <1>6 DEF ReadIsSince
    <3>1. drv'.cmd = "state"
      BY <1>2, <2>1 DEF ChangeFits
    <3>2. StateAsked
      BY <1>1, <1>2, <3>1 DEF StateAsked
    <3> QED
      BY <3>2 DEF SinceStepped
  <2>3. CameOnByOurs' /\ Cleared'
    BY <1>2, <1>6 DEF CameOnByOurs, Cleared, Waiting
  <2> QED
    BY <2>1, <2>2, <2>3 DEF Change
<1> QED
  BY <1>8, <1>9

\* A request's end: an output of ours is lost sight of only where the module
\* is taken not to be there.
LEMMA EndsKeeps ==
  ASSUME IInv, NEW d, AskedOf(d), rig.open, UNCHANGED rig, SinceKept,
         PageFits', Waiting' => d.check # "off", Ends(d)
  PROVE  drv' \in Driver /\ Sight' /\ Change'
<1> DEFINE ok == d.cmd \in Writes
           heard == FALSE
<1>1. /\ d \in Driver /\ drv' = Finished(d, ok, heard) /\ line' = "quiet"
      /\ ours' = (ours /\ ~TakenForAbsent(drv'))
      /\ module' = module /\ rig' = rig
      /\ ok \/ module.todo = NoArg
  BY DEF AskedOf, Ends
<1>2. ok \in BOOLEAN /\ heard \in BOOLEAN /\ (ok => d.cmd # "state")
  BY DEF Writes
<1> HIDE DEF ok, heard
<1>3. /\ drv' \in Driver /\ drv'.phase = "idle" /\ drv'.cmd = "poll"
      /\ drv'.age = d.age /\ drv'.onSent = d.onSent
      /\ KnownOn(d) => KnownOn(drv') \/ (TakenForAbsent(drv') /\ ~ok)
      /\ drv'.check = "sent" => d.check = "sent" /\ d.cmd # "state"
      /\ drv'.check = "off" => d.check = "off" \/ (d.cmd = "state" /\ ok)
  BY <1>1, <1>2, FinishedIs
<1>4. /\ d.onSent = drv.onSent /\ d.age = drv.age
      /\ KnownOn(d) <=> KnownOn(drv)
  BY DEF AskedOf, Alike, KnownOn
<1>5. drv'.check # "sent"
  BY <1>3 DEF IInv, Change, ChangeFits, AskedOf
<1>6. Waiting' => drv'.check # "off"
  BY <1>2, <1>3
<1>7. Sight'
  <2>1. RigFits' /\ OursIsOn'
    BY <1>1 DEF IInv, Sight, RigFits, OursIsOn
  <2>2. LineFits' /\ WriteFits' /\ ToldBefore'
    BY <1>1, <1>3 DEF LineFits, WriteFits, ToldBefore
  <2>3. OnIsKnown'
    <3>1. module.asOn => ok
      BY <1>1 DEF IInv, Sight, OnIsYoung
    <3>2. ours' \/ module.asOn => KnownOn(drv')
      BY <1>1, <1>3, <1>4, <3>1 DEF IInv, Sight, OnIsKnown
    <3>3. ours' \/ module'.asOn =>
            rig'.open /\ rig'.wiring = "module" /\ KnownOn(drv')
      BY <1>1, <3>2 DEF IInv, Sight, OnIsKnown
    <3> QED
      BY <3>3 DEF OnIsKnown, KnownOn
  <2>4. OnIsYoung'
    BY <1>1, <1>3, <1>4 DEF IInv, Sight, OnIsYoung
  <2> QED
    BY <2>1, <2>2, <2>3, <2>4 DEF Sight
<1>8. Change'
  BY <1>1, <1>3, <1>5, <1>6 DEF Change, ChangeFits, PageFits, ReadIsSince,
     CameOnByOurs, Cleared, Waiting
<1> QED
  BY <1>3, <1>7, <1>8

\* What a driver's step leaves is of its kind.
Typed == /\ drv \in Driver
         /\ line \in {"quiet", "asked", "silent"} \cup Replies
         /\ module \in [on : BOOLEAN, todo : Arg \cup {NoArg}, onArg : Arg,
                        asOn : BOOLEAN]
         /\ ours \in BOOLEAN

\* A step of the driver that ends with no request on the wire.
LEMMA OffWireKeeps ==
  ASSUME IInv, NEW d, AskedOf(d), UNCHANGED <<rig, module, ours>>,
         SinceStepped, PageFits',
         Waiting' => page.wire = "wait" /\ d.check # "off",
         Sees(drv', d), line' = "quiet", drv'.phase # "wait", WriteFits',
         drv'.check \in {d.check, "not_off"} \/ drv'.cmd = "state",
         drv'.check = "sent" => drv'.cmd = "state" /\ drv'.phase # "idle",
         drv'.check = "off" => d.check = "off"
  PROVE  Typed' /\ Sight' /\ Change'
<1>1. SinceKept
  BY DEF SinceStepped, SinceKept, StateAsked
<1>2. Waiting' => drv'.check # "off"
  OBVIOUS
<1>3. Sight' /\ Change'
  BY <1>1, <1>2, StepKeeps
<1>4. Typed'
  BY DEF Sees, Typed, IInv, TypeOK
<1> QED
  BY <1>3, <1>4

\* A request begun, from a driver that no transaction keeps busy.
LEMMA StartsKeeps ==
  ASSUME IInv, NEW d, AskedOf(d), UNCHANGED <<rig, module, ours>>,
         SinceStepped, PageFits',
         Waiting' => page.wire = "wait" /\ d.check # "off",
         d.phase = "idle", UNCHANGED line,
         NEW e \in Driver, Sees(e, d), e.check \in {d.check, "not_off"},
         NEW c \in Command \ {"enable"}, drv' = Started(e, c)
  PROVE  Typed' /\ Sight' /\ Change'
<1>1. line' = "quiet" /\ d \in Driver /\ d.check # "sent"
  BY DEF IInv, Sight, LineFits, Change, ChangeFits, AskedOf
<1>2. /\ drv' \in Driver /\ Alike(drv', e)
      /\ drv'.phase = "attach" /\ drv'.cmd = c
      /\ drv'.check = IF c = "state" /\ e.check = "asked" THEN "sent" ELSE e.check
  BY StartedIs
<1>3. Sees(drv', d)
  BY <1>1, <1>2, AlikeSees, SeesOn
<1>4. WriteFits'
  BY <1>2 DEF WriteFits
<1>5. /\ drv'.check = "sent" => drv'.cmd = "state"
      /\ drv'.check = "off" => d.check = "off"
      /\ drv'.check \in {d.check, "not_off"} \/ drv'.cmd = "state"
  BY <1>1, <1>2
<1> QED
  BY <1>1, <1>2, <1>3, <1>4, <1>5, OffWireKeeps

LEMMA DrivesKeep ==
  ASSUME IInv, NEW d, AskedOf(d), rig.open, UNCHANGED rig, SinceStepped,
         PageFits', Waiting' => page.wire = "wait" /\ d.check # "off",
         Moves(d) \/ Rest(d) \/ Loses(d)
  PROVE  Typed' /\ Sight' /\ Change'
<1>1. d \in Driver /\ d.phase = drv.phase /\ d.cmd = drv.cmd /\ Sees(d, d)
  <2>1. d \in Driver /\ d.phase = drv.phase /\ d.cmd = drv.cmd
    BY DEF AskedOf
  <2>2. d.age \in Nat
    BY <2>1, Constants DEF Driver
  <2> QED
    BY <2>1, <2>2 DEF Sees
<1>2. /\ d.check = "sent" => d.cmd = "state" /\ d.phase # "idle"
      /\ d.phase # "wait" => line = "quiet"
      /\ d.cmd = "enable" /\ d.phase = "attach" => d.enPending
  BY <1>1 DEF IInv, Change, ChangeFits, Sight, LineFits, WriteFits, AskedOf, Alike
<1>3. /\ {"blind", "who", "state", "poll"} \subseteq Command \ {"enable"}
  BY DEF Command, Writes
<1>4. CASE Takes(d)
  <2>1. /\ line \in Replies /\ drv' \in Reads(d, line) /\ line' = "quiet"
        /\ UNCHANGED <<rig, module, ours>>
    BY <1>4 DEF Takes, Keeps
  <2>2. drv' \in Driver /\ drv'.phase = "idle"
    BY <1>1, <2>1, ReplyKnows DEF AskedOf
  <2>3. SinceKept
    BY <2>2 DEF SinceStepped, SinceKept, StateAsked
  <2>4. Sight' /\ Change'
    BY <2>1, <2>3, TakenKeeps
  <2>5. Typed'
    BY <2>1, <2>2 DEF Typed, IInv, TypeOK
  <2> QED
    BY <2>4, <2>5
<1>5. CASE SendsOffBlind(d) \/ AsksWho(d)
  <2> DEFINE e == Unread(d)
  <2>1. \E c \in {"blind", "who"} :
          /\ e.phase = "idle" /\ drv' = Started(e, c)
          /\ UNCHANGED <<line, module, ours>>
    BY <1>5 DEF SendsOffBlind, AsksWho, Starts, Keeps
  <2>2. /\ e \in Driver /\ Sees(e, d) /\ e.phase = d.phase
        /\ e.check \in {d.check, "not_off"}
    BY <1>1, UnreadIs, AlikeSees
  <2> HIDE DEF e
  <2> QED
    BY <1>3, <2>1, <2>2, StartsKeeps
<1>6. CASE ReadsState(d) \/ PollsState(d)
  <2>1. /\ d.phase = "idle" /\ drv' = Started(d, "state")
        /\ UNCHANGED <<line, module, ours>>
    BY <1>6 DEF ReadsState, PollsState, Starts, Keeps
  <2> QED
    BY <1>1, <1>3, <2>1, StartsKeeps
<1>7. CASE WritesOff(d) \/ WritesOn(d)
  <2>1. /\ d.phase = "idle" /\ drv' = Written(d)
        /\ UNCHANGED <<line, module, ours>>
    BY <1>7 DEF WritesOff, WritesOn, Keeps
  <2>2. /\ Sees(drv', d) /\ drv'.phase = "attach" /\ drv'.cmd = "enable"
        /\ drv'.enPending /\ drv'.check = d.check
    BY <1>1, <2>1, WrittenIs
  <2>3. WriteFits' /\ line' = "quiet"
    BY <1>2, <2>1, <2>2 DEF WriteFits
  <2> QED
    BY <1>2, <2>1, <2>2, <2>3, OffWireKeeps
<1>8. CASE Polls(d)
  <2>1. PICK e \in {d} \cup (IF OnDue(d) THEN {Doubted(d)} ELSE {})
                       \cup (IF d.want THEN {HoldOff(d)} ELSE {}) :
          Starts(e, "poll")
    BY <1>8 DEF Polls
  <2>2. e = d \/ e = Doubted(d) \/ e = HoldOff(d)
    BY <2>1
  <2>3. /\ e \in Driver /\ Sees(e, d) /\ e.phase = d.phase
        /\ e.check = d.check
    <3>1. CASE e = d
      BY <1>1, <3>1
    <3>2. CASE e = Doubted(d)
      BY <1>1, <3>2, DoubtedIs, AlikeSees
    <3>3. CASE e = HoldOff(d)
      BY <1>1, <3>3, HoldOffIs, AlikeSees DEF HoldOff
    <3> QED
      BY <2>2, <3>1, <3>2, <3>3
  <2>4. /\ d.phase = "idle" /\ drv' = Started(e, "poll")
        /\ UNCHANGED <<line, module, ours>>
    BY <2>1, <2>3 DEF Starts, Keeps
  <2> QED
    BY <1>3, <2>3, <2>4, StartsKeeps
<1>9. CASE Drops(d)
  <2>1. /\ d.phase = "attach" /\ d.cmd = "enable" /\ drv' = Dropped(d)
        /\ UNCHANGED <<line, module, ours>>
    BY <1>9 DEF Drops, Overtaken, Keeps
  <2>2. /\ Sees(drv', d) /\ drv'.phase = "idle" /\ drv'.cmd = "poll"
        /\ drv'.check = d.check
    BY <1>1, <2>1, DroppedIs
  <2>3. WriteFits' /\ line' = "quiet"
    BY <1>2, <2>1, <2>2 DEF WriteFits
  <2> QED
    BY <1>2, <2>1, <2>2, <2>3, OffWireKeeps
<1>10. CASE (Sends(d, TRUE) /\ UNCHANGED upsets) \/ Loses(d)
  <2>1. PICK heard \in BOOLEAN : Sends(d, heard)
    BY <1>10 DEF Loses
  <2>2. Sight' /\ Change'
    BY <2>1, SendsKeeps
  <2>3. drv' \in Driver /\ ours' = ours
    BY <1>1, <2>1, SentIs DEF Sends, Sees
  <2>4. line' \in {"quiet", "asked", "silent"}
    BY <2>1 DEF Sends
  <2>5. Argument(d) \in Arg /\ (d.cmd = "enable" /\ d.enFor) \in BOOLEAN
    BY <1>1 DEF Argument, Driver, Arg, Opposite
  <2>6. module' = module
        \/ module' = [module EXCEPT !.todo = Argument(d),
                                    !.asOn = d.cmd = "enable" /\ d.enFor]
    BY <2>1 DEF Sends
  <2>7. Typed'
    BY <2>3, <2>4, <2>5, <2>6 DEF Typed, IInv, TypeOK
  <2> QED
    BY <2>2, <2>7
<1>11. CASE Leaves(d)
  <2>1. /\ d.cmd # "state" /\ drv' = Idle(d) /\ line' = "quiet"
        /\ UNCHANGED <<module, ours>>
    BY <1>11 DEF Leaves, Keeps
  <2>2. /\ Sees(drv', d) /\ drv'.phase = "idle" /\ drv'.cmd = "poll"
        /\ drv'.check = d.check
    BY <1>1, <2>1, IdleIs, AlikeSees
  <2>3. WriteFits'
    BY <2>2 DEF WriteFits
  <2> QED
    BY <1>2, <2>1, <2>2, <2>3, OffWireKeeps
<1>12. CASE Ends(d)
  <2>1. drv' = Finished(d, d.cmd \in Writes, FALSE) /\ line' = "quiet"
        /\ ours' = (ours /\ ~TakenForAbsent(drv')) /\ module' = module
        /\ d.phase = "wait"
    BY <1>12 DEF Ends
  <2>2. SinceKept
    BY <1>1, <2>1 DEF SinceStepped, SinceKept, StateAsked
  <2>3. drv' \in Driver /\ Sight' /\ Change'
    BY <1>12, <2>2, EndsKeeps
  <2>4. Typed'
    BY <2>1, <2>3 DEF Typed, IInv, TypeOK
  <2> QED
    BY <2>3, <2>4
<1>13. CASE Rests(d)
  <2>1. drv' = d /\ line' = line /\ UNCHANGED <<module, ours>>
    BY <1>13 DEF Rests, Keeps
  <2>2. SinceKept
    BY <1>1, <2>1 DEF SinceStepped, SinceKept, StateAsked
  <2>3. line' # "quiet" => drv'.phase = "wait"
    BY <1>2, <2>1
  <2>4. WriteFits'
    BY <1>2, <2>1 DEF WriteFits
  <2>5. Sight' /\ Change'
    BY <1>1, <1>2, <2>1, <2>2, <2>3, <2>4, StepKeeps
  <2>6. Typed'
    BY <1>1, <2>1 DEF Typed, IInv, TypeOK
  <2> QED
    BY <2>5, <2>6
<1>14. CASE WaitsForWho(d)
  <2>1. d.phase = "idle" /\ drv' = Unread(d) /\ UNCHANGED <<line, module, ours>>
    BY <1>14 DEF WaitsForWho, Keeps
  <2>2. /\ Sees(drv', d) /\ drv'.phase = "idle"
        /\ drv'.check \in {d.check, "not_off"}
    BY <1>1, <2>1, UnreadIs, AlikeSees
  <2>3. WriteFits' /\ line' = "quiet" /\ drv'.check # "sent"
    BY <1>2, <2>1, <2>2 DEF WriteFits
  <2> QED
    BY <1>2, <2>1, <2>2, <2>3, OffWireKeeps
<1> QED
  BY <1>4, <1>5, <1>6, <1>7, <1>8, <1>9, <1>10, <1>11, <1>12, <1>13, <1>14
     DEF Moves, Rest

-----------------------------------------------------------------------------
(* The other steps.                                                        *)

LEMMA AskedNothing ==
  ASSUME IInv, Waiting' => Waiting
  PROVE  AskedOf(drv) /\ drv \in Driver /\ Sees(drv, drv)
<1>1. drv \in Driver
  BY DEF IInv, TypeOK
<1>2. drv.age \in Nat
  BY <1>1, Constants DEF Driver
<1> QED
  BY <1>1, <1>2 DEF AskedOf, Alike, Sees

\* The driver and its line as they were.
LEMMA StillKeeps ==
  ASSUME IInv, UNCHANGED <<rig, drv, line, module, ours>>, SinceKept,
         Waiting' => Waiting, PageFits'
  PROVE  Typed' /\ Sight' /\ Change'
<1>1. AskedOf(drv) /\ drv' = drv /\ line' = line /\ Sees(drv', drv)
  BY AskedNothing
<1>2. /\ line' # "quiet" => drv'.phase = "wait"
      /\ drv'.check = "sent" => drv'.cmd = "state" /\ drv'.phase # "idle"
  BY <1>1 DEF IInv, Sight, LineFits, Change, ChangeFits
<1>3. WriteFits'
  BY <1>1 DEF IInv, Sight, WriteFits
<1>4. Sight' /\ Change'
  BY <1>1, <1>2, <1>3, StepKeeps
<1>5. Typed'
  BY DEF Typed, IInv, TypeOK
<1> QED
  BY <1>4, <1>5

\* What has come in, taken.
LEMMA DrainsKeep ==
  ASSUME IInv, NEW d, AskedOf(d), drv' \in Drained(d), line' = LineDrained,
         UNCHANGED <<rig, module, ours>>, SinceKept, PageFits',
         Waiting' => d = drv /\ Waiting
  PROVE  Typed' /\ Sight' /\ Change'
<1>1. line' \in {line, "quiet"} /\ line' \in {"quiet", "asked", "silent"} \cup Replies
  BY DEF LineDrained, IInv, TypeOK
<1>2. d \in Driver /\ d.phase = drv.phase /\ d.cmd = drv.cmd /\ Alike(d, drv)
      /\ d.check \in {drv.check, "asked"}
  BY DEF AskedOf
<1>3. CASE rig.open /\ line \in Replies
  <2>1. drv' \in Reads(d, line) /\ line' = "quiet"
    BY <1>3 DEF Drained, LineDrained
  <2>2. drv' \in Driver
    BY <1>2, <1>3, <2>1, ReplyKnows
  <2>3. Sight' /\ Change'
    BY <1>3, <2>1, TakenKeeps
  <2>4. Typed'
    BY <1>1, <2>2 DEF Typed, IInv, TypeOK
  <2> QED
    BY <2>3, <2>4
<1>4. CASE ~(rig.open /\ line \in Replies)
  <2>1. drv' = d
    BY <1>4 DEF Drained
  <2>2. d.age \in Nat
    BY <1>2, Constants DEF Driver
  <2>3. Sees(drv', d)
    BY <1>2, <2>1, <2>2 DEF Sees
  <2>4. /\ line' # "quiet" => drv'.phase = "wait" /\ drv'.cmd = drv.cmd
        /\ drv'.check = "sent" => drv'.cmd = "state" /\ drv'.phase # "idle"
    BY <1>1, <1>2, <2>1 DEF IInv, Sight, LineFits, Change, ChangeFits
  <2>5. WriteFits'
    BY <1>2, <2>1 DEF IInv, Sight, WriteFits, Alike
  <2>6. Sight' /\ Change'
    BY <1>1, <1>2, <2>1, <2>3, <2>4, <2>5, StepKeeps
  <2>7. Typed'
    BY <1>1, <1>2, <2>1 DEF Typed, IInv, TypeOK
  <2> QED
    BY <2>6, <2>7
<1> QED
  BY <1>3, <1>4

\* What is taken leaves an output of ours known.
LEMMA DrainedKnows ==
  ASSUME IInv, NEW d, d \in Driver, Alike(d, drv), d.phase = drv.phase,
         d.cmd = drv.cmd, NEW e \in Drained(d)
  PROVE  /\ e \in Driver /\ (drv.answered => e.answered)
         /\ ours \/ module.asOn => KnownOn(e)
<1>1. CASE rig.open /\ line \in Replies
  <2>1. e \in Reads(d, line)
    BY <1>1 DEF Drained
  <2> QED
    BY <1>1, <2>1, ReplyKnows
<1>2. CASE ~(rig.open /\ line \in Replies)
  <2>1. e = d
    BY <1>2 DEF Drained
  <2>2. d.answered = drv.answered /\ (KnownOn(d) <=> KnownOn(drv))
    BY DEF Alike, KnownOn
  <2>3. ours \/ module.asOn => KnownOn(drv)
    BY DEF IInv, Sight, OnIsKnown
  <2> QED
    BY <2>1, <2>2, <2>3
<1> QED
  BY <1>1, <1>2

\* The driver starts anew on a module that nothing of ours is on or on its
\* way to.
LEMMA AnewKeeps ==
  ASSUME IInv, ~ours, ~module.asOn, UNCHANGED <<module, ours>>,
         drv' = Attached, line' = "quiet", RigFits', ~Waiting', PageFits'
  PROVE  Typed' /\ Sight' /\ Change'
<1>1. /\ drv' \in Driver /\ drv'.phase = "idle" /\ drv'.cmd = "poll"
      /\ drv'.check = "none"
  BY AttachedIs
<1>2. module' = module /\ ours' = ours
  OBVIOUS
<1>3. Sight'
  BY <1>1, <1>2 DEF Sight, LineFits, WriteFits, OnIsKnown, OursIsOn,
     OnIsYoung, ToldBefore
<1>4. Change'
  BY <1>1 DEF Change, ChangeFits, PageFits, ReadIsSince, CameOnByOurs, Cleared
<1>5. Typed'
  BY <1>1, <1>2 DEF Typed, IInv, TypeOK
<1> QED
  BY <1>3, <1>4, <1>5

Rigs == [wiring : Wirings, kept : Wirings, unsaved : BOOLEAN, open : BOOLEAN]

LEMMA RewiredIs ==
  ASSUME rig \in Rigs, NEW w \in Wirings, NEW saved \in BOOLEAN,
         saved => w = rig.kept, Rewired(w, saved)
  PROVE  /\ rig' \in Rigs /\ rig'.wiring = w /\ RigFits'
         /\ drv' = Attached /\ line' = "quiet"
<1> DEFINE uns == ~saved
           opn == saved /\ w # "none"
<1>1. uns \in BOOLEAN /\ opn \in BOOLEAN
  OBVIOUS
<1>2. rig' = [rig EXCEPT !.wiring = w, !.unsaved = uns, !.open = opn]
  BY DEF Rewired
<1>3. (opn => ~uns /\ w # "none") /\ (~uns => rig.kept = w)
  OBVIOUS
<1> HIDE DEF uns, opn
<1>4. /\ rig' \in Rigs /\ rig'.wiring = w /\ rig'.kept = rig.kept
      /\ rig'.unsaved = uns /\ rig'.open = opn
  BY <1>1, <1>2 DEF Rigs
<1> QED
  BY <1>3, <1>4 DEF RigFits, Rewired

\* The change is taken: nothing of ours is on where the driver knows of no
\* output, and all is as it was where it may be.
LEMMA WireTakenKeeps ==
  ASSUME IInv, NEW d, AskedOf(d), NEW e \in Drained(d), NEW p \in Pages,
         WireTaken(p, e), UNCHANGED <<module, ours>>, SinceKept
  PROVE  /\ page' \in Pages /\ page'.out = p.out /\ page'.held = p.held
         /\ page'.sticky = p.sticky /\ rig' \in Rigs
         /\ Typed' /\ Sight' /\ Change'
<1>1. /\ page' \in Pages /\ page'.wire = "idle"
      /\ page'.out = p.out /\ page'.held = p.held /\ page'.sticky = p.sticky
  BY UnwiredIs DEF WireTaken
<1>2. ~Waiting' /\ PageFits'
  BY <1>1 DEF Waiting, PageFits
<1>3. rig \in Rigs
  BY DEF IInv, TypeOK, Rigs
<1>4. CASE ~p.out /\ ~Live(e) /\ (Wired(p.next) \/ (p.next # "none" /\ NoRoom))
  <2>1. ~ours /\ ~module.asOn
    <3>1. ours \/ module.asOn => rig.open /\ KnownOn(e)
      BY DrainedKnows DEF AskedOf, IInv, Sight, OnIsKnown
    <3>2. KnownOn(e) => MayBeOn(e)
      BY DEF KnownOn, MayBeOn
    <3> QED
      BY <1>4, <3>1, <3>2 DEF Live
  <2>2. rig' \in Rigs /\ RigFits' /\ drv' = Attached /\ line' = "quiet"
    <3>1. CASE Wired(p.next)
      <4>1. p.next \in Wirings /\ (p.next = rig.kept) \in BOOLEAN
        BY DEF Pages
      <4> QED
        BY <1>3, <3>1, <4>1, RewiredIs DEF Wired
    <3>2. CASE NoRoom
      <4>1. /\ rig.wiring \in Wirings /\ (~rig.unsaved) \in BOOLEAN
            /\ ~rig.unsaved => rig.wiring = rig.kept
        BY <1>3 DEF Rigs, IInv, Sight, RigFits
      <4> QED
        BY <1>3, <3>2, <4>1, RewiredIs DEF NoRoom
    <3> QED
      BY <1>4, <3>1, <3>2
  <2> QED
    BY <1>1, <1>2, <2>1, <2>2, AnewKeeps
<1>5. CASE (p.out \/ Live(e)) /\ drv' = e /\ line' = LineDrained /\ UNCHANGED rig
  <2>1. drv' \in Drained(d)
    BY <1>5
  <2>2. Typed' /\ Sight' /\ Change'
    BY <1>2, <1>5, <2>1, DrainsKeep
  <2> QED
    BY <1>1, <1>3, <1>5, <2>2
<1> QED
  BY <1>4, <1>5 DEF WireTaken

-----------------------------------------------------------------------------
(* The invariant is inductive.                                             *)

Words == {"on", "off", "cut"}
Reached == {"none", "sent", "told", "on"}

LEMMA HoldsNow ==
  ASSUME page' \in Pages, rig' \in Rigs, beat' \in BOOLEAN, Typed',
         since' \in Reached, wish' \in Words, Sight', Change', WordStands'
  PROVE  IInv'
BY DEF IInv, TypeOK, Pages, Rigs, Typed, Reached, Words

LEMMA InitHolds == Init => IInv
<1> SUFFICES ASSUME Init PROVE IInv
  OBVIOUS
<1>1. /\ drv = Attached /\ drv \in Driver /\ drv.phase = "idle"
      /\ drv.cmd = "poll" /\ drv.check = "none"
  BY AttachedIs DEF Init
<1>2. page = Blank /\ page \in Pages
  BY DEF Init, Blank, Pages, Wirings
<1>3. PICK on \in BOOLEAN, a \in Arg :
        module = [on |-> on, todo |-> NoArg, onArg |-> a, asOn |-> FALSE]
  BY DEF Init
<1>4. /\ module \in [on : BOOLEAN, todo : Arg \cup {NoArg}, onArg : Arg,
                     asOn : BOOLEAN]
      /\ ~module.asOn
  BY <1>3
<1>5. TypeOK
  BY <1>1, <1>2, <1>4 DEF Init, TypeOK, Pages, Wirings
<1>6. Sight
  BY <1>1, <1>4 DEF Init, Sight, RigFits, LineFits, WriteFits, OnIsKnown,
     OursIsOn, OnIsYoung, ToldBefore
<1>7. Change
  BY <1>1, <1>2 DEF Init, Change, ChangeFits, ReadIsSince, CameOnByOurs, Cleared,
     Waiting, Blank
<1>8. WordStands
  BY <1>2 DEF Init, WordStands, Blank
<1> QED
  BY <1>5, <1>6, <1>7, <1>8 DEF IInv

\* The heartbeat is asked for in the same step as the output.
LEMMA WordKept ==
  ASSUME IInv, NEW p \in Pages, p.out => beat /\ page.out,
         p.held = page.held, p.sticky = page.sticky, WishKept,
         page'.out = p.out, page'.held = p.held, page'.sticky = p.sticky
  PROVE  WordStands' /\ wish' \in Words
<1>1. wish \in Words
  BY DEF IInv, TypeOK, Words
<1>2. wish' = (IF beat \/ wish # "on" THEN wish ELSE "off")
  BY DEF WishKept
<1>3. page'.out => beat /\ page.out
  OBVIOUS
<1>4. wish = "cut" => page'.held /\ page'.sticky
  BY DEF IInv, WordStands
<1> QED
  BY <1>1, <1>2, <1>3, <1>4 DEF IInv, WordStands, Words

LEMMA PassHolds ==
  ASSUME IInv, Pass
  PROVE  IInv'
<1>0. /\ Frames \subseteq BOOLEAN /\ Overs \subseteq BOOLEAN
      /\ page \in Pages /\ rig \in Rigs /\ beat \in BOOLEAN /\ drv \in Driver
      /\ since \in Reached /\ page.wire # "ready" /\ rig.open \in BOOLEAN
      /\ drv.check \in {"none", "asked", "sent", "off", "not_off"}
  BY DEF Frames, Overs, IInv, TypeOK, Pages, Rigs, Reached, Change, ChangeFits,
     Driver
<1>1. ASSUME NEW over \in Overs,
             Drives(over, Moves) \/ Drives(over, Rest) \/ Drives(over, Loses)
      PROVE  IInv'
  <2>1. /\ rig.open /\ WishKept /\ SinceStepped /\ rig' = rig /\ beat' = beat
        /\ \E frame \in Frames :
             LET p == Stepped(frame, over)
             IN  /\ p.wire # "ready" /\ page' = p
                 /\ Moves(Told(p)) \/ Rest(Told(p)) \/ Loses(Told(p))
    BY <1>1 DEF Drives, SinceStepped
  <2>2. PICK frame \in Frames :
          LET p == Stepped(frame, over)
          IN  /\ p.wire # "ready" /\ page' = p
              /\ Moves(Told(p)) \/ Rest(Told(p)) \/ Loses(Told(p))
    BY <2>1
  <2> DEFINE p == Stepped(frame, over)
  <2>3. /\ p.wire # "ready" /\ page' = p
        /\ Moves(Told(p)) \/ Rest(Told(p)) \/ Loses(Told(p))
    BY <2>2
  <2>4. frame \in BOOLEAN /\ over \in BOOLEAN
    BY <1>0
  <2>5. /\ p \in Pages /\ AskedOf(Told(p)) /\ PageFits'
        /\ p.out => beat /\ page.out
        /\ p.held = page.held /\ p.sticky = page.sticky
        /\ Waiting' => page.wire = "wait" /\ Told(p).check # "off"
    BY <2>1, <2>3, <2>4, TurnIs
  <2> HIDE DEF p
  <2>6. Typed' /\ Sight' /\ Change'
    BY <2>1, <2>3, <2>5, DrivesKeep
  <2>7. WordStands' /\ wish' \in Words
    BY <2>1, <2>3, <2>5, WordKept
  <2>8. since' \in Reached
    BY <1>0, <2>1 DEF SinceStepped, Reached
  <2> QED
    BY <1>0, <2>1, <2>3, <2>5, <2>6, <2>7, <2>8, HoldsNow
<1>2. CASE PassTakesWiring
  <2>1. PICK frame \in Frames, over \in Overs :
          LET p == Stepped(frame, over)
          IN  /\ p.wire = "ready"
              /\ \E e \in Drained(IF rig.open THEN Told(p) ELSE drv) :
                   WireTaken(p, e)
    BY <1>2 DEF PassTakesWiring
  <2> DEFINE p == Stepped(frame, over)
             d == IF rig.open THEN Told(p) ELSE drv
  <2>2. PICK e \in Drained(d) : WireTaken(p, e)
    BY <2>1
  <2>3. frame \in BOOLEAN /\ over \in BOOLEAN
    BY <1>0
  <2>4. /\ p \in Pages /\ p.held = page.held /\ p.sticky = page.sticky
        /\ p.out => beat /\ page.out
    BY <1>0, <2>3, SteppedIs
  <2>5. /\ WishKept /\ beat' = beat /\ since' = since
        /\ UNCHANGED <<module, ours>>
    BY <1>2 DEF PassTakesWiring
  <2>6. page' = Unwired(p)
    BY <2>2 DEF WireTaken
  <2> HIDE DEF p
  <2>7. ~Waiting'
    BY <2>4, <2>6, UnwiredIs DEF Waiting
  <2>8. AskedOf(d)
    <3>1. AskedOf(drv)
      BY <2>7, AskedNothing
    <3>2. /\ Told(p) \in Driver /\ Alike(Told(p), drv)
          /\ Told(p).phase = drv.phase /\ Told(p).cmd = drv.cmd
          /\ Told(p).check \in {drv.check, "asked"}
      BY <1>0, <2>4, ToldIs
    <3> QED
      BY <2>7, <3>1, <3>2 DEF AskedOf
  <2>9. SinceKept
    BY <2>5 DEF SinceKept
  <2> HIDE DEF d
  <2>10. /\ page' \in Pages /\ page'.out = p.out /\ page'.held = p.held
         /\ page'.sticky = p.sticky /\ rig' \in Rigs
         /\ Typed' /\ Sight' /\ Change'
    BY <2>2, <2>4, <2>5, <2>8, <2>9, WireTakenKeeps
  <2>11. WordStands' /\ wish' \in Words
    BY <2>4, <2>5, <2>10, WordKept
  <2> QED
    BY <1>0, <2>5, <2>10, <2>11, HoldsNow
<1>3. CASE PassDetached
  <2>1. PICK frame \in Frames, over \in Overs :
          LET p == Stepped(frame, over) IN p.wire # "ready" /\ page' = p
    BY <1>3 DEF PassDetached
  <2> DEFINE p == Stepped(frame, over)
  <2>2. frame \in BOOLEAN /\ over \in BOOLEAN
    BY <1>0
  <2>3. /\ p \in Pages /\ p.held = page.held /\ p.sticky = page.sticky
        /\ p.out => beat /\ page.out
        /\ p.wire = "wait" => rig.open
    BY <1>0, <2>2, SteppedIs
  <2>4. /\ ~rig.open /\ WishKept /\ page' = p
        /\ UNCHANGED <<rig, beat, drv, line, module, ours, since>>
    BY <1>3, <2>1 DEF PassDetached
  <2>5. p.wire # "ready"
    BY <2>1
  <2> HIDE DEF p
  <2>6. ~Waiting' /\ PageFits' /\ SinceKept
    BY <2>3, <2>4, <2>5 DEF Waiting, PageFits, SinceKept
  <2>7. Typed' /\ Sight' /\ Change'
    BY <2>4, <2>6, StillKeeps
  <2>8. WordStands' /\ wish' \in Words
    BY <2>3, <2>4, WordKept
  <2> QED
    BY <1>0, <2>3, <2>4, <2>7, <2>8, HoldsNow
<1> QED
  BY <1>1, <1>2, <1>3 DEF Pass

LEMMA AskHolds ==
  ASSUME IInv,
         \/ PanelOn \/ PanelOff \/ PortOn \/ PortOff \/ PortHolds
         \/ PortLetsGo \/ BeatTurns
  PROVE  IInv'
<1>0. /\ page \in Pages /\ rig \in Rigs /\ beat \in BOOLEAN /\ since \in Reached
      /\ wish \in Words /\ page.wire # "ready"
      /\ page.wire = "wait" => rig.open
  BY DEF IInv, TypeOK, Pages, Rigs, Reached, Words, Change, ChangeFits
<1>a. /\ page.out => wish = "on"
      /\ wish = "cut" => page.held /\ page.sticky
  BY DEF IInv, WordStands
<1>b. /\ page.out \in BOOLEAN /\ page.held \in BOOLEAN
      /\ page.offHeld \in BOOLEAN
  BY <1>0 DEF Pages
<1>1. ASSUME page' \in Pages, page'.wire = page.wire, page'.ask = page.ask,
             rig' = rig, since' = since
      PROVE  PageFits' /\ SinceKept /\ (Waiting' <=> Waiting)
  BY <1>0, <1>1 DEF PageFits, SinceKept, Waiting
<1>2. CASE PanelOn \/ PanelOff
  <2>1. /\ drv' \in Drained(drv) /\ line' = LineDrained
        /\ UNCHANGED <<rig, beat, module, ours, since>>
    BY <1>2 DEF PanelOn, PanelOff
  <2>2. /\ page' \in Pages /\ page'.wire = page.wire /\ page'.ask = page.ask
        /\ WordStands' /\ wish' \in Words
    <3>1. CASE PanelOn
      <4>1. page' = [page EXCEPT !.out = TRUE] /\ wish' = "on" /\ ~page.held
        BY <3>1 DEF PanelOn
      <4>2. /\ page' \in Pages /\ page'.wire = page.wire
            /\ page'.ask = page.ask
        BY <1>0, <4>1 DEF Pages
      <4> QED
        BY <4>1, <4>2 DEF WordStands, Words
    <3>2. CASE PanelOff /\ ~page.held
      <4>1. page' = [page EXCEPT !.out = FALSE] /\ wish' = "off"
        BY <3>2 DEF PanelOff
      <4>2. /\ page' \in Pages /\ page'.wire = page.wire
            /\ page'.ask = page.ask /\ ~page'.out
        BY <1>0, <4>1 DEF Pages
      <4> QED
        BY <4>1, <4>2 DEF WordStands, Words
    <3>3. CASE PanelOff /\ page.held
      <4>1. PICK writing \in BOOLEAN : page' = HeldOff(page, writing)
        BY <3>3 DEF PanelOff
      <4> DEFINE held == page.offHeld \/ (writing /\ page.out)
      <4>2. held \in BOOLEAN
        BY <1>b
      <4>3. page' = [page EXCEPT !.sticky = TRUE, !.offHeld = held, !.out = FALSE]
        BY <4>1 DEF HeldOff
      <4> HIDE DEF held
      <4>4. /\ page' \in Pages /\ page'.wire = page.wire
            /\ page'.ask = page.ask /\ ~page'.out /\ page'.sticky
            /\ page'.held = page.held
        BY <1>0, <4>2, <4>3 DEF Pages
      <4>5. wish' = "cut"
        BY <3>3 DEF PanelOff
      <4> QED
        BY <3>3, <4>4, <4>5 DEF WordStands, Words
    <3> QED
      BY <1>2, <3>1, <3>2, <3>3
  <2>3. PageFits' /\ SinceKept /\ (Waiting' => Waiting)
    BY <1>1, <2>1, <2>2
  <2>4. AskedOf(drv)
    BY <2>3, AskedNothing
  <2>5. Typed' /\ Sight' /\ Change'
    BY <2>1, <2>3, <2>4, DrainsKeep
  <2> QED
    BY <1>0, <2>1, <2>2, <2>5, HoldsNow
<1>3. CASE PortOn \/ PortOff \/ PortHolds \/ PortLetsGo \/ BeatTurns
  <2>1. UNCHANGED <<rig, drv, line, module, ours, since>> /\ beat' \in BOOLEAN
    BY <1>0, <1>3 DEF PortOn, PortOff, PortHolds, PortLetsGo, BeatTurns
  <2>2. /\ page' \in Pages /\ page'.wire = page.wire /\ page'.ask = page.ask
        /\ WordStands' /\ wish' \in Words
    <3>1. CASE PortOn
      <4>1. /\ page' = [page EXCEPT !.out = TRUE] /\ page.held /\ ~page.sticky
            /\ wish' = IF wish = "cut" THEN "cut" ELSE "on"
        BY <3>1 DEF PortOn
      <4>2. /\ page' \in Pages /\ page'.wire = page.wire
            /\ page'.ask = page.ask
        BY <1>0, <4>1 DEF Pages
      <4> QED
        BY <1>a, <4>1, <4>2 DEF WordStands, Words
    <3>2. CASE PortOff
      <4>1. /\ page' = [page EXCEPT !.out = FALSE, !.offHeld = FALSE]
            /\ wish' = IF wish = "cut" THEN "cut" ELSE "off"
        BY <3>2 DEF PortOff
      <4>2. /\ page' \in Pages /\ page'.wire = page.wire
            /\ page'.ask = page.ask /\ ~page'.out
            /\ page'.held = page.held /\ page'.sticky = page.sticky
        BY <1>0, <4>1 DEF Pages
      <4> QED
        BY <1>a, <4>1, <4>2 DEF WordStands, Words
    <3>3. CASE PortHolds
      <4>1. page' = [page EXCEPT !.held = TRUE] /\ wish' = wish
        BY <3>3 DEF PortHolds
      <4>2. /\ page' \in Pages /\ page'.wire = page.wire
            /\ page'.ask = page.ask /\ page'.out = page.out
            /\ page'.held /\ page'.sticky = page.sticky
        BY <1>0, <4>1 DEF Pages
      <4> QED
        BY <1>0, <1>a, <4>1, <4>2 DEF WordStands
    <3>4. CASE PortLetsGo
      <4>1. /\ page' = [page EXCEPT !.held = FALSE, !.sticky = FALSE]
            /\ wish' = IF wish = "cut" THEN "off" ELSE wish
        BY <3>4 DEF PortLetsGo
      <4>2. /\ page' \in Pages /\ page'.wire = page.wire
            /\ page'.ask = page.ask /\ page'.out = page.out
        BY <1>0, <4>1 DEF Pages
      <4> QED
        BY <1>0, <1>a, <4>1, <4>2 DEF WordStands, Words
    <3>5. CASE BeatTurns
      <4>1. page' = page /\ wish' = wish
        BY <3>5 DEF BeatTurns
      <4> QED
        BY <1>0, <1>a, <4>1 DEF WordStands
    <3> QED
      BY <1>3, <3>1, <3>2, <3>3, <3>4, <3>5
  <2>3. PageFits' /\ SinceKept /\ (Waiting' => Waiting)
    BY <1>1, <2>1, <2>2
  <2>4. Typed' /\ Sight' /\ Change'
    BY <2>1, <2>3, StillKeeps
  <2> QED
    BY <1>0, <2>1, <2>2, <2>4, HoldsNow
<1> QED
  BY <1>2, <1>3

LEMMA PanelWiresHolds ==
  ASSUME IInv, NEW w \in Wirings, PanelWires(w)
  PROVE  IInv'
<1>0. /\ page \in Pages /\ rig \in Rigs /\ beat \in BOOLEAN /\ since \in Reached
      /\ wish \in Words /\ page.wire # "ready"
  BY DEF IInv, TypeOK, Pages, Rigs, Reached, Words, Change, ChangeFits
<1>1. UNCHANGED <<beat, module, ours, wish>>
  BY DEF PanelWires
<1>2. ASSUME page'.out = page.out, page'.held = page.held,
             page'.sticky = page.sticky
      PROVE  WordStands'
  BY <1>1, <1>2 DEF IInv, WordStands
<1>3. PICK e \in Drained(drv) :
        \/ /\ page' = Unwired(page)
           /\ drv' = e /\ line' = LineDrained /\ UNCHANGED <<rig, since>>
        \/ /\ rig.open /\ since' = "none"
           /\ page' = [page EXCEPT !.wire = "wait", !.ask = TRUE, !.next = w]
           /\ drv' = e /\ line' = LineDrained /\ UNCHANGED rig
        \/ WireTaken([page EXCEPT !.next = w], e) /\ UNCHANGED since
  BY DEF PanelWires
<1>4. CASE /\ page' = Unwired(page)
           /\ drv' = e /\ line' = LineDrained /\ UNCHANGED <<rig, since>>
  <2>1. /\ page' \in Pages /\ page'.wire = "idle" /\ page'.out = page.out
        /\ page'.held = page.held /\ page'.sticky = page.sticky
    BY <1>0, <1>4, UnwiredIs
  <2>2. ~Waiting' /\ PageFits' /\ SinceKept
    BY <1>4, <2>1 DEF Waiting, PageFits, SinceKept
  <2>3. AskedOf(drv)
    BY <2>2, AskedNothing
  <2>4. Typed' /\ Sight' /\ Change'
    BY <1>1, <1>4, <2>2, <2>3, DrainsKeep
  <2> QED
    BY <1>0, <1>1, <1>2, <1>4, <2>1, <2>4, HoldsNow
<1>5. CASE /\ rig.open /\ since' = "none"
           /\ page' = [page EXCEPT !.wire = "wait", !.ask = TRUE, !.next = w]
           /\ drv' = e /\ line' = LineDrained /\ UNCHANGED rig
  <2>1. /\ page' \in Pages /\ page'.wire = "wait" /\ page'.ask = TRUE
        /\ page'.out = page.out
        /\ page'.held = page.held /\ page'.sticky = page.sticky
    BY <1>0, <1>5 DEF Pages
  <2>2. ~Waiting' /\ PageFits' /\ SinceKept
    BY <1>5, <2>1 DEF Waiting, PageFits, SinceKept
  <2>3. AskedOf(drv)
    BY <2>2, AskedNothing
  <2>4. Typed' /\ Sight' /\ Change'
    BY <1>1, <1>5, <2>2, <2>3, DrainsKeep
  <2>5. since' \in Reached
    BY <1>5 DEF Reached
  <2> QED
    BY <1>0, <1>1, <1>2, <1>5, <2>1, <2>4, <2>5, HoldsNow
<1>6. CASE WireTaken([page EXCEPT !.next = w], e) /\ UNCHANGED since
  <2> DEFINE p == [page EXCEPT !.next = w]
  <2>1. /\ p \in Pages /\ p.out = page.out /\ p.held = page.held
        /\ p.sticky = page.sticky
    BY <1>0 DEF Pages
  <2> HIDE DEF p
  <2>2. WireTaken(p, e)
    BY <1>6 DEF p
  <2>3. page' = Unwired(p)
    BY <2>2 DEF WireTaken
  <2>4. ~Waiting' /\ SinceKept
    BY <1>6, <2>1, <2>3, UnwiredIs DEF Waiting, SinceKept
  <2>5. AskedOf(drv)
    BY <2>4, AskedNothing
  <2>6. /\ page' \in Pages /\ page'.out = p.out /\ page'.held = p.held
        /\ page'.sticky = p.sticky /\ rig' \in Rigs
        /\ Typed' /\ Sight' /\ Change'
    BY <1>1, <2>1, <2>2, <2>4, <2>5, WireTakenKeeps
  <2> QED
    BY <1>0, <1>1, <1>2, <1>6, <2>1, <2>6, HoldsNow
<1> QED
  BY <1>3, <1>4, <1>5, <1>6

LEMMA RewiresHold ==
  ASSUME IInv, Saved \/ Restart
  PROVE  IInv'
<1>0. /\ page \in Pages /\ rig \in Rigs /\ beat \in BOOLEAN /\ since \in Reached
      /\ wish \in Words /\ page.wire # "ready"
      /\ page.wire = "wait" => rig.open
  BY DEF IInv, TypeOK, Pages, Rigs, Reached, Words, Change, ChangeFits
<1>1. CASE Saved
  <2>1. /\ rig.unsaved /\ drv' = Attached /\ line' = "quiet"
        /\ rig' = [rig EXCEPT !.kept = rig.wiring, !.unsaved = FALSE,
                              !.open = rig.wiring # "none"]
        /\ UNCHANGED <<page, beat, module, ours, since, wish>>
    BY <1>1 DEF Saved
  <2> DEFINE opn == rig.wiring # "none"
  <2>2. opn \in BOOLEAN
    OBVIOUS
  <2>3. rig' = [rig EXCEPT !.kept = rig.wiring, !.unsaved = FALSE, !.open = opn]
    BY <2>1
  <2>4. opn => rig.wiring # "none"
    OBVIOUS
  <2> HIDE DEF opn
  <2>5. /\ rig' \in Rigs /\ rig'.wiring = rig.wiring /\ rig'.kept = rig.wiring
        /\ ~rig'.unsaved /\ rig'.open = opn
    BY <1>0, <2>2, <2>3 DEF Rigs
  <2>6. RigFits'
    BY <2>4, <2>5 DEF RigFits
  <2>7. ~rig.open /\ ~ours /\ ~module.asOn
    BY <2>1 DEF IInv, Sight, RigFits, OnIsKnown
  <2>8. ~Waiting' /\ PageFits'
    BY <1>0, <2>1, <2>7 DEF Waiting, PageFits
  <2>9. Typed' /\ Sight' /\ Change'
    BY <2>1, <2>6, <2>7, <2>8, AnewKeeps
  <2>10. WordStands'
    BY <2>1 DEF IInv, WordStands
  <2> QED
    BY <1>0, <2>1, <2>5, <2>9, <2>10, HoldsNow
<1>2. CASE Restart
  <2>1. /\ module.todo = NoArg /\ drv' = Attached /\ line' = "quiet"
        /\ page' = Blank /\ beat' = FALSE /\ wish' = "off"
        /\ rig' = [rig EXCEPT !.wiring = rig.kept, !.unsaved = FALSE,
                              !.open = rig.kept # "none"]
        /\ UNCHANGED <<module, ours, since>>
    BY <1>2 DEF Restart
  <2> DEFINE opn == rig.kept # "none"
  <2>2. opn \in BOOLEAN
    OBVIOUS
  <2>3. rig' = [rig EXCEPT !.wiring = rig.kept, !.unsaved = FALSE, !.open = opn]
    BY <2>1
  <2>4. opn <=> rig.kept # "none"
    OBVIOUS
  <2> HIDE DEF opn
  <2>5. /\ rig' \in Rigs /\ rig'.wiring = rig.kept /\ rig'.kept = rig.kept
        /\ ~rig'.unsaved /\ rig'.open = opn
    BY <1>0, <2>2, <2>3 DEF Rigs
  <2>6. /\ page' \in Pages /\ page'.wire = "idle" /\ ~page'.ask /\ ~page'.out
    BY <2>1 DEF Blank, Pages, Wirings
  <2>7. /\ drv' \in Driver /\ KnownOn(drv') /\ drv'.phase = "idle"
        /\ drv'.cmd = "poll" /\ drv'.check = "none"
    BY <2>1, AttachedIs
  <2>8. ~module.asOn
    BY <2>1 DEF IInv, Sight, OnIsYoung
  <2>9. ours => rig.kept = "module" /\ module.on
    BY DEF IInv, Sight, RigFits, OnIsKnown, OursIsOn
  <2>10. Sight'
    <3>1. OnIsKnown'
      <4>1. ours' \/ module'.asOn =>
              rig'.open /\ rig'.wiring = "module" /\ KnownOn(drv')
        BY <2>1, <2>4, <2>5, <2>7, <2>8, <2>9
      <4> QED
        BY <4>1 DEF OnIsKnown, KnownOn
    <3>2. RigFits' /\ LineFits' /\ WriteFits' /\ OursIsOn' /\ OnIsYoung'
          /\ ToldBefore'
      BY <2>1, <2>4, <2>5, <2>7, <2>8, <2>9 DEF RigFits, LineFits, WriteFits,
         OursIsOn, OnIsYoung, ToldBefore
    <3> QED
      BY <3>1, <3>2 DEF Sight
  <2>11. Change'
    BY <2>1, <2>6, <2>7 DEF Change, ChangeFits, ReadIsSince, CameOnByOurs,
       Cleared, Waiting
  <2>12. Typed'
    BY <2>1, <2>7 DEF Typed, IInv, TypeOK
  <2>13. WordStands' /\ wish' \in Words
    BY <2>1, <2>6 DEF WordStands, Words
  <2> QED
    BY <1>0, <2>1, <2>5, <2>6, <2>10, <2>11, <2>12, <2>13, HoldsNow
<1> QED
  BY <1>1, <1>2

LEMMA ModuleHolds ==
  ASSUME IInv, Obeys \/ Answers \/ Garbles \/ Press \/ Tick
  PROVE  IInv'
<1>0. /\ page \in Pages /\ rig \in Rigs /\ beat \in BOOLEAN /\ since \in Reached
      /\ wish \in Words /\ drv \in Driver /\ ours \in BOOLEAN
      /\ module \in [on : BOOLEAN, todo : Arg \cup {NoArg}, onArg : Arg,
                     asOn : BOOLEAN]
      /\ line \in {"quiet", "asked", "silent"} \cup Replies
  BY DEF IInv, TypeOK, Pages, Rigs, Reached, Words
<1>1. /\ UNCHANGED <<page, rig, beat, wish>> /\ WordStands'
  BY DEF Obeys, Answers, Garbles, Press, Tick, IInv, WordStands
<1>2. RigFits' /\ (page'.wire # "ready") /\ (page'.wire = "wait" => rig'.open)
      /\ (Waiting' <=> Waiting)
  BY <1>1 DEF IInv, Sight, RigFits, Change, ChangeFits, Waiting
<1>3. CASE Obeys
  <2> DEFINE on == module.todo = module.onArg
             came == on /\ ~module.on
             mine == on /\ (ours \/ (came /\ module.asOn))
  <2>1. /\ module' = [module EXCEPT !.on = on, !.todo = NoArg, !.asOn = FALSE]
        /\ ours' = mine
        /\ since' = IF came /\ ~module.asOn THEN CameOn ELSE since
        /\ drv' = drv /\ line' = line
    BY <1>3 DEF Obeys
  <2>2. /\ on \in BOOLEAN /\ mine \in BOOLEAN /\ (mine => on)
        /\ mine => ours \/ module.asOn
        /\ (on /\ module.on /\ ours => mine)
        /\ (on /\ ~module.on /\ module.asOn => mine)
        /\ (came <=> on /\ ~module.on)
    OBVIOUS
  <2> HIDE DEF on, came, mine
  <2>3. /\ module'.on = on /\ module'.todo = NoArg /\ module'.asOn = FALSE
        /\ module' \in [on : BOOLEAN, todo : Arg \cup {NoArg}, onArg : Arg,
                        asOn : BOOLEAN]
    BY <1>0, <2>1, <2>2
  <2>4. /\ since' \in Reached /\ (since # "none" => since' # "none")
        /\ since \in {"told", "on"} => since' \in {"told", "on"}
        /\ since = "on" => since' = "on"
        /\ since' = "told" => since = "told" /\ ~(came /\ ~module.asOn)
    BY <1>0, <2>1 DEF CameOn, Reached
  <2>5. Typed'
    BY <1>0, <2>1, <2>2, <2>3 DEF Typed
  <2>6. Sight'
    <3>1. LineFits' /\ WriteFits'
      BY <2>1 DEF IInv, Sight, LineFits, WriteFits
    <3>2. OnIsKnown'
      <4>1. ours' => rig.open /\ rig.wiring = "module" /\ KnownOn(drv)
        BY <2>1, <2>2 DEF IInv, Sight, OnIsKnown
      <4>2. ours' \/ module'.asOn =>
              rig'.open /\ rig'.wiring = "module" /\ KnownOn(drv')
        BY <1>1, <2>1, <2>3, <4>1
      <4> QED
        BY <4>2 DEF OnIsKnown, KnownOn
    <3>3. OursIsOn' /\ OnIsYoung'
      BY <2>1, <2>2, <2>3 DEF OursIsOn, OnIsYoung
    <3>4. ToldBefore'
      BY <2>1, <2>2, <2>3 DEF IInv, Sight, ToldBefore
    <3> QED
      BY <1>2, <3>1, <3>2, <3>3, <3>4 DEF Sight
  <2>7. Change'
    <3>1. ChangeFits'
      BY <1>2, <2>1 DEF IInv, Change, ChangeFits
    <3>2. ReadIsSince'
      BY <1>2, <2>1, <2>4 DEF IInv, Change, ReadIsSince
    <3>3. CameOnByOurs'
      <4> SUFFICES ASSUME line' = "off", since' = "told", module'.on PROVE ours'
        BY DEF CameOnByOurs
      <4>1. line = "off" /\ since = "told" /\ on
        BY <2>1, <2>3, <2>4
      <4>2. CASE module.on
        BY <2>1, <2>2, <4>1, <4>2 DEF IInv, Change, CameOnByOurs
      <4>3. CASE ~module.on
        BY <2>1, <2>2, <2>4, <4>1, <4>3
      <4> QED
        BY <4>2, <4>3
    <3>4. Cleared'
      <4> SUFFICES ASSUME Waiting', drv'.check = "off"
                   PROVE  /\ drv'.phase = "idle" /\ ~module'.asOn
                          /\ since' = "on" \/ (since' = "told" /\ ~module'.on)
        BY DEF Cleared
      <4>1. /\ drv.phase = "idle" /\ ~module.asOn
            /\ since = "on" \/ (since = "told" /\ ~module.on)
        BY <1>2, <2>1 DEF IInv, Change, Cleared
      <4>2. CASE since = "on"
        BY <2>1, <2>3, <2>4, <4>1, <4>2
      <4>3. CASE since = "told" /\ ~module.on /\ on
        BY <2>1, <2>2, <2>3, <4>1, <4>3 DEF CameOn
      <4>4. CASE since = "told" /\ ~module.on /\ ~on
        BY <2>1, <2>2, <2>3, <4>1, <4>4
      <4> QED
        BY <4>1, <4>2, <4>3, <4>4
    <3> QED
      BY <3>1, <3>2, <3>3, <3>4 DEF Change
  <2> QED
    BY <1>0, <1>1, <2>4, <2>5, <2>6, <2>7, HoldsNow
<1>4. CASE Answers
  <2>1. /\ line = "asked" /\ drv' = drv /\ module' = module /\ ours' = ours
        /\ line' = IF drv.cmd # "state" THEN "ok"
                   ELSE IF module.on THEN "on" ELSE "off"
        /\ since' = IF drv.cmd = "state" /\ since # "none" THEN "told" ELSE since
    BY <1>4 DEF Answers
  <2>2. drv.phase = "wait" /\ drv.cmd \notin Writes
    BY <2>1 DEF IInv, Sight, LineFits
  <2>3. Typed' /\ since' \in Reached
    BY <1>0, <2>1 DEF Typed, Replies, Reached
  <2>4. Sight'
    <3>1. LineFits' /\ WriteFits' /\ OursIsOn' /\ OnIsYoung'
      BY <2>1, <2>2 DEF IInv, Sight, LineFits, WriteFits, OursIsOn, OnIsYoung
    <3>2. OnIsKnown'
      BY <1>1, <2>1 DEF IInv, Sight, OnIsKnown, KnownOn
    <3>3. ToldBefore'
      <4>1. line' = "on" => module.on
        BY <2>1
      <4>2. line' = "off" => ~module.on
        BY <2>1
      <4>3. /\ ours => module.on
            /\ module.asOn => drv.age < Confirm /\ (drv.onSent \/ module.on)
        BY DEF IInv, Sight, OursIsOn, OnIsYoung
      <4> QED
        BY <2>1, <4>1, <4>2, <4>3 DEF ToldBefore
    <3> QED
      BY <1>2, <3>1, <3>2, <3>3 DEF Sight
  <2>5. Change'
    <3>1. ChangeFits'
      BY <1>2, <2>1 DEF IInv, Change, ChangeFits
    <3>2. ReadIsSince'
      <4> SUFFICES ASSUME Waiting, drv.check = "sent", drv.phase = "wait"
                   PROVE  since' \in {"told", "on"}
        BY <1>2, <2>1 DEF ReadIsSince
      <4>1. since # "none" /\ drv.cmd = "state"
        BY DEF IInv, Change, ReadIsSince, ChangeFits
      <4> QED
        BY <2>1, <4>1
    <3>3. CameOnByOurs'
      BY <2>1 DEF CameOnByOurs
    <3>4. Cleared'
      BY <1>2, <2>1, <2>2 DEF IInv, Change, Cleared
    <3> QED
      BY <3>1, <3>2, <3>3, <3>4 DEF Change
  <2> QED
    BY <1>0, <1>1, <2>3, <2>4, <2>5, HoldsNow
<1>5. CASE Garbles
  <2>1. /\ line = "asked" /\ line' = "junk"
        /\ drv' = drv /\ module' = module /\ ours' = ours /\ since' = since
    BY <1>5 DEF Garbles
  <2>2. Typed' /\ since' \in Reached
    BY <1>0, <2>1 DEF Typed, Replies
  <2>3. Sight'
    BY <1>1, <1>2, <2>1 DEF IInv, Sight, LineFits, WriteFits, OnIsKnown, KnownOn,
       OursIsOn, OnIsYoung, ToldBefore
  <2>4. Change'
    BY <1>2, <2>1 DEF IInv, Change, ChangeFits, ReadIsSince, CameOnByOurs, Cleared
  <2> QED
    BY <1>0, <1>1, <2>2, <2>3, <2>4, HoldsNow
<1>6. CASE Press
  <2>1. /\ module' = [module EXCEPT !.on = ~@, !.asOn = FALSE]
        /\ since' = IF module'.on THEN CameOn ELSE since
        /\ ours' = FALSE /\ drv' = drv /\ line' = line
    BY <1>6 DEF Press
  <2>2. module'.on \in BOOLEAN /\ (module'.on <=> ~module.on) /\ ~module'.asOn
        /\ module' \in [on : BOOLEAN, todo : Arg \cup {NoArg}, onArg : Arg,
                        asOn : BOOLEAN]
    <3> DEFINE on == ~module.on
    <3>1. on \in BOOLEAN /\ (on <=> ~module.on)
      OBVIOUS
    <3>2. module' = [module EXCEPT !.on = on, !.asOn = FALSE]
      BY <2>1
    <3> HIDE DEF on
    <3> QED
      BY <1>0, <3>1, <3>2
  <2>3. /\ since' \in Reached /\ (since # "none" => since' # "none")
        /\ since \in {"told", "on"} => since' \in {"told", "on"}
        /\ since = "on" => since' = "on"
        /\ since' = "told" => since = "told" /\ ~module'.on
    BY <1>0, <2>1 DEF CameOn, Reached
  <2>4. Typed'
    BY <1>0, <2>1, <2>2 DEF Typed
  <2>5. Sight'
    BY <1>2, <2>1, <2>2 DEF IInv, Sight, LineFits, WriteFits, OnIsKnown,
       OursIsOn, OnIsYoung, ToldBefore
  <2>6. Change'
    <3>1. ChangeFits' /\ ReadIsSince'
      BY <1>2, <2>1, <2>3 DEF IInv, Change, ChangeFits, ReadIsSince
    <3>2. CameOnByOurs'
      BY <2>3 DEF CameOnByOurs
    <3>3. Cleared'
      <4> SUFFICES ASSUME Waiting', drv'.check = "off"
                   PROVE  /\ drv'.phase = "idle" /\ ~module'.asOn
                          /\ since' = "on" \/ (since' = "told" /\ ~module'.on)
        BY DEF Cleared
      <4>1. /\ drv.phase = "idle"
            /\ since = "on" \/ (since = "told" /\ ~module.on)
        BY <1>2, <2>1 DEF IInv, Change, Cleared
      <4> QED
        BY <2>1, <2>2, <4>1 DEF CameOn
    <3> QED
      BY <3>1, <3>2, <3>3 DEF Change
  <2> QED
    BY <1>0, <1>1, <2>3, <2>4, <2>5, <2>6, HoldsNow
<1>7. CASE Tick
  <2>1. /\ drv.age < Retry /\ line \notin Replies
        /\ module.todo # NoArg => drv.age + 1 < Confirm
        /\ drv' = [drv EXCEPT !.age = @ + 1]
        /\ UNCHANGED <<line, module, ours, since>>
    BY <1>7 DEF Tick
  <2>2. drv.age + 1 \in 0 .. Retry
    BY <1>0, <2>1, Constants DEF Driver
  <2>3. /\ drv' \in Driver /\ drv'.age = drv.age + 1
        /\ drv'.phase = drv.phase /\ drv'.cmd = drv.cmd
        /\ drv'.check = drv.check /\ drv'.output = drv.output
        /\ drv'.onSent = drv.onSent /\ drv'.offOwed = drv.offOwed
        /\ drv'.answered = drv.answered /\ drv'.known = drv.known
        /\ drv'.restored = drv.restored /\ drv'.whoMisses = drv.whoMisses
        /\ drv'.enPending = drv.enPending
    BY <1>0, <2>1, <2>2 DEF Driver
  <2>4. Typed' /\ since' \in Reached
    BY <1>0, <2>1, <2>3 DEF Typed
  <2>5. Sight'
    <3>1. LineFits' /\ WriteFits' /\ OursIsOn'
      BY <2>1, <2>3 DEF IInv, Sight, LineFits, WriteFits, OursIsOn
    <3>2. OnIsKnown'
      BY <1>1, <2>1, <2>3 DEF IInv, Sight, OnIsKnown, KnownOn
    <3>3. OnIsYoung'
      BY <2>1, <2>3 DEF IInv, Sight, OnIsYoung
    <3>4. ToldBefore'
      BY <2>1 DEF ToldBefore, Replies
    <3> QED
      BY <1>2, <3>1, <3>2, <3>3, <3>4 DEF Sight
  <2>6. Change'
    BY <1>2, <2>1, <2>3 DEF IInv, Change, ChangeFits, ReadIsSince, CameOnByOurs,
       Cleared
  <2> QED
    BY <1>0, <1>1, <2>4, <2>5, <2>6, HoldsNow
<1> QED
  BY <1>3, <1>4, <1>5, <1>6, <1>7

LEMMA NextHolds == IInv /\ [Next]_vars => IInv'
<1> SUFFICES ASSUME IInv, [Next]_vars PROVE IInv'
  OBVIOUS
<1>1. CASE Pass
  BY <1>1, PassHolds
<1>2. CASE \/ PanelOn \/ PanelOff \/ PortOn \/ PortOff \/ PortHolds
           \/ PortLetsGo \/ BeatTurns
  BY <1>2, AskHolds
<1>3. CASE \E w \in Wirings : PanelWires(w)
  BY <1>3, PanelWiresHolds
<1>4. CASE Saved \/ Restart
  BY <1>4, RewiresHold
<1>5. CASE Obeys \/ Answers \/ Garbles \/ Press \/ Tick
  BY <1>5, ModuleHolds
<1>6. CASE UNCHANGED vars
  BY <1>6 DEF vars, IInv, TypeOK, Sight, RigFits, LineFits, WriteFits, OnIsKnown,
     KnownOn, OursIsOn, OnIsYoung, ToldBefore, Change, ChangeFits, ReadIsSince,
     Waiting, CameOnByOurs, Cleared, WordStands
<1> QED
  BY <1>1, <1>2, <1>3, <1>4, <1>5, <1>6 DEF Next

-----------------------------------------------------------------------------
(* The theorems.                                                           *)

\* The page, the wiring, the driver and the module stay what the code keeps of
\* them (supply_page.c, pdmini.c, iomcu_sense.c).
THEOREM TypeCorrect == Spec => []TypeOK
<1>1. IInv => TypeOK
  BY DEF IInv
<1> QED
  BY <1>1, InitHolds, NextHolds, PTL DEF Spec

\* An output our own ON switched on is never lost sight of by a driver attached
\* to it (pdmini.c, pdmini_may_be_on()): a reply can settle it off only after
\* the ON has had its time, no failure forgets it, new wiring is not taken over
\* it, and a restart attaches anew as to an output that may be on.
THEOREM OursWatched == Spec => []OursIsWatched
<1>1. IInv => OursIsWatched
  BY DEF IInv, Sight, OnIsKnown, KnownOn, OursIsWatched, MayBeOn
<1> QED
  BY <1>1, InitHolds, NextHolds, PTL DEF Spec

\* New wiring is taken over a module that has answered only where a read sent
\* since the change was asked has told it off (supply_page.c, wire_step();
\* iomcu_sense.c, supply_pass()).
THEOREM WiringSafe == Spec => WiringLeavesItOff
<1> DEFINE Off == \/ since = "on"
                  \/ ~module.on /\ ~(module.asOn /\ module.todo = module.onArg)
<1>1. ASSUME IInv, [Next]_vars, rig.open, drv.answered,
             rig'.wiring # rig.wiring
      PROVE  Off
  <2>0. /\ page \in Pages /\ rig \in Rigs /\ beat \in BOOLEAN /\ drv \in Driver
        /\ rig.open \in BOOLEAN /\ page.wire # "ready"
        /\ drv.check \in {"none", "asked", "sent", "off", "not_off"}
    BY <1>1 DEF IInv, TypeOK, Pages, Rigs, Change, ChangeFits, Driver
  <2>1. CASE PassTakesWiring
    <3>1. PICK frame \in Frames, over \in Overs :
            Stepped(frame, over).wire = "ready"
      BY <2>1 DEF PassTakesWiring
    <3>2. frame \in BOOLEAN /\ over \in BOOLEAN
      BY DEF Frames, Overs
    <3>3. Waiting /\ drv.check = "off"
      BY <1>1, <2>0, <3>1, <3>2, SteppedIs
    <3> QED
      BY <1>1, <3>3 DEF IInv, Change, Cleared
  <2>2. ASSUME NEW w \in Wirings, PanelWires(w)
        PROVE  FALSE
    <3>1. PICK e \in Drained(drv) : ~(rig.open /\ e.answered)
      BY <1>1, <2>2 DEF PanelWires
    <3>2. drv.answered => e.answered
      <4>1. Alike(drv, drv)
        BY DEF Alike
      <4> QED
        BY <1>1, <2>0, <4>1, DrainedKnows
    <3> QED
      BY <1>1, <3>1, <3>2
  <2>3. CASE Saved \/ Restart
    <3>1. ~rig.unsaved /\ rig.kept = rig.wiring
      BY <1>1 DEF IInv, Sight, RigFits
    <3>2. CASE Restart
      <4>1. rig'.wiring = rig.kept
        BY <2>0, <3>2 DEF Restart, Rigs
      <4> QED
        BY <1>1, <3>1, <4>1
    <3> QED
      BY <2>3, <3>1, <3>2 DEF Saved
  <2>4. rig' = rig => FALSE
    BY <1>1
  <2>5. CASE \E over \in Overs :
               Drives(over, Moves) \/ Drives(over, Rest) \/ Drives(over, Loses)
    BY <2>4, <2>5 DEF Drives
  <2>6. CASE \/ PassDetached \/ PanelOn \/ PanelOff \/ PortOn \/ PortOff
             \/ PortHolds \/ PortLetsGo \/ BeatTurns \/ UNCHANGED vars
    BY <2>4, <2>6 DEF PassDetached, PanelOn, PanelOff, PortOn, PortOff,
       PortHolds, PortLetsGo, BeatTurns, vars
  <2>7. CASE Obeys \/ Answers \/ Garbles \/ Press \/ Tick
    BY <2>4, <2>7 DEF Obeys, Answers, Garbles, Press, Tick
  <2> QED
    BY <1>1, <2>1, <2>2, <2>3, <2>5, <2>6, <2>7 DEF Next, Pass
<1>2. IInv /\ [Next]_vars =>
        [rig.open /\ drv.answered /\ rig'.wiring # rig.wiring => Off]_vars
  BY <1>1
<1> QED
  BY <1>2, InitHolds, NextHolds, PTL DEF Spec, WiringLeavesItOff

\* The frame of an ON leaves only under a heartbeat of the same pass and with
\* ON the last word, or where the panel's OFF is held back for a port
\* (supply_page.c, held_off(); pdmini_jobs.c, overtaken()).
THEOREM OnIsWanted == Spec => OnLeavesWanted
<1> DEFINE Wanted == \/ beat /\ wish = "on"
                     \/ page'.offHeld \/ page'.offWait
<1>1. ASSUME IInv, [Next]_vars, OnLeaves
      PROVE  Wanted
  <2>0. /\ drv.phase = "attach" /\ drv'.phase = "wait"
        /\ drv.cmd = "enable" /\ drv.enFor
        /\ drv \in Driver /\ drv.enPending
    BY <1>1 DEF OnLeaves, IInv, TypeOK, Sight, WriteFits
  <2>1. ASSUME NEW over \in Overs, Drives(over, Moves) \/ Drives(over, Rest)
                                   \/ Drives(over, Loses)
        PROVE  Wanted
    <3>1. /\ rig.open /\ UNCHANGED rig
          /\ \E frame \in Frames :
               LET p == Stepped(frame, over)
               IN  /\ p.wire # "ready" /\ page' = p
                   /\ Moves(Told(p)) \/ Rest(Told(p)) \/ Loses(Told(p))
      BY <2>1 DEF Drives
    <3>2. PICK frame \in Frames :
            LET p == Stepped(frame, over)
            IN  /\ p.wire # "ready" /\ page' = p
                /\ Moves(Told(p)) \/ Rest(Told(p)) \/ Loses(Told(p))
      BY <3>1
    <3> DEFINE p == Stepped(frame, over)
               d == Told(p)
    <3>3. frame \in BOOLEAN /\ over \in BOOLEAN
      BY DEF Frames, Overs
    <3>4. p.wire # "ready" /\ page' = p /\ (Moves(d) \/ Rest(d) \/ Loses(d))
      BY <3>2
    <3>5. /\ p \in Pages /\ AskedOf(d)
          /\ d.want => Asked(p) \/ p.offWait
          /\ p.out => beat /\ page.out
      BY <1>1, <3>1, <3>3, <3>4, TurnIs
    <3> HIDE DEF p, d
    <3>6. /\ d \in Driver /\ d.phase = "attach" /\ d.cmd = "enable"
          /\ d.enPending /\ d.enFor
      BY <2>0, <3>5 DEF AskedOf, Alike
    <3>7. ~Overtaken(d)
      <4> SUFFICES ASSUME Overtaken(d) PROVE FALSE
        OBVIOUS
      <4>1. drv' = Dropped(d) \/ drv' = d
        <5>1. ~Takes(d) /\ ~Leaves(d) /\ ~Ends(d)
          BY <3>6 DEF Takes, Leaves, Ends
        <5>2. /\ ~SendsOffBlind(d) /\ ~AsksWho(d) /\ ~ReadsState(d)
              /\ ~PollsState(d) /\ ~WritesOff(d) /\ ~WritesOn(d)
              /\ ~WaitsForWho(d)
          BY <3>6 DEF SendsOffBlind, AsksWho, ReadsState, PollsState, WritesOff,
             WritesOn, WaitsForWho, Starts, Unread
        <5>3. ~Polls(d)
          <6> SUFFICES ASSUME Polls(d) PROVE FALSE
            OBVIOUS
          <6>1. PICK e \in {d} \cup (IF OnDue(d) THEN {Doubted(d)} ELSE {})
                               \cup (IF d.want THEN {HoldOff(d)} ELSE {}) :
                  Starts(e, "poll")
            BY DEF Polls
          <6>2. e = d \/ e = Doubted(d) \/ e = HoldOff(d)
            BY <6>1
          <6>3. e.phase = "attach"
            BY <3>6, <6>2, DoubtedIs, HoldOffIs DEF HoldOff
          <6> QED
            BY <6>1, <6>3 DEF Starts
        <5>4. ~Sends(d, TRUE) /\ ~Loses(d)
          BY DEF Sends, Loses
        <5> QED
          BY <3>4, <5>1, <5>2, <5>3, <5>4 DEF Moves, Rest, Drops, Rests
      <4>2. Dropped(d).phase = "idle"
        BY <3>6, DroppedIs
      <4> QED
        BY <2>0, <3>6, <4>1, <4>2
    <3>8. p.out \/ p.offHeld \/ p.offWait
      BY <3>5, <3>6, <3>7 DEF Overtaken, Driver, Asked
    <3>9. page.out => wish = "on"
      BY <1>1 DEF IInv, WordStands
    <3> QED
      BY <3>4, <3>5, <3>8, <3>9
  <2>2. ASSUME drv' = drv \/ drv'.phase = "idle" \/ drv'.phase = drv.phase
        PROVE  FALSE
    BY <2>0, <2>2
  <2>3. Attached.phase = "idle"
    BY AttachedIs
  <2>4. line \notin Replies
    BY <1>1, <2>0 DEF IInv, Sight, LineFits, Replies
  <2>5. \A d : Drained(d) = {d}
    BY <2>4 DEF Drained
  <2>6. CASE PassTakesWiring
    <3>1. PICK frame \in Frames, over \in Overs :
            \E e \in Drained(IF rig.open THEN Told(Stepped(frame, over)) ELSE drv) :
              WireTaken(Stepped(frame, over), e)
      BY <2>6 DEF PassTakesWiring
    <3> DEFINE p == Stepped(frame, over)
               d == IF rig.open THEN Told(p) ELSE drv
    <3>2. WireTaken(p, d)
      BY <2>5, <3>1
    <3>3. drv' = Attached \/ drv' = d
      BY <3>2 DEF WireTaken, Wired, NoRoom, Rewired
    <3>4. d.phase = drv.phase
      <4>1. frame \in BOOLEAN /\ over \in BOOLEAN
        BY DEF Frames, Overs
      <4>2. p \in Pages
        BY <1>1, <4>1, SteppedIs DEF IInv, TypeOK, Pages, Change, ChangeFits,
           Driver
      <4>3. Told(p).phase = drv.phase
        BY <2>0, <4>2, ToldIs
      <4> QED
        BY <4>3
    <3> QED
      BY <2>2, <2>3, <3>3, <3>4
  <2>7. CASE \E w \in Wirings : PanelWires(w)
    <3>1. drv' = drv \/ drv' = Attached
      BY <2>5, <2>7 DEF PanelWires, WireTaken, Wired, NoRoom, Rewired
    <3> QED
      BY <2>2, <2>3, <3>1
  <2>8. CASE PanelOn \/ PanelOff
    BY <2>2, <2>5, <2>8 DEF PanelOn, PanelOff
  <2>9. CASE \/ PassDetached \/ PortOn \/ PortOff \/ PortHolds \/ PortLetsGo
             \/ BeatTurns \/ Obeys \/ Answers \/ Garbles \/ Press
             \/ UNCHANGED vars
    BY <2>2, <2>9 DEF PassDetached, PortOn, PortOff, PortHolds, PortLetsGo,
       BeatTurns, Obeys, Answers, Garbles, Press, vars
  <2>10. CASE Saved \/ Restart
    BY <2>2, <2>3, <2>10 DEF Saved, Restart
  <2>11. CASE Tick
    <3>1. drv'.phase = drv.phase
      BY <2>0, <2>11 DEF Tick, Driver
    <3> QED
      BY <2>2, <3>1
  <2> QED
    BY <1>1, <2>1, <2>6, <2>7, <2>8, <2>9, <2>10, <2>11 DEF Next, Pass
<1>2. IInv /\ [Next]_vars => [OnLeaves => Wanted]_vars
  BY <1>1
<1> QED
  BY <1>2, InitHolds, NextHolds, PTL DEF Spec, OnLeavesWanted
==============================================================================
