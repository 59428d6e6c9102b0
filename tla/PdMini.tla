------------------------------- MODULE PdMini -------------------------------
(***************************************************************************)
(* The driver of the bench supply's module, a PD mini on a UART            *)
(* (pdmini.c, pdmini_jobs.c): what is asked of the output, what is known   *)
(* of it, and the one transaction under way, as functions on one record.   *)
(* A write is answered by nothing, so what it did is known from a read;    *)
(* and which argument of OUTPUT_EN means on is learnt from the module.     *)
(* Set points and readings are left out but for what they do to the        *)
(* output: an ON is held off, or waits.  Times are ticks of en_at's age.   *)
(***************************************************************************)
EXTENDS Naturals, FiniteSetsExt

CONSTANTS
  Confirm,   \* PDMINI_CONFIRM_MS: a write to the read that confirms it
  Watch,     \* PDMINI_WATCH_MS: an ON cancelled unlearnt is watched for
  Retry,     \* PDMINI_RETRY_MS: an ON that does not take waits for
  Fails,     \* PDMINI_FAILS: transactions failed in a row, the module is gone
  Absent     \* PDMINI_ABSENT_TRIES: WHO_AM_I unanswered, it is not there

ASSUME DriverAssumption ==
  /\ {Confirm, Watch, Retry, Fails, Absent} \subseteq Nat \ {0}
  /\ Confirm <= Watch /\ Watch <= Retry

Arg == {0, 1}
NoArg == 2
Opposite(v) == 1 - v
Tries == 4           \* writes that do not take, and the output is stuck
Writes == {"enable", "blind"}
Command == Writes \cup {"who", "state", "poll"}

Driver ==
  [want : BOOLEAN, heldOff : BOOLEAN,
   identified : BOOLEAN, answered : BOOLEAN, restored : BOOLEAN,
   whoMisses : 0 .. Absent, known : BOOLEAN, output : BOOLEAN,
   onValue : Arg, onSeen : BOOLEAN, onConfirmed : BOOLEAN,
   enPending : BOOLEAN, enFor : BOOLEAN, enValue : Arg, enTries : 0 .. Tries,
   age : 0 .. Retry, onSent : BOOLEAN, offOwed : BOOLEAN, blindDue : BOOLEAN,
   fails : 0 .. Fails - 1, stateFails : 0 .. Fails - 1,
   check : {"none", "asked", "sent", "off", "not_off"},
   phase : {"idle", "attach", "wait"}, cmd : Command]

\* pdmini_init() and pdmini_restored(): the module may be on.
Attached ==
  [want |-> FALSE, heldOff |-> FALSE,
   identified |-> FALSE, answered |-> FALSE, restored |-> TRUE,
   whoMisses |-> 0, known |-> FALSE, output |-> FALSE,
   onValue |-> 1, onSeen |-> FALSE, onConfirmed |-> FALSE,
   enPending |-> FALSE, enFor |-> FALSE, enValue |-> 0, enTries |-> 0,
   age |-> Retry, onSent |-> FALSE, offOwed |-> FALSE, blindDue |-> FALSE,
   fails |-> 0, stateFails |-> 0,
   check |-> "none", phase |-> "idle", cmd |-> "poll"]

OnPending(d) == d.enPending /\ d.enFor
TakenForAbsent(d) == d.restored /\ ~d.answered /\ d.whoMisses = Absent

\* A plausible bug: an ON that went out is forgotten with the confirmation.
MayBeOnOrPending(d) ==
  \/ d.output \/ OnPending(d) \/ d.offOwed
  \/ d.answered /\ ~d.known
  \/ d.restored /\ ~d.answered /\ d.whoMisses < Absent

MayBeOn(d) ==
  \/ d.output \/ OnPending(d) \/ d.offOwed \/ d.onSent
  \/ d.answered /\ ~d.known
  \/ d.restored /\ ~d.answered /\ d.whoMisses < Absent

\* pdmini_want(), pdmini_want_off().  An OFF lets an ON follow.
Want(d, on) ==
  LET w == on /\ ~d.heldOff
  IN  [d EXCEPT !.heldOff = @ /\ on, !.want = w,
                !.enTries = IF w # d.want THEN 0 ELSE @]

CheckOff(d) == [d EXCEPT !.check = "asked"]

\* The set points would not take, the input sagged, or the module switched
\* itself off: off until an OFF is asked.
HoldOff(d) == [d EXCEPT !.heldOff = TRUE, !.want = FALSE, !.enTries = 0]

-----------------------------------------------------------------------------
(* A transaction's end.                                                    *)

\* A plausible bug: a read that was under way when the check was asked counts.
CheckedOnRead(d, ok) ==
  IF d.cmd = "state" /\ d.check \in {"asked", "sent"}
  THEN [d EXCEPT !.check = IF ok /\ ~MayBeOn(d) THEN "off" ELSE "not_off"]
  ELSE d

Checked(d, ok) ==
  IF d.cmd = "state" /\ d.check = "sent"
  THEN [d EXCEPT !.check = IF ok /\ ~MayBeOn(d) THEN "off" ELSE "not_off"]
  ELSE d

\* Nothing the module said holds; an OFF it is owed stays owed.
Gone(d) ==
  [d EXCEPT !.offOwed = @ \/ d.output \/ d.onSent \/ OnPending(d),
            !.identified = FALSE, !.known = FALSE, !.enPending = FALSE,
            !.fails = 0]

\* heard: something came back, if only noise.
Missed(d, heard) ==
  LET lost == d.cmd = "state" /\ d.stateFails + 1 = Fails
      e == [d EXCEPT
             !.whoMisses = IF d.cmd # "who" THEN @
                           ELSE IF heard THEN 0 ELSE Min({@ + 1, Absent}),
             !.stateFails = IF lost THEN 0 ELSE IF d.cmd = "state" THEN @ + 1
                            ELSE @,
             !.blindDue = IF lost THEN ~heard
                          ELSE @ \/ (d.cmd = "who" /\ ~heard)]
  IN  IF lost \/ d.fails + 1 = Fails THEN Gone(e)
      ELSE [e EXCEPT !.fails = @ + 1]

\* No transaction is under way.
Idle(d) == [d EXCEPT !.phase = "idle", !.cmd = "poll"]

\* pdmini_finish().
Finished(d, ok, heard) ==
  LET e == Checked(d, ok)
  IN  Idle(IF ok THEN [e EXCEPT !.fails = 0] ELSE Missed(e, heard))

-----------------------------------------------------------------------------
(* What a reply says (take_reply()).                                       *)

\* The argument just written was followed by the output coming on: relied
\* on once two ONs with it have taken.
LearnOn(d) ==
  IF d.onSeen /\ d.onValue = d.enValue THEN [d EXCEPT !.onConfirmed = TRUE]
  ELSE [d EXCEPT !.onValue = d.enValue, !.onSeen = TRUE,
                 !.onConfirmed = FALSE]

Identified(d) ==
  [d EXCEPT !.answered = TRUE, !.identified = TRUE, !.known = FALSE,
            !.blindDue = FALSE]

\* On, and now off with ON asked, the last write ours an ON and nothing on
\* its way: the module did that.
Tripped(d, on) ==
  /\ d.known /\ d.output /\ ~on
  /\ d.want /\ ~d.enPending /\ d.enFor

\* An ON sent is settled: it shows, or has had its time.
Settled(d, on) == on \/ (~OnPending(d) /\ d.age >= Confirm)

\* An ON cancelled before its argument was known is watched on; any other
\* write has had its answer.
Judged(d) ==
  IF OnPending(d) /\ ~d.want
  THEN [(IF d.output THEN LearnOn(d) ELSE d)
         EXCEPT !.enPending = ~d.output /\ d.age < Watch]
  ELSE [(IF OnPending(d) /\ d.output THEN LearnOn(d) ELSE d)
         EXCEPT !.enPending = FALSE,
                !.enTries = IF d.output = d.want THEN 0 ELSE @]

ReadAs(d, on) ==
  LET e == IF Tripped(d, on) THEN HoldOff(d) ELSE d
  IN  Judged([e EXCEPT !.output = on, !.known = TRUE, !.stateFails = 0,
                       !.offOwed = FALSE,
                       !.onSent = @ /\ ~Settled(d, on)])

-----------------------------------------------------------------------------
(* Which transaction goes next (next_job()), each with what the branches   *)
(* before it leave.                                                        *)

\* pdmini_start().
Started(d, c) ==
  [d EXCEPT !.phase = "attach", !.cmd = c,
            !.check = IF c = "state" /\ @ = "asked" THEN "sent" ELSE @]

\* Four writes that did not take: the argument is in doubt again.
Doubted(d) ==
  IF d.enTries = Tries
  THEN [d EXCEPT !.onConfirmed = FALSE, !.onSeen = FALSE] ELSE d

\* write_en(): towards what is asked, twice with the argument taken to mean
\* it, then twice with the other unless a read-back has shown which it is.
Written(d) ==
  LET e == [Doubted(d) EXCEPT !.enTries = IF @ = Tries THEN 0 ELSE @]
      mean == IF e.want THEN e.onValue ELSE Opposite(e.onValue)
  IN  [Started(e, "enable") EXCEPT
        !.enValue = IF e.enTries < 2 \/ e.onConfirmed THEN mean
                    ELSE Opposite(mean),
        !.enTries = @ + 1, !.enPending = TRUE, !.enFor = e.want, !.age = 0]

\* Not identified: no state read is made, so none can show the output off.
Unread(d) ==
  [d EXCEPT !.blindDue = FALSE, !.check = IF @ = "asked" THEN "not_off" ELSE @]

OwedBlind(d) == d.blindDue /\ d.offOwed /\ ~d.want /\ d.onConfirmed
Cancelled(d) == OnPending(d) /\ ~d.want

SeeksBlind(d) == ~d.identified /\ OwedBlind(d)
SeeksWho(d)   == ~d.identified /\ ~OwedBlind(d)

\* The state is read before anything is decided about the output.
MustRead(d) ==
  /\ d.identified
  /\ IF Cancelled(d) THEN ~d.onConfirmed
     ELSE (d.enPending /\ d.age >= Confirm) \/ ~d.known

\* An OFF goes before anything else that waits.
OffDue(d) ==
  /\ d.identified
  /\ \/ Cancelled(d) /\ d.onConfirmed
     \/ ~d.enPending /\ d.known /\ d.output /\ ~d.want

CheckDue(d) ==
  /\ d.identified /\ ~MustRead(d) /\ ~OffDue(d)
  /\ d.check = "asked" /\ ~d.enPending

\* The rest of next_job(): an ON, set points, the readings in turn.
AtLeisure(d) ==
  d.identified /\ ~MustRead(d) /\ ~OffDue(d) /\ ~CheckDue(d)

OnDue(d) == AtLeisure(d) /\ ~d.enPending /\ ~d.output /\ d.want

-----------------------------------------------------------------------------
(* pdmini_step().                                                          *)

\* An OFF waits on the transaction under way (off_now()).
OffNow(d) ==
  /\ d.identified /\ ~d.want
  /\ OnPending(d) \/ (~d.enPending /\ d.known /\ d.output)

\* The write waiting for its pins is no longer what is asked.
Overtaken(d) == d.cmd = "enable" /\ d.enPending /\ d.enFor # d.want

Dropped(d) ==
  [Idle(d) EXCEPT !.enPending = FALSE,
            !.enTries = IF @ > 0 THEN @ - 1 ELSE 0]

\* The bytes of a request leave.
Sent(d) ==
  [d EXCEPT !.phase = "wait",
            !.age = IF d.cmd \in Writes THEN 0 ELSE @,
            !.onSent = @ \/ (d.cmd = "enable" /\ OnPending(d))]

\* OUTPUT_EN's argument as it goes out.
Argument(d) == IF d.cmd = "blind" THEN Opposite(d.onValue) ELSE d.enValue
=============================================================================
