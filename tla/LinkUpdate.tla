---------------------------- MODULE LinkUpdate ----------------------------
(***************************************************************************)
(* The firmware update of the IOmcu over the link: the session at the      *)
(* IOmcu (shared/link/link_update_dev.c, iomcu/src/update_hw.c), the run   *)
(* at the panel (link_update_host.c), the panel's choice of what to run    *)
(* (panel_update.c), and the two flash slots the boot ROM chooses from.    *)
(*                                                                         *)
(* An exchange is lost, or answered, or taken with its answer lost.  The   *)
(* gate of the store (io_gate()) is open or shut at each look.  An image   *)
(* is a sequence of blocks, and all images have one length.                *)
(***************************************************************************)
EXTENDS Integers

CONSTANTS
  Images,      \* builds that can be in a slot or carried by the panel
  NBlocks,     \* blocks in an image
  PerSector,   \* blocks in a flash sector
  Lost,        \* unanswered exchanges in a row that LINK_UPH_LOST_MS lasts
  BusyTries,   \* refusals by the gate that LINK_UPH_BUSY_MS lasts
  Restarts,    \* LINK_UPH_RESTARTS
  BlockTries   \* LINK_UPH_BLOCK_TRIES

ASSUME SizesAssumption ==
  /\ NBlocks \in Nat \ {0} /\ PerSector \in 1 .. NBlocks
  /\ Lost \in Nat /\ BusyTries \in Nat /\ Restarts \in Nat /\ BlockTries \in Nat

ASSUME ImagesAssumption ==
  Images \cap {"blank", "torn", "mixed", "none", "other"} = {}

VARIABLES
  flash,   \* what each block of each slot holds
  tbyb,    \* the slot's image may be started on trial only
  run,     \* the slot that runs
  trial,   \* it runs on trial (LINK_UPD_SLOT_TRIAL)
  dev,     \* link_update_dev_t
  host,    \* link_uph_t
  cu,      \* the panel's cu_state_t
  steady   \* the IOmcu has restarted by ACTIVATE only since the run read its slot

slots == <<flash, tbyb, run, trial>>
panel == <<host, cu>>
vars == <<slots, dev, panel, steady>>

Slots == {"A", "B"}
Other(s) == CHOOSE o \in Slots : o # s
Target == Other(run)

Blocks == 0 .. NBlocks - 1
Sector(k) == {j \in Blocks : j \div PerSector = k \div PerSector}
Head == Sector(0)

Block(i, k) == [img |-> i, at |-> k]
Blank == Block("blank", 0)
Torn == Block("torn", 0)
Mixed == Block("mixed", 0)     \* a block staged in part
Digest(i) == Block(i, NBlocks) \* an image's digest, staged as a block is
Empty == [k \in Blocks |-> Blank]

\* The boot ROM looks at the first sector for an image to start.
Startable(s) == \E i \in Images : \A k \in Head : flash[s][k] = Block(i, k)
Holds(s, i) == \A k \in Blocks : flash[s][k] = Block(i, k)
Bought(s) == Startable(s) /\ ~tbyb[s]

-----------------------------------------------------------------------------
(* The session at the IOmcu.  Of LINK_UPD_ERROR the panel's run asks one thing:  *)
(* whether it is the digest's.                                                    *)

InSession(d) == d.state \in {"RECEIVING", "RECEIVED", "VERIFYING", "VERIFIED"}

Fresh(sweep) ==
  [state |-> "IDLE", digestFailed |-> FALSE, next |-> 0, data |-> Mixed,
   first |-> Empty, sector |-> Empty, expect |-> Mixed,
   of |-> "none", digest |-> "none", sweep |-> sweep]

\* The IOmcu starts from slot s.  A bought image with something in the other
\* slot owes that slot's erase.
Boots(s, t) ==
  /\ run' = s /\ trial' = t /\ steady' = (steady /\ t)
  /\ dev' = Fresh(~t /\ \E k \in Head : flash'[Other(s)][k] # Blank)

\* A normal boot starts a bought image, which of two is not known.
BootsNormally ==
  \E s \in Slots :
    /\ \E i \in Images : \A k \in Head : flash'[s][k] = Block(i, k)
    /\ ~tbyb'[s]
    /\ Boots(s, FALSE)

Written(s, where, what) ==
  flash' = [flash EXCEPT ![s] = [k \in Blocks |->
              IF k \in where THEN what[k] ELSE @[k]]]

NothingWritten == UNCHANGED slots
OnlyFlash == UNCHANGED <<tbyb, run, trial>>

Refused(nack, reply) ==
  /\ reply = nack
  /\ dev' = [dev EXCEPT !.digestFailed = FALSE]
  /\ NothingWritten

\* Answered with an acknowledgement and nothing else.
Taken(reply) == reply = "ok" /\ dev' = dev /\ NothingWritten

\* What a session kept in RAM is not read after it.
Left(d, state) ==
  [d EXCEPT !.state = state, !.digestFailed = FALSE, !.next = 0,
            !.first = Empty, !.sector = Empty, !.expect = Mixed, !.data = Mixed]
Failed(d, byDigest) == [Left(d, "FAILED") EXCEPT !.digestFailed = byDigest]

HashRunning(reply) ==
  \/ /\ InSession(dev) \/ dev.state = "ACTIVATED"
     /\ Refused("bad", reply)
  \/ /\ ~InSession(dev) /\ dev.state # "ACTIVATED"
     /\ reply = "ok"
     /\ dev' = [Left(dev, "HASHING") EXCEPT !.of = "none"]
     /\ NothingWritten

Opened(d) ==
  [d EXCEPT !.state = "RECEIVING", !.next = 0, !.of = "none", !.first = Empty,
            !.sector = Empty, !.sweep = FALSE, !.digestFailed = FALSE]

BeginFits == ~trial /\ dev.state # "ACTIVATED"

\* A plausible bug: a BEGIN that leaves the first sector.
BeginKeepsHead(reply) ==
  \/ ~BeginFits /\ Refused("bad", reply)
  \/ BeginFits /\ Refused("busy", reply)
  \/ BeginFits /\ reply = "ok" /\ dev' = Opened(dev) /\ NothingWritten

Begin(reply) ==
  \/ ~BeginFits /\ Refused("bad", reply)
  \/ BeginFits /\ Refused("busy", reply)
  \/ /\ BeginFits
     /\ \/ /\ reply = "ok" /\ dev' = Opened(dev)
           /\ Written(Target, Head, Empty) /\ OnlyFlash
        \/ /\ reply = "bad" /\ dev' = Failed(dev, FALSE) /\ NothingWritten

\* The block before the next one: its acknowledgement was lost.
IsRepeat(k) == dev.state \in {"RECEIVING", "RECEIVED"} /\ dev.next > 0 /\ k = dev.next - 1

InOrder(k) == dev.state = "RECEIVING" /\ k = dev.next

Last(k) == k + 1 = NBlocks
Fills(k) == Last(k) \/ (k + 1) % PerSector = 0
Writes(k) == Fills(k) /\ k \notin Head

Placed(k) ==
  LET state == IF Last(k) THEN "RECEIVED" ELSE "RECEIVING"
  IN  [dev EXCEPT !.next = k + 1, !.state = state, !.digestFailed = FALSE,
                  !.first = IF k \in Head THEN [@ EXCEPT ![k] = dev.data] ELSE @,
                  !.sector = IF Writes(k) THEN Empty
                             ELSE IF k \in Head THEN @
                             ELSE [@ EXCEPT ![k] = dev.data]]

\* COMMIT of block k, with the check of the block that was staged for it.
Commit(k, crc, reply) ==
  \/ IsRepeat(k) /\ Taken(reply)
  \/ ~IsRepeat(k) /\ ~InOrder(k) /\ Refused("bad", reply)
  \/ /\ ~IsRepeat(k) /\ InOrder(k)
     /\ \/ dev.data # crc /\ Refused("bad", reply)
        \/ dev.data = crc /\ Writes(k) /\ Refused("busy", reply)
        \/ /\ dev.data = crc /\ ~Writes(k)
           /\ reply = "ok" /\ dev' = Placed(k) /\ NothingWritten
        \/ /\ dev.data = crc /\ Writes(k)
           /\ \/ /\ reply = "ok" /\ dev' = Placed(k)
                 /\ Written(Target, Sector(k), [dev.sector EXCEPT ![k] = dev.data])
                 /\ OnlyFlash
              \/ /\ reply = "bad" /\ dev' = Failed(dev, FALSE)
                 /\ \/ NothingWritten
                    \/ Written(Target, Sector(k), Empty) /\ OnlyFlash

Finish(reply) ==
  \/ dev.state # "RECEIVED" /\ Refused("bad", reply)
  \/ /\ dev.state = "RECEIVED" /\ reply = "ok"
     /\ dev' = [dev EXCEPT !.state = "VERIFYING", !.expect = dev.data,
                           !.of = "none", !.digestFailed = FALSE]
     /\ NothingWritten

\* The first sector goes in last, and the IOmcu will restart.
Activate(reply) ==
  \/ dev.state # "VERIFIED" /\ Refused("bad", reply)
  \/ dev.state = "VERIFIED" /\ Refused("busy", reply)
  \/ /\ dev.state = "VERIFIED"
     /\ \/ /\ reply = "ok"
           /\ dev' = Left(dev, "ACTIVATED")
           /\ Written(Target, Head, dev.first)
           /\ tbyb' = [tbyb EXCEPT ![Target] = TRUE]
           /\ UNCHANGED <<run, trial>>
        \/ /\ reply = "bad" /\ dev' = Failed(dev, FALSE)
           /\ \/ NothingWritten
              \/ Written(Target, Head, [k \in Blocks |-> Torn]) /\ OnlyFlash

Abort(reply) ==
  \/ dev.state = "ACTIVATED" /\ Refused("bad", reply)
  \/ /\ dev.state # "ACTIVATED" /\ reply = "ok"
     /\ dev' = Left(dev, "IDLE")
     /\ NothingWritten

\* A plausible bug: the old image is erased first, and then the new one bought.
BuyErasesFirst(reply) ==
  \/ ~trial /\ Taken(reply)
  \/ /\ trial /\ reply = "bad"
     /\ dev' = [dev EXCEPT !.digestFailed = FALSE]
     /\ Written(Target, Head, Empty) /\ OnlyFlash
  \/ /\ trial /\ reply = "ok" /\ run' = run /\ trial' = FALSE
     /\ tbyb' = [tbyb EXCEPT ![run] = FALSE]
     /\ Written(Target, Head, Empty)
     /\ dev' = [dev EXCEPT !.digestFailed = FALSE, !.sweep = FALSE]

\* The image on trial is bought, and the other slot's first sector erased now
\* or owed.
Buy(reply) ==
  \/ ~trial /\ Taken(reply)
  \/ trial /\ Refused("bad", reply)
  \/ /\ trial /\ reply = "ok" /\ run' = run /\ trial' = FALSE
     /\ tbyb' = [tbyb EXCEPT ![run] = FALSE]
     /\ \/ /\ Written(Target, Head, Empty)
           /\ dev' = [dev EXCEPT !.digestFailed = FALSE, !.sweep = FALSE]
        \/ /\ flash' = flash
           /\ dev' = [dev EXCEPT !.digestFailed = FALSE, !.sweep = TRUE]

\* A block or a digest staged.
Data(what, reply) ==
  /\ reply = "ok" /\ dev' = [dev EXCEPT !.data = what]
  /\ NothingWritten

-----------------------------------------------------------------------------
(* The IOmcu's own steps. *)

Bench == UNCHANGED panel

\* What the session's image hashes to: the first sector as it waits in RAM,
\* the others as written.
Received ==
  LET at(k) == IF k \in Head THEN dev.first[k] ELSE flash[Target][k]
      of == {i \in Images : \A k \in Blocks : at(k) = Block(i, k)}
  IN  IF of = {} THEN "other" ELSE CHOOSE i \in of : TRUE

Running ==
  LET of == {i \in Images : Holds(run, i)}
  IN  IF of = {} THEN "other" ELSE CHOOSE i \in of : TRUE

HashEnds ==
  /\ \/ /\ dev.state = "HASHING"
        /\ dev' = [dev EXCEPT !.state = "IDLE", !.of = "running", !.digest = Running]
     \/ /\ dev.state = "VERIFYING"
        /\ LET d == [dev EXCEPT !.of = "image", !.digest = Received]
           IN  dev' = IF dev.expect = Digest(Received)
                      THEN [d EXCEPT !.state = "VERIFIED"]
                      ELSE Failed(d, TRUE)
  /\ NothingWritten /\ Bench /\ UNCHANGED steady

\* A plausible bug: a session that failed holds the erase back.
SweepDueWhenIdle == dev.sweep /\ dev.state = "IDLE" /\ ~trial

\* The erase owed to the other slot.
SweepDue == dev.sweep /\ ~InSession(dev) /\ dev.state # "ACTIVATED" /\ ~trial

Sweep ==
  /\ SweepDue
  /\ dev' = [dev EXCEPT !.sweep = FALSE]
  /\ Written(Target, Head, Empty)
  /\ OnlyFlash /\ Bench /\ UNCHANGED steady

\* No request to the update's pages for LINK_UPD_SILENCE_MS.
Silent ==
  /\ InSession(dev)
  /\ dev' = Failed(dev, FALSE)
  /\ NothingWritten /\ Bench /\ UNCHANGED steady

\* The restart an ACTIVATE owes: the new image on trial, or whatever a normal
\* boot starts where the boot ROM will not start it.
RestartsIntoSlot ==
  /\ dev.state = "ACTIVATED"
  /\ UNCHANGED <<flash, tbyb>> /\ Bench
  /\ (Startable(Target) /\ Boots(Target, TRUE)) \/ BootsNormally

\* Power fails, the watchdog of an image on trial runs out, or the IOmcu is reset.
Restart ==
  /\ UNCHANGED <<flash, tbyb>> /\ Bench
  /\ BootsNormally

\* Where the IOmcu may be writing, and to which slot.
MayWrite ==
  {w \in [slot : Slots, at : Blocks] :
     \/ w.slot = Target /\ w.at \in Head
        /\ (\/ SweepDue
            \/ host.phase = "BEGIN" /\ BeginFits
            \/ host.phase = "ACTIVATE" /\ dev.state = "VERIFIED")
     \/ w.slot = Target /\ w.at \notin Head
        /\ host.phase = "COMMIT"
        /\ InOrder(host.block) /\ Writes(host.block) /\ w.at \in Sector(host.block)
     \/ w.slot = run /\ w.at \in Head /\ host.phase = "BUY" /\ trial}

\* Power fails while a sector is written.
Cut ==
  \E w \in MayWrite :
    /\ Written(w.slot, Sector(w.at), [k \in Blocks |-> Torn])
    /\ UNCHANGED tbyb /\ Bench
    /\ BootsNormally

-----------------------------------------------------------------------------
(* The run at the panel. *)

Started(img, phase) ==
  [phase |-> phase, img |-> img, result |-> "none", missed |-> 0, busy |-> 0,
   restarts |-> 0, tried |-> 0, tries |-> 0, after |-> "none",
   aborted |-> FALSE, block |-> 0, slot |-> "none"]

\* Of a run that has ended only the result is read.
Done(h, result) == [Started(h.img, "DONE") EXCEPT !.result = result]

Heard(h) == [h EXCEPT !.missed = 0]
Missed(h) == IF h.missed = Lost THEN Done(h, "NO_ANSWER") ELSE [h EXCEPT !.missed = @ + 1]
WaitGate(h) == IF h.busy = BusyTries THEN Done(h, "BUSY") ELSE [h EXCEPT !.busy = @ + 1]

StartOver(h) ==
  IF h.restarts = Restarts THEN Done(h, "RESTARTED_OUT")
  ELSE [h EXCEPT !.restarts = @ + 1, !.block = 0, !.tries = 0, !.busy = 0,
                 !.phase = "BEGIN"]

Resync(h, from) ==
  IF h.phase = "DONE" THEN h ELSE [h EXCEPT !.after = from, !.phase = "RESYNC"]

\* The check: is a session there, and what does the IOmcu run.
AfterCheckAsk(h) ==
  CASE trial -> {Done(h, "TRIAL")}
    [] ~trial /\ dev.state = "HASHING" -> {[h EXCEPT !.phase = "CHECK_WAIT"]}
    [] ~trial /\ dev.state = "ACTIVATED" -> {h, Done(h, "REFUSED")}
    [] ~trial /\ InSession(dev) ->
         {IF h.aborted THEN Done(h, "REFUSED") ELSE [h EXCEPT !.phase = "CHECK_ABORT"]}
    [] OTHER -> {[h EXCEPT !.phase = "CHECK_HASH"]}

\* A plausible bug: the digest is read without asking what it is of.
AfterCheckWaitAny(h) ==
  IF dev.state = "HASHING" THEN {h, Done(h, "NO_ANSWER")}
  ELSE {Done(h, IF dev.digest = h.img THEN "SAME" ELSE "DIFFERENT")}

AfterCheckWait(h) ==
  IF dev.state = "HASHING" THEN {h, Done(h, "NO_ANSWER")}
  ELSE IF dev.of # "running" THEN {Done(h, "REFUSED")}
  ELSE {Done(h, IF dev.digest = h.img THEN "SAME" ELSE "DIFFERENT")}

\* Where the IOmcu stands, after a miss or a refusal.
Continues(h) == dev.state \in {"RECEIVING", "RECEIVED"} /\ h.after = "SEND"

\* A plausible bug: the tries of a block begin anew at each resync.
FromBlockAnew(h) ==
  [h EXCEPT !.tried = dev.next, !.tries = 1, !.block = dev.next,
            !.phase = IF dev.next >= NBlocks THEN "FINISH_DATA" ELSE "SEND"]

FromBlock(h) ==
  LET same == dev.next = h.tried
  IN  IF same /\ h.tries >= BlockTries THEN Done(h, "REFUSED")
      ELSE [h EXCEPT !.tried = dev.next, !.tries = IF same THEN @ + 1 ELSE 1,
                     !.block = dev.next,
                     !.phase = IF dev.next >= NBlocks THEN "FINISH_DATA" ELSE "SEND"]

AfterResync(h) ==
  CASE Continues(h) -> FromBlock(h)
    [] h.after = "FINISH" /\ dev.state \in {"VERIFYING", "VERIFIED"} ->
         [h EXCEPT !.phase = "VERIFY"]
    [] h.after = "FINISH" /\ dev.state = "RECEIVED" ->
         IF h.tries >= BlockTries THEN Done(h, "REFUSED")
         ELSE [h EXCEPT !.tries = @ + 1, !.phase = "FINISH_DATA"]
    [] dev.state = "FAILED" /\ dev.digestFailed -> Done(h, "BAD_DIGEST")
    [] dev.state \in {"IDLE", "HASHING"}
         \/ (dev.state = "FAILED" /\ ~dev.digestFailed) -> StartOver(h)
    [] OTHER -> Done(h, "REFUSED")

AfterVerify(h) ==
  CASE dev.state = "VERIFYING" -> {h, Done(h, "NO_ANSWER")}
    [] dev.state = "VERIFIED" ->
         {IF dev.of = "image" /\ dev.digest = h.img
          THEN [h EXCEPT !.phase = "ACTIVATE"] ELSE Done(h, "BAD_DIGEST")}
    [] dev.state = "FAILED" /\ dev.digestFailed -> {Done(h, "BAD_DIGEST")}
    [] dev.state = "IDLE" \/ (dev.state = "FAILED" /\ ~dev.digestFailed) -> {StartOver(h)}
    [] OTHER -> {Done(h, "REFUSED")}

\* A plausible bug: the slot that runs is not compared with the one before.
AfterAnyRestart(h) ==
  IF trial THEN [h EXCEPT !.phase = "BUY"] ELSE Done(h, "UPDATED")

\* The slot read after the restart.
AfterRestart(h) ==
  IF run = h.slot THEN h
  ELSE IF trial THEN [h EXCEPT !.phase = "BUY"]
  ELSE Done(h, "UPDATED")

AfterBuyRead(h) == Done(h, IF trial THEN "REFUSED" ELSE "UPDATED")

-----------------------------------------------------------------------------
(* What the panel does with a run that has ended (cu_service()). *)

CheckStarts(img) == Started(img, "CHECK_ASK")

PanelGoesOn(h) ==
  CASE h.phase # "DONE" -> host' = h /\ cu' = cu
    [] h.phase = "DONE" /\ cu = "checking" /\ h.result = "TRIAL" ->
         cu' = "confirming" /\ host' = Started(h.img, "BUY")
    [] h.phase = "DONE" /\ cu = "confirming" /\ h.result = "UPDATED" ->
         cu' = "checking" /\ host' = CheckStarts(h.img)
    [] OTHER -> host' = h /\ cu' = IF cu = "checking" /\ h.result = "DIFFERENT"
                                   THEN "offered" ELSE "idle"

\* The slot is read before the update, and the image on trial after it.
Sees(h) == steady' = (steady \/ host.phase = "PREPARE" \/ h.phase = "BUY")

\* An exchange with the outcome reply: "none" is an exchange without an answer,
\* whether the IOmcu took it or not.
Replies == {"ok", "bad", "busy"}

Ask(phase, Handled(_), After(_, _)) ==
  /\ host.phase = phase
  /\ \/ \E reply \in Replies :
          Handled(reply) /\ PanelGoesOn(After(Heard(host), reply))
     \/ /\ (\E reply \in Replies : Handled(reply)) \/ (dev' = dev /\ NothingWritten)
        /\ PanelGoesOn(After(host, "none"))
  /\ UNCHANGED steady

Answered(phase, Outcomes(_)) ==
  /\ host.phase = phase
  /\ \E h \in Outcomes(Heard(host)) : PanelGoesOn(h) /\ Sees(h)
  /\ UNCHANGED <<slots, dev>>

Unanswered(phase, h) ==
  /\ host.phase = phase
  /\ PanelGoesOn(h)
  /\ UNCHANGED <<slots, dev, steady>>

CheckAsk ==
  \/ Answered("CHECK_ASK", AfterCheckAsk)
  \/ Unanswered("CHECK_ASK", Missed(host))

AfterAbort(h, reply) ==
  CASE reply = "none" -> Missed([h EXCEPT !.phase = "CHECK_ASK"])
    [] reply = "ok" -> [h EXCEPT !.aborted = TRUE, !.phase = "CHECK_ASK"]
    [] OTHER -> Done(h, "REFUSED")
CheckAbort == Ask("CHECK_ABORT", Abort, AfterAbort)

AfterHash(h, reply) ==
  CASE reply = "none" -> Missed([h EXCEPT !.phase = "CHECK_ASK"])
    [] reply = "ok" -> [h EXCEPT !.phase = "CHECK_WAIT"]
    [] OTHER -> Done(h, "REFUSED")
CheckHash == Ask("CHECK_HASH", HashRunning, AfterHash)

CheckWait ==
  \/ Answered("CHECK_WAIT", AfterCheckWait)
  \/ Unanswered("CHECK_WAIT", Missed(host))

AfterPrepare(h) == {[h EXCEPT !.slot = run, !.phase = "BEGIN"]}
Prepare ==
  \/ Answered("PREPARE", AfterPrepare)
  \/ Unanswered("PREPARE", Missed(host))

AfterBegin(h, reply) ==
  CASE reply = "none" -> Missed(h)
    [] reply = "busy" -> WaitGate(h)
    [] reply = "ok" -> [h EXCEPT !.busy = 0, !.block = 0, !.phase = "SEND"]
    [] OTHER -> Done(h, "REFUSED")
SendBegin == Ask("BEGIN", Begin, AfterBegin)

\* The block's frames, and its COMMIT in the same step.
AfterData(h, reply) ==
  IF reply = "none" THEN Resync(Missed(h), "SEND") ELSE [h EXCEPT !.phase = "COMMIT"]
StageBlock(reply) == Data(Block(host.img, host.block), reply)
SendData ==
  \/ Ask("SEND", StageBlock, AfterData)
  \/ /\ host.phase = "SEND" /\ Data(Mixed, "ok")
     /\ PanelGoesOn(AfterData(host, "none"))
     /\ UNCHANGED steady

AfterCommit(h, reply) ==
  CASE reply = "none" -> Resync(Missed(h), "SEND")
    [] reply = "busy" -> WaitGate([h EXCEPT !.phase = "SEND"])
    [] reply = "bad" -> Resync(h, "SEND")
    [] OTHER -> [h EXCEPT !.busy = 0, !.block = @ + 1,
                          !.phase = IF h.block + 1 >= NBlocks THEN "FINISH_DATA" ELSE "SEND"]
CommitBlock(reply) == Commit(host.block, Block(host.img, host.block), reply)
SendCommit == Ask("COMMIT", CommitBlock, AfterCommit)

Resyncs(h) == {AfterResync(h)}
AskWhere ==
  \/ Answered("RESYNC", Resyncs)
  \/ Unanswered("RESYNC", Missed(host))

AfterFinishData(h, reply) ==
  IF reply = "none" THEN Resync(Missed(h), "FINISH") ELSE [h EXCEPT !.phase = "FINISH"]
StageDigest(reply) == Data(Digest(host.img), reply)
SendDigest ==
  \/ Ask("FINISH_DATA", StageDigest, AfterFinishData)
  \/ /\ host.phase = "FINISH_DATA" /\ Data(Mixed, "ok")
     /\ PanelGoesOn(AfterFinishData(host, "none"))
     /\ UNCHANGED steady

AfterFinish(h, reply) ==
  CASE reply = "none" -> Resync(Missed(h), "FINISH")
    [] reply = "ok" -> [h EXCEPT !.phase = "VERIFY"]
    [] OTHER -> Resync(h, "FINISH")
SendFinish == Ask("FINISH", Finish, AfterFinish)

Verify ==
  \/ Answered("VERIFY", AfterVerify)
  \/ Unanswered("VERIFY", Missed(host))

\* Taken or unanswered: the restart says which.
AfterActivate(h, reply) ==
  CASE reply = "busy" -> WaitGate(h)
    [] reply = "bad" -> Done(h, "REFUSED")
    [] OTHER -> [Heard(h) EXCEPT !.busy = 0, !.block = NBlocks, !.phase = "RESTARTING"]
SendActivate == Ask("ACTIVATE", Activate, AfterActivate)

RestartSeen(h) == {AfterRestart(h)}
LookForRestart ==
  \/ Answered("RESTARTING", RestartSeen)
  \/ Unanswered("RESTARTING", host)

\* LINK_UPH_CONFIRM_MS after the ACTIVATE.
ConfirmExpires == Unanswered("RESTARTING", Done(host, "NOT_STARTED"))

AfterBuy(h, reply) ==
  CASE reply = "none" -> Missed(h)
    [] reply = "ok" -> [h EXCEPT !.phase = "BUY_READ"]
    [] OTHER -> Done(h, "REFUSED")
SendBuy == Ask("BUY", Buy, AfterBuy)

BuyRead(h) == {AfterBuyRead(h)}
ReadBought ==
  \/ Answered("BUY_READ", BuyRead)
  \/ Unanswered("BUY_READ", Missed([host EXCEPT !.phase = "BUY"]))

-----------------------------------------------------------------------------
(* The panel round the run. *)

\* Phases in the middle of a step, which nothing else of the task comes between.
MidStep == {"CHECK_ABORT", "CHECK_HASH", "COMMIT", "FINISH", "BUY_READ"}

\* An IOmcu has answered its identity.
LinkUp ==
  /\ cu # "updating" /\ host.phase \notin MidStep
  /\ cu' = "checking" /\ host' = CheckStarts(host.img)
  /\ UNCHANGED <<slots, dev, steady>>

\* START on the question.
StartUpdate ==
  /\ cu = "offered"
  /\ cu' = "updating" /\ host' = Started(host.img, "PREPARE")
  /\ UNCHANGED <<slots, dev, steady>>

\* The panel restarts, perhaps with another build.
PanelRestart ==
  \E i \in Images :
    /\ host' = Started(i, "DONE")
    /\ cu' = "idle"
    /\ UNCHANGED <<slots, dev, steady>>

RunStep ==
  \/ CheckAsk \/ CheckAbort \/ CheckHash \/ CheckWait
  \/ Prepare \/ SendBegin \/ SendData \/ SendCommit \/ AskWhere
  \/ SendDigest \/ SendFinish \/ Verify \/ SendActivate
  \/ LookForRestart \/ ConfirmExpires \/ SendBuy \/ ReadBought

IOmcuStep == HashEnds \/ Sweep \/ Silent \/ RestartsIntoSlot \/ Restart \/ Cut

Next ==
  \/ RunStep \/ IOmcuStep
  \/ LinkUp \/ StartUpdate \/ PanelRestart

\* One bought image runs, and the other slot was never written.
Init ==
  /\ run = "A" /\ trial = FALSE
  /\ \E i \in Images : flash = [s \in Slots |-> IF s = "A" THEN [k \in Blocks |-> Block(i, k)]
                                                ELSE Empty]
  /\ tbyb = [s \in Slots |-> FALSE]
  /\ dev = Fresh(FALSE)
  /\ \E i \in Images : host = Started(i, "DONE")
  /\ cu = "idle" /\ steady = FALSE

Spec == Init /\ [][Next]_vars

\* The control task steps the run, the IOmcu's loop turns, and an exchange that
\* is asked for again and again is answered at some point.
Answers == (CheckAbort \/ CheckHash \/ ReadBought) /\ host'.missed = 0

Fairness ==
  /\ WF_vars(RunStep) /\ SF_vars(Answers)
  /\ WF_vars(HashEnds \/ RestartsIntoSlot) /\ SF_vars(Sweep)

FairSpec == Spec /\ Fairness

-----------------------------------------------------------------------------
(* Properties. *)

Cells == [img : Images \cup {"blank", "torn", "mixed"}, at : 0 .. NBlocks]

\* The state has its types.
TypeOK ==
  /\ flash \in [Slots -> [Blocks -> Cells]] /\ tbyb \in [Slots -> BOOLEAN]
  /\ run \in Slots /\ trial \in BOOLEAN /\ steady \in BOOLEAN
  /\ dev.state \in {"IDLE", "HASHING", "RECEIVING", "RECEIVED", "VERIFYING",
                    "VERIFIED", "ACTIVATED", "FAILED"}
  /\ dev.next \in 0 .. NBlocks /\ {dev.data, dev.expect} \subseteq Cells
  /\ dev.first \in [Blocks -> Cells] /\ dev.sector \in [Blocks -> Cells]
  /\ dev.sweep \in BOOLEAN
  /\ host.missed \in 0 .. Lost /\ host.busy \in 0 .. BusyTries
  /\ host.restarts \in 0 .. Restarts /\ host.tries \in 0 .. BlockTries + 1
  /\ host.block \in 0 .. NBlocks
  /\ cu \in {"idle", "checking", "offered", "updating", "confirming"}

\* Whatever was lost, repeated, cut off or begun anew: a slot the boot ROM
\* would start holds one whole image.
StartableIsWhole ==
  \A s \in Slots : Startable(s) => \E i \in Images : Holds(s, i)

\* At every moment one slot holds an image that a power cut can start from.
SomethingStarts == \E s \in Slots : Bought(s)

\* "Updated" is told of the image the panel carries, running and bought.
TellsUpdated ==
  /\ cu = "updating" /\ host.phase # "DONE"
  /\ host'.phase = "DONE" /\ host'.result = "UPDATED"
RunsMine == Holds(run, host.img) /\ ~trial

UpdatedIsTrue == [][TellsUpdated => RunsMine]_vars

\* ... as long as the IOmcu has restarted by ACTIVATE only since the run last
\* read which slot runs, before the update or with the image on trial in it.
UpdatedIsTrueUnlessRestarted ==
  [][TellsUpdated /\ steady => RunsMine]_vars

\* "The same build" and "another build" are true of the image that runs.
CheckIsTrue ==
  [][host.phase = "CHECK_WAIT" /\ host'.phase = "DONE"
       => /\ host'.result = "SAME" => Holds(run, host.img)
          /\ host'.result = "DIFFERENT" => ~Holds(run, host.img)]_vars

\* A run of the panel ends.
RunEnds ==
  <>[][~LinkUp]_vars => (host.phase # "DONE" ~> host.phase = "DONE")

\* After a BUY, or a start with two images, one image is left.
SweepEnds == dev.sweep ~> ~dev.sweep
=============================================================================
