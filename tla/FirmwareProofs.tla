--------------------------- MODULE FirmwareProofs ---------------------------
(***************************************************************************)
(* Proofs about the firmware of the two boards.                            *)
(*                                                                         *)
(* Of LinkUpdate, for every set of images, every length and every bound of *)
(* the tries: whatever is lost or cut off, a slot the boot ROM would start *)
(* is whole and one slot can be started, and what the panel tells of the   *)
(* IOmcu's image is true.  Of FirmwareTrial: what runs is whole, a build is*)
(* kept by a start that worked, and a lost build is told of.               *)
(***************************************************************************)
EXTENDS LinkUpdate, TLAPS

-----------------------------------------------------------------------------
(* The types of the records.                                               *)

States == {"IDLE", "HASHING", "RECEIVING", "RECEIVED", "VERIFYING",
           "VERIFIED", "ACTIVATED", "FAILED"}
Digests == Images \cup {"none", "other"}
Flashes == [Blocks -> Cells]

Sessions ==
  [state : States, digestFailed : BOOLEAN, next : 0 .. NBlocks, data : Cells,
   first : Flashes, sector : Flashes, expect : Cells,
   of : {"none", "running", "image"}, digest : Digests, sweep : BOOLEAN]

Phases == {"DONE", "CHECK_ASK", "CHECK_ABORT", "CHECK_HASH", "CHECK_WAIT",
           "PREPARE", "BEGIN", "SEND", "COMMIT", "RESYNC", "FINISH_DATA",
           "FINISH", "VERIFY", "ACTIVATE", "RESTARTING", "BUY", "BUY_READ"}
Results == {"none", "NO_ANSWER", "BUSY", "RESTARTED_OUT", "TRIAL", "REFUSED",
            "SAME", "DIFFERENT", "BAD_DIGEST", "UPDATED", "NOT_STARTED"}

Runs ==
  [phase : Phases, img : Images, result : Results, missed : 0 .. Lost,
   busy : 0 .. BusyTries, restarts : 0 .. Restarts, tried : 0 .. NBlocks,
   tries : 0 .. BlockTries + 1, after : {"none", "SEND", "FINISH"},
   aborted : BOOLEAN, block : 0 .. NBlocks, slot : Slots \cup {"none"}]

SlotTypes ==
  /\ flash \in [Slots -> Flashes] /\ tbyb \in [Slots -> BOOLEAN]
  /\ run \in Slots /\ trial \in BOOLEAN

DevTypes == SlotTypes /\ dev \in Sessions
RunTypes ==
  /\ host \in Runs /\ steady \in BOOLEAN
  /\ cu \in {"idle", "checking", "offered", "updating", "confirming"}
  /\ host.phase \in {"SEND", "COMMIT"} => host.block < NBlocks

-----------------------------------------------------------------------------
(* The inductive invariant: the slots and the session.                     *)

\* The slot that runs can be started, and a power cut finds a bought image:
\* the one that runs, or the one it is on trial against.
RunStarts == Startable(run) /\ IF trial THEN Bought(Target) ELSE ~tbyb[run]

\* A session, and what it has activated, never meets an image on trial.
SessionSparesTrial == InSession(dev) \/ dev.state = "ACTIVATED" => ~trial

\* A session keeps the target from being started.
HeadIsBlank == InSession(dev) => \A k \in Head : flash[Target][k] = Blank

At(k) == IF k \in Head THEN dev.first[k] ELSE flash[Target][k]

\* What is verified is one whole image, its first sector still in RAM.
VerifiedIsWhole ==
  dev.state = "VERIFIED" =>
    /\ dev.digest \in Images /\ dev.of = "image"
    /\ \A k \in Blocks : At(k) = Block(dev.digest, k)

SlotInv == /\ StartableIsWhole /\ RunStarts /\ SessionSparesTrial
           /\ HeadIsBlank /\ VerifiedIsWhole

\* What is said to be the running image's digest is.
DigestIsRunning == dev.of = "running" => dev.digest = Running

-----------------------------------------------------------------------------
(* The inductive invariant: the run.                                       *)

Checks == {"CHECK_ASK", "CHECK_ABORT", "CHECK_HASH", "CHECK_WAIT"}
Confirms == {"BUY", "BUY_READ"}
Sending == {"PREPARE", "BEGIN", "SEND", "COMMIT", "RESYNC", "FINISH_DATA",
            "FINISH", "VERIFY", "ACTIVATE"}
Updates == Sending \cup {"RESTARTING"} \cup Confirms

PhaseFits ==
  /\ cu \in {"idle", "offered"} => host.phase = "DONE"
  /\ cu = "checking" => host.phase \in Checks
  /\ cu = "confirming" => host.phase \in Confirms
  /\ cu = "updating" => host.phase \in Updates

\* Nothing is on trial, and nothing activated, where a check has got past its
\* question, on the question to the user, and while an image is sent.
Settled ==
  cu = "offered" \/ host.phase \in (Checks \ {"CHECK_ASK"}) \cup Sending
    => ~trial /\ dev.state # "ACTIVATED"

\* What the run has activated is its own image.
ActivatedIsMine ==
  cu = "updating" /\ dev.state = "ACTIVATED"
    => host.phase = "RESTARTING" /\ Holds(Target, host.img)

\* The run's slot is the one that runs until its image is on trial.
SlotIsOld ==
  steady /\ host.phase \in (Sending \ {"PREPARE"}) \cup {"RESTARTING"} =>
    run = host.slot \/ (trial /\ host.phase = "RESTARTING")

\* What it goes on to activate is verified, and its own.
AboutToActivate ==
  host.phase = "ACTIVATE" =>
    /\ dev.state # "VERIFYING"
    /\ dev.state = "VERIFIED" => dev.digest = host.img

\* What it finds on trial after that, and buys, is its own.
TrialIsMine ==
  /\ cu = "updating" /\ host.phase = "RESTARTING" /\ trial => Holds(run, host.img)
  /\ cu = "updating" /\ host.phase \in Confirms /\ steady => Holds(run, host.img)

RunInv == /\ PhaseFits /\ Settled /\ ActivatedIsMine /\ SlotIsOld
          /\ AboutToActivate /\ TrialIsMine

DevInv == DevTypes /\ SlotInv /\ DigestIsRunning
IInv == DevInv /\ RunTypes /\ RunInv

-----------------------------------------------------------------------------
(* Slots, sectors and cells.                                               *)

LEMMA OtherIs ==
  ASSUME NEW s \in Slots
  PROVE  /\ Other(s) \in Slots /\ Other(s) # s /\ Other(Other(s)) = s
         /\ \A t \in Slots : t = s \/ t = Other(s)
<1>1. Other("A") = "B"
  BY DEF Other, Slots
<1>2. Other("B") = "A"
  BY DEF Other, Slots
<1> QED
  BY <1>1, <1>2 DEF Slots

LEMMA HeadIs == 0 \in Head /\ 0 \in Blocks /\ Head \subseteq Blocks
BY SizesAssumption DEF Head, Sector, Blocks

LEMMA SectorIs ==
  ASSUME NEW k \in Blocks, k \notin Head
  PROVE  Sector(k) \subseteq Blocks /\ Sector(k) \cap Head = {}
BY HeadIs DEF Head, Sector

LEMMA CellsAre ==
  /\ \A i \in Images : \A k \in 0 .. NBlocks : Block(i, k) \in Cells
  /\ {Blank, Torn, Mixed} \subseteq Cells
  /\ \A i \in Images : \A k : Block(i, k) \notin {Blank, Torn, Mixed}
  /\ \A i, j, k, l : Block(i, k) = Block(j, l) => i = j /\ k = l
  /\ Empty \in Flashes /\ [k \in Blocks |-> Torn] \in Flashes
<1>1. NBlocks \in Nat
  BY SizesAssumption
<1>2. \A i \in Images \cup {"blank", "torn", "mixed"} : \A k \in 0 .. NBlocks : Block(i, k) \in Cells
  BY DEF Block, Cells
<1>3. {Blank, Torn, Mixed} \subseteq Cells
  BY <1>1, <1>2 DEF Blank, Torn, Mixed
<1>4. \A i, j, k, l : Block(i, k) = Block(j, l) => i = j /\ k = l
  BY DEF Block
<1>5. \A i \in Images : \A k : Block(i, k) \notin {Blank, Torn, Mixed}
  BY <1>4, ImagesAssumption DEF Blank, Torn, Mixed
<1> QED
  BY <1>2, <1>3, <1>4, <1>5 DEF Flashes, Empty

LEMMA WrittenIs ==
  ASSUME SlotTypes, NEW s \in Slots, NEW where, NEW what \in Flashes,
         Written(s, where, what)
  PROVE  /\ flash' \in [Slots -> Flashes]
         /\ \A k \in Blocks : flash'[s][k] = IF k \in where THEN what[k] ELSE flash[s][k]
         /\ \A t \in Slots : t # s => flash'[t] = flash[t]
BY DEF SlotTypes, Written, Flashes

\* One cell that is of no image keeps a slot from being started.
LEMMA SpoiltIsNotStarted ==
  ASSUME NEW s \in Slots, NEW k \in Head, flash[s][k] \in {Blank, Torn}
  PROVE  ~Startable(s)
BY CellsAre DEF Startable

\* A slot holds one image at most.
LEMMA HoldsOne ==
  ASSUME NEW s, NEW i \in Images, NEW j \in Images, Holds(s, i), Holds(s, j)
  PROVE  i = j
BY HeadIs, CellsAre DEF Holds

LEMMA RunningIs ==
  /\ Running \in Digests
  /\ \A i \in Images : Running = i <=> Holds(run, i)
<1> DEFINE Of == {i \in Images : Holds(run, i)}
<1>1. Running = IF Of = {} THEN "other" ELSE CHOOSE i \in Of : TRUE
  BY DEF Running
<1>2. Of \subseteq Images /\ \A i \in Images : i \in Of <=> Holds(run, i)
  OBVIOUS
<1>3. \A i, j \in Of : i = j
  BY HoldsOne
<1>4. "other" \notin Images
  BY ImagesAssumption
<1> HIDE DEF Of
<1> QED
  BY <1>1, <1>2, <1>3, <1>4 DEF Digests

\* What the image received hashes to.
LEMMA ReceivedIs ==
  /\ Received \in Digests
  /\ Received \in Images => \A k \in Blocks : At(k) = Block(Received, k)
<1> DEFINE Of == {i \in Images : \A k \in Blocks : At(k) = Block(i, k)}
<1>1. Received = IF Of = {} THEN "other" ELSE CHOOSE i \in Of : TRUE
  BY DEF Received, At
<1>2. Of \subseteq Images /\ \A i \in Of : \A k \in Blocks : At(k) = Block(i, k)
  OBVIOUS
<1>3. "other" \notin Images
  BY ImagesAssumption
<1> HIDE DEF Of
<1> QED
  BY <1>1, <1>2, <1>3 DEF Digests

-----------------------------------------------------------------------------
(* What a step may do with the slots and the session.                      *)

\* It may leave the running image's digest, or what it is of.
OfKept == dev'.of = "running" => dev.of = "running" /\ dev'.digest = dev.digest

Stays ==
  /\ UNCHANGED slots
  /\ dev'.state = dev.state /\ dev'.of = dev.of
  /\ dev'.digest = dev.digest /\ dev'.first = dev.first

Leaves == UNCHANGED slots /\ dev'.state \in {"IDLE", "HASHING", "FAILED"} /\ OfKept

Receives ==
  /\ UNCHANGED slots /\ InSession(dev) /\ OfKept
  /\ \/ dev'.state \in {"RECEIVING", "RECEIVED"}
     \/ dev'.state = "VERIFYING" /\ host.phase = "FINISH"

Hashes == UNCHANGED slots /\ dev'.state = "IDLE" /\ dev'.digest = Running

Verifies ==
  /\ UNCHANGED slots /\ dev.state = "VERIFYING"
  /\ dev'.state = "VERIFIED" /\ dev'.of = "image" /\ dev'.first = dev.first
  /\ dev'.digest \in Images
  /\ \A k \in Blocks : At(k) = Block(dev'.digest, k)

\* The target is written, and can not be started.
Spoils ==
  /\ OnlyFlash /\ ~trial /\ dev.state # "ACTIVATED"
  /\ flash' \in [Slots -> Flashes] /\ flash'[run] = flash[run]
  /\ \E k \in Head : flash'[Target][k] \in {Blank, Torn}
  /\ InSession(dev') => \A k \in Head : flash'[Target][k] = Blank
  /\ dev'.state \notin {"VERIFYING", "VERIFIED", "ACTIVATED"} /\ OfKept

Activates ==
  /\ host.phase = "ACTIVATE" /\ dev.state = "VERIFIED" /\ dev'.state = "ACTIVATED"
  /\ flash' \in [Slots -> Flashes] /\ flash'[run] = flash[run]
  /\ \A k \in Blocks : flash'[Target][k] = Block(dev.digest, k)
  /\ tbyb' = [tbyb EXCEPT ![Target] = TRUE] /\ UNCHANGED <<run, trial>>
  /\ OfKept

Buys ==
  /\ host.phase = "BUY" /\ trial /\ trial' = FALSE
  /\ run' = run /\ tbyb' = [tbyb EXCEPT ![run] = FALSE]
  /\ flash' \in [Slots -> Flashes] /\ flash'[run] = flash[run]
  /\ flash' = flash \/ \E k \in Head : flash'[Target][k] \in {Blank, Torn}
  /\ dev'.state = dev.state /\ OfKept

\* It does not restart the IOmcu.
Works ==
  dev' \in Sessions
    /\ (Stays \/ Leaves \/ Receives \/ Hashes \/ Verifies \/ Spoils \/ Activates \/ Buys)

-----------------------------------------------------------------------------
(* The handlers of the link, and the IOmcu's own steps.                    *)

LEMMA LeftIs ==
  ASSUME dev \in Sessions, NEW state \in States
  PROVE  /\ Left(dev, state) \in Sessions
         /\ Left(dev, state).state = state
         /\ Left(dev, state).of = dev.of /\ Left(dev, state).digest = dev.digest
         /\ Left(dev, state).first = Empty
<1>1. Empty \in Flashes /\ Mixed \in Cells /\ 0 \in 0 .. NBlocks
  BY CellsAre, SizesAssumption
<1> QED
  BY <1>1 DEF Left, Sessions

LEMMA FailedIs ==
  ASSUME dev \in Sessions, NEW b \in BOOLEAN
  PROVE  /\ Failed(dev, b) \in Sessions
         /\ Failed(dev, b).state = "FAILED"
         /\ Failed(dev, b).of = dev.of /\ Failed(dev, b).digest = dev.digest
<1>1. "FAILED" \in States
  BY DEF States
<1> QED
  BY <1>1, LeftIs DEF Failed, Sessions

LEMMA RefusedStays ==
  ASSUME DevTypes, NEW nack, NEW reply, Refused(nack, reply) \/ Taken(reply)
  PROVE  Works
BY DEF DevTypes, Refused, Taken, NothingWritten, Works, Stays, Sessions

LEMMA DataStays ==
  ASSUME DevTypes, NEW what \in Cells, NEW reply, Data(what, reply)
  PROVE  Works
BY DEF DevTypes, Data, NothingWritten, Works, Stays, Sessions

\* What a step that writes the target leaves of it.
LEMMA TargetWritten ==
  ASSUME DevTypes, NEW where, NEW what \in Flashes, Written(Target, where, what), OnlyFlash
  PROVE  /\ flash' \in [Slots -> Flashes] /\ flash'[run] = flash[run]
         /\ \A k \in Blocks : flash'[Target][k] = IF k \in where THEN what[k]
                                                 ELSE flash[Target][k]
<1>1. Target \in Slots /\ Target # run /\ run \in Slots
  BY OtherIs DEF DevTypes, SlotTypes, Target
<1> QED
  BY <1>1, WrittenIs DEF DevTypes

LEMMA HeadErased ==
  ASSUME DevTypes, Written(Target, Head, Empty), OnlyFlash
  PROVE  /\ flash' \in [Slots -> Flashes] /\ flash'[run] = flash[run]
         /\ \A k \in Head : flash'[Target][k] = Blank
BY TargetWritten, CellsAre, HeadIs DEF Empty

LEMMA HashRunningWorks ==
  ASSUME DevTypes, NEW reply, HashRunning(reply)
  PROVE  Works
<1>1. CASE Refused("bad", reply)
  BY <1>1, RefusedStays
<1>2. CASE dev' = [Left(dev, "HASHING") EXCEPT !.of = "none"] /\ NothingWritten
  <2>1. "HASHING" \in States
    BY DEF States
  <2>2. dev' \in Sessions /\ dev'.state = "HASHING" /\ dev'.of = "none"
    BY <1>2, <2>1, LeftIs DEF DevTypes, Sessions
  <2> QED
    BY <1>2, <2>2 DEF Works, Leaves, NothingWritten, OfKept
<1> QED
  BY <1>1, <1>2 DEF HashRunning

LEMMA OpenedIs ==
  ASSUME DevTypes
  PROVE  Opened(dev) \in Sessions /\ Opened(dev).state = "RECEIVING" /\ Opened(dev).of = "none"
<1>1. Empty \in Flashes /\ 0 \in 0 .. NBlocks /\ "RECEIVING" \in States
  BY CellsAre, SizesAssumption DEF States
<1> QED
  BY <1>1 DEF DevTypes, Opened, Sessions

LEMMA FailingLeaves ==
  ASSUME DevTypes, NEW b \in BOOLEAN, dev' = Failed(dev, b), NothingWritten
  PROVE  Works
BY FailedIs DEF DevTypes, Works, Leaves, NothingWritten, OfKept

LEMMA BeginWorks ==
  ASSUME DevTypes, NEW reply, Begin(reply)
  PROVE  Works
<1>1. CASE Refused("bad", reply) \/ Refused("busy", reply)
  BY <1>1, RefusedStays
<1>2. CASE BeginFits /\ dev' = Failed(dev, FALSE) /\ NothingWritten
  BY <1>2, FailingLeaves
<1>3. CASE BeginFits /\ dev' = Opened(dev) /\ Written(Target, Head, Empty) /\ OnlyFlash
  BY <1>3, OpenedIs, HeadErased, HeadIs DEF Works, Spoils, BeginFits, OfKept, DevTypes
<1> QED
  BY <1>1, <1>2, <1>3 DEF Begin

LEMMA PlacedIs ==
  ASSUME DevTypes, dev.next < NBlocks
  PROVE  /\ Placed(dev.next) \in Sessions
         /\ Placed(dev.next).state \in {"RECEIVING", "RECEIVED"}
         /\ Placed(dev.next).of = dev.of /\ Placed(dev.next).digest = dev.digest
<1> DEFINE k == dev.next
<1>1. k \in Nat /\ k \in Blocks /\ k + 1 \in 0 .. NBlocks
  BY SizesAssumption DEF DevTypes, Sessions, Blocks
<1>2. dev.first \in Flashes /\ dev.sector \in Flashes /\ dev.data \in Cells /\ Empty \in Flashes
  BY CellsAre DEF DevTypes, Sessions
<1>3. [dev.first EXCEPT ![k] = dev.data] \in Flashes /\ [dev.sector EXCEPT ![k] = dev.data] \in Flashes
  BY <1>2 DEF Flashes
<1>4. dev \in Sessions /\ {"RECEIVING", "RECEIVED"} \subseteq States
  BY DEF DevTypes, States
<1> HIDE DEF k
<1>5. /\ Placed(k) \in Sessions
      /\ Placed(k).state \in {"RECEIVING", "RECEIVED"}
      /\ Placed(k).of = dev.of /\ Placed(k).digest = dev.digest
  BY <1>1, <1>2, <1>3, <1>4 DEF Placed, Sessions
<1> QED
  BY <1>5 DEF k

LEMMA CommitWorks ==
  ASSUME DevInv, NEW k, k < NBlocks, NEW crc, NEW reply, Commit(k, crc, reply)
  PROVE  Works
<1>1. CASE Taken(reply) \/ Refused("bad", reply) \/ Refused("busy", reply)
  BY <1>1, RefusedStays DEF DevInv
<1>2. CASE InOrder(k) /\ dev' = Placed(k) /\ NothingWritten
  <2>1. dev.state = "RECEIVING" /\ k = dev.next
    BY <1>2 DEF InOrder
  <2>2. Receives /\ dev' \in Sessions
    BY <1>2, <2>1, PlacedIs DEF Receives, NothingWritten, InSession, OfKept, DevInv
  <2> QED
    BY <2>2 DEF Works
<1>3. CASE InOrder(k) /\ dev' = Failed(dev, FALSE) /\ NothingWritten
  BY <1>3, FailingLeaves DEF DevInv
<1>4. ASSUME InOrder(k), Writes(k), NEW what \in Flashes,
             Written(Target, Sector(k), what), OnlyFlash,
             dev' = Placed(k) \/ dev' = Failed(dev, FALSE)
      PROVE  Works
  <2>1. dev.state = "RECEIVING" /\ k = dev.next /\ k \in Blocks /\ k \notin Head
    <3>1. dev.next \in 0 .. NBlocks
      BY DEF DevInv, DevTypes, Sessions
    <3> QED
      BY <1>4, <3>1, SizesAssumption DEF InOrder, Writes, Blocks
  <2>2. dev' \in Sessions /\ dev'.state \in {"RECEIVING", "RECEIVED", "FAILED"} /\ OfKept
    BY <1>4, <2>1, PlacedIs, FailedIs DEF DevInv, DevTypes, OfKept
  <2>3. \A j \in Head : flash'[Target][j] = Blank
    BY <1>4, <2>1, TargetWritten, SectorIs, HeadIs DEF DevInv, SlotInv, HeadIsBlank, InSession
  <2>4. flash' \in [Slots -> Flashes] /\ flash'[run] = flash[run]
    BY <1>4, TargetWritten DEF DevInv
  <2>5. ~trial
    BY <2>1 DEF DevInv, SlotInv, SessionSparesTrial, InSession
  <2> QED
    BY <1>4, <2>1, <2>2, <2>3, <2>4, <2>5, HeadIs DEF Works, Spoils
<1>5. CASE InOrder(k) /\ Writes(k) /\ dev' = Placed(k) /\ OnlyFlash
           /\ Written(Target, Sector(k), [dev.sector EXCEPT ![k] = dev.data])
  <2>1. [dev.sector EXCEPT ![k] = dev.data] \in Flashes
    BY DEF DevInv, DevTypes, Sessions, Flashes
  <2> QED
    BY <1>4, <1>5, <2>1
<1>6. CASE InOrder(k) /\ Writes(k) /\ dev' = Failed(dev, FALSE) /\ OnlyFlash
           /\ Written(Target, Sector(k), Empty)
  BY <1>4, <1>6, CellsAre
<1> QED
  BY <1>1, <1>2, <1>3, <1>5, <1>6 DEF Commit

LEMMA FinishWorks ==
  ASSUME DevInv, host.phase = "FINISH", NEW reply, Finish(reply)
  PROVE  Works
<1>1. CASE Refused("bad", reply)
  BY <1>1, RefusedStays DEF DevInv
<1>2. CASE dev.state = "RECEIVED" /\ NothingWritten
           /\ dev' = [dev EXCEPT !.state = "VERIFYING", !.expect = dev.data,
                                 !.of = "none", !.digestFailed = FALSE]
  <2>1. dev \in Sessions /\ "VERIFYING" \in States
    BY DEF DevInv, DevTypes, States
  <2>2. dev' \in Sessions /\ dev'.state = "VERIFYING" /\ dev'.of = "none"
    BY <1>2, <2>1 DEF Sessions
  <2> QED
    BY <1>2, <2>2 DEF Works, Receives, NothingWritten, InSession, OfKept
<1> QED
  BY <1>1, <1>2 DEF Finish

LEMMA ActivateWorks ==
  ASSUME DevInv, host.phase = "ACTIVATE", NEW reply, Activate(reply)
  PROVE  Works
<1>1. CASE Refused("bad", reply) \/ Refused("busy", reply)
  BY <1>1, RefusedStays DEF DevInv
<1>2. CASE /\ dev.state = "VERIFIED" /\ dev' = Left(dev, "ACTIVATED")
           /\ Written(Target, Head, dev.first)
           /\ tbyb' = [tbyb EXCEPT ![Target] = TRUE] /\ UNCHANGED <<run, trial>>
  <2>1. dev' \in Sessions /\ dev'.state = "ACTIVATED" /\ OfKept
    BY <1>2, LeftIs DEF DevInv, DevTypes, OfKept, States
  <2>2. Target \in Slots /\ Target # run /\ run \in Slots
    BY OtherIs DEF DevInv, DevTypes, SlotTypes, Target
  <2>3. dev.first \in Flashes
    BY DEF DevInv, DevTypes, Sessions
  <2>4. /\ flash' \in [Slots -> Flashes] /\ flash'[run] = flash[run]
        /\ \A k \in Blocks : flash'[Target][k] = At(k)
    BY <1>2, <2>2, <2>3, WrittenIs DEF DevInv, DevTypes, At
  <2>5. \A k \in Blocks : At(k) = Block(dev.digest, k)
    BY <1>2 DEF DevInv, SlotInv, VerifiedIsWhole
  <2> QED
    BY <1>2, <2>1, <2>4, <2>5 DEF Works, Activates
<1>3. CASE dev.state = "VERIFIED" /\ dev' = Failed(dev, FALSE) /\ NothingWritten
  BY <1>3, FailingLeaves DEF DevInv
<1>4. CASE /\ dev.state = "VERIFIED" /\ dev' = Failed(dev, FALSE)
           /\ Written(Target, Head, [k \in Blocks |-> Torn]) /\ OnlyFlash
  <2>1. dev' \in Sessions /\ dev'.state = "FAILED" /\ OfKept
    BY <1>4, FailedIs DEF DevInv, DevTypes, OfKept
  <2>2. /\ flash' \in [Slots -> Flashes] /\ flash'[run] = flash[run]
        /\ \A k \in Head : flash'[Target][k] = Torn
    BY <1>4, TargetWritten, CellsAre, HeadIs DEF DevInv
  <2>3. ~trial
    BY <1>4 DEF DevInv, SlotInv, SessionSparesTrial, InSession
  <2> QED
    BY <1>4, <2>1, <2>2, <2>3, HeadIs DEF Works, Spoils, InSession
<1> QED
  BY <1>1, <1>2, <1>3, <1>4 DEF Activate

LEMMA AbortWorks ==
  ASSUME DevTypes, NEW reply, Abort(reply)
  PROVE  Works
<1>1. CASE Refused("bad", reply)
  BY <1>1, RefusedStays
<1>2. CASE dev' = Left(dev, "IDLE") /\ NothingWritten
  BY <1>2, LeftIs DEF DevTypes, States, Works, Leaves, NothingWritten, OfKept
<1> QED
  BY <1>1, <1>2 DEF Abort

LEMMA BuyWorks ==
  ASSUME DevTypes, host.phase = "BUY", NEW reply, Buy(reply)
  PROVE  Works
<1>1. CASE Taken(reply) \/ Refused("bad", reply)
  BY <1>1, RefusedStays
<1>2. ASSUME NEW owed \in BOOLEAN,
             dev' = [dev EXCEPT !.digestFailed = FALSE, !.sweep = owed]
      PROVE  dev' \in Sessions /\ dev'.state = dev.state /\ OfKept
  BY <1>2 DEF DevTypes, Sessions, OfKept
<1>3. CASE /\ trial /\ run' = run /\ trial' = FALSE
           /\ tbyb' = [tbyb EXCEPT ![run] = FALSE]
           /\ Written(Target, Head, Empty)
           /\ dev' = [dev EXCEPT !.digestFailed = FALSE, !.sweep = FALSE]
  <2>1. Target \in Slots /\ Target # run /\ run \in Slots /\ Empty \in Flashes
    BY OtherIs, CellsAre DEF DevTypes, SlotTypes, Target
  <2>2. /\ flash' \in [Slots -> Flashes] /\ flash'[run] = flash[run]
        /\ \A k \in Head : flash'[Target][k] = Blank
    BY <1>3, <2>1, WrittenIs, HeadIs DEF DevTypes, Empty
  <2> QED
    BY <1>2, <1>3, <2>2, HeadIs DEF Works, Buys
<1>4. CASE /\ trial /\ run' = run /\ trial' = FALSE
           /\ tbyb' = [tbyb EXCEPT ![run] = FALSE] /\ flash' = flash
           /\ dev' = [dev EXCEPT !.digestFailed = FALSE, !.sweep = TRUE]
  BY <1>2, <1>4 DEF Works, Buys, DevTypes, SlotTypes
<1> QED
  BY <1>1, <1>3, <1>4 DEF Buy

LEMMA HashEndsWorks ==
  ASSUME DevInv, HashEnds
  PROVE  Works
<1>1. Received \in Digests /\ Running \in Digests
  BY ReceivedIs, RunningIs
<1>2. dev \in Sessions /\ {"IDLE", "VERIFIED"} \subseteq States
  BY DEF DevInv, DevTypes, States
<1>3. CASE dev' = [dev EXCEPT !.state = "IDLE", !.of = "running", !.digest = Running]
  <2>1. dev' \in Sessions /\ dev'.state = "IDLE" /\ dev'.digest = Running
    BY <1>1, <1>2, <1>3 DEF Sessions
  <2> QED
    BY <2>1 DEF HashEnds, Works, Hashes, NothingWritten
<1>4. CASE /\ dev.state = "VERIFYING"
           /\ LET d == [dev EXCEPT !.of = "image", !.digest = Received]
              IN  dev' = IF dev.expect = Digest(Received)
                         THEN [d EXCEPT !.state = "VERIFIED"] ELSE Failed(d, TRUE)
  <2> DEFINE d == [dev EXCEPT !.of = "image", !.digest = Received]
  <2>1. d \in Sessions /\ d.of = "image" /\ d.digest = Received /\ d.first = dev.first
    BY <1>1, <1>2 DEF Sessions
  <2>2. CASE dev.expect = Digest(Received) /\ dev' = [d EXCEPT !.state = "VERIFIED"]
    <3>1. /\ dev' \in Sessions /\ dev'.state = "VERIFIED" /\ dev'.of = "image"
          /\ dev'.digest = Received /\ dev'.first = dev.first
      BY <1>2, <2>1, <2>2 DEF Sessions
    <3>2. Received \in Images
      <4>1. dev.expect \in Cells
        BY DEF DevInv, DevTypes, Sessions
      <4>2. Received \in Images \cup {"blank", "torn", "mixed"}
        BY <2>2, <4>1 DEF Digest, Block, Cells
      <4> QED
        BY <1>1, <4>2 DEF Digests
    <3> QED
      BY <1>4, <3>1, <3>2, ReceivedIs DEF HashEnds, Works, Verifies, NothingWritten
  <2>3. CASE dev' = Failed(d, TRUE)
    <3> HIDE DEF d
    <3>1. "FAILED" \in States /\ Empty \in Flashes /\ Mixed \in Cells /\ 0 \in 0 .. NBlocks
      BY CellsAre, SizesAssumption DEF States
    <3>2. dev' \in Sessions /\ dev'.state = "FAILED" /\ dev'.of = "image"
      BY <2>1, <2>3, <3>1 DEF Failed, Left, Sessions
    <3> QED
      BY <3>2 DEF HashEnds, Works, Leaves, NothingWritten, OfKept
  <2> QED
    BY <1>4, <2>2, <2>3
<1> QED
  BY <1>3, <1>4 DEF HashEnds

LEMMA SweepWorks ==
  ASSUME DevTypes, Sweep
  PROVE  Works
<1>1. dev' \in Sessions /\ dev'.state = dev.state /\ dev.state \in States /\ OfKept
  BY DEF Sweep, DevTypes, Sessions, OfKept
<1>2. /\ ~InSession(dev) /\ dev.state # "ACTIVATED" /\ ~trial
      /\ Written(Target, Head, Empty) /\ OnlyFlash
  BY DEF Sweep, SweepDue
<1> QED
  BY <1>1, <1>2, HeadErased, HeadIs DEF Works, Spoils, InSession

LEMMA SilentWorks ==
  ASSUME DevTypes, Silent
  PROVE  Works
BY FailingLeaves DEF Silent

-----------------------------------------------------------------------------
(* A step that does not restart the IOmcu keeps what is known of it.       *)

LEMMA TargetIs ==
  ASSUME SlotTypes
  PROVE  /\ Target \in Slots /\ run \in Slots /\ Target # run /\ Other(Target) = run
         /\ \A s \in Slots : s = run \/ s = Target
BY OtherIs DEF SlotTypes, Target

\* The slots as they are, and the session that moves on.
LEMMA UnwrittenKeeps ==
  ASSUME DevInv, dev' \in Sessions, UNCHANGED slots,
         InSession(dev') => InSession(dev),
         dev'.state = "ACTIVATED" => dev.state = "ACTIVATED",
         VerifiedIsWhole', DigestIsRunning'
  PROVE  DevInv'
<1>1. DevTypes' /\ Target' = Target
  BY DEF DevInv, DevTypes, SlotTypes, slots, Target
<1>2. StartableIsWhole' /\ RunStarts'
  BY <1>1 DEF DevInv, SlotInv, StartableIsWhole, RunStarts, Startable, Bought, Holds, slots
<1>3. SessionSparesTrial' /\ HeadIsBlank'
  BY <1>1 DEF DevInv, SlotInv, SessionSparesTrial, HeadIsBlank, slots
<1> QED
  BY <1>1, <1>2, <1>3 DEF DevInv, SlotInv

LEMMA OfIsKept ==
  ASSUME DevInv, OfKept, run' = run, flash'[run] = flash[run]
  PROVE  DigestIsRunning'
<1>1. Running' = Running
  BY DEF Running, Holds
<1> QED
  BY <1>1 DEF DevInv, DigestIsRunning, OfKept

\* A target that is written while nothing is on trial.
LEMMA WrittenKeeps ==
  ASSUME DevInv, dev' \in Sessions, OfKept,
         run' = run, trial' = trial, ~trial,
         tbyb' \in [Slots -> BOOLEAN], tbyb'[run] = tbyb[run],
         flash' \in [Slots -> Flashes], flash'[run] = flash[run],
         \/ \E k \in Head : flash'[Target][k] \in {Blank, Torn}
         \/ \E i \in Images : \A k \in Blocks : flash'[Target][k] = Block(i, k),
         InSession(dev') => \A k \in Head : flash'[Target][k] = Blank,
         VerifiedIsWhole'
  PROVE  DevInv'
<1>1. /\ Target \in Slots /\ run \in Slots /\ Target # run /\ Target' = Target
      /\ \A s \in Slots : s = run \/ s = Target
  BY TargetIs DEF DevInv, DevTypes, Target
<1>2. DevTypes'
  BY DEF DevInv, DevTypes, SlotTypes
<1>3. Startable(run)' = Startable(run) /\ \A i : Holds(run, i)' = Holds(run, i)
  BY DEF Startable, Holds
<1>4. Startable(Target)' => \E i \in Images : Holds(Target, i)'
  <2>1. CASE \E k \in Head : flash'[Target][k] \in {Blank, Torn}
    BY <1>1, <2>1, CellsAre DEF Startable
  <2>2. CASE \E i \in Images : \A k \in Blocks : flash'[Target][k] = Block(i, k)
    BY <1>1, <2>2 DEF Holds
  <2> QED
    BY <2>1, <2>2
<1>5. StartableIsWhole'
  <2>1. Startable(run)' => \E i \in Images : Holds(run, i)'
    BY <1>1, <1>3 DEF DevInv, SlotInv, StartableIsWhole
  <2> QED
    BY <1>1, <1>4, <2>1 DEF StartableIsWhole
<1>6. RunStarts'
  BY <1>3 DEF DevInv, SlotInv, RunStarts
<1>7. SessionSparesTrial' /\ HeadIsBlank'
  BY <1>1 DEF SessionSparesTrial, HeadIsBlank
<1> QED
  BY <1>2, <1>5, <1>6, <1>7, OfIsKept DEF DevInv, SlotInv

\* A purchase: the image on trial is the one that starts from now on.
LEMMA BuysKeeps ==
  ASSUME DevInv, dev' \in Sessions, Buys
  PROVE  DevInv'
<1>1. /\ Target \in Slots /\ run \in Slots /\ Target # run /\ Target' = Target
      /\ \A s \in Slots : s = run \/ s = Target
  BY TargetIs DEF DevInv, DevTypes, Target, Buys
<1>2. DevTypes' /\ ~tbyb'[run]
  <2>1. tbyb \in [Slots -> BOOLEAN] /\ tbyb' = [tbyb EXCEPT ![run] = FALSE]
    BY DEF DevInv, DevTypes, SlotTypes, Buys
  <2>2. tbyb' \in [Slots -> BOOLEAN] /\ ~tbyb'[run]
    BY <1>1, <2>1
  <2>3. flash' \in [Slots -> Flashes] /\ run' \in Slots /\ trial' \in BOOLEAN
    BY DEF DevInv, DevTypes, SlotTypes, Buys
  <2> QED
    BY <2>2, <2>3 DEF DevTypes, SlotTypes
<1>3. Startable(run)' = Startable(run) /\ \A i : Holds(run, i)' = Holds(run, i)
  BY DEF Startable, Holds, Buys
<1>4. Startable(Target)' => Startable(Target) /\ flash' = flash
  BY <1>1, CellsAre DEF Startable, Buys
<1>5. StartableIsWhole'
  <2>1. Startable(run)' => \E i \in Images : Holds(run, i)'
    BY <1>1, <1>3 DEF DevInv, SlotInv, StartableIsWhole
  <2>2. Startable(Target)' => \E i \in Images : Holds(Target, i)'
    BY <1>1, <1>4 DEF DevInv, SlotInv, StartableIsWhole, Holds
  <2>3. run' = run
    BY DEF Buys
  <2> QED
    BY <1>1, <2>1, <2>2, <2>3 DEF StartableIsWhole
<1>6. RunStarts'
  BY <1>2, <1>3 DEF DevInv, SlotInv, RunStarts, Buys
<1>7. ~InSession(dev) /\ dev.state # "ACTIVATED"
  BY DEF Buys, DevInv, SlotInv, SessionSparesTrial
<1>8. SessionSparesTrial' /\ HeadIsBlank' /\ VerifiedIsWhole'
  BY <1>7 DEF Buys, SessionSparesTrial, HeadIsBlank, VerifiedIsWhole, InSession
<1> QED
  BY <1>2, <1>5, <1>6, <1>8, OfIsKept DEF DevInv, SlotInv, Buys

LEMMA WorksKeeps ==
  ASSUME DevInv, Works
  PROVE  DevInv'
<1>1. dev' \in Sessions /\ dev \in Sessions
  BY DEF Works, DevInv, DevTypes
<1>2. CASE Stays
  <2>1. VerifiedIsWhole' /\ DigestIsRunning'
    BY <1>2 DEF Stays, slots, DevInv, SlotInv, VerifiedIsWhole, DigestIsRunning,
                Running, Holds, At, Target
  <2> QED
    BY <1>1, <1>2, <2>1, UnwrittenKeeps DEF Stays, InSession
<1>3. CASE Leaves
  <2>1. VerifiedIsWhole' /\ DigestIsRunning'
    BY <1>3, OfIsKept DEF Leaves, slots, VerifiedIsWhole
  <2> QED
    BY <1>1, <1>3, <2>1, UnwrittenKeeps DEF Leaves, InSession
<1>4. CASE Receives
  <2>1. VerifiedIsWhole' /\ DigestIsRunning'
    BY <1>4, OfIsKept DEF Receives, slots, VerifiedIsWhole
  <2> QED
    BY <1>1, <1>4, <2>1, UnwrittenKeeps DEF Receives, InSession
<1>5. CASE Hashes
  <2>1. VerifiedIsWhole' /\ DigestIsRunning'
    BY <1>5 DEF Hashes, slots, VerifiedIsWhole, DigestIsRunning, Running, Holds
  <2> QED
    BY <1>1, <1>5, <2>1, UnwrittenKeeps DEF Hashes, InSession
<1>6. CASE Verifies
  <2>1. VerifiedIsWhole' /\ DigestIsRunning'
    BY <1>6 DEF Verifies, slots, VerifiedIsWhole, DigestIsRunning, At, Target
  <2> QED
    BY <1>1, <1>6, <2>1, UnwrittenKeeps DEF Verifies, InSession
<1>7. CASE Spoils
  <2>1. VerifiedIsWhole'
    BY <1>7 DEF Spoils, VerifiedIsWhole
  <2>2. tbyb' = tbyb /\ run' = run /\ trial' = trial /\ tbyb \in [Slots -> BOOLEAN]
    BY <1>7 DEF Spoils, OnlyFlash, DevInv, DevTypes, SlotTypes
  <2> QED
    BY <1>1, <1>7, <2>1, <2>2, WrittenKeeps DEF Spoils
<1>8. CASE Activates
  <2>1. VerifiedIsWhole' /\ ~InSession(dev')
    BY <1>8 DEF Activates, VerifiedIsWhole, InSession
  <2>2. ~trial /\ dev.digest \in Images
    BY <1>8 DEF Activates, DevInv, SlotInv, SessionSparesTrial, VerifiedIsWhole, InSession
  <2>3. tbyb' \in [Slots -> BOOLEAN] /\ tbyb'[run] = tbyb[run]
    BY <1>8, TargetIs DEF Activates, DevInv, DevTypes, SlotTypes
  <2> QED
    BY <1>1, <1>8, <2>1, <2>2, <2>3, WrittenKeeps DEF Activates
<1>9. CASE Buys
  BY <1>1, <1>9, BuysKeeps
<1> QED
  BY <1>2, <1>3, <1>4, <1>5, <1>6, <1>7, <1>8, <1>9 DEF Works

-----------------------------------------------------------------------------
(* A step that restarts it.                                                *)

LEMMA FreshIs ==
  ASSUME NEW sweep \in BOOLEAN
  PROVE  Fresh(sweep) \in Sessions /\ Fresh(sweep).state = "IDLE" /\ Fresh(sweep).of = "none"
<1>1. Empty \in Flashes /\ Mixed \in Cells /\ 0 \in 0 .. NBlocks /\ "IDLE" \in States
  BY CellsAre, SizesAssumption DEF States
<1> QED
  BY <1>1 DEF Fresh, Sessions, Digests

\* A restart into slot s with the session gone, and the slots whole.
LEMMA BootsKeeps ==
  ASSUME DevInv, NEW s \in Slots, NEW t \in BOOLEAN, Boots(s, t),
         flash' \in [Slots -> Flashes], tbyb' = tbyb, StartableIsWhole',
         \E i \in Images : \A k \in Head : flash'[s][k] = Block(i, k),
         IF t THEN /\ \E i \in Images : \A k \in Head : flash'[Other(s)][k] = Block(i, k)
                   /\ ~tbyb[Other(s)]
              ELSE ~tbyb[s]
  PROVE  DevInv'
<1>1. run' = s /\ trial' = t /\ Target' = Other(s)
  BY DEF Boots, Target
<1>2. dev' \in Sessions /\ dev'.state = "IDLE" /\ dev'.of = "none"
  BY FreshIs DEF Boots
<1>3. DevTypes'
  BY <1>1, <1>2 DEF DevInv, DevTypes, SlotTypes
<1>4. RunStarts'
  BY <1>1 DEF RunStarts, Startable, Bought
<1>5. SessionSparesTrial' /\ HeadIsBlank' /\ VerifiedIsWhole' /\ DigestIsRunning'
  BY <1>2 DEF SessionSparesTrial, HeadIsBlank, VerifiedIsWhole, DigestIsRunning, InSession
<1> QED
  BY <1>3, <1>4, <1>5 DEF DevInv, SlotInv

LEMMA BootsNormallyKeeps ==
  ASSUME DevInv, BootsNormally,
         flash' \in [Slots -> Flashes], tbyb' = tbyb, StartableIsWhole'
  PROVE  DevInv'
BY BootsKeeps DEF BootsNormally

LEMMA RestartKeeps ==
  ASSUME DevInv, Restart
  PROVE  DevInv'
<1>1. UNCHANGED <<flash, tbyb>> /\ flash' \in [Slots -> Flashes]
  BY DEF Restart, DevInv, DevTypes, SlotTypes
<1>2. StartableIsWhole'
  BY <1>1 DEF DevInv, SlotInv, StartableIsWhole, Startable, Holds
<1> QED
  BY <1>1, <1>2, BootsNormallyKeeps DEF Restart

LEMMA RestartsIntoSlotKeeps ==
  ASSUME DevInv, RestartsIntoSlot
  PROVE  DevInv'
<1>1. UNCHANGED <<flash, tbyb>> /\ flash' \in [Slots -> Flashes]
  BY DEF RestartsIntoSlot, DevInv, DevTypes, SlotTypes
<1>2. StartableIsWhole'
  BY <1>1 DEF DevInv, SlotInv, StartableIsWhole, Startable, Holds
<1>3. CASE Startable(Target) /\ Boots(Target, TRUE)
  <2>1. Target \in Slots /\ Other(Target) = run
    BY TargetIs DEF DevInv, DevTypes
  <2>2. Startable(run) /\ ~tbyb[run]
    BY DEF RestartsIntoSlot, DevInv, SlotInv, SessionSparesTrial, RunStarts
  <2> QED
    BY <1>1, <1>2, <1>3, <2>1, <2>2, BootsKeeps DEF Startable
<1>4. CASE BootsNormally
  BY <1>1, <1>2, <1>4, BootsNormallyKeeps
<1> QED
  BY <1>3, <1>4 DEF RestartsIntoSlot

\* A slot in which a sector is torn is not started, or was not before.
LEMMA CutKeeps ==
  ASSUME DevInv, RunTypes, Cut
  PROVE  DevInv'
<1>1. PICK w \in MayWrite :
        /\ Written(w.slot, Sector(w.at), [k \in Blocks |-> Torn])
        /\ UNCHANGED tbyb /\ BootsNormally
  BY DEF Cut
<1>2. w.slot \in Slots /\ w.at \in Blocks
  BY DEF MayWrite
<1>3. /\ flash' \in [Slots -> Flashes]
      /\ \A k \in Sector(w.at) : flash'[w.slot][k] = Torn
      /\ \A k \in Blocks \ Sector(w.at) : flash'[w.slot][k] = flash[w.slot][k]
      /\ \A t \in Slots : t # w.slot => flash'[t] = flash[t]
  BY <1>1, <1>2, WrittenIs, CellsAre DEF DevInv, DevTypes, Sector
<1>4. ~Startable(w.slot)'
  <2>1. CASE w.at \in Head
    BY <1>2, <1>3, <2>1, HeadIs, CellsAre DEF Startable, Head, Sector
  <2>2. CASE w.at \notin Head
    <3>1. w.slot = Target /\ dev.state = "RECEIVING"
      BY <2>2 DEF MayWrite, InOrder
    <3>2. flash[Target][0] = Blank
      BY <3>1, HeadIs DEF DevInv, SlotInv, HeadIsBlank, InSession
    <3>3. flash'[w.slot][0] = Blank
      BY <1>2, <1>3, <2>2, <3>1, <3>2, HeadIs, SectorIs
    <3> QED
      BY <1>2, <3>3, HeadIs, CellsAre DEF Startable
  <2> QED
    BY <2>1, <2>2
<1>5. StartableIsWhole'
  <2>1. ASSUME NEW s \in Slots, s # w.slot
        PROVE  Startable(s)' => \E i \in Images : Holds(s, i)'
    BY <1>3, <2>1 DEF DevInv, SlotInv, StartableIsWhole, Startable, Holds
  <2> QED
    BY <1>4, <2>1 DEF StartableIsWhole
<1> QED
  BY <1>1, <1>3, <1>5, BootsNormallyKeeps

-----------------------------------------------------------------------------
(* The run's helpers.                                                      *)

Same(h, g) == h.img = g.img /\ h.slot = g.slot /\ h.block = g.block

LEMMA StartedIs ==
  ASSUME NEW i \in Images, NEW phase \in Phases
  PROVE  /\ Started(i, phase) \in Runs /\ Started(i, phase).phase = phase
         /\ Started(i, phase).img = i /\ Started(i, phase).result = "none"
BY SizesAssumption DEF Started, Runs, Results

LEMMA DoneIs ==
  ASSUME NEW h \in Runs, NEW r \in Results
  PROVE  /\ Done(h, r) \in Runs /\ Done(h, r).phase = "DONE"
         /\ Done(h, r).img = h.img /\ Done(h, r).result = r
<1>1. h.img \in Images /\ "DONE" \in Phases
  BY DEF Runs, Phases
<1> QED
  BY <1>1, StartedIs DEF Done, Runs

LEMMA HeardIs ==
  ASSUME NEW h \in Runs
  PROVE  Heard(h) \in Runs /\ Same(Heard(h), h) /\ Heard(h).phase = h.phase
BY SizesAssumption DEF Heard, Runs, Same

LEMMA MissedIs ==
  ASSUME NEW h \in Runs
  PROVE  /\ Missed(h) \in Runs /\ Missed(h).img = h.img
         /\ \/ Missed(h).phase = "DONE" /\ Missed(h).result = "NO_ANSWER"
            \/ Same(Missed(h), h) /\ Missed(h).phase = h.phase
<1>1. CASE h.missed = Lost
  BY <1>1, DoneIs DEF Missed, Results
<1>2. CASE h.missed # Lost
  <2>1. h.missed + 1 \in 0 .. Lost
    BY <1>2, SizesAssumption DEF Runs
  <2> QED
    BY <1>2, <2>1 DEF Missed, Runs, Same
<1> QED
  BY <1>1, <1>2

LEMMA WaitGateIs ==
  ASSUME NEW h \in Runs
  PROVE  /\ WaitGate(h) \in Runs /\ WaitGate(h).img = h.img
         /\ \/ WaitGate(h).phase = "DONE" /\ WaitGate(h).result = "BUSY"
            \/ Same(WaitGate(h), h) /\ WaitGate(h).phase = h.phase
<1>1. CASE h.busy = BusyTries
  BY <1>1, DoneIs DEF WaitGate, Results
<1>2. CASE h.busy # BusyTries
  <2>1. h.busy + 1 \in 0 .. BusyTries
    BY <1>2, SizesAssumption DEF Runs
  <2> QED
    BY <1>2, <2>1 DEF WaitGate, Runs, Same
<1> QED
  BY <1>1, <1>2

LEMMA StartOverIs ==
  ASSUME NEW h \in Runs
  PROVE  /\ StartOver(h) \in Runs /\ StartOver(h).img = h.img
         /\ \/ StartOver(h).phase = "DONE" /\ StartOver(h).result = "RESTARTED_OUT"
            \/ StartOver(h).slot = h.slot /\ StartOver(h).phase = "BEGIN"
<1>1. CASE h.restarts = Restarts
  BY <1>1, DoneIs DEF StartOver, Results
<1>2. CASE h.restarts # Restarts
  <2>1. /\ h.restarts + 1 \in 0 .. Restarts /\ 0 \in 0 .. NBlocks /\ 0 \in 0 .. BlockTries + 1
        /\ 0 \in 0 .. BusyTries /\ "BEGIN" \in Phases
    BY <1>2, SizesAssumption DEF Runs, Phases
  <2> QED
    BY <1>2, <2>1 DEF StartOver, Runs
<1> QED
  BY <1>1, <1>2

LEMMA ResyncIs ==
  ASSUME NEW h \in Runs, NEW from \in {"SEND", "FINISH"}
  PROVE  /\ Resync(h, from) \in Runs /\ Resync(h, from).img = h.img
         /\ \/ h.phase = "DONE" /\ Resync(h, from) = h
            \/ /\ h.phase # "DONE" /\ Resync(h, from).slot = h.slot
               /\ Resync(h, from).phase = "RESYNC"
BY DEF Resync, Runs, Phases

LEMMA MissedResyncIs ==
  ASSUME NEW h \in Runs, NEW from \in {"SEND", "FINISH"}, h.phase # "DONE"
  PROVE  /\ Resync(Missed(h), from) \in Runs /\ Resync(Missed(h), from).img = h.img
         /\ \/ /\ Resync(Missed(h), from).phase = "DONE"
               /\ Resync(Missed(h), from).result = "NO_ANSWER"
            \/ /\ Resync(Missed(h), from).slot = h.slot
               /\ Resync(Missed(h), from).phase = "RESYNC"
<1> DEFINE g == Missed(h)
<1>1. /\ g \in Runs /\ g.img = h.img
      /\ \/ g.phase = "DONE" /\ g.result = "NO_ANSWER"
         \/ g.slot = h.slot /\ g.phase # "DONE"
  BY MissedIs DEF Same
<1> HIDE DEF g
<1>2. /\ Resync(g, from) \in Runs /\ Resync(g, from).img = g.img
      /\ \/ g.phase = "DONE" /\ Resync(g, from) = g
         \/ g.phase # "DONE" /\ Resync(g, from).slot = g.slot /\ Resync(g, from).phase = "RESYNC"
  BY <1>1, ResyncIs
<1>3. \/ Resync(g, from).phase = "DONE" /\ Resync(g, from).result = "NO_ANSWER"
      \/ Resync(g, from).slot = h.slot /\ Resync(g, from).phase = "RESYNC"
  BY <1>1, <1>2
<1>4. Missed(h) = g
  BY DEF g
<1> QED
  BY <1>1, <1>2, <1>3, <1>4

\* A phase set by hand.
LEMMA PhaseSetIs ==
  ASSUME NEW h \in Runs, NEW phase \in Phases
  PROVE  LET g == [h EXCEPT !.phase = phase]
         IN  g \in Runs /\ Same(g, h) /\ g.phase = phase
BY DEF Runs, Same

\* What the panel makes of a run that has ended, or goes on.
LEMMA GoesOn ==
  ASSUME NEW h \in Runs, PanelGoesOn(h), cu \in {"idle", "checking", "offered", "updating", "confirming"}
  PROVE  /\ host' \in Runs /\ host'.img = h.img
         /\ \/ h.phase # "DONE" /\ host' = h /\ cu' = cu
            \/ /\ h.phase = "DONE" /\ host' = h /\ cu' \in {"idle", "offered"}
               /\ cu' = "offered" => cu = "checking" /\ h.result = "DIFFERENT"
            \/ /\ h.phase = "DONE" /\ cu = "checking" /\ h.result = "TRIAL"
               /\ cu' = "confirming" /\ host'.phase = "BUY" /\ host'.result = "none"
            \/ /\ h.phase = "DONE" /\ cu = "confirming" /\ h.result = "UPDATED"
               /\ cu' = "checking" /\ host'.phase = "CHECK_ASK" /\ host'.result = "none"
<1>1. h.img \in Images /\ "BUY" \in Phases /\ "CHECK_ASK" \in Phases
  BY DEF Runs, Phases
<1>2. CASE h.phase # "DONE"
  BY <1>2 DEF PanelGoesOn
<1>3. CASE h.phase = "DONE" /\ cu = "checking" /\ h.result = "TRIAL"
  BY <1>1, <1>3, StartedIs DEF PanelGoesOn
<1>4. CASE h.phase = "DONE" /\ cu = "confirming" /\ h.result = "UPDATED"
  BY <1>1, <1>4, StartedIs DEF PanelGoesOn, CheckStarts
<1>5. CASE /\ h.phase = "DONE" /\ ~(cu = "checking" /\ h.result = "TRIAL")
           /\ ~(cu = "confirming" /\ h.result = "UPDATED")
  BY <1>5 DEF PanelGoesOn
<1> QED
  BY <1>2, <1>3, <1>4, <1>5

-----------------------------------------------------------------------------
(* What a step of the run does with h, the run as the exchange leaves it.  *)

Quiet == ~trial /\ dev.state # "ACTIVATED"

Turns(h) == Works /\ h \in Runs /\ h.img = host.img /\ PanelGoesOn(h)

CheckTurn(h) ==
  /\ Turns(h) /\ steady' = steady
  /\ host.phase \in Checks /\ h.phase \in Checks \cup {"DONE"}
  /\ h.phase \in Checks \ {"CHECK_ASK"} => Quiet \/ host.phase # "CHECK_ASK"
  /\ h.phase = "DONE" => h.result # "UPDATED"
  /\ h.phase = "DONE" /\ h.result \in {"SAME", "DIFFERENT"} =>
       /\ host.phase = "CHECK_WAIT" /\ dev.of = "running"
       /\ h.result = "SAME" <=> dev.digest = h.img

SendTurn(h) ==
  /\ Turns(h) /\ host.phase \in Sending
  /\ \/ h.phase = "DONE" /\ h.result # "UPDATED" /\ steady' \in BOOLEAN
     \/ h.phase = "PREPARE" /\ host.phase = "PREPARE" /\ steady' = steady
     \/ h.phase = "BEGIN" /\ host.phase = "PREPARE" /\ h.slot = run /\ steady' \in BOOLEAN
     \/ /\ h.phase \in Sending \ {"PREPARE"} /\ host.phase # "PREPARE"
        /\ h.slot = host.slot /\ steady' = steady
     \/ /\ h.phase = "RESTARTING" /\ host.phase = "ACTIVATE"
        /\ h.slot = host.slot /\ steady' = steady
  /\ h.phase = "ACTIVATE" =>
       \/ host.phase = "ACTIVATE"
       \/ host.phase = "VERIFY" /\ dev' = dev /\ dev.state = "VERIFIED" /\ dev.digest = h.img
  /\ host.phase = "ACTIVATE" /\ dev'.state = "ACTIVATED" =>
       h.phase = "RESTARTING" \/ dev.state = "ACTIVATED"
  /\ h.phase \in {"SEND", "COMMIT"} => h.block < NBlocks

WaitTurn(h) ==
  /\ Turns(h) /\ host.phase = "RESTARTING" /\ UNCHANGED <<slots, dev>>
  /\ \/ h.phase = "RESTARTING" /\ h.slot = host.slot /\ steady' = steady
     \/ h.phase = "BUY" /\ trial /\ steady' \in BOOLEAN
     \/ /\ h.phase = "DONE" /\ steady' = steady
        /\ h.result = "UPDATED" => ~trial /\ run # host.slot

BuyTurn(h) ==
  /\ Turns(h) /\ steady' = steady
  /\ host.phase \in Confirms /\ h.phase \in Confirms \cup {"DONE"}
  /\ h.phase = "DONE" /\ h.result = "UPDATED" =>
       host.phase = "BUY_READ" /\ ~trial /\ UNCHANGED <<slots, dev>>

LEMMA KeptWorks ==
  ASSUME DevInv, UNCHANGED <<slots, dev>>
  PROVE  Works
BY DEF DevInv, DevTypes, Works, Stays

\* An exchange that is taken, or never arrives.
LEMMA ExchangeWorks ==
  ASSUME DevInv, dev' = dev, NothingWritten
  PROVE  Works
BY KeptWorks DEF NothingWritten

LEMMA CheckAskTurns ==
  ASSUME DevInv, RunTypes, CheckAsk
  PROVE  \E h \in Runs : CheckTurn(h)
<1>1. host \in Runs /\ Heard(host) \in Runs /\ Heard(host).img = host.img
  BY HeardIs DEF RunTypes, Same
<1>2. host.phase = "CHECK_ASK" /\ UNCHANGED <<slots, dev>> /\ Works
  BY KeptWorks DEF CheckAsk, Answered, Unanswered
<1>3. CASE Unanswered("CHECK_ASK", Missed(host))
  BY <1>1, <1>2, <1>3, MissedIs DEF Unanswered, CheckTurn, Turns, Checks, Same
<1>4. CASE Answered("CHECK_ASK", AfterCheckAsk)
  <2>1. PICK h \in AfterCheckAsk(Heard(host)) : PanelGoesOn(h) /\ Sees(h)
    BY <1>4 DEF Answered
  <2> DEFINE g == Heard(host)
  <2>2. g \in Runs /\ g.img = host.img /\ g.phase = "CHECK_ASK"
    BY <1>1, <1>2, HeardIs
  <2> HIDE DEF g
  <2>3. h \in AfterCheckAsk(g)
    BY DEF g
  <2>4. \/ h \in {Done(g, "TRIAL"), Done(g, "REFUSED")}
        \/ h = g
        \/ Quiet /\ \E phase \in Checks : h = [g EXCEPT !.phase = phase]
    <3>1. CASE trial
      BY <2>3, <3>1 DEF AfterCheckAsk
    <3>2. CASE ~trial /\ dev.state = "ACTIVATED"
      BY <2>3, <3>2 DEF AfterCheckAsk, InSession
    <3>3. CASE Quiet /\ dev.state = "HASHING"
      BY <2>3, <3>3 DEF AfterCheckAsk, Quiet, Checks
    <3>4. CASE Quiet /\ dev.state # "HASHING" /\ InSession(dev)
      BY <2>3, <3>4 DEF AfterCheckAsk, Quiet, Checks
    <3>5. CASE Quiet /\ dev.state # "HASHING" /\ ~InSession(dev)
      BY <2>3, <3>5 DEF AfterCheckAsk, Quiet, Checks
    <3> QED
      BY <3>1, <3>2, <3>3, <3>4, <3>5 DEF Quiet
  <2>5. /\ h \in Runs /\ h.img = host.img /\ h.phase \in Checks \cup {"DONE"}
        /\ h.phase \in Checks \ {"CHECK_ASK"} => Quiet
        /\ h.phase = "DONE" => h.result \in {"TRIAL", "REFUSED"}
    <3>1. CASE h \in {Done(g, "TRIAL"), Done(g, "REFUSED")}
      BY <2>2, <3>1, DoneIs DEF Results, Checks
    <3>2. CASE h = g
      BY <2>2, <3>2 DEF Checks
    <3>3. CASE Quiet /\ \E phase \in Checks : h = [g EXCEPT !.phase = phase]
      <4>1. PICK phase \in Checks : h = [g EXCEPT !.phase = phase]
        BY <3>3
      <4>2. phase \in Phases
        BY DEF Checks, Phases
      <4> QED
        BY <2>2, <3>3, <4>1, <4>2, PhaseSetIs DEF Checks, Same
    <3> QED
      BY <2>4, <3>1, <3>2, <3>3
  <2>6. steady' = steady
    BY <1>2, <2>1, <2>5 DEF Sees, RunTypes, Checks
  <2> QED
    BY <1>2, <2>1, <2>5, <2>6 DEF CheckTurn, Turns, Checks
<1> QED
  BY <1>3, <1>4 DEF CheckAsk

\* The run as it is asked with, and as it is answered with.
Asking(g) == g \in Runs /\ Same(g, host) /\ g.phase = host.phase

LEMMA AskingIs ==
  ASSUME RunTypes
  PROVE  Asking(host) /\ Asking(Heard(host))
BY HeardIs DEF RunTypes, Asking, Same

LEMMA CheckAbortTurns ==
  ASSUME DevInv, RunTypes, CheckAbort
  PROVE  \E h \in Runs : CheckTurn(h)
<1>1. host.phase = "CHECK_ABORT" /\ Works /\ steady' = steady
  BY AbortWorks, ExchangeWorks DEF CheckAbort, Ask, DevInv
<1>2. PICK g, reply : Asking(g) /\ PanelGoesOn(AfterAbort(g, reply))
  BY AskingIs DEF CheckAbort, Ask
<1> DEFINE h == AfterAbort(g, reply)
<1>3. /\ h \in Runs /\ h.img = host.img /\ h.phase \in {"CHECK_ASK", "DONE"}
      /\ h.phase = "DONE" => h.result \in {"NO_ANSWER", "REFUSED"}
  <2>1. CASE reply = "none"
    <3> DEFINE f == [g EXCEPT !.phase = "CHECK_ASK"]
    <3>1. f \in Runs /\ f.img = host.img /\ f.phase = "CHECK_ASK"
      BY ZenonT(60), <1>2, PhaseSetIs DEF Asking, Phases, Same
    <3>2. h = Missed(f)
      BY <2>1 DEF AfterAbort
    <3> HIDE DEF f, h
    <3> QED
      BY <3>1, <3>2, MissedIs DEF Same
  <2>2. CASE reply = "ok"
    BY <1>2, <2>2 DEF AfterAbort, Asking, Same, Runs, Phases
  <2>3. CASE reply \notin {"none", "ok"}
    BY <1>2, <2>3, DoneIs DEF AfterAbort, Asking, Same, Results
  <2> QED
    BY <2>1, <2>2, <2>3
<1> HIDE DEF h
<1> QED
  BY <1>1, <1>2, <1>3 DEF CheckTurn, Turns, Checks, h

LEMMA CheckHashTurns ==
  ASSUME DevInv, RunTypes, CheckHash
  PROVE  \E h \in Runs : CheckTurn(h)
<1>1. host.phase = "CHECK_HASH" /\ Works /\ steady' = steady
  BY HashRunningWorks, ExchangeWorks DEF CheckHash, Ask, DevInv
<1>2. PICK g, reply : Asking(g) /\ PanelGoesOn(AfterHash(g, reply))
  BY AskingIs DEF CheckHash, Ask
<1> DEFINE h == AfterHash(g, reply)
<1>3. /\ h \in Runs /\ h.img = host.img /\ h.phase \in {"CHECK_ASK", "CHECK_WAIT", "DONE"}
      /\ h.phase = "DONE" => h.result \in {"NO_ANSWER", "REFUSED"}
  <2>1. CASE reply = "none"
    <3> DEFINE f == [g EXCEPT !.phase = "CHECK_ASK"]
    <3>1. f \in Runs /\ f.img = host.img /\ f.phase = "CHECK_ASK"
      BY ZenonT(60), <1>2, PhaseSetIs DEF Asking, Phases, Same
    <3>2. h = Missed(f)
      BY <2>1 DEF AfterHash
    <3> HIDE DEF f, h
    <3> QED
      BY <3>1, <3>2, MissedIs DEF Same
  <2>2. CASE reply = "ok"
    BY ZenonT(60), <1>2, <2>2, PhaseSetIs DEF AfterHash, Asking, Same, Phases
  <2>3. CASE reply \notin {"none", "ok"}
    BY <1>2, <2>3, DoneIs DEF AfterHash, Asking, Same, Results
  <2> QED
    BY <2>1, <2>2, <2>3
<1> HIDE DEF h
<1> QED
  BY <1>1, <1>2, <1>3 DEF CheckTurn, Turns, Checks, h

LEMMA CheckWaitTurns ==
  ASSUME DevInv, RunTypes, CheckWait
  PROVE  \E h \in Runs : CheckTurn(h)
<1>1. host.phase = "CHECK_WAIT" /\ UNCHANGED <<slots, dev>> /\ Works
  BY KeptWorks DEF CheckWait, Answered, Unanswered
<1>2. CASE Unanswered("CHECK_WAIT", Missed(host))
  <2>1. Missed(host) \in Runs /\ PanelGoesOn(Missed(host)) /\ steady' = steady
    BY <1>2, MissedIs DEF Unanswered, RunTypes
  <2> QED
    BY <1>1, <2>1, MissedIs DEF CheckTurn, Turns, Checks, Same, RunTypes
<1>3. CASE Answered("CHECK_WAIT", AfterCheckWait)
  <2>1. PICK h \in AfterCheckWait(Heard(host)) : PanelGoesOn(h) /\ Sees(h)
    BY <1>3 DEF Answered
  <2> DEFINE g == Heard(host)
  <2>2. g \in Runs /\ g.img = host.img /\ g.phase = "CHECK_WAIT"
    BY <1>1, AskingIs DEF Asking, Same
  <2>3. h \in AfterCheckWait(g)
    OBVIOUS
  <2> HIDE DEF g
  <2>4. \/ h = g
        \/ \E r \in {"NO_ANSWER", "REFUSED"} : h = Done(g, r)
        \/ \E r \in {"SAME", "DIFFERENT"} :
             h = Done(g, r) /\ dev.of = "running" /\ (r = "SAME" <=> dev.digest = g.img)
    BY <2>3 DEF AfterCheckWait
  <2>5. /\ h \in Runs /\ h.img = host.img /\ h.phase \in {"CHECK_WAIT", "DONE"}
        /\ h.phase = "DONE" => h.result # "UPDATED"
        /\ h.phase = "DONE" /\ h.result \in {"SAME", "DIFFERENT"} =>
             /\ dev.of = "running"
             /\ h.result = "SAME" <=> dev.digest = h.img
    BY <2>2, <2>4, DoneIs DEF Results
  <2>6. steady' = steady
    BY <1>1, <2>1, <2>5 DEF Sees, RunTypes
  <2> QED
    BY <1>1, <2>1, <2>5, <2>6 DEF CheckTurn, Turns, Checks
<1> QED
  BY <1>2, <1>3 DEF CheckWait

\* A miss, in a phase of its own or after it.
LEMMA MissedSends ==
  ASSUME RunTypes, NEW g, Asking(g), g.phase \in Sending
  PROVE  /\ Missed(g) \in Runs /\ Missed(g).img = host.img
         /\ \/ Missed(g).phase = "DONE" /\ Missed(g).result = "NO_ANSWER"
            \/ /\ Missed(g).phase = host.phase /\ Missed(g).slot = host.slot
               /\ Missed(g).block = host.block
BY MissedIs DEF Asking, Same

LEMMA PrepareTurns ==
  ASSUME DevInv, RunTypes, Prepare
  PROVE  \E h \in Runs : SendTurn(h)
<1>1. host.phase = "PREPARE" /\ UNCHANGED <<slots, dev>> /\ Works
  BY KeptWorks DEF Prepare, Answered, Unanswered
<1>2. CASE Unanswered("PREPARE", Missed(host))
  <2>1. PanelGoesOn(Missed(host)) /\ steady' = steady /\ steady \in BOOLEAN
    BY <1>2 DEF Unanswered, RunTypes
  <2> QED
    BY <1>1, <2>1, MissedSends, AskingIs DEF SendTurn, Turns, Sending
<1>3. CASE Answered("PREPARE", AfterPrepare)
  <2> DEFINE g == Heard(host)
             h == [g EXCEPT !.slot = run, !.phase = "BEGIN"]
  <2>1. PanelGoesOn(h) /\ Sees(h)
    BY <1>3 DEF Answered, AfterPrepare
  <2>2. g \in Runs /\ g.img = host.img /\ run \in Slots \cup {"none"} /\ "BEGIN" \in Phases
    BY AskingIs DEF Asking, Same, DevInv, DevTypes, SlotTypes, Phases
  <2>3. h \in Runs /\ h.img = host.img /\ h.phase = "BEGIN" /\ h.slot = run
    <3> HIDE DEF g
    <3> QED
      BY <2>2 DEF Runs
  <2>4. steady' \in BOOLEAN
    BY <2>1 DEF Sees
  <2> HIDE DEF h
  <2> QED
    BY <1>1, <2>1, <2>3, <2>4 DEF SendTurn, Turns, Sending
<1> QED
  BY <1>2, <1>3 DEF Prepare

LEMMA SendBeginTurns ==
  ASSUME DevInv, RunTypes, SendBegin
  PROVE  \E h \in Runs : SendTurn(h)
<1>1. host.phase = "BEGIN" /\ Works /\ steady' = steady /\ steady \in BOOLEAN
  BY BeginWorks, ExchangeWorks DEF SendBegin, Ask, DevInv, RunTypes
<1>2. PICK g, reply : Asking(g) /\ PanelGoesOn(AfterBegin(g, reply))
  BY AskingIs DEF SendBegin, Ask
<1> DEFINE h == AfterBegin(g, reply)
<1>3. g \in Runs /\ g.img = host.img /\ g.slot = host.slot /\ g.phase = "BEGIN"
  BY <1>1, <1>2 DEF Asking, Same
<1>4. /\ h \in Runs /\ h.img = host.img
      /\ \/ h.phase = "DONE" /\ h.result # "UPDATED"
         \/ h.phase \in {"BEGIN", "SEND"} /\ h.slot = host.slot
      /\ h.phase \in {"SEND", "COMMIT"} => h.block < NBlocks
  <2>1. CASE reply = "none"
    BY <1>3, <2>1, MissedIs DEF AfterBegin, Same
  <2>2. CASE reply = "busy"
    BY <1>3, <2>2, WaitGateIs DEF AfterBegin, Same
  <2>3. CASE reply = "ok"
    <3>1. 0 \in 0 .. BusyTries /\ 0 \in 0 .. NBlocks /\ 0 < NBlocks /\ "SEND" \in Phases
      BY SizesAssumption DEF Phases
    <3> QED
      BY <1>3, <2>3, <3>1 DEF AfterBegin, Runs
  <2>4. CASE reply \notin {"none", "busy", "ok"}
    BY <1>3, <2>4, DoneIs DEF AfterBegin, Results
  <2> QED
    BY <2>1, <2>2, <2>3, <2>4
<1> HIDE DEF h
<1> QED
  BY <1>1, <1>2, <1>4 DEF SendTurn, Turns, Sending, h

\* A block or a digest staged, in whole or in part.
LEMMA SendDataTurns ==
  ASSUME DevInv, RunTypes, SendData
  PROVE  \E h \in Runs : SendTurn(h)
<1>1. host.phase = "SEND" /\ steady' = steady /\ steady \in BOOLEAN /\ host.block < NBlocks
  BY DEF SendData, Ask, RunTypes
<1>2. Works
  <2>1. Block(host.img, host.block) \in Cells /\ Mixed \in Cells
    BY CellsAre DEF RunTypes, Runs
  <2> QED
    BY <2>1, DataStays, ExchangeWorks DEF SendData, Ask, StageBlock, DevInv
<1>3. PICK g, reply : Asking(g) /\ PanelGoesOn(AfterData(g, reply))
  BY AskingIs DEF SendData, Ask
<1> DEFINE h == AfterData(g, reply)
<1>4. /\ g \in Runs /\ g.img = host.img /\ g.slot = host.slot /\ g.phase = "SEND"
      /\ g.block = host.block
  BY <1>1, <1>3 DEF Asking, Same
<1>5. /\ h \in Runs /\ h.img = host.img
      /\ \/ h.phase = "DONE" /\ h.result # "UPDATED"
         \/ h.phase \in {"RESYNC", "COMMIT"} /\ h.slot = host.slot
      /\ h.phase \in {"SEND", "COMMIT"} => h.block < NBlocks
  <2>1. CASE reply = "none"
    BY <1>4, <2>1, MissedResyncIs DEF AfterData
  <2>2. CASE reply # "none"
    <3>1. h = [g EXCEPT !.phase = "COMMIT"] /\ "COMMIT" \in Phases
      BY <2>2 DEF AfterData, Phases
    <3>2. h \in Runs /\ Same(h, g) /\ h.phase = "COMMIT"
      BY <1>4, <3>1, PhaseSetIs
    <3> HIDE DEF h
    <3> QED
      BY <1>1, <1>4, <3>2 DEF Same
  <2> QED
    BY <2>1, <2>2
<1> HIDE DEF h
<1> QED
  BY <1>1, <1>2, <1>3, <1>5 DEF SendTurn, Turns, Sending, h

LEMMA SendDigestTurns ==
  ASSUME DevInv, RunTypes, SendDigest
  PROVE  \E h \in Runs : SendTurn(h)
<1>1. host.phase = "FINISH_DATA" /\ steady' = steady /\ steady \in BOOLEAN
  BY DEF SendDigest, Ask, RunTypes
<1>2. Works
  <2>1. Digest(host.img) \in Cells /\ Mixed \in Cells
    BY CellsAre, SizesAssumption DEF RunTypes, Runs, Digest
  <2> QED
    BY <2>1, DataStays, ExchangeWorks DEF SendDigest, Ask, StageDigest, DevInv
<1>3. PICK g, reply : Asking(g) /\ PanelGoesOn(AfterFinishData(g, reply))
  BY AskingIs DEF SendDigest, Ask
<1> DEFINE h == AfterFinishData(g, reply)
<1>4. g \in Runs /\ g.img = host.img /\ g.slot = host.slot /\ g.phase = "FINISH_DATA"
  BY <1>1, <1>3 DEF Asking, Same
<1>5. /\ h \in Runs /\ h.img = host.img
      /\ \/ h.phase = "DONE" /\ h.result # "UPDATED"
         \/ h.phase \in {"RESYNC", "FINISH"} /\ h.slot = host.slot
  <2>1. CASE reply = "none"
    BY <1>4, <2>1, MissedResyncIs DEF AfterFinishData
  <2>2. CASE reply # "none"
    <3>1. h = [g EXCEPT !.phase = "FINISH"] /\ "FINISH" \in Phases
      BY <2>2 DEF AfterFinishData, Phases
    <3>2. h \in Runs /\ Same(h, g) /\ h.phase = "FINISH"
      BY <1>4, <3>1, PhaseSetIs
    <3> HIDE DEF h
    <3> QED
      BY <1>4, <3>2 DEF Same
  <2> QED
    BY <2>1, <2>2
<1> HIDE DEF h
<1> QED
  BY <1>1, <1>2, <1>3, <1>5 DEF SendTurn, Turns, Sending, h

LEMMA SendFinishTurns ==
  ASSUME DevInv, RunTypes, SendFinish
  PROVE  \E h \in Runs : SendTurn(h)
<1>1. host.phase = "FINISH" /\ Works /\ steady' = steady /\ steady \in BOOLEAN
  BY FinishWorks, ExchangeWorks DEF SendFinish, Ask, RunTypes
<1>2. PICK g, reply : Asking(g) /\ PanelGoesOn(AfterFinish(g, reply))
  BY AskingIs DEF SendFinish, Ask
<1> DEFINE h == AfterFinish(g, reply)
<1>3. g \in Runs /\ g.img = host.img /\ g.slot = host.slot /\ g.phase = "FINISH"
  BY <1>1, <1>2 DEF Asking, Same
<1>4. /\ h \in Runs /\ h.img = host.img
      /\ \/ h.phase = "DONE" /\ h.result # "UPDATED"
         \/ h.phase \in {"RESYNC", "VERIFY"} /\ h.slot = host.slot
  <2>1. CASE reply = "none"
    BY <1>3, <2>1, MissedResyncIs DEF AfterFinish
  <2>2. CASE reply = "ok"
    BY ZenonT(60), <1>3, <2>2, PhaseSetIs DEF AfterFinish, Same, Phases
  <2>3. CASE reply \notin {"none", "ok"}
    BY <1>3, <2>3, ResyncIs DEF AfterFinish
  <2> QED
    BY <2>1, <2>2, <2>3
<1> HIDE DEF h
<1> QED
  BY <1>1, <1>2, <1>4 DEF SendTurn, Turns, Sending, h

LEMMA SendCommitTurns ==
  ASSUME DevInv, RunTypes, SendCommit
  PROVE  \E h \in Runs : SendTurn(h)
<1>1. host.phase = "COMMIT" /\ steady' = steady /\ steady \in BOOLEAN /\ host.block < NBlocks
  BY DEF SendCommit, Ask, RunTypes
<1>2. Works
  BY <1>1, CommitWorks, ExchangeWorks DEF SendCommit, Ask, CommitBlock
<1>3. PICK g, reply : Asking(g) /\ PanelGoesOn(AfterCommit(g, reply))
  BY AskingIs DEF SendCommit, Ask
<1> DEFINE h == AfterCommit(g, reply)
<1>4. /\ g \in Runs /\ g.img = host.img /\ g.slot = host.slot /\ g.phase = "COMMIT"
      /\ g.block = host.block
  BY <1>1, <1>3 DEF Asking, Same
<1>5. /\ h \in Runs /\ h.img = host.img
      /\ \/ h.phase = "DONE" /\ h.result # "UPDATED"
         \/ h.phase \in {"RESYNC", "FINISH_DATA", "SEND"} /\ h.slot = host.slot
      /\ h.phase \in {"SEND", "COMMIT"} => h.block < NBlocks
  <2>1. CASE reply = "none"
    BY <1>4, <2>1, MissedResyncIs DEF AfterCommit
  <2>2. CASE reply = "busy"
    <3> DEFINE f == [g EXCEPT !.phase = "SEND"]
    <3>1. /\ f \in Runs /\ f.img = host.img /\ f.slot = host.slot /\ f.phase = "SEND"
          /\ f.block = host.block
      BY ZenonT(60), <1>4, PhaseSetIs DEF Phases, Same
    <3>2. h = WaitGate(f)
      BY <2>2 DEF AfterCommit
    <3> HIDE DEF f, h
    <3> QED
      BY <1>1, <3>1, <3>2, WaitGateIs DEF Same
  <2>3. CASE reply = "bad"
    BY <1>4, <2>3, ResyncIs DEF AfterCommit
  <2>4. CASE reply \notin {"none", "busy", "bad"}
    <3>1. /\ 0 \in 0 .. BusyTries /\ g.block + 1 \in 0 .. NBlocks
          /\ "FINISH_DATA" \in Phases /\ "SEND" \in Phases
      BY <1>1, <1>4, SizesAssumption DEF Runs, Phases
    <3>2. h = [g EXCEPT !.busy = 0, !.block = g.block + 1,
                        !.phase = IF g.block + 1 >= NBlocks THEN "FINISH_DATA" ELSE "SEND"]
      BY <2>4 DEF AfterCommit
    <3>3. /\ h \in Runs /\ h.img = host.img /\ h.slot = host.slot /\ h.block = g.block + 1
          /\ h.phase = IF g.block + 1 >= NBlocks THEN "FINISH_DATA" ELSE "SEND"
      BY <1>4, <3>1, <3>2, ZenonT(60) DEF Runs
    <3> HIDE DEF h
    <3> QED
      BY <3>1, <3>3, SizesAssumption
  <2> QED
    BY <2>1, <2>2, <2>3, <2>4
<1> HIDE DEF h
<1> QED
  BY <1>1, <1>2, <1>3, <1>5 DEF SendTurn, Turns, Sending, h

LEMMA FromBlockIs ==
  ASSUME DevTypes, NEW h \in Runs
  PROVE  /\ FromBlock(h) \in Runs /\ FromBlock(h).img = h.img
         /\ \/ FromBlock(h).phase = "DONE" /\ FromBlock(h).result # "UPDATED"
            \/ /\ FromBlock(h).phase \in {"FINISH_DATA", "SEND"} /\ FromBlock(h).slot = h.slot
               /\ FromBlock(h).phase = "SEND" => FromBlock(h).block < NBlocks
<1> DEFINE again == dev.next = h.tried
           phase == IF dev.next >= NBlocks THEN "FINISH_DATA" ELSE "SEND"
           tries == IF again THEN h.tries + 1 ELSE 1
<1>1. CASE again /\ h.tries >= BlockTries
  BY <1>1, DoneIs DEF FromBlock, Results
<1>2. CASE ~(again /\ h.tries >= BlockTries)
  <2>1. dev.next \in 0 .. NBlocks /\ phase \in Phases /\ tries \in 0 .. BlockTries + 1
    BY <1>2, SizesAssumption DEF DevTypes, Sessions, Phases, Runs
  <2>2. FromBlock(h) = [h EXCEPT !.tried = dev.next, !.tries = tries, !.block = dev.next,
                                 !.phase = phase]
    BY <1>2 DEF FromBlock
  <2>3. phase \in {"FINISH_DATA", "SEND"} /\ (phase = "SEND" => dev.next < NBlocks)
    BY <2>1, SizesAssumption
  <2> HIDE DEF again, phase, tries
  <2> QED
    BY <2>1, <2>2, <2>3 DEF Runs
<1> QED
  BY <1>1, <1>2

LEMMA AfterResyncIs ==
  ASSUME DevTypes, NEW h \in Runs
  PROVE  /\ AfterResync(h) \in Runs /\ AfterResync(h).img = h.img
         /\ \/ AfterResync(h).phase = "DONE" /\ AfterResync(h).result # "UPDATED"
            \/ /\ AfterResync(h).phase \in {"FINISH_DATA", "SEND", "VERIFY", "BEGIN"}
               /\ AfterResync(h).slot = h.slot
               /\ AfterResync(h).phase = "SEND" => AfterResync(h).block < NBlocks
<1> DEFINE g == AfterResync(h)
<1>1. \/ g = FromBlock(h)
      \/ g = [h EXCEPT !.phase = "VERIFY"]
      \/ h.tries < BlockTries /\ g = [h EXCEPT !.tries = h.tries + 1, !.phase = "FINISH_DATA"]
      \/ g = Done(h, "BAD_DIGEST")
      \/ g = Done(h, "REFUSED")
      \/ g = StartOver(h)
  <2>1. h.tries \in Nat /\ BlockTries \in Nat
    BY SizesAssumption DEF Runs
  <2>2. CASE Continues(h)
    BY <2>2 DEF AfterResync, Continues
  <2>3. CASE ~Continues(h) /\ h.after = "FINISH" /\ dev.state \in {"VERIFYING", "VERIFIED"}
    BY <2>3 DEF AfterResync
  <2>4. CASE ~Continues(h) /\ h.after = "FINISH" /\ dev.state = "RECEIVED"
    BY <2>1, <2>4 DEF AfterResync
  <2>5. CASE ~Continues(h) /\ dev.state = "FAILED" /\ dev.digestFailed
    BY <2>5 DEF AfterResync
  <2>6. CASE ~Continues(h) /\ (dev.state \in {"IDLE", "HASHING"}
                                 \/ (dev.state = "FAILED" /\ ~dev.digestFailed))
    BY <2>6 DEF AfterResync
  <2>7. CASE /\ ~Continues(h)
             /\ ~(h.after = "FINISH" /\ dev.state \in {"VERIFYING", "VERIFIED"})
             /\ ~(h.after = "FINISH" /\ dev.state = "RECEIVED")
             /\ ~(dev.state = "FAILED" /\ dev.digestFailed)
             /\ ~(dev.state \in {"IDLE", "HASHING"}
                    \/ (dev.state = "FAILED" /\ ~dev.digestFailed))
    BY <2>7 DEF AfterResync
  <2> QED
    BY <2>2, <2>3, <2>4, <2>5, <2>6, <2>7
<1> HIDE DEF g
<1>2. /\ g \in Runs /\ g.img = h.img
      /\ \/ g.phase = "DONE" /\ g.result # "UPDATED"
         \/ /\ g.phase \in {"FINISH_DATA", "SEND", "VERIFY", "BEGIN"} /\ g.slot = h.slot
            /\ g.phase = "SEND" => g.block < NBlocks
  <2>1. CASE g = FromBlock(h)
    BY <2>1, FromBlockIs
  <2>2. CASE g = [h EXCEPT !.phase = "VERIFY"]
    BY <2>2, PhaseSetIs DEF Phases, Same
  <2>3. CASE h.tries < BlockTries /\ g = [h EXCEPT !.tries = h.tries + 1, !.phase = "FINISH_DATA"]
    <3>1. h.tries + 1 \in 0 .. BlockTries + 1 /\ "FINISH_DATA" \in Phases
      BY <2>3, SizesAssumption DEF Runs, Phases
    <3> QED
      BY <2>3, <3>1 DEF Runs
  <2>4. CASE g \in {Done(h, "BAD_DIGEST"), Done(h, "REFUSED")}
    BY <2>4, DoneIs DEF Results
  <2>5. CASE g = StartOver(h)
    BY <2>5, StartOverIs
  <2> QED
    BY <1>1, <2>1, <2>2, <2>3, <2>4, <2>5
<1>3. AfterResync(h) = g
  BY DEF g
<1> QED
  BY <1>2, <1>3

LEMMA AskWhereTurns ==
  ASSUME DevInv, RunTypes, AskWhere
  PROVE  \E h \in Runs : SendTurn(h)
<1>1. /\ host.phase = "RESYNC" /\ UNCHANGED <<slots, dev>> /\ Works
      /\ steady \in BOOLEAN
  BY KeptWorks DEF AskWhere, Answered, Unanswered, RunTypes
<1>2. CASE Unanswered("RESYNC", Missed(host))
  <2>1. PanelGoesOn(Missed(host)) /\ steady' = steady
    BY <1>2 DEF Unanswered
  <2> QED
    BY <1>1, <2>1, MissedSends, AskingIs DEF SendTurn, Turns, Sending
<1>3. CASE Answered("RESYNC", Resyncs)
  <2> DEFINE g == Heard(host)
             h == AfterResync(g)
  <2>1. PanelGoesOn(h) /\ Sees(h)
    BY <1>3 DEF Answered, Resyncs
  <2>2. g \in Runs /\ g.img = host.img /\ g.slot = host.slot
    BY AskingIs DEF Asking, Same
  <2> HIDE DEF g
  <2>3. /\ h \in Runs /\ h.img = host.img
        /\ \/ h.phase = "DONE" /\ h.result # "UPDATED"
           \/ /\ h.phase \in {"FINISH_DATA", "SEND", "VERIFY", "BEGIN"} /\ h.slot = host.slot
              /\ h.phase = "SEND" => h.block < NBlocks
    BY <2>2, AfterResyncIs DEF DevInv
  <2> HIDE DEF h
  <2>4. steady' = steady
    BY <1>1, <2>1, <2>3 DEF Sees
  <2> QED
    BY <1>1, <2>1, <2>3, <2>4 DEF SendTurn, Turns, Sending
<1> QED
  BY <1>2, <1>3 DEF AskWhere

LEMMA VerifyTurns ==
  ASSUME DevInv, RunTypes, Verify
  PROVE  \E h \in Runs : SendTurn(h)
<1>1. /\ host.phase = "VERIFY" /\ UNCHANGED <<slots, dev>> /\ Works
      /\ steady \in BOOLEAN
  BY KeptWorks DEF Verify, Answered, Unanswered, RunTypes
<1>2. CASE Unanswered("VERIFY", Missed(host))
  <2>1. PanelGoesOn(Missed(host)) /\ steady' = steady
    BY <1>2 DEF Unanswered
  <2> QED
    BY <1>1, <2>1, MissedSends, AskingIs DEF SendTurn, Turns, Sending
<1>3. CASE Answered("VERIFY", AfterVerify)
  <2>1. PICK h \in AfterVerify(Heard(host)) : PanelGoesOn(h) /\ Sees(h)
    BY <1>3 DEF Answered
  <2> DEFINE g == Heard(host)
  <2>2. g \in Runs /\ g.img = host.img /\ g.slot = host.slot /\ g.phase = "VERIFY"
    BY <1>1, AskingIs DEF Asking, Same
  <2>3. h \in AfterVerify(g)
    OBVIOUS
  <2> HIDE DEF g
  <2>4. \/ h = g
        \/ \E r \in {"NO_ANSWER", "BAD_DIGEST", "REFUSED"} : h = Done(g, r)
        \/ h = StartOver(g)
        \/ /\ h = [g EXCEPT !.phase = "ACTIVATE"]
           /\ dev.state = "VERIFIED" /\ dev.digest = g.img
    <3>1. CASE dev.state = "VERIFYING"
      BY <2>3, <3>1 DEF AfterVerify
    <3>2. CASE dev.state = "VERIFIED"
      BY <2>3, <3>2 DEF AfterVerify
    <3>3. CASE dev.state = "FAILED" /\ dev.digestFailed
      BY <2>3, <3>3 DEF AfterVerify
    <3>4. CASE dev.state = "IDLE" \/ (dev.state = "FAILED" /\ ~dev.digestFailed)
      BY <2>3, <3>4 DEF AfterVerify
    <3>5. CASE dev.state \notin {"VERIFYING", "VERIFIED", "FAILED", "IDLE"}
      BY <2>3, <3>5 DEF AfterVerify
    <3> QED
      BY <3>1, <3>2, <3>3, <3>4, <3>5
  <2>5. /\ h \in Runs /\ h.img = host.img
        /\ \/ h.phase = "DONE" /\ h.result # "UPDATED"
           \/ h.phase \in {"VERIFY", "BEGIN", "ACTIVATE"} /\ h.slot = host.slot
        /\ h.phase = "ACTIVATE" => dev.state = "VERIFIED" /\ dev.digest = h.img
    <3>1. CASE h = g
      BY <2>2, <3>1
    <3>2. CASE \E r \in {"NO_ANSWER", "BAD_DIGEST", "REFUSED"} : h = Done(g, r)
      BY <2>2, <3>2, DoneIs DEF Results
    <3>3. CASE h = StartOver(g)
      BY <2>2, <3>3, StartOverIs
    <3>4. CASE /\ h = [g EXCEPT !.phase = "ACTIVATE"]
               /\ dev.state = "VERIFIED" /\ dev.digest = g.img
      BY ZenonT(60), <2>2, <3>4, PhaseSetIs DEF Phases, Same
    <3> QED
      BY <2>4, <3>1, <3>2, <3>3, <3>4
  <2>6. steady' = steady
    BY <1>1, <2>1, <2>5 DEF Sees
  <2> QED
    BY <1>1, <2>1, <2>5, <2>6 DEF SendTurn, Turns, Sending
<1> QED
  BY <1>2, <1>3 DEF Verify

LEMMA SendActivateTurns ==
  ASSUME DevInv, RunTypes, SendActivate
  PROVE  \E h \in Runs : SendTurn(h)
<1>1. host.phase = "ACTIVATE" /\ Works /\ steady' = steady /\ steady \in BOOLEAN
  BY ActivateWorks, ExchangeWorks DEF SendActivate, Ask, RunTypes
<1>2. PICK g, reply :
        /\ Asking(g) /\ PanelGoesOn(AfterActivate(g, reply))
        /\ reply \in {"bad", "busy"} => Activate(reply)
  BY AskingIs DEF SendActivate, Ask, Replies
<1> DEFINE h == AfterActivate(g, reply)
<1>3. g \in Runs /\ g.img = host.img /\ g.slot = host.slot /\ g.phase = "ACTIVATE"
  BY <1>1, <1>2 DEF Asking, Same
<1>4. /\ h \in Runs /\ h.img = host.img
      /\ \/ h.phase = "DONE" /\ h.result # "UPDATED"
         \/ h.phase \in {"ACTIVATE", "RESTARTING"} /\ h.slot = host.slot
  <2>1. CASE reply = "busy"
    BY <1>3, <2>1, WaitGateIs DEF AfterActivate, Same
  <2>2. CASE reply = "bad"
    BY <1>3, <2>2, DoneIs DEF AfterActivate, Results
  <2>3. CASE reply \notin {"busy", "bad"}
    <3> DEFINE f == Heard(g)
    <3>1. f \in Runs /\ f.img = host.img /\ f.slot = host.slot
      BY <1>3, HeardIs DEF Same
    <3>2. h = [f EXCEPT !.busy = 0, !.block = NBlocks, !.phase = "RESTARTING"]
      BY <2>3 DEF AfterActivate
    <3>3. 0 \in 0 .. BusyTries /\ NBlocks \in 0 .. NBlocks /\ "RESTARTING" \in Phases
      BY SizesAssumption DEF Phases
    <3> HIDE DEF f, h
    <3> QED
      BY <3>1, <3>2, <3>3 DEF Runs
  <2> QED
    BY <2>1, <2>2, <2>3
<1>5. dev'.state = "ACTIVATED" => h.phase = "RESTARTING" \/ dev.state = "ACTIVATED"
  <2>1. CASE reply \in {"bad", "busy"}
    BY <1>2, <2>1, FailedIs DEF Activate, Refused, DevInv, DevTypes, Sessions
  <2>2. CASE reply \notin {"bad", "busy"}
    <3> DEFINE f == Heard(g)
    <3>1. f \in Runs
      BY <1>3, HeardIs
    <3>2. h = [f EXCEPT !.busy = 0, !.block = NBlocks, !.phase = "RESTARTING"]
      BY <2>2 DEF AfterActivate
    <3> HIDE DEF f, h
    <3> QED
      BY <3>1, <3>2 DEF Runs
  <2> QED
    BY <2>1, <2>2
<1> HIDE DEF h
<1> QED
  BY <1>1, <1>2, <1>4, <1>5 DEF SendTurn, Turns, Sending, h

LEMMA LookForRestartTurns ==
  ASSUME DevInv, RunTypes, LookForRestart \/ ConfirmExpires
  PROVE  \E h \in Runs : WaitTurn(h)
<1>1. /\ host.phase = "RESTARTING" /\ UNCHANGED <<slots, dev>> /\ Works
      /\ steady \in BOOLEAN /\ host \in Runs
  BY KeptWorks DEF LookForRestart, ConfirmExpires, Answered, Unanswered, RunTypes
<1>2. CASE Unanswered("RESTARTING", host)
  BY <1>1, <1>2 DEF Unanswered, WaitTurn, Turns
<1>3. CASE ConfirmExpires
  BY <1>1, <1>3, DoneIs DEF ConfirmExpires, Unanswered, WaitTurn, Turns, Results
<1>4. CASE Answered("RESTARTING", RestartSeen)
  <2> DEFINE g == Heard(host)
             h == AfterRestart(g)
  <2>1. PanelGoesOn(h) /\ Sees(h)
    BY <1>4 DEF Answered, RestartSeen
  <2>2. g \in Runs /\ g.img = host.img /\ g.slot = host.slot /\ g.phase = "RESTARTING"
    BY <1>1, AskingIs DEF Asking, Same
  <2> HIDE DEF g
  <2>3. /\ h \in Runs /\ h.img = host.img
        /\ \/ h.phase = "RESTARTING" /\ h.slot = host.slot
           \/ h.phase = "BUY" /\ trial
           \/ h.phase = "DONE" /\ ~trial /\ run # host.slot
    <3>1. CASE run = g.slot
      BY <2>2, <3>1 DEF AfterRestart
    <3>2. CASE run # g.slot /\ trial
      <4>1. h = [g EXCEPT !.phase = "BUY"] /\ "BUY" \in Phases
        BY <3>2 DEF AfterRestart, Phases
      <4> HIDE DEF h
      <4> QED
        BY <2>2, <3>2, <4>1, PhaseSetIs DEF Same
    <3>3. CASE run # g.slot /\ ~trial
      BY <2>2, <3>3, DoneIs DEF AfterRestart, Results
    <3> QED
      BY <3>1, <3>2, <3>3
  <2> HIDE DEF h
  <2>4. steady' \in BOOLEAN /\ (h.phase # "BUY" => steady' = steady)
    BY <1>1, <2>1 DEF Sees
  <2> QED
    BY <1>1, <2>1, <2>3, <2>4 DEF WaitTurn, Turns
<1> QED
  BY <1>2, <1>3, <1>4 DEF LookForRestart

LEMMA SendBuyTurns ==
  ASSUME DevInv, RunTypes, SendBuy
  PROVE  \E h \in Runs : BuyTurn(h)
<1>1. host.phase = "BUY" /\ Works /\ steady' = steady
  BY BuyWorks, ExchangeWorks DEF SendBuy, Ask, DevInv
<1>2. PICK g, reply : Asking(g) /\ PanelGoesOn(AfterBuy(g, reply))
  BY AskingIs DEF SendBuy, Ask
<1> DEFINE h == AfterBuy(g, reply)
<1>3. g \in Runs /\ g.img = host.img /\ g.phase = "BUY"
  BY <1>1, <1>2 DEF Asking, Same
<1>4. /\ h \in Runs /\ h.img = host.img
      /\ \/ h.phase = "DONE" /\ h.result # "UPDATED"
         \/ h.phase \in {"BUY", "BUY_READ"}
  <2>1. CASE reply = "none"
    BY <1>3, <2>1, MissedIs DEF AfterBuy, Same
  <2>2. CASE reply = "ok"
    BY <1>3, <2>2, PhaseSetIs DEF AfterBuy, Same, Phases
  <2>3. CASE reply \notin {"none", "ok"}
    BY <1>3, <2>3, DoneIs DEF AfterBuy, Results
  <2> QED
    BY <2>1, <2>2, <2>3
<1> HIDE DEF h
<1> QED
  BY <1>1, <1>2, <1>4 DEF BuyTurn, Turns, Confirms, h

LEMMA ReadBoughtTurns ==
  ASSUME DevInv, RunTypes, ReadBought
  PROVE  \E h \in Runs : BuyTurn(h)
<1>1. /\ host.phase = "BUY_READ" /\ UNCHANGED <<slots, dev>> /\ Works
      /\ steady \in BOOLEAN /\ host \in Runs
  BY KeptWorks DEF ReadBought, Answered, Unanswered, RunTypes
<1>2. CASE Unanswered("BUY_READ", Missed([host EXCEPT !.phase = "BUY"]))
  <2> DEFINE f == [host EXCEPT !.phase = "BUY"]
             h == Missed(f)
  <2>1. f \in Runs /\ f.img = host.img /\ f.phase = "BUY"
    BY <1>1, PhaseSetIs DEF Phases, Same
  <2>2. PanelGoesOn(h) /\ steady' = steady
    BY <1>2 DEF Unanswered
  <2> HIDE DEF f
  <2>3. /\ h \in Runs /\ h.img = host.img
        /\ \/ h.phase = "DONE" /\ h.result # "UPDATED"
           \/ h.phase = "BUY"
    BY <2>1, MissedIs DEF Same
  <2> HIDE DEF h
  <2> QED
    BY <1>1, <2>2, <2>3 DEF BuyTurn, Turns, Confirms
<1>3. CASE Answered("BUY_READ", BuyRead)
  <2> DEFINE g == Heard(host)
             h == AfterBuyRead(g)
  <2>1. PanelGoesOn(h) /\ Sees(h)
    BY <1>3 DEF Answered, BuyRead
  <2>2. g \in Runs /\ g.img = host.img
    BY AskingIs DEF Asking, Same
  <2> HIDE DEF g
  <2>3. /\ h \in Runs /\ h.img = host.img /\ h.phase = "DONE"
        /\ h.result = "UPDATED" => ~trial
    BY <2>2, DoneIs DEF AfterBuyRead, Results
  <2> HIDE DEF h
  <2>4. steady' = steady
    BY <1>1, <2>1, <2>3 DEF Sees
  <2> QED
    BY <1>1, <2>1, <2>3, <2>4 DEF BuyTurn, Turns, Confirms
<1> QED
  BY <1>2, <1>3 DEF ReadBought

LEMMA RunStepTurns ==
  ASSUME DevInv, RunTypes, RunStep
  PROVE  \E h \in Runs : CheckTurn(h) \/ SendTurn(h) \/ WaitTurn(h) \/ BuyTurn(h)
BY CheckAskTurns, CheckAbortTurns, CheckHashTurns, CheckWaitTurns, PrepareTurns,
   SendBeginTurns, SendDataTurns, SendCommitTurns, AskWhereTurns, SendDigestTurns,
   SendFinishTurns, VerifyTurns, SendActivateTurns, LookForRestartTurns,
   SendBuyTurns, ReadBoughtTurns
   DEF RunStep

-----------------------------------------------------------------------------
(* The run's invariant is kept.                                            *)

\* What a step that does not restart the IOmcu leaves of it.
LEMMA WorksLeaves ==
  ASSUME DevInv, Works
  PROVE  /\ run' = run /\ (trial' => trial) /\ Target' = Target
         /\ host.phase # "BUY" => trial' = trial
         /\ \A i : Holds(run, i)' = Holds(run, i)
         /\ dev'.state = "ACTIVATED" =>
              \/ dev.state = "ACTIVATED" /\ flash' = flash
              \/ /\ host.phase = "ACTIVATE" /\ dev.state = "VERIFIED"
                 /\ \A k \in Blocks : flash'[Target][k] = Block(dev.digest, k)
         /\ dev'.state = "VERIFYING" => dev.state = "VERIFYING" \/ host.phase = "FINISH"
         /\ dev'.state = "VERIFIED" =>
              \/ dev.state = "VERIFIED" /\ dev'.digest = dev.digest
              \/ dev.state = "VERIFYING"
<1>1. CASE Stays \/ Leaves \/ Receives \/ Hashes \/ Verifies
  <2>1. UNCHANGED slots
    BY <1>1 DEF Stays, Leaves, Receives, Hashes, Verifies
  <2>2. run' = run /\ trial' = trial /\ Target' = Target /\ flash' = flash
        /\ \A i : Holds(run, i)' = Holds(run, i)
    BY <2>1 DEF slots, Target, Holds
  <2> QED
    BY <1>1, <2>2 DEF Stays, Leaves, Receives, Hashes, Verifies
<1>2. CASE Spoils
  BY <1>2 DEF Spoils, OnlyFlash, Target, Holds
<1>3. CASE Activates
  BY <1>3 DEF Activates, Target, Holds
<1>4. CASE Buys
  <2>1. ~InSession(dev) /\ dev.state # "ACTIVATED"
    BY <1>4 DEF Buys, DevInv, SlotInv, SessionSparesTrial
  <2> QED
    BY <1>4, <2>1 DEF Buys, Target, Holds, InSession
<1> QED
  BY <1>1, <1>2, <1>3, <1>4 DEF Works

RunKept == RunTypes' /\ RunInv'

LEMMA CheckTurnKeeps ==
  ASSUME IInv, NEW h \in Runs, CheckTurn(h)
  PROVE  RunKept
<1>1. cu = "checking" /\ cu \in {"idle", "checking", "offered", "updating", "confirming"}
  BY DEF IInv, RunInv, PhaseFits, RunTypes, CheckTurn, Checks, Confirms, Updates, Sending
<1>2. Works /\ PanelGoesOn(h)
  BY DEF CheckTurn, Turns
<1>3. /\ host' \in Runs
      /\ \/ h.phase # "DONE" /\ host' = h /\ cu' = cu
         \/ /\ h.phase = "DONE" /\ host' = h /\ cu' \in {"idle", "offered"}
            /\ cu' = "offered" => h.result = "DIFFERENT"
         \/ cu' = "confirming" /\ host'.phase = "BUY"
  BY <1>1, <1>2, GoesOn
<1>4. /\ trial' => trial
      /\ dev'.state = "ACTIVATED" => dev.state = "ACTIVATED"
  BY <1>2, WorksLeaves DEF IInv, CheckTurn, Checks
<1>5. RunTypes'
  BY <1>1, <1>3 DEF RunTypes, CheckTurn, IInv, Checks
<1>6. PhaseFits' /\ AboutToActivate' /\ SlotIsOld' /\ ActivatedIsMine' /\ TrialIsMine'
  BY <1>1, <1>3 DEF CheckTurn, PhaseFits, AboutToActivate, SlotIsOld, ActivatedIsMine,
                    TrialIsMine, Checks, Confirms, Sending
<1>7. Settled'
  BY <1>1, <1>3, <1>4 DEF CheckTurn, Settled, Quiet, Checks, Sending, IInv, RunInv
<1> QED
  BY <1>5, <1>6, <1>7 DEF RunKept, RunInv

LEMMA SendTurnKeeps ==
  ASSUME IInv, NEW h \in Runs, SendTurn(h)
  PROVE  RunKept
<1>1. cu = "updating" /\ Quiet
  BY DEF IInv, RunInv, PhaseFits, Settled, Quiet, RunTypes, SendTurn, Checks, Confirms, Sending
<1>2. Works /\ PanelGoesOn(h) /\ h.img = host.img
  BY DEF SendTurn, Turns
<1>3. /\ host' \in Runs
      /\ \/ h.phase # "DONE" /\ host' = h /\ cu' = "updating"
         \/ h.phase = "DONE" /\ host' = h /\ cu' = "idle"
  BY <1>1, <1>2, GoesOn
<1>4. /\ run' = run /\ ~trial' /\ Target' = Target
      /\ dev'.state = "ACTIVATED" =>
           /\ host.phase = "ACTIVATE" /\ dev.state = "VERIFIED"
           /\ \A k \in Blocks : flash'[Target][k] = Block(dev.digest, k)
      /\ dev'.state = "VERIFYING" => dev.state = "VERIFYING" \/ host.phase = "FINISH"
      /\ dev'.state = "VERIFIED" =>
           \/ dev.state = "VERIFIED" /\ dev'.digest = dev.digest
           \/ dev.state = "VERIFYING"
  BY <1>1, <1>2, WorksLeaves DEF IInv, Quiet
<1>5. dev'.state = "ACTIVATED" => h.phase = "RESTARTING" /\ Holds(Target, host.img)'
  <2>1. dev'.state = "ACTIVATED" => h.phase = "RESTARTING"
    BY <1>1, <1>4 DEF SendTurn, Quiet
  <2>2. dev'.state = "ACTIVATED" => dev.digest = host.img
    BY <1>4 DEF IInv, RunInv, AboutToActivate
  <2>3. host'.img = host.img
    BY <1>2, <1>3
  <2> QED
    BY <1>4, <2>1, <2>2, <2>3 DEF Holds
<1>6. RunTypes'
  <2>1. steady' \in BOOLEAN
    BY DEF SendTurn, IInv, RunTypes
  <2> QED
    BY <1>3, <2>1 DEF RunTypes, SendTurn
<1>7. PhaseFits' /\ TrialIsMine'
  BY <1>3, <1>4 DEF SendTurn, PhaseFits, TrialIsMine, Checks, Confirms, Sending, Updates
<1>8. Settled' /\ ActivatedIsMine'
  BY <1>3, <1>4, <1>5 DEF SendTurn, Settled, ActivatedIsMine, Checks, Sending
<1>9. SlotIsOld'
  BY <1>1, <1>3, <1>4 DEF SendTurn, SlotIsOld, Sending, Quiet, IInv, RunInv
<1>10. AboutToActivate'
  BY <1>2, <1>3, <1>4 DEF SendTurn, AboutToActivate, IInv, RunInv
<1> QED
  BY <1>6, <1>7, <1>8, <1>9, <1>10 DEF RunKept, RunInv

LEMMA WaitTurnKeeps ==
  ASSUME IInv, NEW h \in Runs, WaitTurn(h)
  PROVE  RunKept
<1>1. cu = "updating"
  BY DEF IInv, RunInv, PhaseFits, RunTypes, WaitTurn, Checks, Confirms, Sending
<1>2. PanelGoesOn(h) /\ h.img = host.img
  BY DEF WaitTurn, Turns
<1>3. /\ host' \in Runs
      /\ \/ h.phase # "DONE" /\ host' = h /\ cu' = "updating"
         \/ h.phase = "DONE" /\ host' = h /\ cu' = "idle"
  BY <1>1, <1>2, GoesOn
<1>4. /\ run' = run /\ trial' = trial /\ dev' = dev /\ Target' = Target
  BY DEF WaitTurn, slots, Target
<1>5. \A i : Holds(run, i)' = Holds(run, i) /\ Holds(Target, i)' = Holds(Target, i)
  BY DEF WaitTurn, slots, Target, Holds
<1>6. RunTypes'
  BY <1>3 DEF RunTypes, WaitTurn, IInv
<1>7. PhaseFits' /\ Settled' /\ AboutToActivate'
  BY <1>3 DEF WaitTurn, PhaseFits, Settled, AboutToActivate, Checks, Confirms, Sending, Updates
<1>8. trial => dev.state # "ACTIVATED"
  BY DEF IInv, DevInv, SlotInv, SessionSparesTrial
<1>9. SlotIsOld' /\ ActivatedIsMine'
  BY <1>1, <1>2, <1>3, <1>4, <1>5, <1>8
     DEF WaitTurn, SlotIsOld, ActivatedIsMine, Sending, IInv, RunInv
<1>10. TrialIsMine'
  BY <1>1, <1>2, <1>3, <1>4, <1>5 DEF WaitTurn, TrialIsMine, Confirms, IInv, RunInv
<1> QED
  BY <1>6, <1>7, <1>9, <1>10 DEF RunKept, RunInv

LEMMA BuyTurnKeeps ==
  ASSUME IInv, NEW h \in Runs, BuyTurn(h)
  PROVE  RunKept
<1>1. cu \in {"confirming", "updating"}
  BY DEF IInv, RunInv, PhaseFits, RunTypes, BuyTurn, Checks, Confirms
<1>2. Works /\ PanelGoesOn(h) /\ h.img = host.img
  BY DEF BuyTurn, Turns
<1>3. /\ host' \in Runs
      /\ \/ h.phase # "DONE" /\ host' = h /\ cu' = cu
         \/ h.phase = "DONE" /\ host' = h /\ cu' = "idle"
         \/ cu' = "checking" /\ host'.phase = "CHECK_ASK"
  BY <1>1, <1>2, GoesOn
<1>4. /\ run' = run /\ \A i : Holds(run, i)' = Holds(run, i)
      /\ dev'.state = "ACTIVATED" => dev.state = "ACTIVATED"
  BY <1>2, WorksLeaves DEF IInv, BuyTurn, Confirms
<1>5. RunTypes'
  BY <1>1, <1>3 DEF RunTypes, BuyTurn, Confirms, IInv
<1>6. PhaseFits' /\ Settled' /\ AboutToActivate' /\ SlotIsOld'
  BY <1>1, <1>3 DEF BuyTurn, PhaseFits, Settled, AboutToActivate, SlotIsOld, Checks, Confirms,
                    Sending, Updates
<1>7. ActivatedIsMine'
  BY <1>1, <1>3, <1>4 DEF BuyTurn, ActivatedIsMine, Confirms, IInv, RunInv
<1>8. TrialIsMine'
  BY <1>1, <1>2, <1>3, <1>4 DEF BuyTurn, TrialIsMine, Confirms, IInv, RunInv
<1> QED
  BY <1>5, <1>6, <1>7, <1>8 DEF RunKept, RunInv

\* A step of the IOmcu alone, without a restart.
LEMMA AloneKeeps ==
  ASSUME IInv, Works, Bench, steady' = steady,
         dev'.state = "ACTIVATED" => dev.state = "ACTIVATED"
  PROVE  RunKept
<1>1. host' = host /\ cu' = cu
  BY DEF Bench, panel
<1>2. RunTypes' /\ PhaseFits'
  BY <1>1 DEF RunTypes, PhaseFits, IInv, RunInv
<1>3. /\ run' = run /\ (trial' => trial) /\ Target' = Target
      /\ host.phase # "BUY" => trial' = trial
      /\ \A i : Holds(run, i)' = Holds(run, i)
      /\ dev'.state = "VERIFYING" => dev.state = "VERIFYING" \/ host.phase = "FINISH"
      /\ dev'.state = "VERIFIED" =>
           \/ dev.state = "VERIFIED" /\ dev'.digest = dev.digest
           \/ dev.state = "VERIFYING"
  BY WorksLeaves DEF IInv
<1>4. dev'.state = "ACTIVATED" => \A i : Holds(Target, i)' = Holds(Target, i)
  <2>1. dev'.state = "ACTIVATED" => flash' = flash
    BY WorksLeaves DEF IInv
  <2> QED
    BY <1>3, <2>1 DEF Holds
<1>5. Settled' /\ AboutToActivate'
  BY <1>1, <1>3 DEF Settled, AboutToActivate, IInv, RunInv
<1>6. ActivatedIsMine'
  BY <1>1, <1>3, <1>4 DEF ActivatedIsMine, IInv, RunInv
<1>7. SlotIsOld'
  BY <1>1, <1>3 DEF SlotIsOld, IInv, RunInv
<1>8. TrialIsMine'
  BY <1>1, <1>3 DEF TrialIsMine, IInv, RunInv
<1> QED
  BY <1>2, <1>5, <1>6, <1>7, <1>8 DEF RunKept, RunInv

\* A normal start: nothing on trial, no session, and the run knows no slot.
LEMMA NormalStartKeeps ==
  ASSUME IInv, Bench, NEW s \in Slots, Boots(s, FALSE)
  PROVE  RunKept
<1>1. host' = host /\ cu' = cu /\ trial' = FALSE /\ steady' = FALSE
  BY DEF Bench, panel, Boots, IInv, RunTypes
<1>2. dev'.state = "IDLE"
  BY DEF Boots, Fresh
<1>3. RunTypes' /\ PhaseFits'
  BY <1>1 DEF RunTypes, PhaseFits, IInv, RunInv
<1>4. Settled' /\ AboutToActivate' /\ ActivatedIsMine' /\ SlotIsOld' /\ TrialIsMine'
  BY <1>1, <1>2 DEF Settled, AboutToActivate, ActivatedIsMine, SlotIsOld, TrialIsMine
<1> QED
  BY <1>3, <1>4 DEF RunKept, RunInv

\* A start on trial: the image is the run's, where the run goes on.
LEMMA TrialStartKeeps ==
  ASSUME IInv, Bench, dev.state = "ACTIVATED", flash' = flash, Boots(Target, TRUE)
  PROVE  RunKept
<1>1. host' = host /\ cu' = cu /\ trial' = TRUE /\ run' = Target /\ steady' \in BOOLEAN
  BY DEF Bench, panel, Boots
<1>2. dev'.state = "IDLE"
  BY DEF Boots, Fresh
<1>3. RunTypes' /\ PhaseFits'
  BY <1>1 DEF RunTypes, PhaseFits, IInv, RunInv
<1>4. Settled' /\ SlotIsOld'
  BY <1>1, <1>2 DEF Settled, SlotIsOld, Sending, IInv, RunInv
<1>5. AboutToActivate' /\ ActivatedIsMine'
  BY <1>2 DEF AboutToActivate, ActivatedIsMine
<1>6. TrialIsMine'
  <2>1. cu = "updating" => host.phase = "RESTARTING" /\ Holds(Target, host.img)
    BY DEF ActivatedIsMine, IInv, RunInv
  <2> QED
    BY <1>1, <2>1 DEF TrialIsMine, Holds, Confirms
<1> QED
  BY <1>3, <1>4, <1>5, <1>6 DEF RunKept, RunInv

LEMMA IOmcuStepKeeps ==
  ASSUME IInv, IOmcuStep
  PROVE  DevInv' /\ RunKept
<1>1. CASE HashEnds
  <2>1. Bench /\ steady' = steady /\ Works
    BY <1>1, HashEndsWorks DEF HashEnds, IInv
  <2>2. dev'.state = "ACTIVATED" => dev.state = "ACTIVATED"
    <3>1. dev \in Sessions
      BY DEF IInv, DevInv, DevTypes
    <3>2. CASE dev' = [dev EXCEPT !.state = "IDLE", !.of = "running", !.digest = Running]
      BY <3>1, <3>2 DEF Sessions
    <3> DEFINE d == [dev EXCEPT !.of = "image", !.digest = Received]
    <3>3. CASE dev' = [d EXCEPT !.state = "VERIFIED"] \/ dev' = Failed(d, TRUE)
      BY <3>1, <3>3 DEF Failed, Left, Sessions
    <3> QED
      BY <1>1, <3>2, <3>3 DEF HashEnds
  <2> QED
    BY <2>1, <2>2, AloneKeeps, WorksKeeps DEF IInv
<1>2. CASE Sweep
  <2>1. Bench /\ steady' = steady /\ Works
    BY <1>2, SweepWorks DEF Sweep, IInv, DevInv
  <2>2. dev'.state = dev.state
    BY <1>2 DEF Sweep, IInv, DevInv, DevTypes, Sessions
  <2> QED
    BY <2>1, <2>2, AloneKeeps, WorksKeeps DEF IInv
<1>3. CASE Silent
  <2>1. Bench /\ steady' = steady /\ Works
    BY <1>3, SilentWorks DEF Silent, IInv, DevInv
  <2>2. dev'.state = "FAILED"
    BY <1>3, FailedIs DEF Silent, IInv, DevInv, DevTypes
  <2> QED
    BY <2>1, <2>2, AloneKeeps, WorksKeeps DEF IInv
<1>4. CASE RestartsIntoSlot
  <2>1. DevInv'
    BY <1>4, RestartsIntoSlotKeeps DEF IInv
  <2>2. RunKept
    BY <1>4, NormalStartKeeps, TrialStartKeeps DEF RestartsIntoSlot, BootsNormally
  <2> QED
    BY <2>1, <2>2
<1>5. CASE Restart
  BY <1>5, RestartKeeps, NormalStartKeeps DEF Restart, BootsNormally, IInv
<1>6. CASE Cut
  BY <1>6, CutKeeps, NormalStartKeeps DEF Cut, BootsNormally, IInv
<1> QED
  BY <1>1, <1>2, <1>3, <1>4, <1>5, <1>6 DEF IOmcuStep

\* The panel starts a run, or starts anew itself.
LEMMA PanelStartKeeps ==
  ASSUME IInv, LinkUp \/ StartUpdate \/ PanelRestart
  PROVE  DevInv' /\ RunKept
<1>1. UNCHANGED <<slots, dev, steady>> /\ host.img \in Images
  BY DEF LinkUp, StartUpdate, PanelRestart, IInv, RunTypes, Runs
<1>2. DevInv'
  BY <1>1, KeptWorks, WorksKeeps DEF IInv
<1>3. /\ host' \in Runs
      /\ \/ cu' = "checking" /\ host'.phase = "CHECK_ASK"
         \/ cu' = "updating" /\ host'.phase = "PREPARE" /\ cu = "offered"
         \/ cu' = "idle" /\ host'.phase = "DONE"
  BY <1>1, StartedIs DEF LinkUp, StartUpdate, PanelRestart, CheckStarts, Phases
<1>4. RunTypes'
  BY <1>1, <1>3 DEF RunTypes, IInv
<1>5. PhaseFits' /\ SlotIsOld' /\ TrialIsMine' /\ AboutToActivate'
  BY <1>3 DEF PhaseFits, SlotIsOld, TrialIsMine, AboutToActivate, Checks, Updates, Sending, Confirms
<1>6. Settled' /\ ActivatedIsMine'
  BY <1>1, <1>3 DEF Settled, ActivatedIsMine, Checks, Sending, slots, IInv, RunInv
<1> QED
  BY <1>2, <1>4, <1>5, <1>6 DEF RunKept, RunInv

LEMMA RunStepKeeps ==
  ASSUME IInv, RunStep
  PROVE  DevInv' /\ RunKept
<1>1. PICK h \in Runs : CheckTurn(h) \/ SendTurn(h) \/ WaitTurn(h) \/ BuyTurn(h)
  BY RunStepTurns DEF IInv
<1>2. DevInv'
  BY <1>1, WorksKeeps DEF CheckTurn, SendTurn, WaitTurn, BuyTurn, Turns, IInv
<1>3. RunKept
  BY <1>1, CheckTurnKeeps, SendTurnKeeps, WaitTurnKeeps, BuyTurnKeeps
<1> QED
  BY <1>2, <1>3

LEMMA InitHolds ==
  ASSUME Init
  PROVE  IInv
<1>1. PICK i \in Images : flash = [s \in Slots |-> IF s = "A" THEN [k \in Blocks |-> Block(i, k)]
                                                   ELSE Empty]
  BY DEF Init
<1>2. PICK j \in Images : host = Started(j, "DONE")
  BY DEF Init
<1>3. /\ run = "A" /\ trial = FALSE /\ dev = Fresh(FALSE) /\ cu = "idle" /\ steady = FALSE
      /\ tbyb = [s \in Slots |-> FALSE]
  BY DEF Init
<1>4. "A" \in Slots /\ "B" \in Slots
  BY DEF Slots
<1>5. /\ \A k \in Blocks : flash["A"][k] = Block(i, k)
      /\ \A s \in Slots : s # "A" => flash[s] = Empty
      /\ flash \in [Slots -> Flashes]
  <2>1. [k \in Blocks |-> Block(i, k)] \in Flashes /\ Empty \in Flashes
    <3>1. \A k \in Blocks : k \in 0 .. NBlocks
      BY SizesAssumption DEF Blocks
    <3> QED
      BY <3>1, CellsAre DEF Flashes
  <2> QED
    BY <1>1, <1>4, <2>1
<1>6. DevTypes
  BY <1>3, <1>4, <1>5, FreshIs DEF DevTypes, SlotTypes
<1>7. Startable("A") /\ Holds("A", i)
  BY <1>5, HeadIs DEF Startable, Holds
<1>8. StartableIsWhole
  <2>1. ASSUME NEW s \in Slots, s # "A"
        PROVE  ~Startable(s)
    BY <1>5, <2>1, SpoiltIsNotStarted, HeadIs DEF Empty
  <2> QED
    BY <1>7, <2>1 DEF StartableIsWhole
<1>9. RunStarts
  BY <1>3, <1>4, <1>7 DEF RunStarts
<1>10. SessionSparesTrial /\ HeadIsBlank /\ VerifiedIsWhole /\ DigestIsRunning
  BY <1>3, FreshIs DEF SessionSparesTrial, HeadIsBlank, VerifiedIsWhole, DigestIsRunning, InSession
<1>11. host \in Runs /\ host.phase = "DONE"
  BY <1>2, StartedIs DEF Phases
<1>12. RunTypes /\ RunInv
  BY <1>3, <1>11 DEF RunTypes, RunInv, PhaseFits, Settled, ActivatedIsMine, SlotIsOld,
     AboutToActivate, TrialIsMine, Checks, Sending, Confirms
<1> QED
  BY <1>6, <1>8, <1>9, <1>10, <1>12 DEF IInv, DevInv, SlotInv

LEMMA NextKeeps ==
  ASSUME IInv, [Next]_vars
  PROVE  IInv'
<1>1. CASE UNCHANGED vars
  <2>1. UNCHANGED <<slots, dev>> /\ UNCHANGED <<panel, steady>>
    BY <1>1 DEF vars
  <2>2. Works /\ Bench
    BY <2>1, KeptWorks DEF IInv, Bench
  <2>3. dev' = dev /\ steady' = steady
    BY <2>1
  <2> QED
    BY <2>2, <2>3, WorksKeeps, AloneKeeps DEF IInv, RunKept
<1>2. CASE RunStep
  BY <1>2, RunStepKeeps DEF IInv, RunKept
<1>3. CASE IOmcuStep
  BY <1>3, IOmcuStepKeeps DEF IInv, RunKept
<1>4. CASE LinkUp \/ StartUpdate \/ PanelRestart
  BY <1>4, PanelStartKeeps DEF IInv, RunKept
<1> QED
  BY <1>1, <1>2, <1>3, <1>4 DEF Next

LEMMA Invariance == Spec => []IInv
<1>1. Init => IInv
  BY InitHolds
<1>2. IInv /\ [Next]_vars => IInv'
  BY NextKeeps
<1> QED
  BY <1>1, <1>2, PTL DEF Spec

-----------------------------------------------------------------------------
(* The theorems.                                                           *)

\* The state of the slots, the session, the run and the panel has its types.
THEOREM TypeCorrect == Spec => []TypeOK
<1>1. IInv => TypeOK
  <2> SUFFICES ASSUME IInv PROVE TypeOK
    OBVIOUS
  <2>1. SlotTypes /\ dev \in Sessions /\ RunTypes
    BY DEF IInv, DevInv, DevTypes
  <2>2. /\ dev.state \in States /\ dev.next \in 0 .. NBlocks
        /\ dev.data \in Cells /\ dev.expect \in Cells
        /\ dev.first \in Flashes /\ dev.sector \in Flashes /\ dev.sweep \in BOOLEAN
    BY <2>1 DEF Sessions
  <2>3. /\ host.missed \in 0 .. Lost /\ host.busy \in 0 .. BusyTries
        /\ host.restarts \in 0 .. Restarts /\ host.tries \in 0 .. BlockTries + 1
        /\ host.block \in 0 .. NBlocks
    BY <2>1 DEF RunTypes, Runs
  <2> QED
    BY <2>1, <2>2, <2>3 DEF TypeOK, SlotTypes, RunTypes, States, Flashes
<1> QED
  BY <1>1, Invariance, PTL

\* Whatever is lost, repeated, cut off or begun anew, of whatever length: a
\* slot the boot ROM would start holds one whole image (link_update_dev.c
\* writes the first sector last).
THEOREM StartsWhole == Spec => []StartableIsWhole
<1>1. IInv => StartableIsWhole
  BY DEF IInv, DevInv, SlotInv
<1> QED
  BY <1>1, Invariance, PTL

\* At every moment one slot holds a bought image that a power cut can start
\* from (link_update_dev.c: the session's slot is never the one that runs, and
\* nothing is written to the other one while an image is on trial).
THEOREM AlwaysStarts == Spec => []SomethingStarts
<1>1. IInv => SomethingStarts
  <2> SUFFICES ASSUME IInv PROVE SomethingStarts
    OBVIOUS
  <2>1. run \in Slots /\ Target \in Slots
    BY TargetIs DEF IInv, DevInv, DevTypes
  <2>2. Startable(run) /\ IF trial THEN Bought(Target) ELSE ~tbyb[run]
    BY DEF IInv, DevInv, SlotInv, RunStarts
  <2> QED
    BY <2>1, <2>2 DEF SomethingStarts, Bought
<1> QED
  BY <1>1, Invariance, PTL

\* A check that ends in "the same build" or "another build" has compared the
\* digest of the image that runs, whatever was received, restarted or begun
\* anew since the hash was asked for (link_update_host.c, CHECK_WAIT).
THEOREM ChecksTruly == Spec => CheckIsTrue
<1> DEFINE Ends == host.phase = "CHECK_WAIT" /\ host'.phase = "DONE"
           True == /\ host'.result = "SAME" => Holds(run, host.img)
                   /\ host'.result = "DIFFERENT" => ~Holds(run, host.img)
<1>1. IInv /\ [Next]_vars => [Ends => True]_vars
  <2> SUFFICES ASSUME IInv, Next, Ends PROVE True
    OBVIOUS
  <2>1. CASE RunStep
    <3>1. PICK h \in Runs : CheckTurn(h) \/ SendTurn(h) \/ WaitTurn(h) \/ BuyTurn(h)
      BY <2>1, RunStepTurns DEF IInv
    <3>2. CheckTurn(h)
      BY <3>1 DEF SendTurn, WaitTurn, BuyTurn, Sending, Confirms
    <3>3. cu = "checking"
      BY DEF IInv, RunInv, PhaseFits, RunTypes, Checks, Confirms, Updates, Sending
    <3>4. h.phase = "DONE" /\ (host' = h \/ host'.result = "none")
      BY <3>2, <3>3, GoesOn DEF CheckTurn, Turns
    <3>5. host'.result \in {"SAME", "DIFFERENT"} =>
            dev.of = "running" /\ (host'.result = "SAME" <=> dev.digest = host.img)
      BY <3>2, <3>4 DEF CheckTurn, Turns
    <3>6. host'.result \in {"SAME", "DIFFERENT"} => (host'.result = "SAME" <=> Running = host.img)
      BY <3>5 DEF IInv, DevInv, DigestIsRunning
    <3>7. Running = host.img <=> Holds(run, host.img)
      BY RunningIs DEF IInv, RunTypes, Runs
    <3> QED
      BY <3>6, <3>7
  <2>2. CASE IOmcuStep
    BY <2>2 DEF IOmcuStep, HashEnds, Sweep, Silent, RestartsIntoSlot, Restart, Cut, Bench, panel
  <2>3. CASE LinkUp \/ StartUpdate \/ PanelRestart
    BY <2>3, StartedIs DEF LinkUp, StartUpdate, PanelRestart, CheckStarts, Started
  <2> QED
    BY <2>1, <2>2, <2>3 DEF Next
<1> QED
  BY <1>1, Invariance, PTL DEF Spec, CheckIsTrue

\* "Updated" is told only with the panel's image running and bought, unless
\* the IOmcu has restarted another way since the run read which slot runs
\* (link_update_host.c, RESTARTING and BUY_READ).
THEOREM TellsTruly == Spec => UpdatedIsTrueUnlessRestarted
<1>1. IInv /\ [Next]_vars => [TellsUpdated /\ steady => RunsMine]_vars
  <2> SUFFICES ASSUME IInv, Next, TellsUpdated, steady PROVE RunsMine
    OBVIOUS
  <2>1. CASE RunStep
    <3>1. PICK h \in Runs : CheckTurn(h) \/ SendTurn(h) \/ WaitTurn(h) \/ BuyTurn(h)
      BY <2>1, RunStepTurns DEF IInv
    <3>2. cu = "updating" /\ host'.phase = "DONE" /\ host'.result = "UPDATED"
      BY DEF TellsUpdated
    <3>3. h.phase = "DONE" /\ h.result = "UPDATED"
      BY <3>1, <3>2, GoesOn DEF CheckTurn, SendTurn, WaitTurn, BuyTurn, Turns
    <3>4. CASE WaitTurn(h)
      BY <3>3, <3>4 DEF WaitTurn, IInv, RunInv, SlotIsOld
    <3>5. CASE BuyTurn(h)
      BY <3>2, <3>3, <3>5 DEF BuyTurn, IInv, RunInv, TrialIsMine, RunsMine, Confirms
    <3>6. CASE CheckTurn(h) \/ SendTurn(h)
      BY <3>3, <3>6 DEF CheckTurn, SendTurn, Sending
    <3> QED
      BY <3>1, <3>4, <3>5, <3>6
  <2>2. CASE IOmcuStep
    BY <2>2 DEF IOmcuStep, HashEnds, Sweep, Silent, RestartsIntoSlot, Restart, Cut, Bench, panel,
                TellsUpdated
  <2>3. CASE LinkUp \/ StartUpdate \/ PanelRestart
    <3>1. host'.phase # "DONE" \/ host'.result = "none"
      <4>1. host.img \in Images /\ {"CHECK_ASK", "PREPARE", "DONE"} \subseteq Phases
        BY DEF IInv, RunTypes, Runs, Phases
      <4>2. CASE LinkUp \/ StartUpdate
        BY <4>1, <4>2, StartedIs DEF LinkUp, StartUpdate, CheckStarts
      <4>3. CASE PanelRestart
        BY <4>1, <4>3, StartedIs DEF PanelRestart
      <4> QED
        BY <2>3, <4>2, <4>3
    <3> QED
      BY <3>1 DEF TellsUpdated
  <2> QED
    BY <2>1, <2>2, <2>3 DEF Next
<1> QED
  BY <1>1, Invariance, PTL DEF Spec, UpdatedIsTrueUnlessRestarted

-----------------------------------------------------------------------------
(* The panel's own firmware, which is FirmwareTrial: a machine of its own,  *)
(* whose boot slots and restarts are the ESP32's.                           *)

VARIABLES image, ota, named, note, up, stage, panelTrial, tasks, quiet, install,
          said, untold

Panel == INSTANCE FirmwareTrial WITH trial <- panelTrial

Twin(s) == Panel!Other(s)

PanelTypes == Panel!TypeOK /\ tasks \subseteq {"control", "logger"}

\* The slot that starts has something to go back to, unless it was kept.
GoesBack ==
  /\ ota[named] \in {"new", "pending", "valid", "aborted"}
  /\ ota[Twin(named)] \in {"valid", "none"}
  /\ ota[named] # "aborted" => image[named] = "whole"
  /\ ota[named] # "valid" => ota[Twin(named)] = "valid" /\ image[Twin(named)] = "whole"

\* What runs is whole: the slot that starts, or the one before it once the new
\* build was lost, or until the panel restarts into it.
RunsWhole ==
  up # "off" =>
    /\ image[up] = "whole"
    /\ \/ up = named /\ ota[named] \in {"pending", "valid"}
       \/ up = Twin(named) /\ ota[named] = "aborted"
       \/ up = Twin(named) /\ ota[named] = "new" /\ install \in {"named", "noted"}

\* An install runs from the screen loop of a build that is no trial.
InstallsFromTheLoop ==
  /\ up = "off" => stage = "boot"
  /\ install # "none" => up # "off" /\ stage = "loop" /\ ota[up] # "pending"
  /\ install \in {"named", "noted"} => ota[named] = "new"

\* A lost build is the named one, and the note is what makes it one to tell of.
UntoldIsNoted == untold <=> note = "found" /\ ota[named] = "aborted"

TickFollowsFrame == "tick" \in panelTrial.done => "frame" \in panelTrial.done

PanelInv == /\ PanelTypes /\ GoesBack /\ RunsWhole /\ InstallsFromTheLoop
            /\ UntoldIsNoted /\ TickFollowsFrame

LEMMA TwinSlots ==
  /\ Panel!Slots = {"A", "B"} /\ Twin("A") = "B" /\ Twin("B") = "A"
<1>1. \A t \in {"A", "B"} : t # "A" <=> t = "B"
  OBVIOUS
<1>2. \A t \in {"A", "B"} : t # "B" <=> t = "A"
  OBVIOUS
<1> QED BY <1>1, <1>2 DEF Twin, Panel!Other, Panel!Slots

\* The bootloader starts the named build while it is new or kept, and else the
\* one before it.
LEMMA PickedSlot ==
  ASSUME PanelInv
  PROVE  /\ Panel!Picked \in {"A", "B"} /\ image[Panel!Picked] = "whole"
         /\ \/ Panel!Picked = named /\ ota[named] \in {"new", "valid"}
            \/ Panel!Picked = Twin(named) /\ ota[named] \in {"pending", "aborted"}
BY TwinSlots DEF PanelInv, PanelTypes, GoesBack, Panel!Picked, Panel!TypeOK, Twin

LEMMA PanelBootsKeeps ==
  ASSUME PanelInv, Panel!Boots
  PROVE  PanelInv'
<1> DEFINE p == Panel!Picked
<1>1. \A s \in {"A", "B"} :
        ota'[s] = IF s = p /\ ota[s] = "new" THEN "pending"
                  ELSE IF s = named /\ ota[s] = "pending" THEN "aborted" ELSE ota[s]
  BY TwinSlots DEF Panel!Boots
<1>2. ota' \in [{"A", "B"} -> {"none", "new", "pending", "valid", "aborted"}]
  BY TwinSlots DEF Panel!Boots, PanelInv, PanelTypes, Panel!TypeOK
<1>3. UNCHANGED <<image, named, note, install>> /\ up' = p /\ stage' = "boot"
      /\ tasks' = {} /\ quiet' = TRUE /\ said' = "nothing"
      /\ untold' = (untold \/ (ota[named] = "pending" /\ note = "found"))
  BY DEF Panel!Boots
<1>4. panelTrial' \in [done : SUBSET Panel!Steps, bound : BOOLEAN, settled : BOOLEAN,
                  late : BOOLEAN] /\ panelTrial'.done = {}
  BY DEF Panel!Boots, Panel!NoTrial
<1>5. up = "off" /\ install = "none"
  BY DEF Panel!Boots, PanelInv, InstallsFromTheLoop
<1>6. named \in {"A", "B"} /\ Twin(named) \in {"A", "B"} /\ Twin(named) # named
  BY TwinSlots DEF PanelInv, PanelTypes, Panel!TypeOK
<1> HIDE DEF p
<1>7. /\ p \in {"A", "B"} /\ image[p] = "whole"
      /\ \/ p = named /\ ota[named] \in {"new", "valid"}
         \/ p = Twin(named) /\ ota[named] \in {"pending", "aborted"}
  BY PickedSlot DEF p
<1>8. PanelTypes'
  BY <1>2, <1>3, <1>4, <1>5, <1>6, <1>7, TwinSlots DEF PanelInv, PanelTypes, Panel!TypeOK
<1>9. /\ Twin(named)' = Twin(named)
      /\ ota'[Twin(named)] = ota[Twin(named)]
      /\ ota'[named] = IF ota[named] = "new" THEN "pending"
                       ELSE IF ota[named] = "pending" THEN "aborted" ELSE ota[named]
  <2>1. Twin(named)' = Twin(named)
    BY <1>3 DEF Twin, Panel!Other, Panel!Slots
  <2> QED BY <2>1, <1>1, <1>6, <1>7 DEF PanelInv, GoesBack
<1>10. GoesBack' /\ UntoldIsNoted'
  BY <1>3, <1>9 DEF PanelInv, GoesBack, UntoldIsNoted
<1>11. RunsWhole'
  BY <1>3, <1>7, <1>9 DEF PanelInv, GoesBack, RunsWhole
<1>12. InstallsFromTheLoop' /\ TickFollowsFrame'
  BY <1>3, <1>4, <1>5 DEF InstallsFromTheLoop, TickFollowsFrame
<1> QED BY <1>8, <1>10, <1>11, <1>12 DEF PanelInv

\* A step that leaves the flash and what is untold alone leaves what starts next.
LEMMA FlashKept ==
  ASSUME PanelInv, UNCHANGED Panel!flash, UNCHANGED untold
  PROVE  /\ GoesBack' /\ UntoldIsNoted' /\ Twin(named)' = Twin(named)
         /\ UNCHANGED <<image, ota, named, note>>
BY DEF PanelInv, GoesBack, UntoldIsNoted, Twin, Panel!Other, Panel!Slots, Panel!flash

\* A panel that is down has no install and no trial.
LEMMA OffKeeps ==
  ASSUME PanelInv, Panel!Off, UNCHANGED <<image, named, note, quiet, said>>,
         ota' \in [{"A", "B"} -> {"none", "new", "pending", "valid", "aborted"}],
         untold' \in BOOLEAN, GoesBack', UntoldIsNoted'
  PROVE  PanelInv'
<1>1. PanelTypes'
  BY TwinSlots DEF PanelInv, PanelTypes, Panel!TypeOK, Panel!Off, Panel!NoTrial
<1>2. RunsWhole' /\ InstallsFromTheLoop' /\ TickFollowsFrame'
  BY DEF RunsWhole, InstallsFromTheLoop, TickFollowsFrame, Panel!Off, Panel!NoTrial
<1> QED BY <1>1, <1>2 DEF PanelInv

LEMMA ResetsKeeps ==
  ASSUME PanelInv, Panel!Resets \/ Panel!InstallRestarts
  PROVE  PanelInv'
<1>1. Panel!Off /\ UNCHANGED <<image, ota, named, note, quiet, said, untold>>
  BY DEF Panel!Resets, Panel!InstallRestarts, Panel!flash
<1>2. GoesBack' /\ UntoldIsNoted'
  BY <1>1, FlashKept DEF Panel!flash
<1>3. ota' \in [{"A", "B"} -> {"none", "new", "pending", "valid", "aborted"}]
      /\ untold' \in BOOLEAN
  BY <1>1, TwinSlots DEF PanelInv, PanelTypes, Panel!TypeOK
<1> QED BY <1>1, <1>2, <1>3, OffKeeps

\* A start on trial is the named build's.
LEMMA PendingIsNamed ==
  ASSUME PanelInv, up # "off", ota[up] = "pending"
  PROVE  up = named
BY DEF PanelInv, RunsWhole, GoesBack

\* A start that is no trial reports, and may erase the note.
LEMMA SettledKeeps ==
  ASSUME PanelInv, UNCHANGED <<image, ota, named>>, Panel!NoteErased
  PROVE  /\ GoesBack' /\ UntoldIsNoted' /\ Twin(named)' = Twin(named)
         /\ note' \in {"none", "found"} /\ untold' \in BOOLEAN
<1>1. GoesBack' /\ Twin(named)' = Twin(named)
  BY DEF PanelInv, GoesBack, Twin, Panel!Other, Panel!Slots
<1>2. note \in {"none", "found"} /\ untold \in BOOLEAN /\ UntoldIsNoted
  BY DEF PanelInv, PanelTypes, Panel!TypeOK
<1>3. CASE note' = "none" /\ untold' = FALSE
  BY <1>1, <1>3 DEF UntoldIsNoted
<1>4. CASE note' = note /\ UNCHANGED untold
  BY <1>1, <1>2, <1>4 DEF UntoldIsNoted
<1> QED BY <1>3, <1>4 DEF Panel!NoteErased

LEMMA TrialBeginsKeeps ==
  ASSUME PanelInv, NEW uiUp \in BOOLEAN, Panel!TrialBegins(uiUp)
  PROVE  PanelInv'
<1>1. CASE Panel!Pending /\ uiUp
  <2>1. /\ UNCHANGED <<Panel!flash, up, panelTrial, tasks, install, said, untold, quiet>>
        /\ up # "off" /\ stage = "boot" /\ stage' = "tasks"
    BY <1>1 DEF Panel!TrialBegins
  <2>2. /\ GoesBack' /\ UntoldIsNoted' /\ Twin(named)' = Twin(named)
        /\ UNCHANGED <<image, ota, named, note>>
    BY <2>1, FlashKept
  <2>3. PanelTypes'
    BY <2>1, <2>2 DEF PanelInv, PanelTypes, Panel!TypeOK, Panel!Slots
  <2>4. RunsWhole' /\ InstallsFromTheLoop' /\ TickFollowsFrame'
    BY <2>1, <2>2 DEF PanelInv, RunsWhole, InstallsFromTheLoop, TickFollowsFrame
  <2> QED BY <2>2, <2>3, <2>4 DEF PanelInv
<1>2. CASE Panel!Pending /\ ~uiUp
  <2>1. /\ Panel!Off /\ UNCHANGED <<image, named, note, quiet, said>>
        /\ \/ ota' = [ota EXCEPT ![up] = "aborted"] /\ untold' = (untold \/ note = "found")
           \/ UNCHANGED <<ota, untold>>
    BY <1>2 DEF Panel!TrialBegins
  <2>2. up = named
    BY <1>2, PendingIsNamed DEF Panel!TrialBegins, Panel!Pending
  <2>3. named \in {"A", "B"} /\ Twin(named) # named /\ Twin(named)' = Twin(named)
    BY <2>1, TwinSlots DEF PanelInv, PanelTypes, Panel!TypeOK, Twin, Panel!Other, Panel!Slots
  <2>4. ota \in [{"A", "B"} -> {"none", "new", "pending", "valid", "aborted"}]
    BY TwinSlots DEF PanelInv, PanelTypes, Panel!TypeOK
  <2>5. /\ ota' \in [{"A", "B"} -> {"none", "new", "pending", "valid", "aborted"}]
        /\ ota'[Twin(named)] = ota[Twin(named)]
        /\ \/ ota'[named] = "aborted" /\ untold' = (untold \/ note = "found")
           \/ ota'[named] = ota[named] /\ untold' = untold
    BY <2>1, <2>2, <2>3, <2>4, TwinSlots
  <2>6. untold \in BOOLEAN
    BY DEF PanelInv, PanelTypes, Panel!TypeOK
  <2>7. GoesBack'
    BY <1>2, <2>1, <2>2, <2>3, <2>5 DEF PanelInv, GoesBack, Panel!Pending
  <2>8. UntoldIsNoted' /\ untold' \in BOOLEAN
    <3>1. ~untold /\ ota[named] = "pending"
      BY <1>2, <2>2 DEF PanelInv, UntoldIsNoted, Panel!Pending
    <3>2. CASE ota'[named] = "aborted" /\ untold' = (untold \/ note = "found")
      BY <2>1, <3>1, <3>2 DEF UntoldIsNoted
    <3>3. CASE ota'[named] = ota[named] /\ untold' = untold
      BY <2>1, <2>6, <3>1, <3>3 DEF UntoldIsNoted
    <3> QED BY <2>5, <3>2, <3>3
  <2> QED BY <2>1, <2>5, <2>7, <2>8, OffKeeps
<1>3. CASE ~Panel!Pending
  <2>1. /\ Panel!NoteErased /\ UNCHANGED <<image, ota, named, up, tasks, install, quiet>>
        /\ said' \in {"rolledback", "normal"} /\ up # "off" /\ stage = "boot"
        /\ panelTrial' = Panel!NoTrial /\ stage' \in {"tasks", "stuck"}
    BY <1>3 DEF Panel!TrialBegins, Panel!SettledNormally
  <2>2. /\ GoesBack' /\ UntoldIsNoted' /\ Twin(named)' = Twin(named)
        /\ note' \in {"none", "found"} /\ untold' \in BOOLEAN
    BY <2>1, SettledKeeps
  <2>3. PanelTypes'
    BY <2>1, <2>2 DEF PanelInv, PanelTypes, Panel!TypeOK, Panel!Slots, Panel!NoTrial
  <2>4. RunsWhole' /\ InstallsFromTheLoop' /\ TickFollowsFrame'
    BY <2>1, <2>2
       DEF PanelInv, RunsWhole, InstallsFromTheLoop, TickFollowsFrame, Panel!NoTrial
  <2> QED BY <2>2, <2>3, <2>4 DEF PanelInv
<1> QED BY <1>1, <1>2, <1>3

\* What a mark adds; a tick only once a frame was seen.
LEMMA MarkedSteps ==
  ASSUME NEW done \in SUBSET Panel!Steps, NEW steps \in SUBSET Panel!Steps
  PROVE  /\ Panel!Marked(done, steps) \in SUBSET Panel!Steps
         /\ "tick" \in Panel!Marked(done, steps) =>
              "tick" \in done \/ ("tick" \in steps /\ "frame" \in done \cup steps)
         /\ "frame" \in Panel!Marked(done, steps) <=> "frame" \in done \cup steps
<1> DEFINE seen == done \cup (steps \ {"tick"})
<1>1. "tick" \in Panel!Steps
  BY DEF Panel!Steps
<1>2. seen \in SUBSET Panel!Steps /\ ("tick" \in seen <=> "tick" \in done)
      /\ ("frame" \in seen <=> "frame" \in done \cup steps)
  OBVIOUS
<1>3. Panel!Marked(done, steps) =
        IF "tick" \in steps /\ "frame" \in seen THEN seen \cup {"tick"} ELSE seen
  BY DEF Panel!Marked
<1> HIDE DEF seen
<1>4. CASE "tick" \in steps /\ "frame" \in seen
  BY <1>1, <1>2, <1>3, <1>4
<1>5. CASE ~("tick" \in steps /\ "frame" \in seen)
  BY <1>2, <1>3, <1>5
<1> QED BY <1>4, <1>5

\* A step of the trial, of a task or of the bench.
LEMMA StartKept ==
  ASSUME PanelInv, UNCHANGED <<Panel!flash, untold, up, install, said>>,
         panelTrial' \in [done : SUBSET Panel!Steps, bound : BOOLEAN, settled : BOOLEAN,
                     late : BOOLEAN],
         TickFollowsFrame', tasks' \subseteq {"control", "logger"}, quiet' \in BOOLEAN,
         stage = stage' \/ (stage = "tasks" /\ stage' = "loop")
  PROVE  PanelInv'
<1>1. /\ GoesBack' /\ UntoldIsNoted' /\ Twin(named)' = Twin(named)
      /\ UNCHANGED <<image, ota, named, note>>
  BY FlashKept
<1>2. PanelTypes'
  BY <1>1 DEF PanelInv, PanelTypes, Panel!TypeOK, Panel!Slots, Panel!Steps
<1>3. RunsWhole' /\ InstallsFromTheLoop'
  BY <1>1 DEF PanelInv, RunsWhole, InstallsFromTheLoop
<1> QED BY <1>1, <1>2, <1>3 DEF PanelInv

LEMMA StartSteps ==
  ASSUME PanelInv,
         \/ Panel!SetUp \/ Panel!Time \/ Panel!Bench
         \/ \E t \in {"control", "logger"} : Panel!TaskRuns(t)
  PROVE  PanelInv'
<1>1. /\ panelTrial \in [done : SUBSET Panel!Steps, bound : BOOLEAN, settled : BOOLEAN,
                    late : BOOLEAN]
      /\ tasks \subseteq {"control", "logger"} /\ quiet \in BOOLEAN /\ TickFollowsFrame
  BY DEF PanelInv, PanelTypes, Panel!TypeOK
<1>2. CASE Panel!SetUp
  <2>1. Panel!Marked(panelTrial.done, {"start"}) \in SUBSET Panel!Steps
        /\ ("tick" \in Panel!Marked(panelTrial.done, {"start"}) =>
              "frame" \in Panel!Marked(panelTrial.done, {"start"}))
    BY <1>1, MarkedSteps DEF Panel!Steps, TickFollowsFrame
  <2>2. panelTrial' = [panelTrial EXCEPT !.done = Panel!Marked(panelTrial.done, {"start"})]
        /\ UNCHANGED <<Panel!flash, up, tasks, quiet, install, said, untold>>
        /\ stage = "tasks" /\ stage' = "loop"
    BY <1>2 DEF Panel!SetUp
  <2>3. TickFollowsFrame' /\
        panelTrial' \in [done : SUBSET Panel!Steps, bound : BOOLEAN, settled : BOOLEAN,
                    late : BOOLEAN]
    BY <1>1, <2>1, <2>2 DEF TickFollowsFrame
  <2> QED BY <1>1, <2>2, <2>3, StartKept
<1>3. CASE Panel!Time
  <2>1. panelTrial' = [panelTrial EXCEPT !.late = ~panelTrial.late]
        /\ UNCHANGED <<Panel!flash, up, stage, tasks, quiet, install, said, untold>>
    BY <1>3 DEF Panel!Time
  <2>2. panelTrial'.done = panelTrial.done /\
        panelTrial' \in [done : SUBSET Panel!Steps, bound : BOOLEAN, settled : BOOLEAN,
                    late : BOOLEAN]
    BY <1>1, <2>1
  <2> QED BY <1>1, <2>1, <2>2, StartKept DEF TickFollowsFrame
<1>4. CASE Panel!Bench
  BY <1>1, <1>4, StartKept DEF Panel!Bench, Panel!start, TickFollowsFrame
<1>5. CASE \E t \in {"control", "logger"} : Panel!TaskRuns(t)
  BY <1>1, <1>5, StartKept DEF Panel!TaskRuns, TickFollowsFrame
<1> QED BY <1>2, <1>3, <1>4, <1>5

\* What a pass of the screen loop has seen: a tick follows a frame of a pass
\* before it.
Seen(flushed) ==
  Panel!Marked(Panel!Marked(panelTrial.done, {"tick"}),
               tasks \cup (IF flushed THEN {"frame"} ELSE {}))

LEMMA SeenInOrder ==
  ASSUME PanelInv, NEW flushed \in BOOLEAN
  PROVE  /\ Seen(flushed) \in SUBSET Panel!Steps
         /\ "tick" \in Seen(flushed) => "frame" \in panelTrial.done /\ "frame" \in Seen(flushed)
<1> DEFINE ticked == Panel!Marked(panelTrial.done, {"tick"})
           more == tasks \cup (IF flushed THEN {"frame"} ELSE {})
<1>1. panelTrial.done \in SUBSET Panel!Steps /\ tasks \subseteq {"control", "logger"}
      /\ TickFollowsFrame
  BY DEF PanelInv, PanelTypes, Panel!TypeOK
<1>2. ticked \in SUBSET Panel!Steps
      /\ ("tick" \in ticked => "frame" \in panelTrial.done)
      /\ ("frame" \in ticked <=> "frame" \in panelTrial.done)
  BY <1>1, MarkedSteps DEF Panel!Steps, TickFollowsFrame
<1>3. more \in SUBSET Panel!Steps /\ "tick" \notin more
  BY <1>1 DEF Panel!Steps
<1> HIDE DEF ticked, more
<1>4. /\ Panel!Marked(ticked, more) \in SUBSET Panel!Steps
      /\ "tick" \in Panel!Marked(ticked, more) => "tick" \in ticked
      /\ "frame" \in Panel!Marked(ticked, more) <=> "frame" \in ticked \cup more
  BY <1>2, <1>3, MarkedSteps
<1>5. Seen(flushed) = Panel!Marked(ticked, more)
  BY DEF Seen, ticked, more
<1> QED BY <1>2, <1>4, <1>5

\* A pass keeps a trial on a bench at rest, and then what it kept is valid.
LEMMA FrameOutcome ==
  ASSUME NEW flushed \in BOOLEAN, Panel!Frame(flushed)
  PROVE  /\ stage = "loop" /\ install = "none"
         /\ panelTrial' = [panelTrial EXCEPT !.done = Seen(flushed), !.bound = Panel!Bound,
                                   !.settled = quiet /\ Panel!Keeps(Seen(flushed))]
         /\ UNCHANGED <<image, named, up, stage, tasks, quiet, install>>
         /\ \/ /\ quiet /\ Panel!Keeps(Seen(flushed)) /\ Panel!NoteErased
               /\ \/ ota' = [ota EXCEPT ![up] = "valid"] /\ said' = "updated"
                  \/ ota' = ota /\ said' = "unconfirmed"
            \/ UNCHANGED <<ota, note, said, untold>>
<1> HIDE DEF Seen
<1>1. CASE quiet /\ Panel!Keeps(Seen(flushed))
  BY <1>1 DEF Panel!Frame, Panel!SettledKept, Seen
<1>2. CASE ~(quiet /\ Panel!Keeps(Seen(flushed)))
  BY <1>2 DEF Panel!Frame, Seen
<1> QED BY <1>1, <1>2

LEMMA FrameKeeps ==
  ASSUME PanelInv, NEW flushed \in BOOLEAN, Panel!Frame(flushed)
  PROVE  PanelInv'
<1> DEFINE Trials == [done : SUBSET Panel!Steps, bound : BOOLEAN, settled : BOOLEAN,
                      late : BOOLEAN]
<1>1. /\ panelTrial \in Trials /\ named \in {"A", "B"} /\ up \in {"A", "B", "off"}
      /\ ota \in [{"A", "B"} -> {"none", "new", "pending", "valid", "aborted"}]
      /\ note \in {"none", "found"} /\ untold \in BOOLEAN
  BY TwinSlots DEF PanelInv, PanelTypes, Panel!TypeOK
<1>2. /\ stage = "loop" /\ install = "none"
      /\ panelTrial' = [panelTrial EXCEPT !.done = Seen(flushed), !.bound = Panel!Bound,
                                !.settled = quiet /\ Panel!Keeps(Seen(flushed))]
      /\ UNCHANGED <<image, named, up, stage, tasks, quiet, install>>
  BY FrameOutcome
<1>3. Seen(flushed) \in SUBSET Panel!Steps
      /\ ("tick" \in Seen(flushed) => "frame" \in Seen(flushed))
  BY SeenInOrder
<1>4. panelTrial' \in Trials /\ TickFollowsFrame'
  <2>1. Panel!Bound \in BOOLEAN /\ (quiet /\ Panel!Keeps(Seen(flushed))) \in BOOLEAN
    BY <1>1 DEF Panel!Bound
  <2> QED BY <1>1, <1>2, <1>3, <2>1 DEF TickFollowsFrame
<1>5. Twin(named)' = Twin(named)
  BY <1>2 DEF Twin, Panel!Other, Panel!Slots
<1>6. ASSUME ota' = [ota EXCEPT ![up] = "valid"]
      PROVE  /\ ota' \in [{"A", "B"} -> {"none", "new", "pending", "valid", "aborted"}]
             /\ GoesBack' /\ RunsWhole' /\ (ota'[named] = "aborted" <=> ota[named] = "aborted")
  <2>1. /\ \A s \in {"A", "B"} : ota'[s] = IF s = up THEN "valid" ELSE ota[s]
        /\ ota' \in [{"A", "B"} -> {"none", "new", "pending", "valid", "aborted"}]
    BY <1>1, <1>6
  <2>2. CASE up = named
    <3>1. ota'[named] = "valid" /\ ota'[Twin(named)] = ota[Twin(named)]
      BY <1>1, <2>1, <2>2, TwinSlots
    <3>2. ota[named] # "aborted" /\ image[named] = "whole"
      BY <1>1, <2>2, TwinSlots DEF PanelInv, RunsWhole
    <3>3. GoesBack' /\ RunsWhole'
      BY <1>1, <1>2, <1>5, <2>2, <3>1, <3>2 DEF PanelInv, GoesBack, RunsWhole
    <3> QED BY <1>2, <2>1, <3>1, <3>2, <3>3
  <2>3. CASE up # named
    <3>1. /\ ota'[named] = ota[named]
          /\ ota'[Twin(named)] = IF up = "off" THEN ota[Twin(named)] ELSE "valid"
      BY <1>1, <2>1, <2>3, TwinSlots
    <3>2. GoesBack' /\ RunsWhole'
      BY <1>2, <1>5, <2>3, <3>1 DEF PanelInv, GoesBack, RunsWhole
    <3> QED BY <2>1, <3>1, <3>2
  <2> QED BY <2>2, <2>3
<1>7. ASSUME UNCHANGED ota
      PROVE  /\ ota' \in [{"A", "B"} -> {"none", "new", "pending", "valid", "aborted"}]
             /\ GoesBack' /\ RunsWhole' /\ (ota'[named] = "aborted" <=> ota[named] = "aborted")
  BY <1>1, <1>2, <1>5, <1>7 DEF PanelInv, GoesBack, RunsWhole
<1>8. /\ ota' \in [{"A", "B"} -> {"none", "new", "pending", "valid", "aborted"}]
      /\ GoesBack' /\ RunsWhole' /\ (ota'[named] = "aborted" <=> ota[named] = "aborted")
  BY <1>1, <1>6, <1>7, FrameOutcome
<1>9. UntoldIsNoted' /\ note' \in {"none", "found"} /\ untold' \in BOOLEAN
  <2>1. CASE note' = "none" /\ untold' = FALSE
    BY <2>1 DEF UntoldIsNoted
  <2>2. CASE note' = note /\ UNCHANGED untold
    BY <1>1, <1>2, <1>8, <2>2 DEF PanelInv, UntoldIsNoted
  <2> QED BY <2>1, <2>2, FrameOutcome DEF Panel!NoteErased
<1>10. said' \in {"nothing", "normal", "updated", "rolledback", "unconfirmed"}
  BY FrameOutcome DEF PanelInv, PanelTypes, Panel!TypeOK
<1>11. PanelTypes'
  BY <1>2, <1>4, <1>8, <1>9, <1>10, TwinSlots DEF PanelInv, PanelTypes, Panel!TypeOK
<1>12. InstallsFromTheLoop'
  BY <1>2 DEF PanelInv, InstallsFromTheLoop
<1> QED BY <1>4, <1>8, <1>9, <1>11, <1>12 DEF PanelInv

LEMMA InstallBeginsKeeps ==
  ASSUME PanelInv,
         Panel!InstallBegins \/ Panel!InstallFails
  PROVE  PanelInv'
<1>1. /\ UNCHANGED <<Panel!flash, Panel!start, quiet, said, untold>>
      /\ \/ install' = "none"
         \/ install' = "open" /\ stage = "loop" /\ install = "none" /\ ota[up] # "pending"
  BY DEF Panel!InstallBegins, Panel!InstallFails, Panel!Installing, Panel!Pending
<1>2. UNCHANGED <<up, stage, panelTrial, tasks>>
  BY <1>1 DEF Panel!start
<1>3. /\ GoesBack' /\ UntoldIsNoted' /\ Twin(named)' = Twin(named)
      /\ UNCHANGED <<image, ota, named, note>>
  BY <1>1, FlashKept
<1>4. PanelTypes' /\ TickFollowsFrame'
  BY <1>1, <1>2, <1>3
     DEF PanelInv, PanelTypes, Panel!TypeOK, Panel!Slots, Panel!Steps, TickFollowsFrame
<1>5. install \in {"open", "writing"} \/ install = "none"
  BY DEF Panel!InstallBegins, Panel!InstallFails, Panel!Installing
<1>6. RunsWhole' /\ InstallsFromTheLoop'
  BY <1>1, <1>2, <1>3, <1>5 DEF PanelInv, RunsWhole, InstallsFromTheLoop
<1> QED BY <1>3, <1>4, <1>6 DEF PanelInv

\* An install writes where nothing runs, and where nothing starts but a build
\* that was kept and is whole until then.
LEMMA InstallWritesKeeps ==
  ASSUME PanelInv, Panel!InstallWrites
  PROVE  PanelInv'
<1>1. /\ install = "open" /\ install' = "writing"
      /\ image' = [image EXCEPT ![Twin(up)] = "part"]
      /\ UNCHANGED <<ota, named, note, up, stage, panelTrial, tasks, quiet, said, untold>>
  BY DEF Panel!InstallWrites, Panel!Installing, Panel!start, Twin
<1>2. /\ up \in {"A", "B"} /\ named \in {"A", "B"}
      /\ image \in [{"A", "B"} -> {"whole", "part"}]
      /\ \/ up = named /\ ota[named] = "valid"
         \/ up = Twin(named) /\ ota[named] = "aborted"
  <2>1. up # "off" /\ ota[up] # "pending"
    BY <1>1 DEF PanelInv, InstallsFromTheLoop
  <2>2. up \in {"A", "B", "off"} /\ named \in {"A", "B"}
        /\ image \in [{"A", "B"} -> {"whole", "part"}]
    BY TwinSlots DEF PanelInv, PanelTypes, Panel!TypeOK
  <2> QED BY <1>1, <2>1, <2>2 DEF PanelInv, RunsWhole
<1>3. /\ image' \in [{"A", "B"} -> {"whole", "part"}]
      /\ image'[up] = image[up]
      /\ Twin(named)' = Twin(named)
  BY <1>1, <1>2, TwinSlots DEF Twin, Panel!Other, Panel!Slots
<1>4. GoesBack' /\ UntoldIsNoted'
  BY <1>1, <1>2, <1>3 DEF PanelInv, GoesBack, UntoldIsNoted, RunsWhole
<1>5. RunsWhole' /\ InstallsFromTheLoop' /\ TickFollowsFrame'
  BY <1>1, <1>2, <1>3 DEF PanelInv, RunsWhole, InstallsFromTheLoop, TickFollowsFrame
<1>6. PanelTypes'
  BY <1>1, <1>3, TwinSlots DEF PanelInv, PanelTypes, Panel!TypeOK
<1> QED BY <1>4, <1>5, <1>6 DEF PanelInv

\* The build that runs stays whole, and is what the new one goes back to.
LEMMA InstallFinishesKeeps ==
  ASSUME PanelInv, Panel!InstallFinishes
  PROVE  PanelInv'
<1>1. /\ install = "writing" /\ install' = "named"
      /\ image' = [image EXCEPT ![Twin(up)] = "whole"]
      /\ ota' = [ota EXCEPT ![Twin(up)] = "new"] /\ named' = Twin(up) /\ untold' = FALSE
      /\ UNCHANGED <<note, up, stage, panelTrial, tasks, quiet, said>>
  BY DEF Panel!InstallFinishes, Panel!Installing, Panel!start, Twin
<1>2. /\ up \in {"A", "B"} /\ image[up] = "whole" /\ ota[up] = "valid"
      /\ image \in [{"A", "B"} -> {"whole", "part"}] /\ stage = "loop"
      /\ ota \in [{"A", "B"} -> {"none", "new", "pending", "valid", "aborted"}]
  BY <1>1, TwinSlots
     DEF PanelInv, PanelTypes, Panel!TypeOK, GoesBack, RunsWhole, InstallsFromTheLoop
<1>3. /\ image' \in [{"A", "B"} -> {"whole", "part"}]
      /\ ota' \in [{"A", "B"} -> {"none", "new", "pending", "valid", "aborted"}]
      /\ named' \in {"A", "B"} /\ Twin(named)' = up /\ up # named'
      /\ image'[up] = "whole" /\ ota'[up] = "valid"
      /\ image'[named'] = "whole" /\ ota'[named'] = "new"
  <2>1. Twin(up) \in {"A", "B"} /\ Twin(up) # up /\ Twin(Twin(up)) = up
    BY <1>2, TwinSlots
  <2>2. Twin(named)' = Twin(Twin(up))
    BY <1>1 DEF Twin, Panel!Other, Panel!Slots
  <2> QED BY <1>1, <1>2, <2>1, <2>2
<1>4. GoesBack' /\ UntoldIsNoted' /\ RunsWhole'
  BY <1>1, <1>3 DEF GoesBack, UntoldIsNoted, RunsWhole
<1>5. InstallsFromTheLoop' /\ TickFollowsFrame'
  BY <1>1, <1>2, <1>3 DEF PanelInv, InstallsFromTheLoop, TickFollowsFrame
<1>6. PanelTypes'
  BY <1>1, <1>3, TwinSlots, ZenonT(60) DEF PanelInv, PanelTypes, Panel!TypeOK
<1> QED BY <1>4, <1>5, <1>6 DEF PanelInv

LEMMA InstallNotesKeeps ==
  ASSUME PanelInv, Panel!InstallNotes
  PROVE  PanelInv'
<1>1. /\ install = "named" /\ install' = "noted" /\ note' \in {note, "found"}
      /\ UNCHANGED <<image, ota, named, up, stage, panelTrial, tasks, quiet, said, untold>>
  BY DEF Panel!InstallNotes, Panel!Installing, Panel!start
<1>2. ota[named] = "new"
  BY <1>1 DEF PanelInv, InstallsFromTheLoop
<1>3. Twin(named)' = Twin(named)
  BY <1>1 DEF Twin, Panel!Other, Panel!Slots
<1>4. GoesBack' /\ RunsWhole' /\ UntoldIsNoted'
  BY <1>1, <1>2, <1>3 DEF PanelInv, GoesBack, RunsWhole, UntoldIsNoted
<1>5. InstallsFromTheLoop' /\ TickFollowsFrame'
  BY <1>1 DEF PanelInv, InstallsFromTheLoop, TickFollowsFrame
<1>6. PanelTypes'
  BY <1>1, TwinSlots DEF PanelInv, PanelTypes, Panel!TypeOK
<1> QED BY <1>4, <1>5, <1>6 DEF PanelInv

-----------------------------------------------------------------------------
(* The theorems of the panel's firmware.                                   *)

LEMMA PanelStarts ==
  ASSUME Panel!Init
  PROVE  PanelInv
BY TwinSlots
   DEF Panel!Init, PanelInv, PanelTypes, Panel!TypeOK, GoesBack, RunsWhole,
       InstallsFromTheLoop, UntoldIsNoted, TickFollowsFrame, Panel!NoTrial, Panel!Steps

LEMMA PanelSteps ==
  ASSUME PanelInv, [Panel!Next]_(Panel!vars)
  PROVE  PanelInv'
<1>1. CASE Panel!Boots \/ Panel!Resets \/ Panel!InstallRestarts
  BY <1>1, PanelBootsKeeps, ResetsKeeps
<1>2. CASE \E uiUp \in BOOLEAN : Panel!TrialBegins(uiUp)
  BY <1>2, TrialBeginsKeeps
<1>3. CASE \/ Panel!SetUp \/ Panel!Time \/ Panel!Bench
           \/ \E t \in {"control", "logger"} : Panel!TaskRuns(t)
  BY <1>3, StartSteps
<1>4. CASE \E flushed \in BOOLEAN : Panel!Frame(flushed)
  BY <1>4, FrameKeeps
<1>5. CASE Panel!InstallBegins \/ Panel!InstallFails
  BY <1>5, InstallBeginsKeeps
<1>6. CASE Panel!InstallWrites \/ Panel!InstallFinishes \/ Panel!InstallNotes
  BY <1>6, InstallWritesKeeps, InstallFinishesKeeps, InstallNotesKeeps
<1>7. CASE UNCHANGED Panel!vars
  <2>1. UNCHANGED <<Panel!flash, untold, up, install, said, stage, panelTrial, tasks, quiet>>
    BY <1>7 DEF Panel!vars, Panel!start
  <2> QED BY <2>1, StartKept
          DEF PanelInv, PanelTypes, Panel!TypeOK, TickFollowsFrame
<1> QED BY <1>1, <1>2, <1>3, <1>4, <1>5, <1>6, <1>7 DEF Panel!Next

\* The panel's start, its trial and its install keep their types, and the slot
\* that starts has a whole build to go back to (esp_ota_ops, fw_trial.c,
\* fw_install.c).
THEOREM PanelInvariant == Panel!Spec => []PanelInv
<1> QED BY PanelStarts, PanelSteps, PTL DEF Panel!Spec

\* What a step may do to a build on trial: keep it, in a frame of the loop.
LEMMA KeptInAFrame ==
  ASSUME PanelInv, [Panel!Next]_(Panel!vars), NEW s \in Panel!Slots,
         ota[s] = "pending", ota'[s] = "valid"
  PROVE  s = up /\ stage = "loop" /\ quiet /\ "frame" \in panelTrial.done
<1>1. ota \in [{"A", "B"} -> {"none", "new", "pending", "valid", "aborted"}]
      /\ s \in {"A", "B"} /\ up \in {"A", "B", "off"}
  BY TwinSlots DEF PanelInv, PanelTypes, Panel!TypeOK
<1>2. CASE \E flushed \in BOOLEAN : Panel!Frame(flushed)
  <2>1. PICK flushed \in BOOLEAN : Panel!Frame(flushed)
    BY <1>2
  <2>2. ota' = [ota EXCEPT ![up] = "valid"] /\ stage = "loop"
        /\ quiet /\ Panel!Keeps(Seen(flushed))
    BY <2>1, <1>1, FrameOutcome
  <2>3. s = up
    BY <1>1, <2>2
  <2>4. "tick" \in Seen(flushed)
    BY <2>2 DEF Panel!Keeps, Panel!Steps
  <2> QED BY <2>2, <2>3, <2>4, SeenInOrder
<1>3. CASE Panel!Boots
  BY <1>1, <1>3, TwinSlots DEF Panel!Boots
<1>4. CASE \E uiUp \in BOOLEAN : Panel!TrialBegins(uiUp)
  BY <1>1, <1>4 DEF Panel!TrialBegins, Panel!SettledNormally, Panel!flash
<1>5. CASE Panel!InstallFinishes
  BY <1>1, <1>5 DEF Panel!InstallFinishes
<1>6. CASE UNCHANGED ota
  BY <1>6
<1>7. \/ UNCHANGED ota \/ Panel!Boots \/ Panel!InstallFinishes
      \/ \E uiUp \in BOOLEAN : Panel!TrialBegins(uiUp)
      \/ \E flushed \in BOOLEAN : Panel!Frame(flushed)
  BY DEF Panel!Next, Panel!vars, Panel!flash, Panel!Resets, Panel!SetUp, Panel!TaskRuns,
         Panel!Time, Panel!Bench, Panel!InstallBegins, Panel!InstallWrites,
         Panel!InstallFails, Panel!InstallNotes, Panel!InstallRestarts
<1> QED BY <1>2, <1>3, <1>4, <1>5, <1>6, <1>7

\* What a start that is no trial says of a lost build.
LEMMA SaidIsTrue ==
  ASSUME PanelInv, [Panel!Next]_(Panel!vars), said' # said,
         said' \in {"normal", "rolledback"}
  PROVE  said' = "rolledback" <=> untold
<1>1. CASE \E uiUp \in BOOLEAN : Panel!TrialBegins(uiUp)
  <2>1. PICK uiUp \in BOOLEAN : Panel!TrialBegins(uiUp)
    BY <1>1
  <2>2. said' = IF Panel!RolledBack THEN "rolledback" ELSE "normal"
    BY <2>1 DEF Panel!TrialBegins, Panel!SettledNormally
  <2>3. (\E s \in Panel!Slots : ota[s] = "aborted") <=> ota[named] = "aborted"
    BY TwinSlots DEF PanelInv, PanelTypes, Panel!TypeOK, GoesBack
  <2>4. Panel!RolledBack <=> untold
    BY <2>3 DEF PanelInv, UntoldIsNoted, Panel!RolledBack
  <2> QED BY <2>2, <2>4
<1>2. CASE \E flushed \in BOOLEAN : Panel!Frame(flushed)
  BY <1>2, FrameOutcome
<1>3. CASE Panel!Boots
  BY <1>3 DEF Panel!Boots
<1>4. \/ UNCHANGED said \/ Panel!Boots
      \/ \E uiUp \in BOOLEAN : Panel!TrialBegins(uiUp)
      \/ \E flushed \in BOOLEAN : Panel!Frame(flushed)
  BY DEF Panel!Next, Panel!vars, Panel!Resets, Panel!SetUp, Panel!TaskRuns,
         Panel!Time, Panel!Bench, Panel!InstallBegins, Panel!InstallWrites,
         Panel!InstallFails, Panel!InstallFinishes, Panel!InstallNotes,
         Panel!InstallRestarts
<1> QED BY <1>1, <1>2, <1>3, <1>4

\* A build is kept on a bench at rest, in a start whose screens came up, and by
\* a tick that followed a frame of an earlier pass (fw_trial_poll()).
THEOREM KeptByATick == Panel!Spec => Panel!KeptBuildsWork
<1> DEFINE A == \A s \in Panel!Slots : ota[s] = "pending" /\ ota'[s] = "valid" =>
                  s = up /\ stage = "loop" /\ quiet /\ "frame" \in panelTrial.done
<1>1. PanelInv /\ [Panel!Next]_(Panel!vars) => [A]_(Panel!vars)
  BY KeptInAFrame
<1> HIDE DEF A
<1>2. Panel!Spec => [][A]_(Panel!vars)
  BY <1>1, PanelInvariant, PTL DEF Panel!Spec
<1> QED BY <1>2 DEF A, Panel!KeptBuildsWork

\* What a start reports of a lost build is true and is not missed, whatever cut
\* the start, the install or the note between (fw_boot_settle()).
THEOREM ReportsTrue == Panel!Spec => Panel!ReportIsTrue
<1> DEFINE A == said' # said /\ said' \in {"normal", "rolledback"} =>
                  (said' = "rolledback" <=> untold)
<1>1. PanelInv /\ [Panel!Next]_(Panel!vars) => [A]_(Panel!vars)
  BY SaidIsTrue
<1> HIDE DEF A
<1>2. Panel!Spec => [][A]_(Panel!vars)
  BY <1>1, PanelInvariant, PTL DEF Panel!Spec
<1> QED BY <1>2 DEF A, Panel!ReportIsTrue
=============================================================================
