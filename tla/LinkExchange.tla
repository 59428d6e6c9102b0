---------------------------- MODULE LinkExchange ----------------------------
(***************************************************************************)
(* One exchange of the link at a time, and the repeat of a lost one: the   *)
(* panel's end (shared/link/link_host.c under exchange() of panel_link.c   *)
(* and link_read_split() of link_port.c) and the IOmcu's (link_dev.c).     *)
(*                                                                         *)
(* The panel asks, waits, asks once more when no answer came, and gives    *)
(* up.  The IOmcu answers a repeat from its copy of the first answer and   *)
(* acts on nothing again.  Numbers from 1 to SeqMax tell a repeat from the *)
(* next request and a late answer from this one's; a page wider than an    *)
(* exchange is read in two, the rest kept at the first.                    *)
(*                                                                         *)
(* Every exchange is one request frame: link_write_split() writes a wide   *)
(* window as an exchange of each part.  Wires keep their order and lose    *)
(* any frame.  Time passes in ticks of LINK_HOST_RETRY_MS or more.         *)
(***************************************************************************)
EXTENDS Integers, SequencesExt

CONSTANTS RetryFrom, \* ticks to the repeat, LINK_HOST_RETRY_MS
          RetryLast, \* ticks after which none is sent, LINK_HOST_RETRY_LAST_MS
          Timeout,  \* ticks to giving up, LINK_HOST_TIMEOUT_MS
          Keep,     \* ticks an answer is kept, LINK_DEV_REPEAT_MS
          Delay,    \* ticks a frame may wait for the wire
          SeqMax,   \* LINK_SEQ_MAX
          MaxOut,   \* requests on the wire, tx_queue_len of can_twai_start()
          MaxBack,  \* answer frames on the wire
          Ids,      \* history: names of exchanges, used again when none is left of one
          Ops       \* what the panel asks

\* An answer is kept for as long as a repeat may take to come (link_dev.h, at
\* LINK_DEV_REPEAT_MS), and a frame waits for less than half of a timeout.
ASSUME TimeAssumption ==
  /\ RetryFrom \in Nat \ {0} /\ RetryLast \in Nat /\ Timeout \in Nat /\ Keep \in Nat
  /\ Delay \in Nat /\ RetryFrom < RetryLast /\ RetryLast <= Timeout
  /\ RetryLast + Delay <= Keep /\ 2 * Delay < Timeout
ASSUME WireAssumption == SeqMax \in Nat \ {0, 1} /\ MaxOut \in Nat /\ MaxBack \in Nat
ASSUME IdsAssumption == Ids # {}

\* A write; the first part of a split read, the part kept for it, and the
\* wide read in one; the ACTIVATE of an update; the identity probe.
AllOps == {"write", "first", "held", "whole", "activate", "probe"}

ASSUME OpsAssumption == Ops \subseteq AllOps /\ "probe" \in Ops

VARIABLES
  host,     \* link_host_t: the outstanding request and what has come of it
  next,     \* next_seq and whether requests are numbered
  up,       \* s_link_is_up
  quiet,    \* s_link_quiet
  split,    \* a split read: the part it asks next, the states it has seen
  read,     \* history: the states of the page in the last reply put together
  dev,      \* link_dev_t: the exchange's number, its age, the answers kept
  held,     \* the rest of a wide read, the state it is of
  page,     \* the state of the page read
  toDev, toHost,
  acts,     \* history: times each exchange was acted on
  reborn    \* history: the IOmcu restarted since this exchange or its split read began

vars == <<host, next, up, quiet, split, read, dev, held, page, toDev, toHost,
          acts, reborn>>
panel == <<host, next, up, quiet, split, read>>
iomcu == <<dev, held, page, acts, reborn>>

States == 0..1          \* a page moves between two states
Pieces == 1..3          \* an answer's frames, by the registers they carry
Got == [piece : Pieces, id : Ids, ver : States]

PageOf(op) == CASE op = "write" -> "control" [] op = "activate" -> "update"
                [] op = "probe" -> "identity" [] OTHER -> "page"

\* The window an exchange asks for.
Window(op) == CASE op = "first" -> {1, 2} [] op = "held" -> {3}
                [] op = "whole" -> {1, 2, 3} [] OTHER -> {1}
StartOf(op) == IF op = "held" THEN 3 ELSE 1

Writes == {"write", "activate"}
Requests == [op : AllOps, seq : 0..SeqMax, id : Ids, age : 0..Delay]
Answers == [page : {"control", "update", "identity", "page"},
            kind : {"ack", "data", "nack"}, piece : Pieces,
            seq : 0..SeqMax, id : Ids, ver : States, age : 0..Delay]

TypeOK ==
  /\ host \in [pending : BOOLEAN, op : AllOps, id : Ids, seq : 0..SeqMax,
               age : 0..Timeout, ok : BOOLEAN, again : BOOLEAN, got : SUBSET Got,
               end : {"none", "ack", "data", "nack"}]
  /\ next \in [seq : 1..SeqMax, numbered : BOOLEAN]
  /\ up \in BOOLEAN /\ quiet \in BOOLEAN
  /\ split \in [due : {"any", "held", "whole"}, of : SUBSET States]
  /\ read \in SUBSET States
  /\ dev.seq \in 0..SeqMax /\ dev.age \in 0..Keep
  /\ \A k \in dev.kept : k.op \in AllOps /\ k.reply \in Seq(Answers)
  /\ held \in {-1} \cup States /\ page \in States
  /\ toDev \in Seq(Requests) /\ Len(toDev) <= MaxOut
  /\ toHost \in Seq(Answers) /\ Len(toHost) <= MaxBack
  /\ acts \in [Ids -> 0..2] /\ reborn \in BOOLEAN

NoSplit == [due |-> "any", of |-> {}]
FreshHost(i) == [pending |-> FALSE, op |-> "probe", id |-> i, seq |-> 0,
                 age |-> 0, ok |-> FALSE, again |-> FALSE, got |-> {},
                 end |-> "none"]
FreshDev == [seq |-> 0, age |-> 0, kept |-> {}]

\* Both ends from reset, the link down.
Init ==
  /\ host = FreshHost(CHOOSE i \in Ids : TRUE) /\ next = [seq |-> 1, numbered |-> FALSE]
  /\ up = FALSE /\ quiet = FALSE /\ split = NoSplit /\ read = {}
  /\ dev = FreshDev /\ held = -1 /\ page = 0
  /\ toDev = <<>> /\ toHost = <<>>
  /\ acts = [i \in Ids |-> 0] /\ reborn = FALSE

-----------------------------------------------------------------------------
(* The panel.                                                              *)

\* Exchanges something is left of.
InUse == {host.id} \cup {toDev[k].id : k \in DOMAIN toDev}
         \cup {toHost[k].id : k \in DOMAIN toHost} \cup {k.id : k \in dev.kept}

NewId == CHOOSE i \in Ids : i \notin InUse

\* Mutant: the number stays.
FollowingSame(s) == s

Following(s) == (s % SeqMax) + 1

\* Mutant: an ACTIVATE repeats as any request does.
MayRepeatAll(op, seq) == seq # 0

MayRepeat(op, seq) == seq # 0 /\ op # "activate"

\* start(): the request outstanding, numbered while the far end repeats.
Begun(op, i) ==
  LET s == IF next.numbered THEN next.seq ELSE 0
  IN [pending |-> TRUE, op |-> op, id |-> i, seq |-> s, age |-> 0,
      ok |-> MayRepeat(op, s), again |-> FALSE, got |-> {},
      end |-> "none"]

Request(h) == [op |-> h.op, seq |-> h.seq, id |-> h.id, age |-> 0]

NumberSpent ==
  next' = IF next.numbered THEN [next EXCEPT !.seq = Following(next.seq)] ELSE next

\* What the panel asks now: the rest of a split read before anything else,
\* and with the link down its identity alone.
Asks(op) ==
  /\ ~host.pending /\ InUse # Ids
  /\ IF up THEN op # "probe" ELSE op = "probe"
  /\ IF split.due = "any" THEN op \notin {"held"} ELSE op = split.due

\* exchange() after start(): the request reaches the controller's queue.
Start(op) ==
  /\ Asks(op) /\ ~quiet /\ Len(toDev) < MaxOut
  /\ host' = Begun(op, NewId)
  /\ acts' = [acts EXCEPT ![NewId] = 0]
  /\ toDev' = Append(toDev, Request(host'))
  /\ reborn' = (reborn /\ op = "held")
  /\ NumberSpent
  /\ UNCHANGED <<up, quiet, split, read, dev, held, page, toHost>>

\* link_host_abandon(): the queue did not take it, and the exchange is
\* unanswered; or the link went quiet earlier in this pass, and it is not sent.
\* The number is spent either way.
Abandon(op) ==
  /\ Asks(op)
  /\ host' = [Begun(op, NewId) EXCEPT !.pending = FALSE]
  /\ acts' = [acts EXCEPT ![NewId] = 0]
  /\ quiet' = up
  /\ split' = NoSplit
  /\ NumberSpent
  /\ UNCHANGED <<up, read, dev, held, page, reborn, toDev, toHost>>

\* link_host_retry(): once, from RetryFrom until RetryLast.
Repeat ==
  /\ host.pending /\ host.ok /\ ~host.again
  /\ RetryFrom <= host.age /\ host.age < RetryLast
  /\ host' = [host EXCEPT !.again = TRUE]
  /\ toDev' = IF Len(toDev) < MaxOut
              THEN Append(toDev, Request(host)) ELSE toDev
  /\ UNCHANGED <<next, up, quiet, split, read, iomcu, toHost>>

\* A stop applied, or a disarm posted, during the wait.
Cancel ==
  /\ host.pending /\ host.ok
  /\ host' = [host EXCEPT !.ok = FALSE]
  /\ UNCHANGED <<next, up, quiet, split, read, iomcu, toDev, toHost>>

Belongs(m) == m.page = PageOf(host.op) /\ m.seq = host.seq

\* The frame falls in the window asked for and answers this kind of request.
Fits(m) ==
  CASE m.kind = "nack" -> m.piece = StartOf(host.op)
    [] m.kind = "ack" -> host.op \in Writes
    [] m.kind = "data" -> host.op \notin Writes /\ m.piece \in Window(host.op)

\* acc: what a piece carries replaces what came for it before.
Collected(m) == {g \in host.got : g.piece # m.piece}
                \cup {[piece |-> m.piece, id |-> m.id, ver |-> m.ver]}

\* History: the states of the page in them, of an IOmcu that has not restarted
\* in between.
Seen(got) == IF reborn THEN {} ELSE {g.ver : g \in got}

\* window_complete()
Complete(got) == Window(host.op) \subseteq {g.piece : g \in got}

\* link_read_split() after an exchange that was answered: the kept part after
\* the first, and one wide read when nothing was kept.
AfterAnswer(op, kind, seen) ==
  CASE op = "first" /\ kind = "data" -> [due |-> "held", of |-> seen]
    [] op = "held" /\ kind = "nack" -> [due |-> "whole", of |-> {}]
    [] OTHER -> NoSplit

\* What the reply the caller gets is put together from.
Together(op, kind, seen) ==
  IF kind # "data" THEN {}
  ELSE IF op = "held" THEN split.of \cup seen ELSE seen

\* link_host_accept(): the oldest frame, read inside the wait and nowhere else.
\* A refusal ends the request; data and acknowledgements when the window is
\* full.
Accept ==
  /\ host.pending /\ toHost # <<>>
  /\ toHost' = Tail(toHost)
  /\ LET m == Head(toHost)
         got == Collected(m)
         ends == m.kind = "nack" \/ Complete(got)
         seen == Seen(got)
         found == host.op = "probe" /\ m.kind = "data"
     IN IF ~Belongs(m) \/ ~Fits(m)
        THEN UNCHANGED panel
        ELSE /\ host' = [host EXCEPT !.got = got, !.pending = ~ends,
                                     !.end = IF ends THEN m.kind ELSE "none"]
             /\ split' = IF ends THEN AfterAnswer(host.op, m.kind, seen) ELSE split
             /\ read' = IF ends THEN Together(host.op, m.kind, seen) ELSE read
             /\ up' = (up \/ found)
             /\ next' = [next EXCEPT !.numbered = @ \/ found]
             /\ UNCHANGED quiet
  /\ UNCHANGED <<iomcu, toDev>>

\* link_host_tick() and exchange_unanswered().
GiveUp ==
  /\ host.pending /\ host.age >= Timeout
  /\ host' = [host EXCEPT !.pending = FALSE]
  /\ quiet' = up
  /\ split' = NoSplit
  /\ UNCHANGED <<next, up, read, iomcu, toDev, toHost>>

\* poll_far_end() with the link quiet: down, and the probes unnumbered.
Down ==
  /\ quiet /\ ~host.pending
  /\ up' = FALSE /\ quiet' = FALSE
  /\ next' = [next EXCEPT !.numbered = FALSE]
  /\ UNCHANGED <<host, split, read, iomcu, toDev, toHost>>

\* The panel starts again: link_host_init(), its queues gone.  The frame the
\* IOmcu's one transmit buffer holds still comes.  A boot shows the splash for
\* longer than LINK_DEV_REPEAT_MS.
PanelRestart ==
  /\ host' = FreshHost(host.id)
  /\ next' = [seq |-> 1, numbered |-> FALSE]
  /\ up' = FALSE /\ quiet' = FALSE /\ split' = NoSplit /\ read' = {}
  /\ toDev' = <<>>
  /\ toHost' \in {<<>>} \cup {<<toHost[k]>> : k \in DOMAIN toHost}
  /\ dev' = [dev EXCEPT !.age = IF dev.seq = 0 THEN @ ELSE Keep]
  /\ UNCHANGED <<held, page, acts, reborn>>

-----------------------------------------------------------------------------
(* The IOmcu.                                                              *)

\* A new exchange, or an answer too old: what was kept is no answer to it.
Hears(m) ==
  IF m.seq = 0 THEN FreshDev
  ELSE IF m.seq # dev.seq \/ dev.age >= Keep
  THEN [seq |-> m.seq, age |-> 0, kept |-> {}] ELSE dev

\* Mutant: a read is not worth keeping.
RepeatedWrites(m) == {k \in Hears(m).kept : k.op = m.op /\ m.op \in Writes}

\* repeat_of() and same_request(): the kept answers of this very message.
\* Two writes of one kind carry the same values here.
Repeated(m) == {k \in Hears(m).kept : k.op = m.op}

Frame(m, kind, p, v) == [page |-> PageOf(m.op), kind |-> kind, piece |-> p,
                         seq |-> m.seq, id |-> m.id, ver |-> v, age |-> 0]

Data(m, v) == [p \in 1..Cardinality(Window(m.op)) |->
                 Frame(m, "data", StartOf(m.op) + p - 1, v)]

\* A READ_HELD finds what the first part kept.
HeldReply(m) == IF held = -1 THEN <<Frame(m, "nack", 3, 0)>> ELSE Data(m, held)

\* link_dev_apply(): a page takes a write or refuses it, and reads as it is;
\* the identity never changes.
Applied(m) ==
  IF m.op \in Writes THEN {<<Frame(m, "ack", 1, 0)>>, <<Frame(m, "nack", 1, 0)>>}
  ELSE {Data(m, IF m.op = "probe" THEN 0 ELSE page)}

\* answer(): what a message it has not seen gets.
Replies(m) == IF m.op = "held" THEN {HeldReply(m)} ELSE Applied(m)

\* read_and_keep() and serve_held(): the kept part is of this read, and is
\* spent by the answer that takes it.
HeldAfter(m) == CASE m.op = "first" -> page [] m.op = "held" -> -1 [] OTHER -> held

\* Answers too many for the wire are lost (s_can_tx_dropped).
Sent(reply) == IF Len(toHost) + Len(reply) <= MaxBack THEN toHost \o reply ELSE toHost

Twice(n) == IF n < 2 THEN n + 1 ELSE 2

\* link_dev_dispatch(): the oldest request.
Dispatch ==
  /\ toDev # <<>>
  /\ toDev' = Tail(toDev)
  /\ LET m == Head(toDev)
         again == Repeated(m)
     IN IF again # {}
        THEN /\ toHost' = Sent((CHOOSE k \in again : TRUE).reply)
             /\ dev' = Hears(m)
             /\ UNCHANGED <<held, acts>>
        ELSE \E reply \in Replies(m) :
             /\ toHost' = Sent(reply)
             /\ held' = HeldAfter(m)
             /\ acts' = IF reply[1].kind = "ack"
                        THEN [acts EXCEPT ![m.id] = Twice(@)] ELSE acts
             /\ dev' = IF m.seq = 0 THEN Hears(m)
                       ELSE [Hears(m) EXCEPT !.kept = @ \cup
                               {[op |-> m.op, id |-> m.id, reply |-> reply]}]
  /\ UNCHANGED <<panel, page, reborn>>

\* The page's registers change under the IOmcu's own loop.
PageMoves == page' = 1 - page /\ UNCHANGED <<panel, dev, held, acts, reborn, toDev, toHost>>

\* A reset, or the restart an ACTIVATE ends in: link_dev_init().  What it had
\* acted on before is gone, an ACTIVATE apart.
Restart ==
  /\ dev' = FreshDev /\ held' = -1 /\ reborn' = TRUE
  /\ acts' = [i \in Ids |-> IF i = host.id /\ host.op = "activate"
                            THEN acts[i] ELSE 0]
  /\ UNCHANGED <<panel, page, toDev, toHost>>

-----------------------------------------------------------------------------
(* The wire and the clocks.                                                *)

DropRequest == \E k \in DOMAIN toDev :
                 toDev' = RemoveAt(toDev, k) /\ UNCHANGED <<panel, iomcu, toHost>>

DropAnswer == \E k \in DOMAIN toHost :
                toHost' = RemoveAt(toHost, k) /\ UNCHANGED <<panel, iomcu, toDev>>

\* Mutant: the wait stops counting where the link is called quiet.
OlderStuck(h) == [h EXCEPT !.age = IF h.pending /\ @ < RetryLast THEN @ + 1 ELSE @]

Older(h) == [h EXCEPT !.age = IF h.pending /\ @ < Timeout THEN @ + 1 ELSE @]

\* An answer is read within Delay by the wait it comes in; with none, it
\* stays in the queue.
Tick ==
  /\ \A k \in DOMAIN toDev : toDev[k].age < Delay
  /\ host.pending => \A k \in DOMAIN toHost : toHost[k].age < Delay
  /\ toDev' = [k \in DOMAIN toDev |-> [toDev[k] EXCEPT !.age = @ + 1]]
  /\ toHost' = [k \in DOMAIN toHost |->
                  [toHost[k] EXCEPT !.age = IF @ < Delay THEN @ + 1 ELSE @]]
  /\ host' = Older(host)
  /\ dev' = [dev EXCEPT !.age = IF dev.seq # 0 /\ @ < Keep THEN @ + 1 ELSE @]
  /\ UNCHANGED <<next, up, quiet, split, read, held, page, acts, reborn>>

-----------------------------------------------------------------------------
Next ==
  \/ \E op \in Ops : Start(op) \/ Abandon(op)
  \/ Repeat \/ Cancel \/ Accept \/ GiveUp \/ Down \/ PanelRestart
  \/ Dispatch \/ PageMoves \/ Restart
  \/ DropRequest \/ DropAnswer \/ Tick

Spec == Init /\ [][Next]_vars

\* The loop of exchange() turns every 5 ms, the IOmcu reads what reaches it,
\* and time passes.
FairSpec == /\ Spec /\ WF_vars(GiveUp) /\ WF_vars(Accept) /\ WF_vars(Dispatch)
            /\ WF_vars(Tick)

\* What the link may do no longer once it is plugged in for good.
Loses == \/ DropRequest \/ DropAnswer \/ Restart \/ PanelRestart
         \/ \E op \in Ops : Abandon(op) /\ ~quiet

\* From some point on nothing is lost and nothing restarts; a poll comes due
\* again and again, and a wait reads the answers that have come.
Heals == /\ WF_vars(Start("probe")) /\ WF_vars(Down)
         /\ SF_vars(Accept) /\ <>[][~Loses]_vars

-----------------------------------------------------------------------------
(* Properties.                                                             *)

\* However late, lost, repeated or stopped short, no request is acted on
\* twice by an IOmcu that has not restarted, and no ACTIVATE by the image it
\* started either (repeat_of(), is_activate()).
AtMostOnce == \A i \in Ids : acts[i] <= 1

\* A numbered write that was acknowledged was acted on once, and one that
\* was refused changed nothing, unless the IOmcu restarted meanwhile: what
\* the caller is told is what happened to the page.
OutcomeIsTrue ==
  (host.seq # 0 /\ host.op \in Writes /\ ~reborn) =>
    /\ host.end = "ack" => acts[host.id] = 1
    /\ host.end = "nack" => acts[host.id] = 0

\* A reply put together from several frames, of one exchange or two and of
\* first answers and repeated ones, is one state of the page.
ReadIsOneState == Cardinality(read) <= 1

\* A request outstanding does not stay so: exchange() returns, whatever the
\* wire does.
ExchangeEnds == host.pending ~> ~host.pending

\* A link that went quiet comes back when the wire does, whatever was left in
\* the queues of either end.
LinkReturns == Heals => []<>up
=============================================================================
