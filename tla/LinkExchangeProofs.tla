------------------------- MODULE LinkExchangeProofs -------------------------
(***************************************************************************)
(* Proofs about LinkExchange for every length of the times, the numbers    *)
(* and the queues, and any number of names: no request is acted on twice,  *)
(* the outcome told is what happened to the page, and a reply put together *)
(* from several frames is one state of its page.                           *)
(***************************************************************************)
EXTENDS LinkExchange, FiniteSetTheorems, SequenceTheorems, TLAPS

-----------------------------------------------------------------------------
(* The types of the records.                                               *)

KeptAnswers == [op : AllOps, id : Ids, reply : Seq(Answers)]
Devices == [seq : 0..SeqMax, age : 0..Keep, kept : SUBSET KeptAnswers]

Hosts == [pending : BOOLEAN, op : AllOps, id : Ids, seq : 0..SeqMax,
          age : 0..Timeout, ok : BOOLEAN, again : BOOLEAN, got : SUBSET Got,
          end : {"none", "ack", "data", "nack"}]

Types ==
  /\ host \in Hosts
  /\ next \in [seq : 1..SeqMax, numbered : BOOLEAN]
  /\ up \in BOOLEAN /\ quiet \in BOOLEAN
  /\ split \in [due : {"any", "held", "whole"}, of : SUBSET States]
  /\ read \in SUBSET States
  /\ dev \in Devices /\ held \in {-1} \cup States /\ page \in States
  /\ toDev \in Seq(Requests) /\ Len(toDev) <= MaxOut
  /\ toHost \in Seq(Answers) /\ Len(toHost) <= MaxBack
  /\ acts \in [Ids -> 0..2] /\ reborn \in BOOLEAN

-----------------------------------------------------------------------------
(* The inductive invariant.                                                *)

\* The IOmcu has an answer of exchange i.
Heard(i) == \E k \in dev.kept : k.id = i

Young == dev.age < Keep

\* Requests are numbered, and what is outstanding is waited for.
Steady == next.numbered /\ ~quiet

\* Numbers, the identity probe and the link go together.
ModeFits ==
  /\ next.numbered = up
  /\ quiet => up /\ ~host.pending
  /\ host.pending => (host.seq = 0 <=> ~up) /\ (host.op = "probe" <=> ~up)
  /\ host.pending => host.end = "none"
  /\ host.end # "none" => host.got # {}
  /\ host.pending /\ host.op = "probe" => host.got = {}
  /\ host.pending /\ host.ok => MayRepeat(host.op, host.seq)
  /\ Steady /\ host.seq # 0 => next.seq = Following(host.seq)
  /\ split.due = "held" => host.seq # 0

\* The frames of one exchange are alike, in one block, the newest exchange's
\* last; an ACTIVATE has one.
Alike(r, s) == r.op = s.op /\ r.seq = s.seq

FramesFit ==
  /\ \A j \in DOMAIN toDev :
       /\ toDev[j].seq = 0 => toDev[j].op = "probe"
       /\ toDev[j].id = host.id => Alike(toDev[j], host)
       /\ host.pending /\ host.seq # 0 /\ toDev[j].seq = host.seq
            => toDev[j].id = host.id
  /\ \A j, k \in DOMAIN toDev :
       /\ toDev[j].id = toDev[k].id =>
            /\ Alike(toDev[j], toDev[k])
            /\ j # k => toDev[j].op # "activate"
       /\ toDev[j].seq = toDev[k].seq /\ toDev[j].seq # 0
            => toDev[j].id = toDev[k].id
       /\ j < k /\ toDev[j].id = host.id => toDev[k].id = host.id
  /\ \A j, l, k \in DOMAIN toDev :
       j < l /\ l < k /\ toDev[j].id = toDev[k].id => toDev[l].id = toDev[j].id

\* What is kept is one answer, of the exchange whose number the IOmcu has.
KeptIsOne ==
  /\ \A k, l \in dev.kept : k = l
  /\ \A k \in dev.kept :
       /\ dev.seq # 0
       /\ \A p \in DOMAIN k.reply : k.reply[p].seq = dev.seq
       /\ k.id = host.id /\ host.seq # 0 =>
            /\ k.op = host.op /\ dev.seq = host.seq
            /\ \A j \in DOMAIN toDev : toDev[j].id = host.id

\* A frame of an exchange that was heard is the next to come, and comes while
\* the answer is kept; so does one that may yet be sent.
RepeatsInTime ==
  \A k \in dev.kept :
    /\ \A j \in DOMAIN toDev : toDev[j].id = k.id =>
         /\ k.op = toDev[j].op /\ dev.seq = toDev[j].seq
         /\ dev.age + Delay - toDev[j].age < Keep
         /\ \A i \in DOMAIN toDev : i < j => toDev[i].id = k.id
    /\ host.pending /\ k.id = host.id => dev.age <= host.age \/ host.age >= RetryLast

\* A number the IOmcu still has names the exchange it has heard.
NumberNames ==
  Young /\ dev.seq # 0 =>
    /\ \A j \in DOMAIN toDev : toDev[j].seq = dev.seq => Heard(toDev[j].id)
    /\ host.pending /\ host.seq = dev.seq => Heard(host.id)

KeptFits == KeptIsOne /\ RepeatsInTime /\ NumberNames

\* Frames of what was acted on find it heard.
ActsFit ==
  /\ AtMostOnce
  /\ \A j \in DOMAIN toDev : acts[toDev[j].id] > 0 =>
       Heard(toDev[j].id) /\ toDev[j].op # "activate"
  /\ host.pending /\ host.ok /\ acts[host.id] > 0 => Heard(host.id)

\* Nothing of another number is left behind.
Left(n) == /\ \A j \in DOMAIN toDev : toDev[j].seq = n
           /\ Young /\ dev.seq # 0 => dev.seq = n

\* Behind a frame that carries n, either way, all frames do.
Behind(n) ==
  /\ \A j, k \in DOMAIN toDev : j < k /\ toDev[j].seq = n => toDev[k].seq = n
  /\ \A k \in DOMAIN toHost : toHost[k].seq = n =>
       Left(n) /\ \A l \in DOMAIN toHost : k < l => toHost[l].seq = n

AllOf(n) == Left(n) /\ \A k \in DOMAIN toHost : toHost[k].seq = n

\* An answer is taken for the request it belongs to: with one answered, no
\* other number is left on the wires; the probes of a link that is down are
\* behind all that was numbered.
Numbers ==
  /\ host.pending => Behind(host.seq)
  /\ ~Steady => Behind(0)
  /\ Steady /\ (~host.pending \/ host.got # {}) => AllOf(host.seq)
  /\ host.got # {} /\ host.seq # 0 => \A j \in DOMAIN toDev : toDev[j].id = host.id

\* What was not numbered is gone by the time a numbered request is given up.
ProbesAreOld ==
  host.pending /\ host.seq # 0 =>
    /\ \A j \in DOMAIN toDev : toDev[j].seq = 0 => toDev[j].age >= host.age
    /\ \A k \in DOMAIN toHost :
         toHost[k].seq = 0 => toHost[k].age + Delay >= host.age

\* An answer of the exchange has come, or is coming.
Told == \/ host.got # {}
        \/ host.pending /\ \E k \in DOMAIN toHost : toHost[k].seq = host.seq

Same == host.seq # 0 /\ ~reborn

\* Its further frames will find the answer kept.
ToldIsHeard ==
  Same /\ Told =>
    /\ \A j \in DOMAIN toDev : toDev[j].id = host.id => Heard(host.id)
    /\ host.pending /\ host.ok => Heard(host.id)

\* What is told of a write is whether it was acted on.
TellsActs(kind) == /\ kind = "ack" => acts[host.id] = 1
                   /\ kind = "nack" => acts[host.id] = 0

WritesTold ==
  Same /\ host.op \in Writes =>
    /\ TellsActs(host.end)
    /\ host.pending => \A k \in DOMAIN toHost :
                         toHost[k].seq = host.seq => TellsActs(toHost[k].kind)
    /\ \A k \in dev.kept : k.id = host.id =>
         \A p \in DOMAIN k.reply : TellsActs(k.reply[p].kind)

\* What is told of a page is its state v.
OfState(m, v) == m.kind = "data" => m.ver = v

ReadsTold(v) ==
  Same /\ host.op \notin Writes =>
    /\ host.end # "nack" => \A g \in host.got : g.ver = v
    /\ host.pending => \A k \in DOMAIN toHost :
                         toHost[k].seq = host.seq => OfState(toHost[k], v)
    /\ \A k \in dev.kept : k.id = host.id =>
         \A p \in DOMAIN k.reply : OfState(k.reply[p], v)
    /\ host.op = "first" /\ (Told \/ Heard(host.id)) => held = v
    /\ split.due = "held" => split.of \subseteq {v} /\ held \in {-1, v}

\* The first part of a split read is not read again under the second.
FirstIsHeard ==
  ~reborn /\ split.due = "held" =>
    \A j \in DOMAIN toDev : toDev[j].op = "first" => Heard(toDev[j].id)

ReadsFit ==
  /\ \E v \in States : ReadsTold(v)
  /\ FirstIsHeard
  /\ \A v, w \in split.of : v = w
  /\ \A v, w \in read : v = w
  /\ split.due = "held" /\ ~host.pending => host.op = "first"
  /\ host.pending => (split.due = "held" <=> host.op = "held")

IInv == /\ Types /\ ModeFits /\ FramesFit /\ KeptFits /\ ActsFit
        /\ Numbers /\ ProbesAreOld
        /\ ToldIsHeard /\ WritesTold /\ ReadsFit

-----------------------------------------------------------------------------
(* Wires.                                                                  *)

\* t is s without its frame k: where its frame j was.
Was(k, j) == IF j < k THEN j ELSE j + 1

Lacks(t, s, k) ==
  /\ Len(t) = Len(s) - 1
  /\ \A j \in DOMAIN t : t[j] = s[Was(k, j)]

LEMMA RemovedIs ==
  ASSUME NEW S, NEW s \in Seq(S), NEW k \in DOMAIN s
  PROVE  RemoveAt(s, k) \in Seq(S) /\ Lacks(RemoveAt(s, k), s, k)
<1> DEFINE a == SubSeq(s, 1, k - 1)
           b == SubSeq(s, k + 1, Len(s))
<1>1. k \in 1..Len(s)
  OBVIOUS
<1>2. /\ a \in Seq(S) /\ Len(a) = k - 1
      /\ \A j \in 1..k - 1 : a[j] = s[j]
  BY <1>1
<1>3. /\ b \in Seq(S) /\ Len(b) = Len(s) - k
      /\ \A j \in 1..Len(s) - k : b[j] = s[j + k]
  BY <1>1
<1>4. RemoveAt(s, k) = a \o b
  BY DEF RemoveAt
<1> HIDE DEF a, b
<1>5. /\ a \o b \in Seq(S) /\ Len(a \o b) = Len(s) - 1
      /\ DOMAIN (a \o b) = 1..Len(s) - 1
      /\ \A j \in 1..Len(s) - 1 :
           (a \o b)[j] = IF j < k THEN a[j] ELSE b[j - (k - 1)]
  <2>1. /\ a \o b \in Seq(S) /\ Len(a \o b) = Len(a) + Len(b)
        /\ \A j \in 1..Len(a) + Len(b) :
             (a \o b)[j] = IF j <= Len(a) THEN a[j] ELSE b[j - Len(a)]
    BY <1>2, <1>3, ConcatProperties
  <2>2. Len(s) \in Nat /\ Len(a) + Len(b) = Len(s) - 1
    BY <1>1, <1>2, <1>3
  <2>3. \A j \in 1..Len(s) - 1 : j <= Len(a) <=> j < k
    BY <1>1, <1>2, <2>2
  <2>4. DOMAIN (a \o b) = 1..Len(s) - 1
    BY <2>1, <2>2
  <2> QED
    BY <1>2, <2>1, <2>2, <2>3, <2>4
<1>6. ASSUME NEW j \in 1..Len(s) - 1
      PROVE  (a \o b)[j] = s[IF j < k THEN j ELSE j + 1]
  <2>1. CASE j < k
    BY <1>1, <1>2, <1>5, <2>1
  <2>2. CASE ~(j < k)
    <3>1. j - (k - 1) \in 1..Len(s) - k /\ j - (k - 1) + k = j + 1
      BY <1>1, <2>2
    <3> QED
      BY <1>3, <1>5, <2>2, <3>1
  <2> QED
    BY <2>1, <2>2
<1> QED
  BY <1>4, <1>5, <1>6 DEF Lacks, Was

LEMMA TailIs ==
  ASSUME NEW S, NEW s \in Seq(S), s # <<>>
  PROVE  /\ Tail(s) \in Seq(S) /\ Lacks(Tail(s), s, 1)
         /\ 1 \in DOMAIN s /\ Head(s) = s[1] /\ s[1] \in S
BY DEF Lacks, Was

LEMMA JoinedIs ==
  ASSUME NEW S, NEW s \in Seq(S), NEW t \in Seq(S)
  PROVE  /\ s \o t \in Seq(S) /\ Len(s \o t) = Len(s) + Len(t)
         /\ DOMAIN (s \o t) = 1..Len(s) + Len(t)
         /\ \A j \in DOMAIN (s \o t) :
              IF j <= Len(s) THEN j \in DOMAIN s /\ (s \o t)[j] = s[j]
              ELSE j - Len(s) \in DOMAIN t /\ (s \o t)[j] = t[j - Len(s)]
<1>1. /\ s \o t \in Seq(S) /\ Len(s \o t) = Len(s) + Len(t)
      /\ \A j \in 1..Len(s) + Len(t) :
           (s \o t)[j] = IF j <= Len(s) THEN s[j] ELSE t[j - Len(s)]
  BY ConcatProperties
<1>2. DOMAIN (s \o t) = 1..Len(s) + Len(t)
  BY <1>1
<1>3. \A j \in 1..Len(s) + Len(t) :
        IF j <= Len(s) THEN j \in DOMAIN s ELSE j - Len(s) \in DOMAIN t
  OBVIOUS
<1> QED
  BY <1>1, <1>2, <1>3

LEMMA AppendedIs ==
  ASSUME NEW S, NEW s \in Seq(S), NEW r \in S
  PROVE  /\ Append(s, r) \in Seq(S) /\ Len(Append(s, r)) = Len(s) + 1
         /\ DOMAIN Append(s, r) = 1..Len(s) + 1
         /\ DOMAIN s = 1..Len(s) /\ Len(s) \in Nat
         /\ \A j \in DOMAIN s : Append(s, r)[j] = s[j]
         /\ Append(s, r)[Len(s) + 1] = r
OBVIOUS

-----------------------------------------------------------------------------
(* Answers.                                                                *)

LEMMA WindowsAre ==
  ASSUME NEW op \in AllOps
  PROVE  /\ Cardinality(Window(op)) \in 1..3
         /\ op = "probe" => Cardinality(Window(op)) = 1
         /\ StartOf(op) + Cardinality(Window(op)) <= 4
<1>1. /\ Cardinality(1..2) = 2 /\ Cardinality(1..3) = 3
      /\ Cardinality({1}) = 1 /\ Cardinality({3}) = 1
  <2>1. \A b \in {2, 3} : Cardinality(1..b) = b
    <3> SUFFICES ASSUME NEW b \in {2, 3} PROVE Cardinality(1..b) = b
      OBVIOUS
    <3>1. b \in Int /\ 1 \in Int /\ ~(1 > b) /\ b - 1 + 1 = b
      OBVIOUS
    <3> QED
      BY <3>1, FS_Interval
  <2>2. Cardinality(1..2) = 2 /\ Cardinality(1..3) = 3
    BY <2>1
  <2> QED
    BY <2>2, FS_Singleton
<1>2. 1..2 = {1, 2} /\ 1..3 = {1, 2, 3}
  OBVIOUS
<1> QED
  BY <1>1, <1>2 DEF Window, StartOf, AllOps

LEMMA FrameIs ==
  ASSUME NEW m \in Requests, NEW kind \in {"ack", "data", "nack"},
         NEW p \in Pieces, NEW v \in States
  PROVE  LET f == Frame(m, kind, p, v)
         IN  /\ f \in Answers /\ f.kind = kind /\ f.piece = p /\ f.seq = m.seq
             /\ f.id = m.id /\ f.ver = v /\ f.age = 0
<1>1. PageOf(m.op) \in {"control", "update", "identity", "page"}
  BY DEF PageOf, Requests, AllOps
<1>2. 0 \in 0..Delay
  BY TimeAssumption
<1> QED
  BY <1>1, <1>2 DEF Frame, Answers, Requests

\* What a message that is answered anew gets.
IsReply(m, reply) ==
  /\ reply \in Seq(Answers) /\ 1 \in DOMAIN reply
  /\ \A p \in DOMAIN reply : reply[p].seq = m.seq /\ reply[p].age = 0

LEMMA DataIs ==
  ASSUME NEW m \in Requests, NEW v \in States
  PROVE  /\ IsReply(m, Data(m, v))
         /\ \A p \in DOMAIN Data(m, v) : /\ Data(m, v)[p].kind = "data"
                                         /\ Data(m, v)[p].ver = v
<1> DEFINE n == Cardinality(Window(m.op))
           f(p) == Frame(m, "data", StartOf(m.op) + p - 1, v)
<1>1. n \in 1..3 /\ StartOf(m.op) + n <= 4
  BY WindowsAre DEF Requests
<1>2. \A p \in 1..n : StartOf(m.op) + p - 1 \in Pieces
  BY <1>1 DEF StartOf, Pieces
<1>3. \A p \in 1..n : /\ f(p) \in Answers /\ f(p).kind = "data" /\ f(p).ver = v
                      /\ f(p).seq = m.seq /\ f(p).age = 0
  BY <1>2, FrameIs
<1>4. Data(m, v) = [p \in 1..n |-> f(p)]
  BY DEF Data
<1> HIDE DEF n, f
<1> QED
  BY <1>1, <1>3, <1>4 DEF IsReply

LEMMA OneFrameIs ==
  ASSUME NEW m \in Requests, NEW kind \in {"ack", "nack"}, NEW p \in Pieces
  PROVE  LET reply == <<Frame(m, kind, p, 0)>>
         IN  /\ IsReply(m, reply) /\ \A q \in DOMAIN reply : reply[q].kind = kind
<1> DEFINE f == Frame(m, kind, p, 0)
<1>1. f \in Answers /\ f.kind = kind /\ f.seq = m.seq /\ f.age = 0
  BY FrameIs DEF States
<1> HIDE DEF f
<1>2. /\ IsReply(m, <<f>>) /\ \A q \in DOMAIN <<f>> : <<f>>[q].kind = kind
  BY <1>1 DEF IsReply
<1> QED
  BY <1>2 DEF f

\* A write is taken or refused; a read tells one state of its page, the kept
\* part that of its first, or refuses.
LEMMA RepliesAre ==
  ASSUME NEW m \in Requests, NEW reply \in Replies(m),
         held \in {-1} \cup States, page \in States
  PROVE  /\ IsReply(m, reply)
         /\ m.op \in Writes =>
              \E kind \in {"ack", "nack"} : \A p \in DOMAIN reply : reply[p].kind = kind
         /\ m.op \notin Writes => reply[1].kind # "ack"
         /\ m.op = "probe" => \A p \in DOMAIN reply : OfState(reply[p], 0)
         /\ m.op \notin Writes \cup {"held", "probe"} =>
              \A p \in DOMAIN reply : OfState(reply[p], page)
         /\ m.op = "held" => \A p \in DOMAIN reply : OfState(reply[p], held)
<1>1. CASE m.op = "held" /\ held = -1
  <2>1. reply = <<Frame(m, "nack", 3, 0)>>
    BY <1>1 DEF Replies, HeldReply
  <2>2. /\ IsReply(m, <<Frame(m, "nack", 3, 0)>>)
        /\ \A p \in DOMAIN <<Frame(m, "nack", 3, 0)>> :
             <<Frame(m, "nack", 3, 0)>>[p].kind = "nack"
    <3>1. 3 \in Pieces /\ "nack" \in {"ack", "nack"}
      BY DEF Pieces
    <3> QED
      BY <3>1, OneFrameIs, Zenon
  <2>3. IsReply(m, reply) /\ \A p \in DOMAIN reply : reply[p].kind = "nack"
    BY <2>1, <2>2, Zenon
  <2> QED
    BY <1>1, <2>3 DEF IsReply, OfState, Writes
<1>2. CASE m.op = "held" /\ held # -1
  <2>1. reply = Data(m, held) /\ held \in States
    BY <1>2 DEF Replies, HeldReply
  <2> QED
    BY <1>2, <2>1, DataIs DEF IsReply, OfState, Writes
<1>3. CASE m.op \in Writes
  <2>1. reply \in {<<Frame(m, "ack", 1, 0)>>, <<Frame(m, "nack", 1, 0)>>}
    BY <1>3 DEF Replies, Applied, Writes
  <2>2. PICK kind \in {"ack", "nack"} : reply = <<Frame(m, kind, 1, 0)>>
    BY <2>1
  <2>3. IsReply(m, reply) /\ \A p \in DOMAIN reply : reply[p].kind = kind
    <3>1. 1 \in Pieces
      BY DEF Pieces
    <3>2. /\ IsReply(m, <<Frame(m, kind, 1, 0)>>)
          /\ \A p \in DOMAIN <<Frame(m, kind, 1, 0)>> :
               <<Frame(m, kind, 1, 0)>>[p].kind = kind
      BY <3>1, OneFrameIs, ZenonT(60)
    <3> QED
      BY <2>2, <3>2, Zenon
  <2> QED
    BY <1>3, <2>3 DEF Writes
<1>4. CASE m.op \notin Writes \cup {"held"}
  <2> DEFINE v == IF m.op = "probe" THEN 0 ELSE page
  <2>1. v \in States
    BY DEF States
  <2>2. reply = Data(m, v)
    BY <1>4 DEF Replies, Applied
  <2>3. /\ IsReply(m, reply)
        /\ \A p \in DOMAIN reply : reply[p].kind = "data" /\ reply[p].ver = v
    BY <2>1, <2>2, DataIs
  <2> QED
    BY <1>4, <2>3 DEF IsReply, OfState
<1> QED
  BY <1>1, <1>2, <1>3, <1>4

-----------------------------------------------------------------------------
(* The IOmcu's step: what it has heard it repeats, for a probe it forgets  *)
(* all, and anything else it acts on and keeps.                            *)

Taken == toDev[1]

Adds(reply) ==
  \/ toHost' = toHost
  \/ toHost' = toHost \o reply /\ Len(toHost) + Len(reply) <= MaxBack

Repeats(k) ==
  /\ k.id = Taken.id /\ k.op = Taken.op /\ dev.seq = Taken.seq /\ Young
  /\ Adds(k.reply) /\ UNCHANGED <<dev, held, acts>>

Forgets(reply) ==
  /\ Taken.seq = 0 /\ Taken.op = "probe"
  /\ dev' = FreshDev /\ Adds(reply) /\ UNCHANGED <<held, acts>>

KeptFor(m, reply) == [op |-> m.op, id |-> m.id, reply |-> reply]

ActsOn(reply) ==
  /\ Taken.seq # 0 /\ ~Heard(Taken.id)
  /\ dev' = [seq |-> Taken.seq, age |-> 0, kept |-> {KeptFor(Taken, reply)}]
  /\ held' = HeldAfter(Taken) /\ Adds(reply)
  /\ acts' = IF reply[1].kind = "ack"
             THEN [acts EXCEPT ![Taken.id] = Twice(@)] ELSE acts

Takes ==
  /\ 1 \in DOMAIN toDev /\ Taken \in Requests
  /\ toDev' \in Seq(Requests) /\ Lacks(toDev', toDev, 1)
  /\ \/ \E k \in dev.kept : Repeats(k)
     \/ \E reply \in Replies(Taken) : Forgets(reply) \/ ActsOn(reply)
  /\ UNCHANGED <<host, next, up, quiet, split, read, page, reborn>>

LEMMA DispatchTakes ==
  ASSUME Types, FramesFit, KeptFits, Dispatch PROVE Takes
<1> DEFINE m == Head(toDev)
<1>1. /\ toDev' \in Seq(Requests) /\ Lacks(toDev', toDev, 1)
      /\ 1 \in DOMAIN toDev /\ m = Taken /\ Taken \in Requests
  BY TailIs DEF Dispatch, Types, Taken
<1>2. Taken.seq = 0 => Taken.op = "probe"
  BY <1>1 DEF FramesFit, Taken
<1>3. Young /\ dev.seq # 0 /\ Taken.seq = dev.seq => Heard(Taken.id)
  BY <1>1 DEF KeptFits, NumberNames, Taken
<1>4. \A k \in dev.kept : k.id = Taken.id => k.op = Taken.op
  BY <1>1 DEF KeptFits, RepeatsInTime, Taken
<1>5. \A k, l \in dev.kept : k = l
  BY DEF KeptFits, KeptIsOne
<1>6. UNCHANGED <<host, next, up, quiet, split, read, page, reborn>>
  BY DEF Dispatch, panel
<1>7. dev = [seq |-> dev.seq, age |-> dev.age, kept |-> dev.kept]
      /\ dev.seq \in 0..SeqMax /\ dev.age \in 0..Keep
  BY DEF Types, Devices
<1>8. CASE Taken.seq = 0
  <2>1. Hears(m) = FreshDev /\ Repeated(m) = {}
    BY <1>1, <1>8 DEF Hears, Repeated, FreshDev
  <2>2. PICK reply \in Replies(Taken) :
          /\ toHost' = Sent(reply) /\ held' = HeldAfter(Taken)
          /\ acts' = (IF reply[1].kind = "ack"
                      THEN [acts EXCEPT ![Taken.id] = Twice(@)] ELSE acts)
          /\ dev' = FreshDev
    BY <1>1, <1>8, <2>1 DEF Dispatch
  <2>3. Taken.op = "probe" /\ held' = held
    BY <1>2, <1>8, <2>2 DEF HeldAfter
  <2>4. acts' = acts
    BY <1>1, <2>2, <2>3, RepliesAre DEF Types, Writes
  <2>5. Forgets(reply)
    BY <1>8, <2>2, <2>3, <2>4 DEF Forgets, Adds, Sent
  <2> QED
    BY <1>1, <1>6, <2>5 DEF Takes
<1>9. CASE Taken.seq # 0 /\ Heard(Taken.id) /\ Taken.seq = dev.seq /\ Young
  <2>1. PICK k \in dev.kept : k.id = Taken.id /\ k.op = Taken.op
    BY <1>4, <1>9 DEF Heard
  <2>2. Hears(m) = dev
    BY <1>1, <1>7, <1>9, TimeAssumption DEF Hears, Young
  <2>3. Repeated(m) = {k}
    BY <1>1, <1>5, <2>1, <2>2 DEF Repeated
  <2>4. /\ toHost' = Sent(k.reply) /\ dev' = dev /\ UNCHANGED <<held, acts>>
    BY <1>1, <2>2, <2>3 DEF Dispatch
  <2>5. Repeats(k)
    BY <1>9, <2>1, <2>4 DEF Repeats, Adds, Sent
  <2> QED
    BY <1>1, <1>6, <2>1, <2>5 DEF Takes
<1>10. CASE Taken.seq # 0 /\ ~(Taken.seq = dev.seq /\ Young)
  <2>0. Taken.seq # dev.seq \/ dev.age >= Keep
    BY <1>7, <1>10, TimeAssumption DEF Young
  <2>1. Hears(m) = [seq |-> Taken.seq, age |-> 0, kept |-> {}]
    BY <1>1, <1>10, <2>0, Zenon DEF Hears
  <2>2. Repeated(m) = {}
    BY <2>1 DEF Repeated
  <2>3. PICK reply \in Replies(Taken) :
          /\ toHost' = Sent(reply) /\ held' = HeldAfter(Taken)
          /\ acts' = (IF reply[1].kind = "ack"
                      THEN [acts EXCEPT ![Taken.id] = Twice(@)] ELSE acts)
          /\ dev' = [Hears(m) EXCEPT !.kept = @ \cup {KeptFor(Taken, reply)}]
    BY <1>1, <1>10, <2>2 DEF Dispatch, KeptFor
  <2>4. dev' = [seq |-> Taken.seq, age |-> 0, kept |-> {KeptFor(Taken, reply)}]
    BY <2>1, <2>3
  <2>5. ~Heard(Taken.id)
    <3> SUFFICES ASSUME NEW k \in dev.kept, k.id = Taken.id PROVE FALSE
      BY DEF Heard
    <3>1. /\ dev.seq = Taken.seq /\ dev.age + Delay - Taken.age < Keep
          /\ Taken.age \in 0..Delay
      BY <1>1 DEF KeptFits, RepeatsInTime, Taken, Requests
    <3> QED
      BY <1>10, <1>7, <3>1, TimeAssumption DEF Young
  <2>6. ActsOn(reply)
    BY <1>10, <2>3, <2>4, <2>5 DEF ActsOn, Adds, Sent
  <2> QED
    BY <1>1, <1>6, <2>3, <2>6 DEF Takes
<1> QED
  BY <1>3, <1>8, <1>9, <1>10

-----------------------------------------------------------------------------
(* A frame less on a wire.                                                 *)

\* Each frame left was there, and so was the order of any two.
LEMMA LackedIs ==
  ASSUME NEW S, NEW s \in Seq(S), NEW t \in Seq(S), NEW k \in DOMAIN s, Lacks(t, s, k)
  PROVE  /\ DOMAIN s \subseteq Int /\ DOMAIN t \subseteq Int
         /\ \A j \in DOMAIN t : Was(k, j) \in DOMAIN s /\ t[j] = s[Was(k, j)]
         /\ \A i, j \in DOMAIN t : i < j <=> Was(k, i) < Was(k, j)
         /\ k = 1 => \A j \in DOMAIN t : Was(k, j) # 1
BY DEF Lacks, Was

LEMMA FramesLess ==
  ASSUME Types, FramesFit, toDev' \in Seq(Requests), NEW k \in DOMAIN toDev,
         Lacks(toDev', toDev, k), host' = host
  PROVE  FramesFit'
<1>1. /\ \A j \in DOMAIN toDev' : Was(k, j) \in DOMAIN toDev /\ toDev'[j] = toDev[Was(k, j)]
      /\ \A i, j \in DOMAIN toDev' : i < j <=> Was(k, i) < Was(k, j)
  BY LackedIs DEF Types
<1>2. DOMAIN toDev' \subseteq Int /\ DOMAIN toDev \subseteq Int
  BY DEF Types
<1>3. \A j \in DOMAIN toDev' :
       /\ toDev'[j].seq = 0 => toDev'[j].op = "probe"
       /\ toDev'[j].id = host.id => Alike(toDev'[j], host)
       /\ host.pending /\ host.seq # 0 /\ toDev'[j].seq = host.seq
            => toDev'[j].id = host.id
  BY <1>1 DEF FramesFit
<1>4. ASSUME NEW i \in DOMAIN toDev', NEW j \in DOMAIN toDev'
      PROVE  /\ toDev'[i].id = toDev'[j].id =>
                  /\ Alike(toDev'[i], toDev'[j])
                  /\ i # j => toDev'[i].op # "activate"
             /\ toDev'[i].seq = toDev'[j].seq /\ toDev'[i].seq # 0
                  => toDev'[i].id = toDev'[j].id
             /\ i < j /\ toDev'[i].id = host.id => toDev'[j].id = host.id
  <2>1. /\ Was(k, i) \in DOMAIN toDev /\ Was(k, j) \in DOMAIN toDev
        /\ i # j => Was(k, i) # Was(k, j)
    BY <1>1, <1>2
  <2> QED
    BY <1>1, <2>1 DEF FramesFit
<1>5. ASSUME NEW i \in DOMAIN toDev', NEW l \in DOMAIN toDev', NEW j \in DOMAIN toDev',
             i < l, l < j, toDev'[i].id = toDev'[j].id
      PROVE  toDev'[l].id = toDev'[i].id
  BY <1>1, <1>5 DEF FramesFit
<1> QED
  BY <1>3, <1>4, <1>5 DEF FramesFit, Alike

\* With what the IOmcu has as it was.
LEMMA KeptLess ==
  ASSUME Types, KeptFits, toDev' \in Seq(Requests), NEW k \in DOMAIN toDev,
         Lacks(toDev', toDev, k), UNCHANGED <<host, dev>>
  PROVE  KeptFits'
<1>1. /\ \A j \in DOMAIN toDev' : Was(k, j) \in DOMAIN toDev /\ toDev'[j] = toDev[Was(k, j)]
      /\ \A i, j \in DOMAIN toDev' : i < j <=> Was(k, i) < Was(k, j)
  BY LackedIs DEF Types
<1>2. KeptIsOne'
  BY <1>1 DEF KeptFits, KeptIsOne
<1>3. RepeatsInTime'
  BY <1>1 DEF KeptFits, RepeatsInTime
<1>4. NumberNames'
  BY <1>1 DEF KeptFits, NumberNames, Heard, Young
<1> QED
  BY <1>2, <1>3, <1>4 DEF KeptFits

-----------------------------------------------------------------------------
(* What the IOmcu's step finds behind the frame it takes.                  *)

Follows ==
  /\ \A j \in DOMAIN toDev' :
       /\ toDev'[j] \in Requests
       /\ \E i \in DOMAIN toDev : toDev'[j] = toDev[i]
       /\ toDev'[j].id = Taken.id =>
            /\ Alike(Taken, toDev'[j]) /\ Taken.op # "activate"
            /\ \A i \in DOMAIN toDev' : i < j => toDev'[i].id = Taken.id
       /\ toDev'[j].seq = Taken.seq /\ Taken.seq # 0 => toDev'[j].id = Taken.id
       /\ Heard(toDev'[j].id) => toDev'[j].id = Taken.id
       /\ Taken.id = host.id => toDev'[j].id = host.id
  /\ Taken.id = host.id => Alike(Taken, host)
  /\ host.pending /\ host.seq # 0 /\ Taken.seq = host.seq => Taken.id = host.id
  /\ Heard(host.id) /\ host.seq # 0 => Taken.id = host.id

LEMMA TakenFollows == ASSUME Types, FramesFit, KeptFits, Takes PROVE Follows
<1>1. /\ \A j \in DOMAIN toDev' : Was(1, j) \in DOMAIN toDev /\ toDev'[j] = toDev[Was(1, j)]
      /\ \A i, j \in DOMAIN toDev' : i < j <=> Was(1, i) < Was(1, j)
      /\ \A j \in DOMAIN toDev' : Was(1, j) # 1
  BY LackedIs DEF Types, Takes
<1>2. \A j \in DOMAIN toDev' : 1 < Was(1, j) /\ toDev'[j] \in Requests
  BY <1>1 DEF Types, Takes, Was
<1>3. 1 \in DOMAIN toDev
  BY DEF Takes
<1>4. ASSUME NEW j \in DOMAIN toDev'
      PROVE  /\ toDev'[j].id = Taken.id =>
                  /\ Alike(Taken, toDev'[j]) /\ Taken.op # "activate"
                  /\ \A i \in DOMAIN toDev' : i < j => toDev'[i].id = Taken.id
             /\ toDev'[j].seq = Taken.seq /\ Taken.seq # 0 => toDev'[j].id = Taken.id
             /\ Taken.id = host.id => toDev'[j].id = host.id
  BY <1>1, <1>2, <1>3 DEF FramesFit, Taken, Alike
<1>5. ASSUME NEW j \in DOMAIN toDev', Heard(toDev'[j].id)
      PROVE  toDev'[j].id = Taken.id
  BY <1>1, <1>2, <1>3, <1>5 DEF KeptFits, RepeatsInTime, Heard, Taken
<1>6. /\ Taken.id = host.id => Alike(Taken, host)
      /\ host.pending /\ host.seq # 0 /\ Taken.seq = host.seq => Taken.id = host.id
      /\ Heard(host.id) /\ host.seq # 0 => Taken.id = host.id
  BY <1>3 DEF FramesFit, KeptFits, KeptIsOne, Heard, Taken
<1> QED
  BY <1>1, <1>2, <1>4, <1>5, <1>6 DEF Follows

LEMMA TakesFrames ==
  ASSUME Types, FramesFit, Takes PROVE FramesFit'
BY FramesLess DEF Takes

LEMMA ActsOnKept ==
  ASSUME Types, FramesFit, KeptFits, Takes, NEW reply \in Replies(Taken), ActsOn(reply)
  PROVE  KeptFits'
<1>1. Follows
  BY TakenFollows
<1>2. IsReply(Taken, reply)
  BY RepliesAre DEF Takes, Types
<1>3. /\ dev'.seq = Taken.seq /\ dev'.age = 0 /\ dev'.kept = {KeptFor(Taken, reply)}
      /\ KeptFor(Taken, reply).id = Taken.id /\ KeptFor(Taken, reply).op = Taken.op
      /\ KeptFor(Taken, reply).reply = reply
  BY DEF ActsOn, KeptFor
<1>4. host' = host /\ Taken.seq # 0
  BY DEF ActsOn, Takes
<1>5. KeptIsOne'
  BY <1>1, <1>2, <1>3, <1>4 DEF KeptIsOne, Follows, IsReply, Alike
<1>6. RepeatsInTime'
  <2>1. host.age >= 0 /\ \A j \in DOMAIN toDev' : 0 + Delay - toDev'[j].age < Keep
    BY <1>1, TimeAssumption, SMTT(30) DEF Follows, Requests, Types, Hosts
  <2> QED
    BY <1>1, <1>3, <1>4, <2>1 DEF RepeatsInTime, Follows, Alike
<1>7. NumberNames'
  BY <1>1, <1>3, <1>4 DEF NumberNames, Follows, Heard
<1> QED
  BY <1>5, <1>6, <1>7 DEF KeptFits

LEMMA TakesKept ==
  ASSUME Types, FramesFit, KeptFits, Takes PROVE KeptFits'
<1>1. CASE \E k \in dev.kept : Repeats(k)
  <2>1. UNCHANGED <<host, dev>>
    BY <1>1 DEF Repeats, Takes
  <2> QED
    BY <2>1, KeptLess DEF Takes
<1>2. CASE \E reply \in Replies(Taken) : Forgets(reply)
  <2>1. dev'.kept = {} /\ dev'.seq = 0
    BY <1>2 DEF Forgets, FreshDev
  <2> QED
    BY <2>1 DEF KeptFits, KeptIsOne, RepeatsInTime, NumberNames
<1>3. CASE \E reply \in Replies(Taken) : ActsOn(reply)
  BY <1>3, ActsOnKept
<1> QED
  BY <1>1, <1>2, <1>3 DEF Takes

HeardThen(i) == \E k \in dev'.kept : k.id = i

\* Only a repeat is found heard, and what it was heard by stays.
LEMMA HeardRepeats ==
  ASSUME Types, FramesFit, KeptFits, Takes
  PROVE  /\ Heard(Taken.id) => UNCHANGED <<dev, held, acts>>
         /\ Taken.seq # 0 => HeardThen(Taken.id)
         /\ dev'.seq \in {0, Taken.seq}
         /\ Heard(Taken.id) => dev.seq = Taken.seq
         /\ ~Heard(Taken.id) => dev'.age = 0 \/ dev'.seq = 0
<1>1. Heard(Taken.id) => Taken.seq # 0 /\ dev.seq = Taken.seq
  BY DEF Takes, Heard, KeptFits, KeptIsOne, RepeatsInTime, Taken
<1>2. CASE \E k \in dev.kept : Repeats(k)
  BY <1>1, <1>2 DEF Repeats, Heard, HeardThen
<1>3. CASE \E reply \in Replies(Taken) : Forgets(reply)
  BY <1>1, <1>3 DEF Forgets, FreshDev
<1>4. CASE \E reply \in Replies(Taken) : ActsOn(reply)
  <2>1. PICK reply \in Replies(Taken) : ActsOn(reply)
    BY <1>4
  <2>2. /\ dev'.seq = Taken.seq /\ dev'.age = 0 /\ ~Heard(Taken.id)
        /\ dev'.kept = {KeptFor(Taken, reply)} /\ KeptFor(Taken, reply).id = Taken.id
    BY <2>1 DEF ActsOn, KeptFor
  <2> QED
    BY <2>2 DEF HeardThen
<1> QED
  BY <1>1, <1>2, <1>3, <1>4 DEF Takes

\* The frames it sends carry the number it took.
LEMMA AnswersCarry ==
  ASSUME Types, KeptFits, Takes
  PROVE  \E reply \in Seq(Answers) :
           /\ Adds(reply) /\ \A p \in DOMAIN reply : reply[p].seq = Taken.seq
           /\ \/ \E k \in dev.kept : Repeats(k) /\ reply = k.reply
              \/ reply \in Replies(Taken) /\ IsReply(Taken, reply)
                 /\ (Forgets(reply) \/ ActsOn(reply))
<1>1. ASSUME NEW k \in dev.kept, Repeats(k)
      PROVE  /\ k.reply \in Seq(Answers) /\ Adds(k.reply)
             /\ \A p \in DOMAIN k.reply : k.reply[p].seq = Taken.seq
  BY <1>1 DEF Repeats, Types, Devices, KeptAnswers, KeptFits, KeptIsOne
<1>2. ASSUME NEW reply \in Replies(Taken), Forgets(reply) \/ ActsOn(reply)
      PROVE  IsReply(Taken, reply) /\ Adds(reply)
  BY <1>2, RepliesAre DEF Takes, Types, Forgets, ActsOn
<1>3. CASE \E k \in dev.kept : Repeats(k)
  BY <1>1, <1>3
<1>4. CASE \E reply \in Replies(Taken) : Forgets(reply) \/ ActsOn(reply)
  BY <1>2, <1>4 DEF IsReply
<1> QED
  BY <1>3, <1>4 DEF Takes

\* What is on the way back was there, or is one of them, behind it.
LEMMA AddedIs ==
  ASSUME Types, NEW reply \in Seq(Answers), Adds(reply)
  PROVE  /\ toHost' \in Seq(Answers) /\ Len(toHost') <= MaxBack
         /\ \A k \in DOMAIN toHost' :
              \/ k \in DOMAIN toHost /\ toHost'[k] = toHost[k]
              \/ k > Len(toHost) /\ \E p \in DOMAIN reply : toHost'[k] = reply[p]
         /\ DOMAIN toHost = 1..Len(toHost) /\ Len(toHost) \in Nat
         /\ DOMAIN toHost' \subseteq Int
<1>1. CASE toHost' = toHost
  BY <1>1 DEF Types
<1>2. CASE toHost' = toHost \o reply /\ Len(toHost) + Len(reply) <= MaxBack
  <2>1. toHost \in Seq(Answers)
    BY DEF Types
  <2>2. /\ toHost' \in Seq(Answers) /\ Len(toHost') = Len(toHost) + Len(reply)
        /\ DOMAIN toHost' = 1..Len(toHost) + Len(reply)
        /\ \A j \in DOMAIN toHost' :
             IF j <= Len(toHost) THEN j \in DOMAIN toHost /\ toHost'[j] = toHost[j]
             ELSE j - Len(toHost) \in DOMAIN reply /\ toHost'[j] = reply[j - Len(toHost)]
    BY <1>2, <2>1, JoinedIs
  <2> QED
    BY <1>2, <2>1, <2>2
<1> QED
  BY <1>1, <1>2 DEF Adds

LEMMA TakesActs ==
  ASSUME Types, FramesFit, KeptFits, ModeFits, ActsFit, Takes PROVE ActsFit'
<1>1. Follows
  BY TakenFollows
<1>2. 1 \in DOMAIN toDev /\ UNCHANGED host
  BY DEF Takes
<1>3. host.pending /\ host.ok => host.seq # 0
  BY DEF ModeFits, MayRepeat
<1>4. CASE Heard(Taken.id)
  <2>1. UNCHANGED <<dev, acts>>
    BY <1>4, HeardRepeats
  <2> QED
    BY <1>1, <1>2, <2>1 DEF ActsFit, AtMostOnce, Heard, Follows
<1>5. CASE ~Heard(Taken.id)
  <2>1. acts[Taken.id] = 0
    <3>1. Taken.id \in Ids
      BY DEF Takes, Requests
    <3>2. ~(acts[Taken.id] > 0) /\ acts[Taken.id] \in 0..2
      BY <1>2, <1>5, <3>1 DEF ActsFit, Taken, Types
    <3> QED
      BY <3>2
  <2>2. \A i \in Ids \ {Taken.id} : acts'[i] = acts[i]
    BY <1>5 DEF Takes, Forgets, ActsOn, Types, Repeats, Heard
  <2>3. acts'[Taken.id] \in 0..1 /\ acts' \in [Ids -> 0..2]
    BY <1>5, <2>1 DEF Takes, Forgets, ActsOn, Types, Repeats, Heard, Twice, Requests
  <2>4. Taken.seq # 0 => HeardThen(Taken.id)
    BY HeardRepeats
  <2>5. Taken.seq = 0 => acts' = acts
    BY DEF Takes, Forgets, ActsOn, Repeats
  <2>6. AtMostOnce'
    BY <2>2, <2>3 DEF ActsFit, AtMostOnce
  <2>7. ASSUME NEW j \in DOMAIN toDev', acts'[toDev'[j].id] > 0
        PROVE  HeardThen(toDev'[j].id) /\ toDev'[j].op # "activate"
    <3>1. toDev'[j].id \in Ids /\ \E i \in DOMAIN toDev : toDev'[j] = toDev[i]
      BY <1>1 DEF Follows, Requests
    <3>2. toDev'[j].id = Taken.id
      BY <1>1, <2>2, <2>7, <3>1 DEF ActsFit, Follows
    <3>3. Taken.seq # 0
      BY <2>1, <2>5, <2>7, <3>2
    <3> QED
      BY <1>1, <2>4, <3>2, <3>3 DEF Follows, Alike
  <2>8. host.pending /\ host.ok /\ acts'[host.id] > 0 => HeardThen(host.id)
    <3> SUFFICES ASSUME host.pending, host.ok, acts'[host.id] > 0 PROVE HeardThen(host.id)
      BY <1>2
    <3>1. host.id \in Ids
      BY DEF Types, Hosts
    <3>2. host.id = Taken.id
      BY <1>1, <1>3, <1>5, <2>2, <3>1 DEF ActsFit, Follows
    <3>3. Taken.seq # 0
      BY <2>1, <2>5, <3>2
    <3> QED
      BY <2>4, <3>2, <3>3
  <2> QED
    BY <1>2, <2>6, <2>7, <2>8 DEF ActsFit, Heard, HeardThen
<1> QED
  BY <1>4, <1>5

LEMMA TakesBehind ==
  ASSUME Types, FramesFit, KeptFits, Takes, NEW n
  PROVE  /\ Behind(n) => Behind(n)'
         /\ AllOf(n) => AllOf(n)'
<1>1. /\ \A j \in DOMAIN toDev' : Was(1, j) \in DOMAIN toDev /\ toDev'[j] = toDev[Was(1, j)]
      /\ \A i, j \in DOMAIN toDev' : i < j <=> Was(1, i) < Was(1, j)
      /\ \A j \in DOMAIN toDev' : 1 < Was(1, j)
  <2>1. /\ \A j \in DOMAIN toDev' : Was(1, j) \in DOMAIN toDev /\ toDev'[j] = toDev[Was(1, j)]
        /\ \A i, j \in DOMAIN toDev' : i < j <=> Was(1, i) < Was(1, j)
        /\ \A j \in DOMAIN toDev' : Was(1, j) # 1
    BY LackedIs DEF Types, Takes
  <2> QED
    BY <2>1 DEF Types, Takes, Was
<1>2. PICK reply \in Seq(Answers) :
        Adds(reply) /\ \A p \in DOMAIN reply : reply[p].seq = Taken.seq
  BY AnswersCarry
<1>3. /\ \A k \in DOMAIN toHost' :
           \/ k \in DOMAIN toHost /\ toHost'[k] = toHost[k]
           \/ k > Len(toHost) /\ toHost'[k].seq = Taken.seq
      /\ DOMAIN toHost = 1..Len(toHost) /\ Len(toHost) \in Nat
      /\ DOMAIN toHost' \subseteq Int
  BY <1>2, AddedIs
<1>4. dev'.seq \in {0, Taken.seq} /\ 1 \in DOMAIN toDev
  BY HeardRepeats DEF Takes
<1>5. ASSUME Left(n) PROVE Taken.seq = n /\ Left(n)'
  <2>1. Taken.seq = n
    BY <1>4, <1>5 DEF Left, Taken
  <2> QED
    BY <1>1, <1>4, <1>5, <2>1 DEF Left
<1>6. ASSUME Behind(n) PROVE Behind(n)'
  <2>1. \A j, k \in DOMAIN toDev' : j < k /\ toDev'[j].seq = n => toDev'[k].seq = n
    BY <1>1, <1>6 DEF Behind
  <2>2. ASSUME NEW k \in DOMAIN toHost', toHost'[k].seq = n
        PROVE  Left(n)' /\ \A l \in DOMAIN toHost' : k < l => toHost'[l].seq = n
    <3>1. CASE k \in DOMAIN toHost /\ toHost'[k] = toHost[k]
      <4>1. Left(n) /\ \A l \in DOMAIN toHost : k < l => toHost[l].seq = n
        BY <1>6, <2>2, <3>1 DEF Behind
      <4> QED
        BY <1>3, <1>5, <4>1
    <3>2. CASE k > Len(toHost) /\ toHost'[k].seq = Taken.seq
      <4>1. \A j \in DOMAIN toDev' : toDev'[j].seq = n
        BY <1>1, <1>4, <1>6, <2>2, <3>2 DEF Behind, Taken
      <4>2. Left(n)'
        BY <1>4, <2>2, <3>2, <4>1 DEF Left
      <4>3. \A l \in DOMAIN toHost' : k < l => toHost'[l].seq = n
        BY <1>3, <2>2, <3>2
      <4> QED
        BY <4>2, <4>3
    <3> QED
      BY <1>3, <3>1, <3>2
  <2> QED
    BY <2>1, <2>2 DEF Behind
<1>7. ASSUME AllOf(n) PROVE AllOf(n)'
  BY <1>3, <1>5, <1>7 DEF AllOf
<1> QED
  BY <1>6, <1>7

LEMMA TakesNumbers ==
  ASSUME Types, FramesFit, KeptFits, Numbers, Takes PROVE Numbers'
<1>1. PICK n : n = host.seq
  OBVIOUS
<1>2. /\ Behind(n) => Behind(n)'
      /\ Behind(0) => Behind(0)'
      /\ AllOf(n) => AllOf(n)'
  BY TakesBehind
<1>3. UNCHANGED <<host, next, quiet>>
  BY DEF Takes
<1>4. host.got # {} /\ host.seq # 0 => \A j \in DOMAIN toDev' : toDev'[j].id = host.id
  BY LackedIs DEF Takes, Types, Numbers
<1>5. host'.seq = n
  BY <1>1, <1>3
<1>6. host.pending => Behind(host.seq)'
  <2>1. host.pending => Behind(n)'
    BY <1>1, <1>2 DEF Numbers
  <2> QED
    BY <1>5, <2>1 DEF Behind, Left
<1>7. Steady /\ (~host.pending \/ host.got # {}) => AllOf(host.seq)'
  <2>1. Steady /\ (~host.pending \/ host.got # {}) => AllOf(n)'
    BY <1>1, <1>2 DEF Numbers
  <2> QED
    BY <1>5, <2>1 DEF AllOf, Left
<1>8. ~Steady => Behind(0)'
  BY <1>2 DEF Numbers
<1> QED
  BY <1>3, <1>4, <1>6, <1>7, <1>8 DEF Numbers, Steady

LEMMA TakesProbes ==
  ASSUME Types, FramesFit, KeptFits, ProbesAreOld, Takes PROVE ProbesAreOld'
<1>1. SUFFICES ASSUME host.pending, host.seq # 0
      PROVE  /\ \A j \in DOMAIN toDev' : toDev'[j].seq = 0 => toDev'[j].age >= host.age
             /\ \A k \in DOMAIN toHost' :
                  toHost'[k].seq = 0 => toHost'[k].age + Delay >= host.age
  BY DEF Takes, ProbesAreOld
<1>2. \A j \in DOMAIN toDev' : toDev'[j].seq = 0 => toDev'[j].age >= host.age
  BY <1>1, TakenFollows DEF Follows, ProbesAreOld
<1>3. PICK reply \in Seq(Answers) :
        /\ Adds(reply) /\ \A p \in DOMAIN reply : reply[p].seq = Taken.seq
        /\ \/ \E k \in dev.kept : Repeats(k)
           \/ IsReply(Taken, reply)
  BY AnswersCarry
<1>4. ASSUME NEW p \in DOMAIN reply, reply[p].seq = 0
      PROVE  reply[p].age + Delay >= host.age
  <2>1. Taken.seq = 0
    BY <1>3, <1>4
  <2>2. Taken.age >= host.age /\ Taken.age \in 0..Delay
    BY <1>1, <2>1 DEF ProbesAreOld, Takes, Taken, Requests
  <2>3. ~ \E k \in dev.kept : Repeats(k)
    BY <2>1 DEF Repeats, KeptFits, KeptIsOne
  <2>4. reply[p].age = 0
    BY <1>3, <1>4, <2>3 DEF IsReply
  <2> QED
    BY <2>2, <2>4, TimeAssumption DEF Types, Hosts
<1>5. \A k \in DOMAIN toHost' :
        toHost'[k].seq = 0 => toHost'[k].age + Delay >= host.age
  BY <1>1, <1>3, <1>4, AddedIs DEF ProbesAreOld
<1> QED
  BY <1>2, <1>5

\* With an answer come or coming, no other exchange's frame is left.
LEMMA ToldAlone ==
  ASSUME FramesFit, Numbers, Told, host.seq # 0
  PROVE  \A j \in DOMAIN toDev : toDev[j].id = host.id
<1>1. CASE host.got # {}
  BY <1>1 DEF Numbers
<1>2. CASE host.pending /\ \E k \in DOMAIN toHost : toHost[k].seq = host.seq
  <2>1. Left(host.seq)
    BY <1>2 DEF Numbers, Behind
  <2> QED
    BY <1>2, <2>1 DEF Left, FramesFit
<1> QED
  BY <1>1, <1>2 DEF Told

LEMMA AnswersToMine ==
  ASSUME Types, FramesFit, KeptFits, Takes, host.pending, host.seq # 0,
         NEW reply \in Seq(Answers), Adds(reply),
         \A p \in DOMAIN reply : reply[p].seq = Taken.seq,
         NEW k \in DOMAIN toHost', toHost'[k].seq = host.seq
  PROVE  \/ k \in DOMAIN toHost /\ toHost'[k] = toHost[k]
         \/ /\ Taken.id = host.id /\ Taken.seq = host.seq
            /\ \E p \in DOMAIN reply : toHost'[k] = reply[p]
BY AddedIs, TakenFollows DEF Follows

LEMMA ToldThenIs ==
  ASSUME Types, FramesFit, KeptFits, Takes, host.seq # 0, Told'
  PROVE  Told \/ (host.pending /\ Taken.id = host.id)
<1>1. host' = host
  BY DEF Takes
<1>2. PICK reply \in Seq(Answers) :
        Adds(reply) /\ \A p \in DOMAIN reply : reply[p].seq = Taken.seq
  BY AnswersCarry
<1>3. CASE host.got # {}
  BY <1>3 DEF Told
<1>4. CASE host.pending /\ \E k \in DOMAIN toHost' : toHost'[k].seq = host.seq
  BY <1>2, <1>4, AnswersToMine DEF Told
<1> QED
  BY <1>1, <1>3, <1>4 DEF Told

LEMMA TakesTold ==
  ASSUME Types, ModeFits, FramesFit, KeptFits, Numbers, ToldIsHeard, Takes
  PROVE  ToldIsHeard'
<1>1. UNCHANGED <<host, reborn>> /\ Follows
  BY TakenFollows DEF Takes
<1>2. SUFFICES ASSUME Same, Told'
      PROVE  /\ \A j \in DOMAIN toDev' : toDev'[j].id = host.id => HeardThen(host.id)
             /\ host.pending /\ host.ok => HeardThen(host.id)
  BY <1>1 DEF ToldIsHeard, Same, Heard, HeardThen
<1>3. CASE Told
  <2>1. Heard(host.id) => HeardThen(host.id)
    BY <1>1, <1>2, HeardRepeats DEF Follows, Same, Heard, HeardThen
  <2> QED
    BY <1>1, <1>2, <1>3, <2>1 DEF ToldIsHeard, Follows
<1>4. CASE Taken.id = host.id
  <2>1. Taken.seq # 0
    BY <1>1, <1>2, <1>4 DEF Follows, Alike, Same
  <2> QED
    BY <1>4, <2>1, HeardRepeats
<1> QED
  BY <1>2, <1>3, <1>4, ToldThenIs DEF Same

\* Acting on the host's exchange finds it neither told nor acted on.
LEMMA ActsAnew ==
  ASSUME Types, FramesFit, KeptFits, ActsFit, ToldIsHeard, Takes, Same,
         ~Heard(Taken.id), Taken.id = host.id
  PROVE  ~Told /\ acts[host.id] = 0 /\ host.got = {}
<1>1. 1 \in DOMAIN toDev /\ Taken.id \in Ids
  BY DEF Takes, Requests
<1>2. ~(acts[Taken.id] > 0) /\ acts[Taken.id] \in 0..2
  BY <1>1 DEF ActsFit, Taken, Types
<1>3. ~Told
  BY <1>1 DEF ToldIsHeard, Taken
<1> QED
  BY <1>2, <1>3 DEF Told

LEMMA TakesWrites ==
  ASSUME Types, ModeFits, FramesFit, KeptFits, ActsFit, Numbers, ToldIsHeard,
         WritesTold, Takes
  PROVE  WritesTold'
<1>1. UNCHANGED <<host, reborn>> /\ Follows /\ 1 \in DOMAIN toDev
  BY TakenFollows DEF Takes
<1> DEFINE Says(kind) == /\ kind = "ack" => acts'[host.id] = 1
                         /\ kind = "nack" => acts'[host.id] = 0
<1>2. SUFFICES ASSUME Same, host.op \in Writes
      PROVE  /\ Says(host.end)
             /\ host.pending => \A k \in DOMAIN toHost' :
                  toHost'[k].seq = host.seq => Says(toHost'[k].kind)
             /\ \A k \in dev'.kept : k.id = host.id =>
                  \A p \in DOMAIN k.reply : Says(k.reply[p].kind)
  BY <1>1 DEF WritesTold, Same, TellsActs
<1>3. PICK reply \in Seq(Answers) :
        /\ Adds(reply) /\ \A p \in DOMAIN reply : reply[p].seq = Taken.seq
        /\ \/ \E k \in dev.kept : Repeats(k) /\ reply = k.reply
           \/ reply \in Replies(Taken) /\ IsReply(Taken, reply)
              /\ (Forgets(reply) \/ ActsOn(reply))
  BY AnswersCarry
<1>4. ~Heard(Taken.id) /\ Taken.id = host.id =>
        ~Told /\ acts[host.id] = 0 /\ host.end = "none"
  BY <1>2, ActsAnew DEF ModeFits
<1>5. host.id \in Ids /\ Taken.id \in Ids /\ acts \in [Ids -> 0..2]
  BY DEF Types, Hosts, Takes, Requests
<1>6. Heard(Taken.id) \/ Taken.id # host.id => acts'[host.id] = acts[host.id]
  BY <1>5, HeardRepeats DEF Takes, Forgets, ActsOn, Repeats
<1>7. Taken.id = host.id => Taken.op = host.op /\ Taken.seq = host.seq
  BY <1>1 DEF Follows, Alike
<1>8. ~Heard(Taken.id) /\ Taken.id = host.id =>
        /\ ActsOn(reply) /\ \A p \in DOMAIN reply : Says(reply[p].kind)
        /\ reply \in Replies(Taken)
  <2> SUFFICES ASSUME ~Heard(Taken.id), Taken.id = host.id
      PROVE  /\ ActsOn(reply) /\ \A p \in DOMAIN reply : Says(reply[p].kind)
             /\ reply \in Replies(Taken)
    OBVIOUS
  <2>1. ActsOn(reply) /\ reply \in Replies(Taken)
    BY <1>2, <1>3, <1>7 DEF Repeats, Heard, Forgets, Same
  <2>2. PICK kind \in {"ack", "nack"} : \A p \in DOMAIN reply : reply[p].kind = kind
    BY <1>2, <1>7, <2>1, RepliesAre DEF Takes, Types
  <2>3. 1 \in DOMAIN reply
    BY <2>1, RepliesAre DEF IsReply, Takes, Types
  <2>4. acts'[host.id] = IF kind = "ack" THEN 1 ELSE 0
    BY <1>4, <1>5, <2>1, <2>2, <2>3 DEF ActsOn, Twice
  <2> QED
    BY <2>1, <2>2, <2>4
<1>9. Says(host.end)
  BY <1>2, <1>4, <1>6 DEF WritesTold, TellsActs
<1>10. ASSUME Taken.id = host.id PROVE \A p \in DOMAIN reply : Says(reply[p].kind)
  <2>1. CASE Heard(Taken.id)
    <3>1. PICK k \in dev.kept : Repeats(k) /\ reply = k.reply
      BY <1>3, <2>1 DEF ActsOn, Forgets, KeptFits, KeptIsOne, RepeatsInTime, Heard, Takes, Taken
    <3>2. \A p \in DOMAIN k.reply : TellsActs(k.reply[p].kind)
      BY <1>2, <1>10, <3>1 DEF Repeats, WritesTold
    <3> QED
      BY <1>6, <2>1, <3>1, <3>2 DEF TellsActs
  <2> QED
    BY <1>8, <1>10, <2>1
<1>11. ASSUME host.pending, NEW k \in DOMAIN toHost', toHost'[k].seq = host.seq
       PROVE  Says(toHost'[k].kind)
  <2>1. CASE k \in DOMAIN toHost /\ toHost'[k] = toHost[k]
    <3>1. Told
      BY <1>11, <2>1 DEF Told
    <3>2. acts'[host.id] = acts[host.id]
      BY <1>4, <1>6, <3>1
    <3> QED
      BY <1>2, <1>11, <2>1, <3>2 DEF WritesTold, TellsActs
  <2>2. CASE Taken.id = host.id /\ \E p \in DOMAIN reply : toHost'[k] = reply[p]
    BY <1>10, <2>2
  <2> QED
    BY <1>2, <1>3, <1>11, <2>1, <2>2, AnswersToMine DEF Same
<1>12. ASSUME NEW k \in dev'.kept, k.id = host.id
       PROVE  \A p \in DOMAIN k.reply : Says(k.reply[p].kind)
  <2>1. CASE Heard(Taken.id)
    <3>1. k \in dev.kept
      BY <2>1, HeardRepeats
    <3>2. Taken.id = host.id
      BY <1>1, <1>2, <1>12, <3>1 DEF Follows, Heard, Same
    <3> QED
      BY <1>2, <1>6, <1>12, <2>1, <3>1 DEF WritesTold, TellsActs
  <2>2. CASE ~Heard(Taken.id)
    <3>1. ActsOn(reply) /\ dev'.kept = {KeptFor(Taken, reply)}
      BY <1>3, <1>12, <2>2 DEF Repeats, Heard, Forgets, FreshDev, ActsOn
    <3>2. k.id = Taken.id /\ k.reply = reply
      BY <3>1 DEF KeptFor
    <3> QED
      BY <1>10, <1>12, <3>2
  <2> QED
    BY <2>1, <2>2
<1> QED
  BY <1>9, <1>11, <1>12

\* What is told of the page's state once a frame has been taken.
ReadsThen(v) ==
  /\ host.end # "nack" => \A g \in host.got : g.ver = v
  /\ host.pending => \A k \in DOMAIN toHost' :
       toHost'[k].seq = host.seq => OfState(toHost'[k], v)
  /\ \A k \in dev'.kept : k.id = host.id =>
       \A p \in DOMAIN k.reply : OfState(k.reply[p], v)
  /\ host.op = "first" /\ (Told' \/ HeardThen(host.id)) => held' = v
  /\ split.due = "held" => split.of \subseteq {v} /\ held' \in {-1, v}

LEMMA ActsOnReads ==
  ASSUME Types, ModeFits, FramesFit, KeptFits, ActsFit, Numbers, ToldIsHeard,
         ReadsFit, Takes, Same, host.op \notin Writes,
         ~Heard(Taken.id), Taken.id = host.id
  PROVE  \E v \in States : ReadsThen(v)
<1>1. UNCHANGED <<host, reborn>> /\ Follows /\ 1 \in DOMAIN toDev
  BY TakenFollows DEF Takes
<1>2. Taken.op = host.op /\ Taken.seq = host.seq
  BY <1>1 DEF Follows, Alike
<1>3. ~Told /\ host.got = {}
  BY ActsAnew
<1>4. PICK reply \in Seq(Answers) :
        /\ Adds(reply) /\ \A p \in DOMAIN reply : reply[p].seq = Taken.seq
        /\ ActsOn(reply) /\ reply \in Replies(Taken)
  BY <1>2, AnswersCarry DEF Same, Repeats, Heard, Forgets
<1>5. PICK v \in States : ReadsTold(v)
  BY DEF ReadsFit
<1>6. held \in {-1} \cup States /\ page \in States /\ Taken \in Requests
  BY DEF Types, Takes
<1> DEFINE w == CASE Taken.op = "probe" -> 0
                  [] Taken.op = "held" -> IF held = -1 THEN v ELSE held
                  [] OTHER -> page
<1>7. w \in States
  BY <1>6 DEF States
<1>8. \A p \in DOMAIN reply : OfState(reply[p], w)
  <2>1. CASE Taken.op = "held"
    <3>1. \A p \in DOMAIN reply : OfState(reply[p], held)
      BY <1>4, <1>6, <2>1, RepliesAre
    <3>2. \A p \in DOMAIN reply : reply[p] \in Answers
      OBVIOUS
    <3>3. \A p \in DOMAIN reply : reply[p].ver \in States
      BY <3>2 DEF Answers
    <3> QED
      BY <2>1, <3>1, <3>3 DEF OfState, States
  <2>2. CASE Taken.op # "held"
    BY <1>2, <1>4, <1>6, <2>2, RepliesAre
  <2> QED
    BY <2>1, <2>2
<1>9. host.pending => \A k \in DOMAIN toHost' :
        toHost'[k].seq = host.seq => OfState(toHost'[k], w)
  <2> SUFFICES ASSUME host.pending, NEW k \in DOMAIN toHost', toHost'[k].seq = host.seq
      PROVE  OfState(toHost'[k], w)
    OBVIOUS
  <2>1. ~(k \in DOMAIN toHost /\ toHost'[k] = toHost[k])
    BY <1>3 DEF Told
  <2>2. \E p \in DOMAIN reply : toHost'[k] = reply[p]
    BY <1>4, <2>1, AnswersToMine DEF Same
  <2> QED
    BY <1>8, <2>2
<1>10. ASSUME NEW k \in dev'.kept PROVE \A p \in DOMAIN k.reply : OfState(k.reply[p], w)
  <2>1. dev'.kept = {KeptFor(Taken, reply)}
    BY <1>4 DEF ActsOn
  <2>2. k.reply = reply
    BY <1>10, <2>1 DEF KeptFor
  <2> QED
    BY <1>8, <2>2
<1>11. held' = HeldAfter(Taken)
  BY <1>4 DEF ActsOn
<1>12. host.op = "first" => held' = w
  BY <1>2, <1>11 DEF HeldAfter
<1>13. split.due = "held" => split.of \subseteq {w} /\ held' \in {-1, w}
  <2> SUFFICES ASSUME split.due = "held"
      PROVE  split.of \subseteq {w} /\ held' \in {-1, w}
    OBVIOUS
  <2>1. Taken.op # "first"
    BY <1>1 DEF ReadsFit, FirstIsHeard, Same, Taken
  <2>2. host.pending /\ Taken.op = "held"
    BY <1>2, <2>1 DEF ReadsFit
  <2>3. split.of \subseteq {v} /\ held \in {-1, v}
    BY <1>5 DEF ReadsTold
  <2> QED
    BY <1>11, <2>2, <2>3 DEF HeldAfter
<1> HIDE DEF w
<1>14. ReadsThen(w)
  BY <1>3, <1>9, <1>10, <1>12, <1>13 DEF ReadsThen
<1> QED
  BY <1>7, <1>14

LEMMA OthersReads ==
  ASSUME Types, ModeFits, FramesFit, KeptFits, ActsFit, Numbers, ToldIsHeard,
         ReadsFit, Takes, Same, host.op \notin Writes,
         Heard(Taken.id) \/ Taken.id # host.id
  PROVE  \E v \in States : ReadsThen(v)
<1>1. UNCHANGED <<host, reborn>> /\ Follows /\ 1 \in DOMAIN toDev
  BY TakenFollows DEF Takes
<1>2. PICK v \in States : ReadsTold(v)
  BY DEF ReadsFit
<1>3. PICK reply \in Seq(Answers) :
        /\ Adds(reply) /\ \A p \in DOMAIN reply : reply[p].seq = Taken.seq
        /\ \/ \E k \in dev.kept : Repeats(k) /\ reply = k.reply
           \/ reply \in Replies(Taken) /\ IsReply(Taken, reply)
              /\ (Forgets(reply) \/ ActsOn(reply))
  BY AnswersCarry
<1>4. ASSUME host.pending, NEW k \in DOMAIN toHost', toHost'[k].seq = host.seq
      PROVE  OfState(toHost'[k], v)
  <2>1. CASE k \in DOMAIN toHost /\ toHost'[k] = toHost[k]
    BY <1>2, <1>4, <2>1 DEF ReadsTold
  <2>2. CASE Taken.id = host.id /\ \E p \in DOMAIN reply : toHost'[k] = reply[p]
    <3>1. Taken.seq # 0 /\ Heard(Taken.id)
      BY <1>1, <2>2 DEF Follows, Alike, Same
    <3>2. PICK c \in dev.kept : Repeats(c) /\ reply = c.reply
      BY <1>3, <3>1 DEF Forgets, ActsOn
    <3> QED
      BY <1>2, <2>2, <3>2 DEF ReadsTold, Repeats
  <2> QED
    BY <1>3, <1>4, <2>1, <2>2, AnswersToMine DEF Same
<1>5. CASE Heard(Taken.id)
  <2>1. UNCHANGED <<dev, held>>
    BY <1>5, HeardRepeats
  <2>2. host.op = "first" /\ (Told' \/ HeardThen(host.id)) => held' = v
    <3>1. Told' => Told \/ Heard(host.id)
      BY <1>5, ToldThenIs DEF Same
    <3> QED
      BY <1>2, <2>1, <3>1 DEF ReadsTold, Heard, HeardThen
  <2> QED
    BY <1>2, <1>4, <2>1, <2>2 DEF ReadsTold, ReadsThen
<1>6. CASE ~Heard(Taken.id)
  <2>1. Forgets(reply) \/ (ActsOn(reply) /\ reply \in Replies(Taken))
    BY <1>3, <1>6 DEF Repeats, Heard
  <2>2. Taken.id # host.id
    BY <1>6
  <2>3. \A k \in dev'.kept : k.id # host.id
    BY <2>1, <2>2 DEF Forgets, FreshDev, ActsOn, KeptFor
  <2>4. ~Told /\ ~Told'
    BY <1>1, <2>2, ToldAlone, ToldThenIs DEF Same, Taken
  <2>5. split.due = "held" => split.of \subseteq {v} /\ held' \in {-1, v}
    <3>1. split.due = "held" => Taken.op # "first"
      BY <1>1, <1>6 DEF ReadsFit, FirstIsHeard, Same, Taken
    <3>2. Taken.op # "first" => held' \in {held, -1}
      BY <2>1 DEF Forgets, ActsOn, HeldAfter
    <3> QED
      BY <1>2, <3>1, <3>2 DEF ReadsTold
  <2> QED
    BY <1>2, <1>4, <2>3, <2>4, <2>5 DEF ReadsTold, ReadsThen, HeardThen
<1> QED
  BY <1>5, <1>6

LEMMA TakesReads ==
  ASSUME Types, ModeFits, FramesFit, KeptFits, ActsFit, Numbers, ToldIsHeard,
         ReadsFit, Takes
  PROVE  ReadsFit'
<1>1. UNCHANGED <<host, reborn, split, read>> /\ Follows
  BY TakenFollows DEF Takes
<1>2. \E v \in States : ReadsTold(v)'
  <2>1. CASE Same /\ host.op \notin Writes
    <3>1. PICK v \in States : ReadsThen(v)
      BY <2>1, ActsOnReads, OthersReads
    <3>2. ReadsTold(v)'
      BY <1>1, <2>1, <3>1 DEF ReadsTold, ReadsThen, Heard, HeardThen, OfState
    <3> QED
      BY <3>2
  <2>2. CASE ~(Same /\ host.op \notin Writes)
    BY <1>1, <2>2 DEF ReadsTold, Same, States
  <2> QED
    BY <2>1, <2>2
<1>3. FirstIsHeard'
  <2> SUFFICES ASSUME ~reborn, split.due = "held",
                      NEW j \in DOMAIN toDev', toDev'[j].op = "first"
      PROVE  HeardThen(toDev'[j].id)
    BY <1>1 DEF FirstIsHeard, Heard, HeardThen
  <2>1. Heard(toDev'[j].id) /\ toDev'[j].id = Taken.id
    BY <1>1 DEF Follows, ReadsFit, FirstIsHeard
  <2> QED
    BY <2>1, HeardRepeats DEF Heard, HeardThen
<1> QED
  BY <1>1, <1>2, <1>3 DEF ReadsFit

LEMMA TakesTypes ==
  ASSUME Types, FramesFit, KeptFits, Takes PROVE Types'
<1>1. PICK reply \in Seq(Answers) :
        /\ Adds(reply)
        /\ \/ \E k \in dev.kept : Repeats(k)
           \/ Forgets(reply) \/ ActsOn(reply)
  BY AnswersCarry
<1>2. toHost' \in Seq(Answers) /\ Len(toHost') <= MaxBack
  BY <1>1, AddedIs
<1>3. toDev' \in Seq(Requests) /\ Len(toDev') <= MaxOut
  BY WireAssumption DEF Takes, Lacks, Types
<1>4. Taken.seq \in 0..SeqMax /\ Taken.op \in AllOps /\ Taken.id \in Ids
  BY DEF Takes, Requests
<1>5. dev' \in Devices
  <2>1. KeptFor(Taken, reply) \in KeptAnswers
    BY <1>4 DEF KeptFor, KeptAnswers
  <2>2. FreshDev \in Devices
    BY WireAssumption, TimeAssumption DEF FreshDev, Devices
  <2>3. [seq |-> Taken.seq, age |-> 0, kept |-> {KeptFor(Taken, reply)}] \in Devices
    BY <1>4, <2>1, TimeAssumption DEF Devices
  <2> QED
    BY <1>1, <2>2, <2>3 DEF Repeats, Forgets, ActsOn, Types
<1>6. held' \in {-1} \cup States
  BY <1>1 DEF Repeats, Forgets, ActsOn, Types, HeldAfter
<1>7. acts' \in [Ids -> 0..2]
  <2>1. acts \in [Ids -> 0..2]
    BY DEF Types
  <2>2. acts[Taken.id] \in 0..2
    BY <1>4, <2>1
  <2>3. Twice(acts[Taken.id]) \in 0..2
    BY <2>2 DEF Twice
  <2>4. acts' = acts \/ acts' = [acts EXCEPT ![Taken.id] = Twice(@)]
    BY <1>1 DEF Repeats, Forgets, ActsOn
  <2> QED
    BY <2>1, <2>3, <2>4
<1> QED
  BY <1>2, <1>3, <1>5, <1>6, <1>7 DEF Types, Takes

LEMMA DispatchKeeps == ASSUME IInv, Dispatch PROVE IInv'
<1>1. Takes
  BY DispatchTakes DEF IInv
<1>2. Types' /\ FramesFit' /\ KeptFits' /\ ActsFit' /\ Numbers' /\ ProbesAreOld'
  BY <1>1, TakesTypes, TakesFrames, TakesKept, TakesActs, TakesNumbers, TakesProbes
     DEF IInv
<1>3. ToldIsHeard' /\ WritesTold' /\ ReadsFit'
  BY <1>1, TakesTold, TakesWrites, TakesReads DEF IInv
<1>4. ModeFits'
  BY <1>1 DEF Takes, IInv, ModeFits, Steady
<1> QED
  BY <1>2, <1>3, <1>4 DEF IInv

-----------------------------------------------------------------------------
(* The first states.                                                       *)

LEMMA InitFits == ASSUME Init PROVE IInv
<1>1. (CHOOSE i \in Ids : TRUE) \in Ids
  BY IdsAssumption
<1> DEFINE i == CHOOSE j \in Ids : TRUE
<1>2. i \in Ids /\ host = FreshHost(i)
  BY <1>1 DEF Init
<1> HIDE DEF i
<1>3. /\ host \in Hosts /\ host.got = {} /\ host.seq = 0 /\ ~host.pending
      /\ host.end = "none" /\ ~Same
  BY <1>2, WireAssumption, TimeAssumption DEF FreshHost, Hosts, AllOps, Same
<1>4. /\ dev \in Devices /\ dev.seq = 0 /\ dev.kept = {}
  BY WireAssumption, TimeAssumption DEF Init, FreshDev, Devices
<1>5. toDev = <<>> /\ toHost = <<>> /\ DOMAIN toDev = {} /\ DOMAIN toHost = {}
  BY DEF Init
<1>6. Types
  <2>1. next \in [seq : 1..SeqMax, numbered : BOOLEAN]
    BY WireAssumption DEF Init
  <2>2. /\ split \in [due : {"any", "held", "whole"}, of : SUBSET States]
        /\ held \in {-1} \cup States /\ page \in States
    BY DEF Init, NoSplit, States
  <2>3. acts \in [Ids -> 0..2]
    BY DEF Init
  <2>4. toDev \in Seq(Requests) /\ Len(toDev) <= MaxOut
        /\ toHost \in Seq(Answers) /\ Len(toHost) <= MaxBack
    BY <1>5, WireAssumption
  <2> QED
    BY <1>3, <1>4, <2>1, <2>2, <2>3, <2>4 DEF Types, Init
<1>7. ModeFits
  BY <1>3 DEF Init, ModeFits, Steady, NoSplit
<1>8. FramesFit /\ KeptFits /\ ProbesAreOld
  BY <1>3, <1>4, <1>5 DEF FramesFit, KeptFits, KeptIsOne, RepeatsInTime, NumberNames,
                          ProbesAreOld
<1>9. ActsFit
  BY <1>3, <1>5 DEF ActsFit, AtMostOnce, Init
<1>10. Numbers
  BY <1>3, <1>5 DEF Numbers, Behind, Steady, Init
<1>11. ToldIsHeard /\ WritesTold
  BY <1>3 DEF ToldIsHeard, WritesTold
<1>12. ReadsFit
  BY <1>3 DEF ReadsFit, ReadsTold, States, FirstIsHeard, Init, NoSplit
<1> QED
  BY <1>6, <1>7, <1>8, <1>9, <1>10, <1>11, <1>12 DEF IInv

-----------------------------------------------------------------------------
(* What neither end does.                                                  *)

LEMMA PageMovesKeeps == ASSUME IInv, PageMoves PROVE IInv'
<1>1. UNCHANGED <<host, next, up, quiet, split, read, dev, held, acts, reborn, toDev, toHost>>
      /\ page' = 1 - page
  BY DEF PageMoves, panel
<1>2. Types' /\ ModeFits' /\ FramesFit' /\ KeptFits' /\ ActsFit'
  BY <1>1 DEF IInv, Types, States, ModeFits, Steady, FramesFit, Alike, KeptFits, KeptIsOne,
              RepeatsInTime, NumberNames, Heard, Young, ActsFit, AtMostOnce
<1>3. Numbers' /\ ProbesAreOld' /\ ToldIsHeard' /\ WritesTold' /\ ReadsFit'
  BY <1>1 DEF IInv, Numbers, Steady, Behind, AllOf, Left, Young, ProbesAreOld, ToldIsHeard,
              Same, Told, Heard, WritesTold, TellsActs, ReadsFit, ReadsTold, OfState,
              FirstIsHeard
<1> QED
  BY <1>2, <1>3 DEF IInv

LEMMA DropRequestKeeps == ASSUME IInv, DropRequest PROVE IInv'
<1>1. PICK k \in DOMAIN toDev : toDev' = RemoveAt(toDev, k)
  BY DEF DropRequest
<1>2. UNCHANGED <<host, next, up, quiet, split, read, dev, held, page, acts, reborn, toHost>>
  BY DEF DropRequest, panel, iomcu
<1>3. toDev' \in Seq(Requests) /\ Lacks(toDev', toDev, k)
  BY <1>1, RemovedIs DEF IInv, Types
<1>4. /\ \A j \in DOMAIN toDev' : Was(k, j) \in DOMAIN toDev /\ toDev'[j] = toDev[Was(k, j)]
      /\ \A i, j \in DOMAIN toDev' : i < j <=> Was(k, i) < Was(k, j)
  BY <1>3, LackedIs DEF IInv, Types
<1>5. Types'
  BY <1>2, <1>3, WireAssumption DEF IInv, Types, Lacks
<1>6. ModeFits'
  BY <1>2 DEF IInv, ModeFits, Steady
<1>7. FramesFit' /\ KeptFits'
  BY <1>2, <1>3, FramesLess, KeptLess DEF IInv
<1>8. ActsFit' /\ ProbesAreOld' /\ ToldIsHeard' /\ WritesTold'
  BY <1>2, <1>4 DEF IInv, ActsFit, AtMostOnce, Heard, ProbesAreOld, ToldIsHeard, Same, Told,
                    WritesTold, TellsActs
<1>9. Numbers'
  BY <1>2, <1>4 DEF IInv, Numbers, Steady, Behind, AllOf, Left, Young
<1>10. ReadsFit'
  BY <1>2, <1>4 DEF IInv, ReadsFit, ReadsTold, Same, Told, Heard, OfState, FirstIsHeard
<1> QED
  BY <1>5, <1>6, <1>7, <1>8, <1>9, <1>10 DEF IInv

\* An answer less, lost or left unread.
AnswerLess(k) ==
  /\ toHost' \in Seq(Answers) /\ Lacks(toHost', toHost, k)
  /\ UNCHANGED <<host, next, up, quiet, split, read, dev, held, page, acts, reborn, toDev>>

LEMMA AnswerLessKeeps ==
  ASSUME IInv, NEW k \in DOMAIN toHost, AnswerLess(k) PROVE IInv'
<1>1. UNCHANGED <<host, next, up, quiet, split, read, dev, held, page, acts, reborn, toDev>>
  BY DEF AnswerLess
<1>2. /\ \A j \in DOMAIN toHost' : Was(k, j) \in DOMAIN toHost /\ toHost'[j] = toHost[Was(k, j)]
      /\ \A i, j \in DOMAIN toHost' : i < j <=> Was(k, i) < Was(k, j)
  BY LackedIs DEF AnswerLess, IInv, Types
<1>3. Types'
  BY <1>1, WireAssumption DEF AnswerLess, IInv, Types, Lacks
<1>4. ModeFits' /\ FramesFit' /\ KeptFits' /\ ActsFit'
  BY <1>1 DEF IInv, ModeFits, Steady, FramesFit, Alike, KeptFits, KeptIsOne,
              RepeatsInTime, NumberNames, Heard, Young, ActsFit, AtMostOnce
<1>5. Numbers'
  BY <1>1, <1>2 DEF IInv, Numbers, Steady, Behind, AllOf, Left, Young
<1>6. ProbesAreOld' /\ ToldIsHeard' /\ WritesTold'
  BY <1>1, <1>2 DEF IInv, ProbesAreOld, ToldIsHeard, Same, Told, Heard, WritesTold, TellsActs
<1>7. ReadsFit'
  BY <1>1, <1>2 DEF IInv, ReadsFit, ReadsTold, Same, Told, Heard, OfState, FirstIsHeard
<1> QED
  BY <1>3, <1>4, <1>5, <1>6, <1>7 DEF IInv

LEMMA DropAnswerKeeps == ASSUME IInv, DropAnswer PROVE IInv'
<1>1. PICK k \in DOMAIN toHost : toHost' = RemoveAt(toHost, k)
  BY DEF DropAnswer
<1>2. AnswerLess(k)
  BY <1>1, RemovedIs DEF DropAnswer, panel, iomcu, AnswerLess, IInv, Types
<1> QED
  BY <1>2, AnswerLessKeeps

-----------------------------------------------------------------------------
(* The clocks.                                                             *)

LEMMA TickKeeps == ASSUME IInv, Tick PROVE IInv'
<1>1. UNCHANGED <<next, up, quiet, split, read, held, page, acts, reborn>>
  BY DEF Tick
<1>2. /\ toDev' \in Seq(Requests) /\ Len(toDev') = Len(toDev)
      /\ DOMAIN toDev' = DOMAIN toDev
      /\ \A k \in DOMAIN toDev :
           /\ toDev'[k].op = toDev[k].op /\ toDev'[k].id = toDev[k].id
           /\ toDev'[k].seq = toDev[k].seq /\ toDev'[k].age = toDev[k].age + 1
           /\ toDev[k].age \in 0..Delay
  <2>1. \A k \in DOMAIN toDev : toDev[k] \in Requests
    BY DEF IInv, Types
  <2>2. \A k \in DOMAIN toDev : toDev[k].age < Delay
    BY DEF Tick
  <2>3. \A k \in DOMAIN toDev : [toDev[k] EXCEPT !.age = @ + 1] \in Requests
    BY <2>1, <2>2, TimeAssumption DEF Requests
  <2>4. toDev' = [k \in DOMAIN toDev |-> [toDev[k] EXCEPT !.age = @ + 1]]
    BY DEF Tick
  <2>5. DOMAIN toDev = 1..Len(toDev) /\ Len(toDev) \in Nat
    BY DEF IInv, Types
  <2>6. toDev' \in Seq(Requests) /\ Len(toDev') = Len(toDev)
    BY <2>3, <2>4, <2>5
  <2> QED
    BY <2>1, <2>4, <2>6 DEF Requests
<1>3. /\ toHost' \in Seq(Answers) /\ Len(toHost') = Len(toHost)
      /\ DOMAIN toHost' = DOMAIN toHost
      /\ \A k \in DOMAIN toHost :
           /\ toHost'[k].kind = toHost[k].kind /\ toHost'[k].ver = toHost[k].ver
           /\ toHost'[k].seq = toHost[k].seq /\ toHost[k].age \in 0..Delay
           /\ host.pending => toHost'[k].age = toHost[k].age + 1
  <2>1. \A k \in DOMAIN toHost : toHost[k] \in Answers
    BY DEF IInv, Types
  <2> DEFINE f(k) == [toHost[k] EXCEPT !.age = IF @ < Delay THEN @ + 1 ELSE @]
  <2>2. \A k \in DOMAIN toHost : f(k) \in Answers
    BY <2>1, TimeAssumption DEF Answers
  <2>3. toHost' = [k \in DOMAIN toHost |-> f(k)]
    BY DEF Tick
  <2>4. DOMAIN toHost = 1..Len(toHost) /\ Len(toHost) \in Nat
    BY DEF IInv, Types
  <2>5. \A k \in DOMAIN toHost :
          /\ f(k).kind = toHost[k].kind /\ f(k).ver = toHost[k].ver
          /\ f(k).seq = toHost[k].seq /\ toHost[k].age \in 0..Delay
          /\ toHost[k].age < Delay => f(k).age = toHost[k].age + 1
    BY <2>1 DEF Answers
  <2>6. host.pending => \A k \in DOMAIN toHost : toHost[k].age < Delay
    BY DEF Tick
  <2> HIDE DEF f
  <2>7. toHost' \in Seq(Answers) /\ Len(toHost') = Len(toHost)
    BY <2>2, <2>3, <2>4
  <2> QED
    BY <2>3, <2>5, <2>6, <2>7
<1>4. /\ host' \in Hosts /\ host'.pending = host.pending /\ host'.op = host.op
      /\ host'.id = host.id /\ host'.seq = host.seq /\ host'.ok = host.ok
      /\ host'.got = host.got /\ host'.end = host.end
      /\ host.age \in 0..Timeout /\ host'.age \in 0..Timeout
      /\ host'.age >= host.age /\ host'.age <= host.age + 1
      /\ host.pending => host'.age = host.age + 1 \/ host.age = Timeout
  <2>1. host' = [host EXCEPT !.age = IF host.pending /\ @ < Timeout THEN @ + 1 ELSE @]
    BY DEF Tick, Older
  <2>2. host \in Hosts
    BY DEF IInv, Types
  <2> QED
    BY <2>1, <2>2, TimeAssumption DEF Hosts
<1>5. /\ dev' \in Devices /\ dev'.seq = dev.seq /\ dev'.kept = dev.kept
      /\ dev.age \in 0..Keep /\ dev'.age \in 0..Keep
      /\ dev'.age >= dev.age /\ dev'.age <= dev.age + 1
  <2>1. dev' = [dev EXCEPT !.age = IF dev.seq # 0 /\ @ < Keep THEN @ + 1 ELSE @]
    BY DEF Tick
  <2>2. dev \in Devices
    BY DEF IInv, Types
  <2> QED
    BY <2>1, <2>2, TimeAssumption DEF Devices
<1>6. Types'
  BY <1>1, <1>2, <1>3, <1>4, <1>5 DEF IInv, Types
<1>7. ModeFits' /\ FramesFit'
  <2>1. ModeFits'
    BY <1>1, <1>4 DEF IInv, ModeFits, Steady
  <2>2. FramesFit'
    BY <1>2, <1>4, SMTT(30) DEF IInv, FramesFit, Alike
  <2> QED
    BY <2>1, <2>2
<1>8. KeptIsOne' /\ NumberNames'
  <2>1. KeptIsOne'
    BY <1>2, <1>4, <1>5 DEF IInv, KeptFits, KeptIsOne
  <2>2. Young' => Young
    BY <1>5, TimeAssumption DEF Young
  <2>3. NumberNames'
    BY <1>2, <1>4, <1>5, <2>2 DEF IInv, KeptFits, NumberNames, Heard
  <2> QED
    BY <2>1, <2>3
<1>9. RepeatsInTime'
  <2> SUFFICES ASSUME NEW k \in dev.kept
      PROVE  /\ \A j \in DOMAIN toDev : toDev[j].id = k.id =>
                  /\ k.op = toDev[j].op /\ dev.seq = toDev[j].seq
                  /\ dev'.age + Delay - toDev'[j].age < Keep
                  /\ \A i \in DOMAIN toDev : i < j => toDev[i].id = k.id
             /\ host.pending /\ k.id = host.id =>
                  dev'.age <= host'.age \/ host'.age >= RetryLast
    BY <1>2, <1>4, <1>5 DEF RepeatsInTime
  <2>1. ASSUME NEW j \in DOMAIN toDev, toDev[j].id = k.id
        PROVE  /\ k.op = toDev[j].op /\ dev.seq = toDev[j].seq
               /\ dev'.age + Delay - toDev'[j].age < Keep
               /\ \A i \in DOMAIN toDev : i < j => toDev[i].id = k.id
    <3>1. /\ k.op = toDev[j].op /\ dev.seq = toDev[j].seq
          /\ dev.age + Delay - toDev[j].age < Keep
          /\ \A i \in DOMAIN toDev : i < j => toDev[i].id = k.id
      BY <2>1 DEF IInv, KeptFits, RepeatsInTime
    <3>2. dev'.age + Delay - toDev'[j].age < Keep
      BY <1>2, <1>5, <3>1, TimeAssumption, SMTT(30)
    <3> QED
      BY <3>1, <3>2
  <2>2. ASSUME host.pending, k.id = host.id
        PROVE  dev'.age <= host'.age \/ host'.age >= RetryLast
    <3>1. dev.age <= host.age \/ host.age >= RetryLast
      BY <2>2 DEF IInv, KeptFits, RepeatsInTime
    <3> QED
      BY <1>4, <1>5, <2>2, <3>1, TimeAssumption
  <2> QED
    BY <2>1, <2>2
<1>10. ActsFit'
  BY <1>1, <1>2, <1>4, <1>5, SMTT(30) DEF IInv, ActsFit, AtMostOnce, Heard
<1>11. Numbers'
  <2>1. Young' => Young
    BY <1>5, TimeAssumption DEF Young
  <2>2. ASSUME NEW n, Left(n) PROVE Left(n)'
    BY <1>2, <1>5, <2>1, <2>2 DEF Left
  <2>3. ASSUME NEW n, Behind(n) PROVE Behind(n)'
    <3>1. \A j, k \in DOMAIN toDev' : j < k /\ toDev'[j].seq = n => toDev'[k].seq = n
      BY <1>2, <2>3 DEF Behind
    <3>2. ASSUME NEW k \in DOMAIN toHost', toHost'[k].seq = n
          PROVE  Left(n)' /\ \A l \in DOMAIN toHost' : k < l => toHost'[l].seq = n
      <4>1. Left(n) /\ \A l \in DOMAIN toHost : k < l => toHost[l].seq = n
        BY <1>3, <2>3, <3>2 DEF Behind
      <4> QED
        BY <1>3, <2>2, <4>1
    <3> QED
      BY <3>1, <3>2 DEF Behind
  <2>4. ASSUME NEW n, AllOf(n) PROVE AllOf(n)'
    BY <1>3, <2>2, <2>4 DEF AllOf
  <2>5. PICK n : n = host.seq
    OBVIOUS
  <2>6. /\ host.pending => Behind(n)'
        /\ ~Steady => Behind(0)'
        /\ Steady /\ (~host.pending \/ host.got # {}) => AllOf(n)'
    BY <2>3, <2>4, <2>5 DEF IInv, Numbers
  <2>7. host.got # {} /\ host.seq # 0 => \A j \in DOMAIN toDev' : toDev'[j].id = host.id
    BY <1>2 DEF IInv, Numbers
  <2>8. n = host'.seq
    BY <1>4, <2>5
  <2> QED
    BY <1>1, <1>4, <2>6, <2>7, <2>8 DEF Numbers, Steady
<1>12. ProbesAreOld'
  <2> SUFFICES ASSUME host.pending, host.seq # 0
      PROVE  /\ \A j \in DOMAIN toDev : toDev[j].seq = 0 => toDev'[j].age >= host'.age
             /\ \A k \in DOMAIN toHost :
                  toHost[k].seq = 0 => toHost'[k].age + Delay >= host'.age
    BY <1>2, <1>3, <1>4 DEF ProbesAreOld
  <2>1. ASSUME NEW j \in DOMAIN toDev, toDev[j].seq = 0
        PROVE  toDev'[j].age >= host'.age
    <3>1. toDev[j].age >= host.age
      BY <2>1 DEF IInv, ProbesAreOld
    <3> QED
      BY <1>2, <1>4, <3>1
  <2>2. ASSUME NEW k \in DOMAIN toHost, toHost[k].seq = 0
        PROVE  toHost'[k].age + Delay >= host'.age
    <3>1. toHost[k].age + Delay >= host.age
      BY <2>2 DEF IInv, ProbesAreOld
    <3> QED
      BY <1>3, <1>4, <3>1, TimeAssumption
  <2> QED
    BY <2>1, <2>2
<1>13. ToldIsHeard' /\ WritesTold' /\ ReadsFit'
  <2>1. /\ Same' = Same /\ Told' = Told /\ Heard(host.id)' = Heard(host.id)
        /\ \A j \in DOMAIN toDev : Heard(toDev[j].id)' = Heard(toDev[j].id)
    BY <1>1, <1>2, <1>3, <1>4, <1>5 DEF Same, Told, Heard
  <2>2. ToldIsHeard' /\ WritesTold'
    <3>1. ToldIsHeard'
      BY <1>2, <1>4, <2>1 DEF IInv, ToldIsHeard
    <3>2. WritesTold'
      BY <1>1, <1>3, <1>4, <1>5, <2>1 DEF IInv, WritesTold, TellsActs
    <3> QED
      BY <3>1, <3>2
  <2>3. PICK v \in States : ReadsTold(v)
    BY DEF IInv, ReadsFit
  <2>4. ReadsTold(v)'
    BY <1>1, <1>3, <1>4, <1>5, <2>1, <2>3 DEF ReadsTold, OfState
  <2>5. FirstIsHeard'
    BY <1>1, <1>2, <2>1 DEF IInv, ReadsFit, FirstIsHeard
  <2> QED
    BY <1>1, <1>4, <2>2, <2>4, <2>5 DEF IInv, ReadsFit
<1> QED
  BY <1>6, <1>7, <1>8, <1>9, <1>10, <1>11, <1>12, <1>13 DEF IInv, KeptFits

-----------------------------------------------------------------------------
(* The ends start again, and the link goes down.                           *)

LEMMA RestartKeeps == ASSUME IInv, Restart PROVE IInv'
<1>1. /\ UNCHANGED <<host, next, up, quiet, split, read, page, toDev, toHost>>
      /\ reborn' = TRUE /\ held' = -1
  BY DEF Restart, panel
<1>2. dev' \in Devices /\ dev'.seq = 0 /\ dev'.kept = {}
  BY WireAssumption, TimeAssumption DEF Restart, FreshDev, Devices
<1>3. /\ acts' \in [Ids -> 0..2]
      /\ \A i \in Ids : \/ acts'[i] = 0
                        \/ acts'[i] = acts[i] /\ i = host.id /\ host.op = "activate"
  BY DEF Restart, IInv, Types
<1>4. Types'
  BY <1>1, <1>2, <1>3 DEF IInv, Types
<1>5. ModeFits' /\ FramesFit' /\ ProbesAreOld'
  BY <1>1 DEF IInv, ModeFits, Steady, FramesFit, Alike, ProbesAreOld
<1>6. KeptFits'
  BY <1>2 DEF KeptFits, KeptIsOne, RepeatsInTime, NumberNames
<1>7. ActsFit'
  <2>1. AtMostOnce'
    BY <1>3 DEF AtMostOnce, IInv, ActsFit
  <2>2. ASSUME NEW j \in DOMAIN toDev, acts'[toDev[j].id] > 0 PROVE FALSE
    <3>1. toDev[j] \in Requests
      BY DEF IInv, Types
    <3>2. toDev[j].id \in Ids
      BY <3>1 DEF Requests
    <3>3. acts[toDev[j].id] > 0 /\ toDev[j].id = host.id /\ host.op = "activate"
      BY <1>3, <2>2, <3>2
    <3> QED
      BY <3>3 DEF IInv, ActsFit, FramesFit, Alike
  <2>3. ASSUME host.pending, host.ok PROVE ~(acts'[host.id] > 0)
    BY <1>3, <2>3 DEF IInv, ModeFits, MayRepeat, Types, Hosts
  <2> QED
    BY <1>1, <2>1, <2>2, <2>3 DEF ActsFit
<1>8. Numbers'
  BY <1>1, <1>2 DEF IInv, Numbers, Steady, Behind, AllOf, Left
<1>9. ToldIsHeard' /\ WritesTold'
  BY <1>1 DEF ToldIsHeard, WritesTold, Same
<1>10. ReadsFit'
  BY <1>1 DEF IInv, ReadsFit, ReadsTold, FirstIsHeard, Same, States
<1> QED
  BY <1>4, <1>5, <1>6, <1>7, <1>8, <1>9, <1>10 DEF IInv

LEMMA PanelRestartKeeps == ASSUME IInv, PanelRestart PROVE IInv'
<1>1. UNCHANGED <<held, page, acts, reborn>>
  BY DEF PanelRestart
<1>2. /\ host' \in Hosts /\ host'.got = {} /\ host'.seq = 0 /\ ~host'.pending
      /\ host'.end = "none" /\ host'.op = "probe" /\ host'.id = host.id
  <2>1. host.id \in Ids /\ host' = FreshHost(host.id)
    BY DEF PanelRestart, IInv, Types, Hosts
  <2> QED
    BY <2>1, WireAssumption, TimeAssumption DEF FreshHost, Hosts, AllOps
<1>3. next' = [seq |-> 1, numbered |-> FALSE] /\ up' = FALSE /\ quiet' = FALSE
      /\ split' = NoSplit /\ read' = {}
  BY DEF PanelRestart
<1>4. toDev' = <<>> /\ DOMAIN toDev' = {}
  BY DEF PanelRestart
<1>5. /\ toHost' \in Seq(Answers) /\ Len(toHost') <= MaxBack
      /\ \A k, l \in DOMAIN toHost' : k = l
  <2>1. CASE toHost' = <<>>
    BY <2>1, WireAssumption
  <2>2. CASE \E k \in DOMAIN toHost : toHost' = <<toHost[k]>>
    <3>1. PICK k \in DOMAIN toHost : toHost' = <<toHost[k]>>
      BY <2>2
    <3>2. toHost[k] \in Answers /\ 1 <= MaxBack
      BY WireAssumption DEF IInv, Types
    <3> QED
      BY <3>1, <3>2
  <2> QED
    BY <2>1, <2>2 DEF PanelRestart
<1>6. /\ dev' \in Devices /\ dev'.seq = dev.seq /\ dev'.kept = dev.kept
      /\ dev'.seq # 0 => dev'.age = Keep
  <2>1. dev' = [dev EXCEPT !.age = IF dev.seq = 0 THEN @ ELSE Keep] /\ dev \in Devices
    BY DEF PanelRestart, IInv, Types
  <2> QED
    BY <2>1, TimeAssumption DEF Devices
<1>7. Types'
  <2>1. /\ next' \in [seq : 1..SeqMax, numbered : BOOLEAN]
        /\ split' \in [due : {"any", "held", "whole"}, of : SUBSET States]
    BY <1>3, WireAssumption DEF NoSplit
  <2>2. toDev' \in Seq(Requests) /\ Len(toDev') <= MaxOut
    BY <1>4, WireAssumption
  <2> QED
    BY <1>1, <1>2, <1>3, <1>5, <1>6, <2>1, <2>2 DEF IInv, Types
<1>8. ModeFits'
  BY <1>2, <1>3 DEF ModeFits, Steady, NoSplit
<1>9. FramesFit' /\ ProbesAreOld'
  BY <1>2, <1>4 DEF FramesFit, ProbesAreOld
<1>10. KeptFits'
  BY <1>2, <1>4, <1>6, TimeAssumption
     DEF IInv, KeptFits, KeptIsOne, RepeatsInTime, NumberNames, Young
<1>11. ActsFit'
  BY <1>1, <1>2, <1>4 DEF IInv, ActsFit, AtMostOnce
<1>12. Numbers'
  <2>1. Left(0)'
    BY <1>4, <1>6, TimeAssumption DEF Left, Young
  <2>2. \A k, l \in DOMAIN toHost' : ~(k < l)
    BY <1>5
  <2> QED
    BY <1>2, <1>3, <1>4, <2>1, <2>2 DEF Numbers, Steady, Behind
<1>13. ToldIsHeard' /\ WritesTold' /\ ReadsFit'
  BY <1>2, <1>3 DEF ToldIsHeard, WritesTold, Same, ReadsFit, ReadsTold, FirstIsHeard,
                    NoSplit, States
<1> QED
  BY <1>7, <1>8, <1>9, <1>10, <1>11, <1>12, <1>13 DEF IInv

LEMMA DownKeeps == ASSUME IInv, Down PROVE IInv'
<1>1. UNCHANGED <<host, split, read, dev, held, page, acts, reborn, toDev, toHost>>
      /\ up' = FALSE /\ quiet' = FALSE /\ quiet /\ ~host.pending
  BY DEF Down, iomcu
<1>2. next' \in [seq : 1..SeqMax, numbered : BOOLEAN] /\ next'.numbered = FALSE
  <2>1. next' = [next EXCEPT !.numbered = FALSE]
        /\ next \in [seq : 1..SeqMax, numbered : BOOLEAN]
    BY DEF Down, IInv, Types
  <2> QED
    BY <2>1
<1>3. Types' /\ ModeFits'
  BY <1>1, <1>2 DEF IInv, Types, ModeFits, Steady
<1>4. FramesFit' /\ KeptFits' /\ ActsFit'
  BY <1>1 DEF IInv, FramesFit, Alike, KeptFits, KeptIsOne,
              RepeatsInTime, NumberNames, Heard, Young, ActsFit, AtMostOnce
<1>5. Numbers'
  <2>1. Behind(0)
    BY <1>1 DEF IInv, Numbers, Steady
  <2>2. Behind(0)'
    BY <1>1, <2>1 DEF Behind, Left, Young
  <2> QED
    BY <1>1, <1>2, <2>2 DEF IInv, Numbers, Steady
<1>6. ProbesAreOld' /\ ToldIsHeard' /\ WritesTold' /\ ReadsFit'
  BY <1>1 DEF IInv, ProbesAreOld, ToldIsHeard, Same, Told, Heard, WritesTold, TellsActs,
              ReadsFit, ReadsTold, OfState, FirstIsHeard
<1> QED
  BY <1>3, <1>4, <1>5, <1>6 DEF IInv

-----------------------------------------------------------------------------
(* The panel's steps with nothing read.                                    *)

LEMMA CancelKeeps == ASSUME IInv, Cancel PROVE IInv'
<1>1. UNCHANGED <<next, up, quiet, split, read, dev, held, page, acts, reborn, toDev, toHost>>
  BY DEF Cancel, iomcu
<1>2. /\ host' \in Hosts /\ host'.pending = host.pending /\ host'.op = host.op
      /\ host'.id = host.id /\ host'.seq = host.seq /\ host'.age = host.age
      /\ host'.got = host.got /\ host'.end = host.end /\ ~host'.ok
  <2>1. host' = [host EXCEPT !.ok = FALSE] /\ host \in Hosts
    BY DEF Cancel, IInv, Types
  <2> QED
    BY <2>1 DEF Hosts
<1>3. Types' /\ ModeFits' /\ FramesFit'
  BY <1>1, <1>2 DEF IInv, Types, ModeFits, Steady, FramesFit, Alike
<1>4. KeptFits' /\ ActsFit'
  BY <1>1, <1>2 DEF IInv, KeptFits, KeptIsOne, RepeatsInTime, NumberNames, Heard, Young,
                    ActsFit, AtMostOnce
<1>5. Numbers' /\ ProbesAreOld'
  BY <1>1, <1>2 DEF IInv, Numbers, Steady, Behind, AllOf, Left, Young, ProbesAreOld
<1>6. ToldIsHeard' /\ WritesTold'
  BY <1>1, <1>2 DEF IInv, ToldIsHeard, Same, Told, Heard, WritesTold, TellsActs
<1>7. ReadsFit'
  BY <1>1, <1>2 DEF IInv, ReadsFit, ReadsTold, Same, Told, Heard, OfState, FirstIsHeard
<1> QED
  BY <1>3, <1>4, <1>5, <1>6, <1>7 DEF IInv

LEMMA GiveUpKeeps == ASSUME IInv, GiveUp PROVE IInv'
<1>1. /\ UNCHANGED <<next, up, read, dev, held, page, acts, reborn, toDev, toHost>>
      /\ quiet' = up /\ split' = NoSplit /\ host.pending /\ host.age >= Timeout
  BY DEF GiveUp, iomcu
<1>2. /\ host' \in Hosts /\ ~host'.pending /\ host'.op = host.op
      /\ host'.id = host.id /\ host'.seq = host.seq
      /\ host'.got = host.got /\ host'.end = host.end
  <2>1. host' = [host EXCEPT !.pending = FALSE] /\ host \in Hosts
    BY DEF GiveUp, IInv, Types
  <2> QED
    BY <2>1 DEF Hosts
<1>3. split'.due = "any" /\ split'.of = {}
  BY <1>1 DEF NoSplit
<1>4. Types'
  BY <1>1, <1>2 DEF IInv, Types, NoSplit
<1>5. ModeFits' /\ ~Steady'
  BY <1>1, <1>2, <1>3 DEF IInv, Types, ModeFits, Steady
<1>6. FramesFit' /\ KeptFits' /\ ActsFit'
  BY <1>1, <1>2 DEF IInv, FramesFit, Alike, KeptFits, KeptIsOne, RepeatsInTime, NumberNames,
                    Heard, Young, ActsFit, AtMostOnce
<1>7. Behind(0)
  <2>1. CASE host.seq = 0
    BY <1>1, <2>1 DEF IInv, Numbers
  <2>2. CASE host.seq # 0
    <3>1. ASSUME NEW j \in DOMAIN toDev PROVE toDev[j].seq # 0
      <4>1. toDev[j] \in Requests
        BY DEF IInv, Types
      <4>2. toDev[j].age \in 0..Delay /\ host.age \in 0..Timeout
        BY <4>1 DEF Requests, IInv, Types, Hosts
      <4>3. toDev[j].seq = 0 => toDev[j].age >= host.age
        BY <1>1, <2>2 DEF IInv, ProbesAreOld
      <4> QED
        BY <1>1, <4>2, <4>3, TimeAssumption
    <3>2. ASSUME NEW k \in DOMAIN toHost PROVE toHost[k].seq # 0
      <4>1. toHost[k] \in Answers
        BY DEF IInv, Types
      <4>2. toHost[k].age \in 0..Delay /\ host.age \in 0..Timeout
        BY <4>1 DEF Answers, IInv, Types, Hosts
      <4>3. toHost[k].seq = 0 => toHost[k].age + Delay >= host.age
        BY <1>1, <2>2 DEF IInv, ProbesAreOld
      <4> QED
        BY <1>1, <4>2, <4>3, TimeAssumption
    <3> QED
      BY <3>1, <3>2 DEF Behind
  <2> QED
    BY <2>1, <2>2
<1>8. Numbers'
  <2>1. Behind(0)'
    BY <1>1, <1>7 DEF Behind, Left, Young
  <2> QED
    BY <1>1, <1>2, <1>5, <2>1 DEF IInv, Numbers
<1>9. ProbesAreOld' /\ ToldIsHeard' /\ WritesTold'
  BY <1>1, <1>2 DEF IInv, ProbesAreOld, ToldIsHeard, Same, Told, Heard, WritesTold, TellsActs
<1>10. ReadsFit'
  BY <1>1, <1>2, <1>3 DEF IInv, ReadsFit, ReadsTold, Same, Told, Heard, OfState, FirstIsHeard
<1> QED
  BY <1>4, <1>5, <1>6, <1>8, <1>9, <1>10 DEF IInv

\* The name of a new exchange is nowhere.
LEMMA NewIsNowhere ==
  ASSUME IInv, InUse # Ids
  PROVE  /\ NewId \in Ids /\ NewId # host.id
         /\ \A j \in DOMAIN toDev : toDev[j].id # NewId
         /\ \A k \in dev.kept : k.id # NewId
<1>1. host.id \in Ids
  BY DEF IInv, Types, Hosts
<1>2. ASSUME NEW j \in DOMAIN toDev PROVE toDev[j].id \in Ids
  <2>1. toDev[j] \in Requests
    BY DEF IInv, Types
  <2> QED
    BY <2>1 DEF Requests
<1>3. ASSUME NEW j \in DOMAIN toHost PROVE toHost[j].id \in Ids
  <2>1. toHost[j] \in Answers
    BY DEF IInv, Types
  <2> QED
    BY <2>1 DEF Answers
<1>4. \A k \in dev.kept : k.id \in Ids
  BY DEF IInv, Types, Devices, KeptAnswers
<1>5. InUse \subseteq Ids
  BY <1>1, <1>2, <1>3, <1>4 DEF InUse
<1>6. \E i \in Ids : i \notin InUse
  BY <1>5
<1>7. NewId \in Ids /\ NewId \notin InUse
  BY <1>6 DEF NewId
<1> QED
  BY <1>7 DEF InUse

LEMMA BegunIs ==
  ASSUME Types, NEW op \in AllOps, NEW i \in Ids
  PROVE  LET b == Begun(op, i)
         IN  /\ b \in Hosts /\ b.pending /\ b.op = op /\ b.id = i /\ b.age = 0
             /\ b.got = {} /\ b.end = "none" /\ b.ok = MayRepeat(op, b.seq)
             /\ b.seq = IF next.numbered THEN next.seq ELSE 0
<1> DEFINE s == IF next.numbered THEN next.seq ELSE 0
<1>1. s \in 0..SeqMax /\ 0 \in 0..Timeout /\ MayRepeat(op, s) \in BOOLEAN
  BY WireAssumption, TimeAssumption DEF Types, MayRepeat
<1>2. Begun(op, i) = [pending |-> TRUE, op |-> op, id |-> i, seq |-> s, age |-> 0,
                      ok |-> MayRepeat(op, s), again |-> FALSE, got |-> {}, end |-> "none"]
  BY DEF Begun
<1> HIDE DEF s
<1>3. Begun(op, i) \in Hosts
  BY <1>1, <1>2 DEF Hosts
<1>4. /\ Begun(op, i).pending /\ Begun(op, i).op = op /\ Begun(op, i).id = i
      /\ Begun(op, i).age = 0 /\ Begun(op, i).got = {} /\ Begun(op, i).end = "none"
      /\ Begun(op, i).seq = s /\ Begun(op, i).ok = MayRepeat(op, s)
  BY <1>2
<1> QED
  BY <1>3, <1>4 DEF s

LEMMA FollowingIs ==
  ASSUME NEW s \in 1..SeqMax PROVE Following(s) \in 1..SeqMax /\ Following(s) # s
<1>1. CASE s = SeqMax
  <2>1. s % SeqMax = 0
    BY <1>1, WireAssumption
  <2> QED
    BY <1>1, <2>1, WireAssumption DEF Following
<1>2. CASE s # SeqMax
  <2>1. s % SeqMax = s
    BY <1>2, WireAssumption
  <2> QED
    BY <1>2, <2>1, WireAssumption DEF Following
<1> QED
  BY <1>1, <1>2

LEMMA SpentIs ==
  ASSUME Types, NumberSpent
  PROVE  /\ next' \in [seq : 1..SeqMax, numbered : BOOLEAN]
         /\ next'.numbered = next.numbered
         /\ next.numbered => next'.seq = Following(next.seq)
<1>1. next \in [seq : 1..SeqMax, numbered : BOOLEAN]
  BY DEF Types
<1>2. Following(next.seq) \in 1..SeqMax
  BY <1>1, FollowingIs
<1> QED
  BY <1>1, <1>2 DEF NumberSpent

LEMMA AbandonKeeps == ASSUME IInv, NEW op \in Ops, Abandon(op) PROVE IInv'
<1>1. /\ UNCHANGED <<up, read, dev, held, page, reborn, toDev, toHost>>
      /\ quiet' = up /\ split' = NoSplit /\ ~host.pending /\ NumberSpent
      /\ InUse # Ids
  BY DEF Abandon, Asks
<1> DEFINE i == NewId
<1>2. /\ i \in Ids /\ i # host.id
      /\ \A j \in DOMAIN toDev : toDev[j].id # i
      /\ \A k \in dev.kept : k.id # i
  BY <1>1, NewIsNowhere
<1>3. /\ host' \in Hosts /\ ~host'.pending /\ host'.op = op /\ host'.id = i
      /\ host'.got = {} /\ host'.end = "none"
  <2>1. host' = [Begun(op, i) EXCEPT !.pending = FALSE] /\ op \in AllOps
    BY OpsAssumption DEF Abandon
  <2>2. Begun(op, i) \in Hosts /\ LET b == Begun(op, i)
                                  IN  b.op = op /\ b.id = i /\ b.got = {} /\ b.end = "none"
    BY <1>2, <2>1, BegunIs DEF IInv
  <2> HIDE DEF i
  <2> QED
    BY <2>1, <2>2 DEF Hosts
<1>4. acts' = [acts EXCEPT ![i] = 0]
  BY DEF Abandon
<1> HIDE DEF i
<1>5. /\ acts' \in [Ids -> 0..2] /\ \A j \in Ids : acts'[j] \in {0, acts[j]}
      /\ \A j \in Ids : j # i => acts'[j] = acts[j]
  BY <1>2, <1>4 DEF IInv, Types
<1>6. split'.due = "any" /\ split'.of = {}
  BY <1>1 DEF NoSplit
<1>7. Types'
  BY <1>1, <1>3, <1>5, SpentIs DEF IInv, Types, NoSplit
<1>8. ModeFits' /\ ~Steady'
  BY <1>1, <1>3, <1>6, SpentIs DEF IInv, Types, ModeFits, Steady
<1>9. FramesFit' /\ KeptFits'
  BY <1>1, <1>2, <1>3 DEF IInv, FramesFit, Alike, KeptFits, KeptIsOne, RepeatsInTime,
                          NumberNames, Heard, Young
<1>10. ActsFit'
  <2>1. ASSUME NEW j \in DOMAIN toDev PROVE acts'[toDev[j].id] = acts[toDev[j].id]
    <3>1. toDev[j] \in Requests
      BY DEF IInv, Types
    <3> QED
      BY <1>2, <1>5, <3>1 DEF Requests
  <2>2. AtMostOnce'
    BY <1>5 DEF IInv, ActsFit, AtMostOnce
  <2> QED
    BY <1>1, <1>3, <2>1, <2>2 DEF IInv, ActsFit, Heard
<1>11. Behind(0)
  <2>1. CASE Steady
    <3>1. AllOf(host.seq)
      BY <1>1, <2>1 DEF IInv, Numbers
    <3> QED
      BY <3>1 DEF AllOf, Left, Behind
  <2>2. CASE ~Steady
    BY <2>2 DEF IInv, Numbers
  <2> QED
    BY <2>1, <2>2
<1>12. Numbers'
  <2>1. Behind(0)'
    BY <1>1, <1>11 DEF Behind, Left, Young
  <2> QED
    BY <1>3, <1>8, <2>1 DEF Numbers
<1>13. ProbesAreOld' /\ ToldIsHeard' /\ WritesTold'
  BY <1>1, <1>2, <1>3 DEF ProbesAreOld, ToldIsHeard, Told, WritesTold, TellsActs
<1>14. ReadsFit'
  <2>1. ReadsTold(0)'
    BY <1>1, <1>2, <1>3, <1>6 DEF ReadsTold, Told, Heard
  <2> QED
    BY <1>1, <1>3, <1>6, <2>1 DEF IInv, ReadsFit, FirstIsHeard, States
<1> QED
  BY <1>7, <1>8, <1>9, <1>10, <1>12, <1>13, <1>14 DEF IInv

-----------------------------------------------------------------------------
(* The panel asks.                                                         *)

\* A frame more on the way to the IOmcu, the host's.
Joins ==
  /\ toDev' \in Seq(Requests) /\ Len(toDev') <= MaxOut
  /\ DOMAIN toDev' = 1..Len(toDev) + 1 /\ DOMAIN toDev = 1..Len(toDev)
  /\ Len(toDev) \in Nat
  /\ \A j \in DOMAIN toDev : toDev'[j] = toDev[j]
  /\ LET r == toDev'[Len(toDev) + 1]
     IN  r \in Requests /\ r.op = host'.op /\ r.seq = host'.seq /\ r.id = host'.id
         /\ r.age = 0

LEMMA RequestJoins ==
  ASSUME Types, NEW h \in Hosts, toDev' = Append(toDev, Request(h)), Len(toDev) < MaxOut,
         h.op = host'.op, h.seq = host'.seq, h.id = host'.id
  PROVE  Joins
<1> DEFINE r == Request(h)
<1>1. r \in Requests /\ r.op = h.op /\ r.seq = h.seq /\ r.id = h.id /\ r.age = 0
  BY TimeAssumption DEF Request, Requests, Hosts
<1> HIDE DEF r
<1>2. toDev \in Seq(Requests) /\ toDev' = Append(toDev, r)
  BY DEF Types, r
<1>3. /\ toDev' \in Seq(Requests) /\ Len(toDev') = Len(toDev) + 1
      /\ DOMAIN toDev' = 1..Len(toDev) + 1
      /\ DOMAIN toDev = 1..Len(toDev) /\ Len(toDev) \in Nat
      /\ \A j \in DOMAIN toDev : toDev'[j] = toDev[j]
      /\ toDev'[Len(toDev) + 1] = r
  BY <1>1, <1>2, AppendedIs
<1>4. Len(toDev') <= MaxOut
  BY <1>3, WireAssumption
<1> QED
  BY <1>1, <1>3, <1>4 DEF Joins

LEMMA JoinedFrames ==
  ASSUME Joins
  PROVE  \A j \in DOMAIN toDev' :
           \/ j \in DOMAIN toDev /\ toDev'[j] = toDev[j]
           \/ /\ j = Len(toDev) + 1 /\ j \notin DOMAIN toDev
              /\ \A i \in DOMAIN toDev : i < j
              /\ toDev'[j].op = host'.op /\ toDev'[j].seq = host'.seq
              /\ toDev'[j].id = host'.id /\ toDev'[j].age = 0
<1>1. ASSUME NEW j \in DOMAIN toDev'
      PROVE  \/ j \in DOMAIN toDev /\ toDev'[j] = toDev[j]
             \/ /\ j = Len(toDev) + 1 /\ j \notin DOMAIN toDev
                /\ \A i \in DOMAIN toDev : i < j
  BY DEF Joins
<1> QED
  BY <1>1 DEF Joins

LEMMA RepeatKeeps == ASSUME IInv, Repeat PROVE IInv'
<1>1. /\ UNCHANGED <<next, up, quiet, split, read, dev, held, page, acts, reborn, toHost>>
      /\ host.pending /\ host.ok /\ host.age < RetryLast
  BY DEF Repeat, iomcu
<1>2. /\ host' \in Hosts /\ host'.pending = host.pending /\ host'.op = host.op
      /\ host'.id = host.id /\ host'.seq = host.seq /\ host'.age = host.age
      /\ host'.got = host.got /\ host'.end = host.end /\ host'.ok = host.ok
  <2>1. host' = [host EXCEPT !.again = TRUE] /\ host \in Hosts
    BY DEF Repeat, IInv, Types
  <2> QED
    BY <2>1 DEF Hosts
<1>3. host.seq # 0 /\ host.op # "activate" /\ Steady
  BY <1>1 DEF IInv, ModeFits, MayRepeat, Steady
<1>4. CASE toDev' = toDev
  <2>1. Types' /\ ModeFits' /\ FramesFit'
    BY <1>1, <1>2, <1>4 DEF IInv, Types, ModeFits, Steady, FramesFit, Alike
  <2>2. KeptFits' /\ ActsFit'
    BY <1>1, <1>2, <1>4 DEF IInv, KeptFits, KeptIsOne, RepeatsInTime, NumberNames, Heard,
                            Young, ActsFit, AtMostOnce
  <2>3. Numbers' /\ ProbesAreOld'
    BY <1>1, <1>2, <1>4 DEF IInv, Numbers, Steady, Behind, AllOf, Left, Young, ProbesAreOld
  <2>4. ToldIsHeard' /\ WritesTold'
    BY <1>1, <1>2, <1>4 DEF IInv, ToldIsHeard, Same, Told, Heard, WritesTold, TellsActs
  <2>5. ReadsFit'
    BY <1>1, <1>2, <1>4 DEF IInv, ReadsFit, ReadsTold, Same, Told, Heard, OfState,
                            FirstIsHeard
  <2> QED
    BY <2>1, <2>2, <2>3, <2>4, <2>5 DEF IInv
<1>5. CASE toDev' = Append(toDev, Request(host)) /\ Len(toDev) < MaxOut
  <2>1. Joins
    BY <1>2, <1>5, RequestJoins DEF IInv, Types
  <2>2. \A j \in DOMAIN toDev' :
          \/ j \in DOMAIN toDev /\ toDev'[j] = toDev[j]
          \/ /\ j = Len(toDev) + 1 /\ \A i \in DOMAIN toDev : i < j
             /\ toDev'[j].op = host.op /\ toDev'[j].seq = host.seq
             /\ toDev'[j].id = host.id /\ toDev'[j].age = 0
    BY <1>2, <2>1, JoinedFrames
  <2>3. DOMAIN toDev \subseteq Int
    BY <2>1 DEF Joins
  <2>4. Types' /\ ModeFits'
    BY <1>1, <1>2, <2>1 DEF IInv, Types, Joins, ModeFits, Steady
  <2>5. FramesFit'
    <3>1. ASSUME NEW j \in DOMAIN toDev'
          PROVE  /\ toDev'[j].seq = 0 => toDev'[j].op = "probe"
                 /\ toDev'[j].id = host.id => Alike(toDev'[j], host)
                 /\ toDev'[j].seq = host.seq => toDev'[j].id = host.id
      BY <1>1, <1>3, <2>2 DEF IInv, FramesFit, Alike
    <3>2. ASSUME NEW j \in DOMAIN toDev', NEW k \in DOMAIN toDev'
          PROVE  /\ toDev'[j].id = toDev'[k].id =>
                      /\ Alike(toDev'[j], toDev'[k])
                      /\ j # k => toDev'[j].op # "activate"
                 /\ toDev'[j].seq = toDev'[k].seq /\ toDev'[j].seq # 0
                      => toDev'[j].id = toDev'[k].id
                 /\ j < k /\ toDev'[j].id = host.id => toDev'[k].id = host.id
      <4>1. CASE j \in DOMAIN toDev /\ k \in DOMAIN toDev
        BY <2>2, <2>3, <4>1 DEF IInv, FramesFit
      <4>2. CASE ~(j \in DOMAIN toDev) \/ ~(k \in DOMAIN toDev)
        BY <1>3, <2>2, <2>3, <3>1, <4>2 DEF Alike
      <4> QED
        BY <4>1, <4>2
    <3>3. ASSUME NEW j \in DOMAIN toDev', NEW l \in DOMAIN toDev', NEW k \in DOMAIN toDev',
                 j < l, l < k, toDev'[j].id = toDev'[k].id
          PROVE  toDev'[l].id = toDev'[j].id
      <4>1. j \in DOMAIN toDev /\ l \in DOMAIN toDev
        BY <2>2, <2>3, <3>3 DEF Joins
      <4>2. CASE k \in DOMAIN toDev
        BY <2>2, <2>3, <3>3, <4>1, <4>2 DEF IInv, FramesFit
      <4>3. CASE k \notin DOMAIN toDev
        BY <2>2, <3>2, <3>3, <4>3
      <4> QED
        BY <4>2, <4>3
    <3> QED
      BY <1>2, <3>1, <3>2, <3>3 DEF FramesFit, Alike
  <2>6. KeptIsOne'
    BY <1>1, <1>2, <2>2 DEF IInv, KeptFits, KeptIsOne
  <2>7. RepeatsInTime'
    <3> SUFFICES ASSUME NEW k \in dev.kept, NEW j \in DOMAIN toDev', toDev'[j].id = k.id
        PROVE  /\ k.op = toDev'[j].op /\ dev.seq = toDev'[j].seq
               /\ dev.age + Delay - toDev'[j].age < Keep
               /\ \A i \in DOMAIN toDev' : i < j => toDev'[i].id = k.id
      BY <1>1, <1>2 DEF IInv, KeptFits, RepeatsInTime
    <3>1. CASE j \in DOMAIN toDev
      <4>1. \A i \in DOMAIN toDev' : i < j => i \in DOMAIN toDev
        BY <2>2, <2>3, <3>1
      <4> QED
        BY <2>2, <3>1, <4>1 DEF IInv, KeptFits, RepeatsInTime
    <3>2. CASE j \notin DOMAIN toDev
      <4>1. /\ toDev'[j].op = host.op /\ toDev'[j].seq = host.seq
            /\ toDev'[j].id = host.id /\ toDev'[j].age = 0
        BY <2>2, <3>2
      <4>2. /\ k.op = host.op /\ dev.seq = host.seq
            /\ \A i \in DOMAIN toDev : toDev[i].id = host.id
        BY <1>3, <4>1 DEF IInv, KeptFits, KeptIsOne
      <4>3. dev.age <= host.age
        <5>1. dev.age <= host.age \/ host.age >= RetryLast
          BY <1>1, <4>1 DEF IInv, KeptFits, RepeatsInTime
        <5> QED
          BY <1>1, <5>1, TimeAssumption DEF IInv, Types, Hosts
      <4>4. dev.age + Delay - 0 < Keep
        BY <1>1, <4>3, TimeAssumption DEF IInv, Types, Hosts, Devices
      <4> QED
        BY <2>2, <4>1, <4>2, <4>4
    <3> QED
      BY <3>1, <3>2
  <2>8. NumberNames'
    BY <1>1, <1>2, <2>2 DEF IInv, KeptFits, NumberNames, Heard, Young
  <2>9. ActsFit'
    BY <1>1, <1>2, <1>3, <2>2 DEF IInv, ActsFit, AtMostOnce, Heard
  <2>10. Numbers'
    <3>1. PICK n : n = host.seq
      OBVIOUS
    <3>2. Left(n) => Left(n)'
      BY <1>1, <2>2, <3>1 DEF Left, Young
    <3>3. Behind(n)
      BY <1>1, <3>1 DEF IInv, Numbers
    <3>4. Behind(n)'
      <4>1. \A j, k \in DOMAIN toDev' : j < k /\ toDev'[j].seq = n => toDev'[k].seq = n
        <5> SUFFICES ASSUME NEW j \in DOMAIN toDev', NEW k \in DOMAIN toDev',
                            j < k, toDev'[j].seq = n
            PROVE  toDev'[k].seq = n
          OBVIOUS
        <5>1. j \in DOMAIN toDev
          BY <2>2, <2>3 DEF Joins
        <5> QED
          BY <2>2, <3>1, <3>3, <5>1 DEF Behind
      <4> QED
        BY <1>1, <3>2, <3>3, <4>1 DEF Behind
    <3>5. AllOf(n) => AllOf(n)'
      BY <1>1, <3>2 DEF AllOf
    <3>6. host.got # {} => AllOf(n)'
      BY <1>3, <3>1, <3>5 DEF IInv, Numbers
    <3>7. host.got # {} => \A j \in DOMAIN toDev' : toDev'[j].id = host.id
      BY <1>3, <2>2 DEF IInv, Numbers
    <3>8. host'.seq = n /\ Steady'
      BY <1>1, <1>2, <1>3, <3>1 DEF Steady
    <3> QED
      BY <1>1, <1>2, <3>4, <3>6, <3>7, <3>8 DEF Numbers
  <2>11. ProbesAreOld' /\ ToldIsHeard'
    BY <1>1, <1>2, <1>3, <2>2 DEF IInv, ProbesAreOld, ToldIsHeard, Same, Told, Heard
  <2>12. WritesTold'
    BY <1>1, <1>2 DEF IInv, WritesTold, Same, TellsActs
  <2>13. ReadsFit'
    <3>1. \E v \in States : ReadsTold(v)'
      BY <1>1, <1>2 DEF IInv, ReadsFit, ReadsTold, Same, Told, Heard, OfState
    <3>2. FirstIsHeard'
      BY <1>1, <1>2, <2>2 DEF IInv, ReadsFit, FirstIsHeard, Heard
    <3> QED
      BY <1>1, <1>2, <3>1, <3>2 DEF IInv, ReadsFit
  <2> QED
    BY <2>4, <2>5, <2>6, <2>7, <2>8, <2>9, <2>10, <2>11, <2>12, <2>13 DEF IInv, KeptFits
<1> QED
  BY <1>4, <1>5 DEF Repeat

\* A new exchange: what neither wire nor the IOmcu has seen.
Starts(op) ==
  /\ Joins /\ ~host.pending /\ ~quiet /\ host'.pending
  /\ host' \in Hosts /\ host'.op = op /\ host'.age = 0 /\ host'.got = {}
  /\ host'.end = "none" /\ host'.ok = MayRepeat(op, host'.seq)
  /\ host'.id \in Ids /\ host'.id # host.id
  /\ \A j \in DOMAIN toDev : toDev[j].id # host'.id
  /\ \A k \in dev.kept : k.id # host'.id
  /\ IF up THEN op # "probe" ELSE op = "probe"
  /\ split.due = "held" <=> op = "held"
  /\ next' \in [seq : 1..SeqMax, numbered : BOOLEAN]
  /\ next'.numbered = next.numbered
  /\ next.numbered => host'.seq = next.seq /\ next'.seq = Following(next.seq)
  /\ ~next.numbered => host'.seq = 0
  /\ acts' = [acts EXCEPT ![host'.id] = 0]
  /\ reborn' = (reborn /\ op = "held")
  /\ UNCHANGED <<up, quiet, split, read, dev, held, page, toHost>>

LEMMA StartStarts ==
  ASSUME IInv, NEW op \in Ops, Start(op) PROVE Starts(op)
<1> DEFINE i == NewId
<1>1. /\ UNCHANGED <<up, quiet, split, read, dev, held, page, toHost>>
      /\ ~host.pending /\ ~quiet /\ NumberSpent /\ InUse # Ids /\ Len(toDev) < MaxOut
      /\ host' = Begun(op, i) /\ acts' = [acts EXCEPT ![i] = 0]
      /\ toDev' = Append(toDev, Request(host')) /\ reborn' = (reborn /\ op = "held")
  BY DEF Start, Asks
<1>2. /\ i \in Ids /\ i # host.id
      /\ \A j \in DOMAIN toDev : toDev[j].id # i
      /\ \A k \in dev.kept : k.id # i
  BY <1>1, NewIsNowhere
<1>3. /\ IF up THEN op # "probe" ELSE op = "probe"
      /\ split.due = "held" <=> op = "held"
  BY DEF Start, Asks
<1> HIDE DEF i
<1>4. /\ host' \in Hosts /\ host'.pending /\ host'.op = op /\ host'.id = i /\ host'.age = 0
      /\ host'.got = {} /\ host'.end = "none" /\ host'.ok = MayRepeat(op, host'.seq)
      /\ host'.seq = IF next.numbered THEN next.seq ELSE 0
  BY <1>1, <1>2, BegunIs, OpsAssumption DEF IInv
<1>5. /\ next' \in [seq : 1..SeqMax, numbered : BOOLEAN]
      /\ next'.numbered = next.numbered
      /\ next.numbered => next'.seq = Following(next.seq)
  BY <1>1, SpentIs DEF IInv
<1>6. Joins
  BY <1>1, <1>4, RequestJoins DEF IInv
<1> QED
  BY <1>1, <1>2, <1>3, <1>4, <1>5, <1>6 DEF Starts

\* The number is new too, unless it is none.
LEMMA StartIsNew ==
  ASSUME IInv, NEW op, Starts(op)
  PROVE  /\ host'.seq = 0 <=> ~up
         /\ host'.seq # 0 =>
              /\ Steady /\ host'.seq # host.seq
              /\ \A j \in DOMAIN toDev : toDev[j].seq # host'.seq
              /\ \A k \in DOMAIN toHost : toHost[k].seq # host'.seq
              /\ Young => dev.seq # host'.seq
         /\ host'.seq = 0 => ~Steady /\ Behind(0)
<1>1. next.numbered = up /\ next.seq \in 1..SeqMax /\ ~host.pending /\ ~quiet
  BY DEF IInv, ModeFits, Types, Starts
<1>2. host'.seq = 0 <=> ~up
  BY <1>1 DEF Starts
<1>3. host'.seq = 0 => ~Steady /\ Behind(0)
  BY <1>1, <1>2 DEF IInv, Numbers, Steady
<1>4. ASSUME host'.seq # 0
      PROVE  /\ Steady /\ host'.seq # host.seq
             /\ \A j \in DOMAIN toDev : toDev[j].seq # host'.seq
             /\ \A k \in DOMAIN toHost : toHost[k].seq # host'.seq
             /\ Young => dev.seq # host'.seq
  <2>1. Steady /\ host'.seq = next.seq
    BY <1>1, <1>2, <1>4 DEF Steady, Starts
  <2>2. next.seq # host.seq
    <3>1. CASE host.seq = 0
      BY <1>1, <3>1
    <3>2. CASE host.seq # 0
      <4>1. next.seq = Following(host.seq) /\ host.seq \in 1..SeqMax
        BY <2>1, <3>2 DEF IInv, ModeFits, Types, Hosts
      <4> QED
        BY <4>1, FollowingIs
    <3> QED
      BY <3>1, <3>2
  <2>3. AllOf(host.seq)
    BY <1>1, <2>1 DEF IInv, Numbers
  <2> QED
    BY <1>4, <2>1, <2>2, <2>3 DEF AllOf, Left
<1> QED
  BY <1>2, <1>3, <1>4

LEMMA StartsFrames == ASSUME IInv, NEW op, Starts(op) PROVE FramesFit'
<1>1. \A j \in DOMAIN toDev' :
        \/ j \in DOMAIN toDev /\ toDev'[j] = toDev[j]
        \/ /\ j = Len(toDev) + 1 /\ j \notin DOMAIN toDev
           /\ \A i \in DOMAIN toDev : i < j
           /\ toDev'[j].op = host'.op /\ toDev'[j].seq = host'.seq
           /\ toDev'[j].id = host'.id /\ toDev'[j].age = 0
  BY JoinedFrames DEF Starts
<1>2. DOMAIN toDev \subseteq Int /\ Len(toDev) + 1 \in Int
  BY DEF Starts, Joins
<1>3. /\ \A j \in DOMAIN toDev : toDev[j].id # host'.id
      /\ host'.seq # 0 => \A j \in DOMAIN toDev : toDev[j].seq # host'.seq
      /\ host'.seq = 0 => host'.op = "probe"
  BY StartIsNew DEF Starts
<1>4. ASSUME NEW j \in DOMAIN toDev'
      PROVE  /\ toDev'[j].seq = 0 => toDev'[j].op = "probe"
             /\ toDev'[j].id = host'.id => Alike(toDev'[j], host')
             /\ host'.seq # 0 /\ toDev'[j].seq = host'.seq => toDev'[j].id = host'.id
  BY <1>1, <1>3 DEF IInv, FramesFit, Alike
<1>5. ASSUME NEW j \in DOMAIN toDev', NEW k \in DOMAIN toDev'
      PROVE  /\ toDev'[j].id = toDev'[k].id =>
                  /\ Alike(toDev'[j], toDev'[k])
                  /\ j # k => toDev'[j].op # "activate"
             /\ toDev'[j].seq = toDev'[k].seq /\ toDev'[j].seq # 0
                  => toDev'[j].id = toDev'[k].id
             /\ j < k /\ toDev'[j].id = host'.id => toDev'[k].id = host'.id
  <2>1. CASE j \in DOMAIN toDev /\ k \in DOMAIN toDev
    BY <1>1, <1>2, <1>3, <2>1 DEF IInv, FramesFit
  <2>2. CASE j \notin DOMAIN toDev /\ k \notin DOMAIN toDev
    BY <1>1, <1>2, <2>2 DEF Alike
  <2>3. CASE j \in DOMAIN toDev /\ k \notin DOMAIN toDev
    BY <1>1, <1>2, <1>3, <2>3
  <2>4. CASE j \notin DOMAIN toDev /\ k \in DOMAIN toDev
    <3>1. toDev'[j].id # toDev'[k].id /\ ~(j < k)
      BY <1>1, <1>2, <1>3, <2>4
    <3> QED
      BY <1>1, <1>3, <2>4, <3>1
  <2> QED
    BY <2>1, <2>2, <2>3, <2>4
<1>6. ASSUME NEW j \in DOMAIN toDev', NEW l \in DOMAIN toDev', NEW k \in DOMAIN toDev',
             j < l, l < k, toDev'[j].id = toDev'[k].id
      PROVE  toDev'[l].id = toDev'[j].id
  <2>1. j \in DOMAIN toDev /\ l \in DOMAIN toDev
    BY <1>1, <1>2, <1>6 DEF Starts, Joins
  <2>2. k \in DOMAIN toDev
    BY <1>1, <1>3, <1>6, <2>1
  <2> QED
    BY <1>1, <1>6, <2>1, <2>2 DEF IInv, FramesFit
<1> QED
  BY <1>4, <1>5, <1>6 DEF FramesFit, Alike

LEMMA StartsNumbers == ASSUME IInv, NEW op, Starts(op) PROVE Numbers'
<1>1. \A j \in DOMAIN toDev' :
        \/ j \in DOMAIN toDev /\ toDev'[j] = toDev[j]
        \/ /\ j = Len(toDev) + 1 /\ j \notin DOMAIN toDev
           /\ \A i \in DOMAIN toDev : i < j
           /\ toDev'[j].seq = host'.seq
  BY JoinedFrames DEF Starts
<1>2. DOMAIN toDev \subseteq Int /\ Len(toDev) + 1 \in Int
  BY DEF Starts, Joins
<1>3. UNCHANGED <<dev, toHost>> /\ host'.pending /\ host'.got = {} /\ Steady' = Steady
  BY DEF Starts, Steady
<1>4. PICK n : n = host'.seq
  OBVIOUS
<1>5. CASE n # 0
  <2>1. /\ \A j \in DOMAIN toDev : toDev[j].seq # n
        /\ \A k \in DOMAIN toHost : toHost[k].seq # n
        /\ Steady
    BY <1>4, <1>5, StartIsNew
  <2>2. Behind(n)'
    BY <1>1, <1>2, <1>3, <1>4, <2>1 DEF Behind
  <2> QED
    BY <1>3, <1>4, <2>1, <2>2 DEF Numbers
<1>6. CASE n = 0
  <2>1. ~Steady /\ Behind(0)
    BY <1>4, <1>6, StartIsNew
  <2>2. Left(0) => Left(0)'
    BY <1>1, <1>3, <1>4, <1>6 DEF Left, Young
  <2>3. \A j, k \in DOMAIN toDev' : j < k /\ toDev'[j].seq = 0 => toDev'[k].seq = 0
    <3> SUFFICES ASSUME NEW j \in DOMAIN toDev', NEW k \in DOMAIN toDev',
                        j < k, toDev'[j].seq = 0
        PROVE  toDev'[k].seq = 0
      OBVIOUS
    <3>1. CASE k \notin DOMAIN toDev
      BY <1>1, <1>4, <1>6, <3>1
    <3>2. CASE k \in DOMAIN toDev
      <4>1. j \in DOMAIN toDev
        BY <1>1, <1>2, <3>2
      <4> QED
        BY <1>1, <2>1, <3>2, <4>1 DEF Behind
    <3> QED
      BY <3>1, <3>2
  <2>4. Behind(0)'
    BY <1>3, <2>1, <2>2, <2>3 DEF Behind
  <2> QED
    BY <1>3, <1>4, <1>6, <2>1, <2>4 DEF Numbers
<1> QED
  BY <1>5, <1>6

LEMMA StartsReads == ASSUME IInv, NEW op, Starts(op) PROVE ReadsFit'
<1>1. \A j \in DOMAIN toDev' :
        \/ j \in DOMAIN toDev /\ toDev'[j] = toDev[j]
        \/ toDev'[j].op = host'.op
  BY JoinedFrames DEF Starts
<1>2. /\ UNCHANGED <<split, read, dev, held, toHost>> /\ host'.pending /\ host'.got = {}
      /\ host'.op = op /\ ~host.pending /\ host'.end = "none"
      /\ split.due = "held" <=> op = "held"
      /\ reborn' = (reborn /\ op = "held")
      /\ \A k \in dev.kept : k.id # host'.id
      /\ host'.seq # 0 => \A k \in DOMAIN toHost : toHost[k].seq # host'.seq
  BY StartIsNew DEF Starts
<1>3. ASSUME NEW v \in States, split.due = "held" /\ Same' => ReadsTold(v) /\ Same
      PROVE  ReadsTold(v)'
  <2>1. Same' => ~Told' /\ ~Heard(host'.id)
    BY <1>2 DEF Same, Told, Heard
  <2>2. split.due = "held" /\ Same' => split.of \subseteq {v} /\ held \in {-1, v}
    <3>1. split.due = "held" => host.op = "first"
      BY <1>2 DEF IInv, ReadsFit
    <3> QED
      BY <1>3, <3>1 DEF ReadsTold, Writes
  <2> QED
    BY <1>2, <2>1, <2>2 DEF ReadsTold, Same, Told, Heard
<1>4. \E v \in States : ReadsTold(v)'
  <2>1. CASE split.due = "held" /\ Same'
    <3>1. Same
      BY <1>2, <2>1 DEF Same, IInv, ModeFits
    <3>2. PICK v \in States : ReadsTold(v)
      BY DEF IInv, ReadsFit
    <3> QED
      BY <1>3, <3>1, <3>2
  <2>2. CASE ~(split.due = "held" /\ Same')
    BY <1>3, <2>2 DEF States
  <2> QED
    BY <2>1, <2>2
<1>5. FirstIsHeard'
  <2> SUFFICES ASSUME ~reborn', split.due = "held",
                      NEW j \in DOMAIN toDev', toDev'[j].op = "first"
      PROVE  HeardThen(toDev'[j].id)
    BY <1>2 DEF FirstIsHeard, Heard, HeardThen
  <2>1. ~reborn /\ op # "first"
    BY <1>2
  <2>2. j \in DOMAIN toDev /\ toDev'[j] = toDev[j]
    BY <1>1, <1>2, <2>1
  <2> QED
    BY <1>2, <2>1, <2>2 DEF IInv, ReadsFit, FirstIsHeard, Heard, HeardThen
<1> QED
  BY <1>2, <1>4, <1>5 DEF IInv, ReadsFit

LEMMA StartKeeps == ASSUME IInv, NEW op \in Ops, Start(op) PROVE IInv'
<1>1. Starts(op) /\ Joins
  BY StartStarts DEF Starts
<1>2. \A j \in DOMAIN toDev' :
        \/ j \in DOMAIN toDev /\ toDev'[j] = toDev[j]
        \/ /\ toDev'[j].op = host'.op /\ toDev'[j].seq = host'.seq
           /\ toDev'[j].id = host'.id /\ toDev'[j].age = 0
  BY <1>1, JoinedFrames
<1>3. /\ UNCHANGED <<up, quiet, split, read, dev, held, page, toHost>>
      /\ host'.id \in Ids /\ ~quiet /\ host'.pending
  BY <1>1 DEF Starts
<1>4. /\ host'.seq = 0 <=> ~up
      /\ host'.seq # 0 =>
           /\ Steady /\ host'.seq # host.seq
           /\ \A j \in DOMAIN toDev : toDev[j].seq # host'.seq
           /\ \A k \in DOMAIN toHost : toHost[k].seq # host'.seq
           /\ Young => dev.seq # host'.seq
  BY <1>1, StartIsNew
<1>5. /\ acts' \in [Ids -> 0..2]
      /\ \A i \in Ids : acts'[i] \in {0, acts[i]}
      /\ acts'[host'.id] = 0
  BY <1>1 DEF Starts, IInv, Types
<1>6. Types'
  BY <1>1, <1>5 DEF IInv, Types, Starts, Joins
<1>7. ModeFits'
  BY <1>1, <1>3, <1>4 DEF IInv, ModeFits, Starts, Steady
<1>8. KeptFits'
  <2>1. \A k \in dev.kept : k.id # host'.id
    BY <1>1 DEF Starts
  <2>2. KeptIsOne'
    BY <1>2, <1>3, <2>1 DEF IInv, KeptFits, KeptIsOne
  <2>3. RepeatsInTime'
    <3> SUFFICES ASSUME NEW k \in dev.kept, NEW j \in DOMAIN toDev', toDev'[j].id = k.id
        PROVE  /\ k.op = toDev'[j].op /\ dev.seq = toDev'[j].seq
               /\ dev.age + Delay - toDev'[j].age < Keep
               /\ \A i \in DOMAIN toDev' : i < j => toDev'[i].id = k.id
      BY <1>3, <2>1 DEF RepeatsInTime
    <3>1. j \in DOMAIN toDev /\ toDev'[j] = toDev[j]
      BY <1>2, <2>1
    <3>2. \A i \in DOMAIN toDev' : i < j => i \in DOMAIN toDev /\ toDev'[i] = toDev[i]
      BY <1>1, <3>1 DEF Joins
    <3> QED
      BY <3>1, <3>2 DEF IInv, KeptFits, RepeatsInTime
  <2>4. NumberNames'
    BY <1>2, <1>3, <1>4 DEF IInv, KeptFits, NumberNames, Heard, Young
  <2> QED
    BY <2>2, <2>3, <2>4 DEF KeptFits
<1>9. ActsFit'
  <2>1. AtMostOnce'
    BY <1>5 DEF IInv, ActsFit, AtMostOnce
  <2>2. ~(acts'[host'.id] > 0)
    BY <1>5
  <2>3. ASSUME NEW j \in DOMAIN toDev', acts'[toDev'[j].id] > 0
        PROVE  HeardThen(toDev'[j].id) /\ toDev'[j].op # "activate"
    <3>1. j \in DOMAIN toDev /\ toDev'[j] = toDev[j]
      <4>1. toDev'[j].id # host'.id
        BY <2>2, <2>3
      <4> QED
        BY <1>2, <4>1
    <3>2. toDev[j] \in Requests
      BY <3>1 DEF IInv, Types
    <3>3. acts[toDev[j].id] > 0
      BY <1>5, <2>3, <3>1, <3>2 DEF Requests
    <3> QED
      BY <1>3, <3>1, <3>3 DEF IInv, ActsFit, Heard, HeardThen
  <2> QED
    BY <2>1, <2>2, <2>3 DEF ActsFit, Heard, HeardThen
<1>10. ProbesAreOld'
  <2>1. host'.age = 0
    BY <1>1 DEF Starts
  <2>2. ASSUME NEW j \in DOMAIN toDev' PROVE toDev'[j].age >= 0
    <3>1. toDev'[j] \in Requests
      BY <1>6 DEF Types
    <3> QED
      BY <3>1, TimeAssumption DEF Requests
  <2>3. ASSUME NEW k \in DOMAIN toHost' PROVE toHost'[k].age + Delay >= 0
    <3>1. toHost'[k] \in Answers
      BY <1>6 DEF Types
    <3> QED
      BY <3>1, TimeAssumption DEF Answers
  <2> QED
    BY <2>1, <2>2, <2>3 DEF ProbesAreOld
<1>11. ToldIsHeard' /\ WritesTold'
  <2>1. Same' => ~Told' /\ \A k \in DOMAIN toHost' : toHost'[k].seq # host'.seq
    BY <1>1, <1>3, <1>4 DEF Same, Told, Starts
  <2> QED
    BY <1>1, <1>3, <2>1 DEF ToldIsHeard, WritesTold, TellsActs, Starts
<1> QED
  BY <1>1, <1>6, <1>7, <1>8, <1>9, <1>10, <1>11, StartsFrames, StartsNumbers, StartsReads
     DEF IInv

-----------------------------------------------------------------------------
(* The panel reads an answer.                                              *)

Come == toHost[1]
GotThen == Collected(Come)
Ends == Come.kind = "nack" \/ Complete(GotThen)
Found == host.op = "probe" /\ Come.kind = "data"

Reads ==
  /\ host.pending /\ 1 \in DOMAIN toHost /\ Come \in Answers /\ Belongs(Come) /\ Fits(Come)
  /\ toHost' \in Seq(Answers) /\ Lacks(toHost', toHost, 1)
  /\ GotThen \in SUBSET Got
  /\ host' \in Hosts /\ host'.pending = ~Ends /\ host'.got = GotThen
  /\ host'.end = IF Ends THEN Come.kind ELSE "none"
  /\ host'.op = host.op /\ host'.id = host.id /\ host'.seq = host.seq
  /\ host'.age = host.age /\ host'.ok = host.ok
  /\ split' = IF Ends THEN AfterAnswer(host.op, Come.kind, Seen(GotThen)) ELSE split
  /\ read' = IF Ends THEN Together(host.op, Come.kind, Seen(GotThen)) ELSE read
  /\ up' = (up \/ Found)
  /\ next' \in [seq : 1..SeqMax, numbered : BOOLEAN]
  /\ next'.seq = next.seq /\ next'.numbered = (next.numbered \/ Found)
  /\ UNCHANGED <<quiet, dev, held, page, acts, reborn, toDev>>

LEMMA AcceptReads == ASSUME IInv, Accept PROVE AnswerLess(1) \/ Reads
<1>1. /\ toHost' \in Seq(Answers) /\ Lacks(toHost', toHost, 1)
      /\ 1 \in DOMAIN toHost /\ Head(toHost) = Come /\ Come \in Answers
  BY TailIs DEF Accept, IInv, Types, Come
<1>2. host.pending /\ UNCHANGED <<dev, held, page, acts, reborn, toDev>>
  BY DEF Accept, iomcu
<1>3. CASE ~Belongs(Come) \/ ~Fits(Come)
  <2>1. UNCHANGED <<host, next, up, quiet, split, read>>
    BY <1>1, <1>3 DEF Accept, panel
  <2> QED
    BY <1>1, <1>2, <2>1 DEF AnswerLess
<1>4. CASE Belongs(Come) /\ Fits(Come)
  <2>1. /\ host' = [host EXCEPT !.got = GotThen, !.pending = ~Ends,
                                !.end = IF Ends THEN Come.kind ELSE "none"]
        /\ split' = IF Ends THEN AfterAnswer(host.op, Come.kind, Seen(GotThen)) ELSE split
        /\ read' = IF Ends THEN Together(host.op, Come.kind, Seen(GotThen)) ELSE read
        /\ up' = (up \/ Found)
        /\ next' = [next EXCEPT !.numbered = @ \/ Found]
        /\ UNCHANGED quiet
    BY <1>1, <1>4 DEF Accept, GotThen, Ends, Found
  <2>2. GotThen \in SUBSET Got
    BY <1>1 DEF GotThen, Collected, IInv, Types, Hosts, Answers, Got
  <2>3. Come.kind \in {"ack", "data", "nack"} /\ Ends \in BOOLEAN /\ Found \in BOOLEAN
    BY <1>1 DEF Answers, Ends, Found
  <2>4. host \in Hosts /\ next \in [seq : 1..SeqMax, numbered : BOOLEAN]
    BY DEF IInv, Types
  <2> DEFINE e == IF Ends THEN Come.kind ELSE "none"
  <2>5. e \in {"none", "ack", "data", "nack"}
    BY <2>3
  <2> HIDE DEF e
  <2>6. /\ host' \in Hosts /\ host'.pending = ~Ends /\ host'.got = GotThen
        /\ host'.end = e
        /\ host'.op = host.op /\ host'.id = host.id /\ host'.seq = host.seq
        /\ host'.age = host.age /\ host'.ok = host.ok
    <3>1. host' = [host EXCEPT !.got = GotThen, !.pending = ~Ends, !.end = e]
      BY <2>1 DEF e
    <3> DEFINE p == ~Ends
    <3>2. p \in BOOLEAN
      OBVIOUS
    <3> HIDE DEF p
    <3>3. host' = [host EXCEPT !.got = GotThen, !.pending = p, !.end = e]
      BY <3>1 DEF p
    <3>4. /\ host' \in Hosts /\ host'.pending = p /\ host'.got = GotThen
          /\ host'.end = e
          /\ host'.op = host.op /\ host'.id = host.id /\ host'.seq = host.seq
          /\ host'.age = host.age /\ host'.ok = host.ok
      BY <2>2, <2>4, <2>5, <3>2, <3>3 DEF Hosts
    <3> QED
      BY <3>4 DEF p
  <2>7. /\ next' \in [seq : 1..SeqMax, numbered : BOOLEAN]
        /\ next'.seq = next.seq /\ next'.numbered = (next.numbered \/ Found)
    <3> DEFINE b == next.numbered \/ Found
    <3>1. b \in BOOLEAN
      OBVIOUS
    <3>2. next' = [next EXCEPT !.numbered = b]
      BY <2>1
    <3> HIDE DEF b
    <3>3. /\ next' \in [seq : 1..SeqMax, numbered : BOOLEAN]
          /\ next'.seq = next.seq /\ next'.numbered = b
      BY <2>4, <3>1, <3>2
    <3> QED
      BY <3>3 DEF b
  <2> QED
    BY <1>1, <1>2, <1>4, <2>1, <2>2, <2>6, <2>7 DEF Reads, e
<1> QED
  BY <1>3, <1>4

\* All that is left behind it carries its number, and a probe's answer is whole.
LEMMA ReadsAlone ==
  ASSUME IInv, Reads
  PROVE  /\ Come.seq = host.seq /\ AllOf(host.seq) /\ Told
         /\ host.seq # 0 => \A j \in DOMAIN toDev : toDev[j].id = host.id
         /\ host.op = "probe" => Ends /\ host.got = {}
         /\ host.seq = 0 <=> host.op = "probe"
         /\ ~quiet
<1>1. Come.seq = host.seq /\ host.pending
  BY DEF Reads, Belongs
<1>2. AllOf(host.seq)
  <2>1. Left(host.seq) /\ \A k \in DOMAIN toHost : 1 < k => toHost[k].seq = host.seq
    BY <1>1 DEF IInv, Numbers, Behind, Reads, Come
  <2>2. \A k \in DOMAIN toHost : k = 1 \/ 1 < k
    BY DEF IInv, Types
  <2> QED
    BY <1>1, <2>1, <2>2 DEF AllOf, Come
<1>3. Told
  BY <1>1 DEF Reads, Told, Come
<1>4. host.seq # 0 => \A j \in DOMAIN toDev : toDev[j].id = host.id
  BY <1>3, ToldAlone DEF IInv
<1>5. host.op = "probe" => Ends
  <2> SUFFICES ASSUME host.op = "probe", Come.kind # "nack" PROVE Ends
    BY DEF Ends
  <2>1. Come.kind = "data" /\ Come.piece = 1
    BY DEF Reads, Answers, Fits, Writes, Window
  <2>2. \E g \in GotThen : g.piece = 1
    <3> DEFINE g == [piece |-> Come.piece, id |-> Come.id, ver |-> Come.ver]
    <3>1. g \in GotThen
      BY DEF GotThen, Collected
    <3>2. g.piece = 1
      BY <2>1
    <3> QED
      BY <3>1, <3>2
  <2>3. Window(host.op) = {1}
    BY DEF Window
  <2> QED
    BY <2>2, <2>3 DEF Ends, Complete
<1>6. /\ host.op = "probe" => host.got = {}
      /\ host.seq = 0 <=> host.op = "probe"
      /\ ~quiet
  BY <1>1 DEF IInv, ModeFits
<1> QED
  BY <1>1, <1>2, <1>3, <1>4, <1>5, <1>6

LEMMA ReadsMode == ASSUME IInv, Reads PROVE ModeFits'
<1>1. host.pending /\ ~quiet /\ (host.seq = 0 <=> host.op = "probe")
  BY ReadsAlone DEF Reads
<1>2. next'.numbered = up' /\ ~quiet'
  BY <1>1 DEF IInv, ModeFits, Reads
<1>3. host'.pending => ~Ends /\ host.op # "probe" /\ ~Found
  BY ReadsAlone DEF Reads, Found
<1>4. host'.got # {}
  BY DEF Reads, GotThen, Collected
<1>5. host.seq # 0 => next.numbered /\ ~Found
  BY <1>1 DEF IInv, ModeFits, Found
<1>6. split'.due = "held" => host.seq # 0
  <2>1. CASE Ends
    BY <1>1, <2>1 DEF Reads, AfterAnswer, NoSplit
  <2>2. CASE ~Ends
    BY <2>2 DEF Reads, IInv, ModeFits
  <2> QED
    BY <2>1, <2>2
<1>7. host.pending => (host.seq = 0 <=> ~up) /\ (host.op = "probe" <=> ~up)
  BY DEF IInv, ModeFits
<1>8. host'.pending => (host'.seq = 0 <=> ~up') /\ (host'.op = "probe" <=> ~up')
  BY <1>1, <1>3, <1>7 DEF Reads
<1>9. Steady' /\ host'.seq # 0 => next'.seq = Following(host'.seq)
  BY <1>1, <1>5 DEF Reads, Steady, IInv, ModeFits
<1> QED
  BY <1>1, <1>2, <1>3, <1>4, <1>6, <1>8, <1>9 DEF Reads, IInv, ModeFits

LEMMA ReadsNumbers == ASSUME IInv, Reads PROVE Numbers'
<1>1. /\ \A j \in DOMAIN toHost' : Was(1, j) \in DOMAIN toHost /\ toHost'[j] = toHost[Was(1, j)]
      /\ \A i, j \in DOMAIN toHost' : i < j <=> Was(1, i) < Was(1, j)
  BY LackedIs DEF Reads, IInv, Types
<1>2. PICK n : n = host.seq
  OBVIOUS
<1>3. UNCHANGED <<toDev, dev, quiet>> /\ host'.seq = n /\ host'.id = host.id
  BY <1>2 DEF Reads
<1>4. AllOf(n)
  BY <1>2, ReadsAlone
<1>5. AllOf(n)'
  BY <1>1, <1>3, <1>4 DEF AllOf, Left, Young
<1>6. Behind(n)'
  BY <1>5 DEF AllOf, Left, Behind
<1>7. ~Steady' => Behind(0)'
  <2>1. ~Steady' => Behind(0)
    BY DEF Steady, Reads, IInv, Numbers
  <2>2. Behind(0) => Behind(0)'
    BY <1>1, <1>3 DEF Behind, Left, Young
  <2> QED
    BY <2>1, <2>2
<1>8. host.seq # 0 => \A j \in DOMAIN toDev : toDev[j].id = host.id
  BY ReadsAlone
<1> QED
  BY <1>2, <1>3, <1>5, <1>6, <1>7, <1>8 DEF Numbers

LEMMA ReadsTells == ASSUME IInv, Reads PROVE ToldIsHeard' /\ WritesTold'
<1>1. \A j \in DOMAIN toHost' : \E k \in DOMAIN toHost : toHost'[j] = toHost[k]
  BY LackedIs DEF Reads, IInv, Types
<1>2. /\ UNCHANGED <<toDev, dev, acts, reborn>> /\ host'.seq = host.seq
      /\ host'.op = host.op /\ host'.id = host.id /\ host'.ok = host.ok
      /\ host.pending
  BY DEF Reads
<1>3. Come.seq = host.seq /\ Told
  BY ReadsAlone
<1>4. ToldIsHeard'
  BY <1>2, <1>3 DEF IInv, ToldIsHeard, Same, Heard
<1>5. host.op \in Writes /\ Same => TellsActs(Come.kind)
  BY <1>2, <1>3 DEF IInv, WritesTold, Reads, Come
<1>6. host'.end \in {"none", Come.kind}
  BY DEF Reads
<1>7. WritesTold'
  BY <1>1, <1>2, <1>5, <1>6 DEF IInv, WritesTold, Same, TellsActs
<1> QED
  BY <1>4, <1>7

\* What is told of a page is the state v that was told before.
LEMMA ReadsState ==
  ASSUME IInv, Reads, Same, host.op \notin Writes, NEW v, ReadsTold(v)
  PROVE  /\ Come.kind # "nack" => \A g \in GotThen : g.ver = v
         /\ ReadsTold(v)'
         /\ split.due = "held" => split.of \subseteq {v}
         /\ host.op = "first" => held = v
<1>1. \A j \in DOMAIN toHost' : \E k \in DOMAIN toHost : toHost'[j] = toHost[k]
  BY LackedIs DEF Reads, IInv, Types
<1>2. /\ UNCHANGED <<toDev, dev, held, reborn>> /\ host'.seq = host.seq
      /\ host'.op = host.op /\ host'.id = host.id /\ host.pending
      /\ host'.pending = ~Ends /\ host'.got = GotThen
      /\ host'.end = IF Ends THEN Come.kind ELSE "none"
  BY DEF Reads
<1>3. Come.seq = host.seq /\ Told
  BY ReadsAlone
<1>4. \A g \in host.got : g.ver = v
  BY <1>2 DEF ReadsTold, IInv, ModeFits
<1>5. Come.kind # "nack" => Come.kind = "data" /\ Come.ver = v
  <2>1. OfState(Come, v)
    BY <1>2, <1>3 DEF ReadsTold, Reads, Come
  <2>2. Come.kind \in {"nack", "data"}
    BY DEF Reads, Fits, Answers
  <2> QED
    BY <2>1, <2>2 DEF OfState
<1>6. Come.kind # "nack" => \A g \in GotThen : g.ver = v
  BY <1>4, <1>5 DEF GotThen, Collected
<1>7. host.op = "first" => held = v
  BY <1>3 DEF ReadsTold
<1>8. split.due = "held" => split.of \subseteq {v} /\ held \in {-1, v}
  BY DEF ReadsTold
<1>9. split'.due = "held" => split'.of \subseteq {v} /\ held \in {-1, v}
  <2>1. CASE Ends /\ host.op = "first" /\ Come.kind = "data"
    <3>1. split' = [due |-> "held", of |-> Seen(GotThen)]
      BY <2>1 DEF Reads, AfterAnswer
    <3>2. Seen(GotThen) \subseteq {v}
      BY <1>6, <2>1 DEF Seen
    <3> QED
      BY <1>7, <2>1, <3>1, <3>2
  <2>2. CASE Ends /\ ~(host.op = "first" /\ Come.kind = "data")
    BY <2>2 DEF Reads, AfterAnswer, NoSplit
  <2>3. CASE ~Ends
    BY <1>8, <2>3 DEF Reads
  <2> QED
    BY <2>1, <2>2, <2>3
<1>10. host'.end # "nack" => \A g \in host'.got : g.ver = v
  BY <1>2, <1>6 DEF Ends
<1>11. host.pending => \A k \in DOMAIN toHost' :
         toHost'[k].seq = host.seq => OfState(toHost'[k], v)
  BY <1>1 DEF ReadsTold
<1>12. ReadsTold(v)'
  BY <1>2, <1>7, <1>9, <1>10, <1>11 DEF ReadsTold, OfState, Same, Heard
<1> QED
  BY <1>6, <1>7, <1>8, <1>12

LEMMA ReadsReads == ASSUME IInv, Reads PROVE ReadsFit'
<1>1. /\ host.pending /\ UNCHANGED <<toDev, dev, held, reborn>> /\ host'.seq = host.seq
      /\ host'.op = host.op /\ host'.id = host.id /\ host'.pending = ~Ends
  BY DEF Reads
<1>2. /\ host.seq = 0 <=> host.op = "probe"
      /\ host.op = "probe" => host.got = {}
      /\ host.seq # 0 => \A j \in DOMAIN toDev : toDev[j].id = host.id
      /\ Told
  BY ReadsAlone
<1>3. PICK v \in States : ReadsTold(v)
  BY DEF IInv, ReadsFit
<1>4. split.due = "held" <=> host.op = "held"
  BY <1>1 DEF IInv, ReadsFit
<1>5. \E w \in States : ReadsTold(w)'
  <2>1. CASE Same /\ host.op \notin Writes
    BY <1>3, <2>1, ReadsState
  <2>2. CASE ~(Same /\ host.op \notin Writes)
    BY <1>1, <2>2 DEF ReadsTold, Same, States
  <2> QED
    BY <2>1, <2>2
<1>6. FirstIsHeard'
  <2> SUFFICES ASSUME ~reborn, split'.due = "held",
                      NEW j \in DOMAIN toDev, toDev[j].op = "first"
      PROVE  Heard(toDev[j].id)
    BY <1>1 DEF FirstIsHeard, Heard
  <2>1. CASE Ends
    <3>1. host.op = "first"
      BY <2>1 DEF Reads, AfterAnswer, NoSplit
    <3>2. Same /\ toDev[j].id = host.id
      BY <1>2, <3>1 DEF Same
    <3> QED
      BY <1>2, <3>2 DEF IInv, ToldIsHeard
  <2>2. CASE ~Ends
    BY <2>2 DEF Reads, IInv, ReadsFit, FirstIsHeard
  <2> QED
    BY <2>1, <2>2
<1>7. Come.kind = "data" => \A u, w \in Seen(GotThen) : u = w
  <2> SUFFICES ASSUME Come.kind = "data", ~reborn PROVE \A u, w \in Seen(GotThen) : u = w
    BY DEF Seen
  <2>1. host.op \notin Writes
    BY DEF Reads, Fits
  <2>2. CASE host.op = "probe"
    <3>1. GotThen = {[piece |-> Come.piece, id |-> Come.id, ver |-> Come.ver]}
      BY <1>2, <2>2 DEF GotThen, Collected
    <3> QED
      BY <3>1 DEF Seen
  <2>3. CASE host.op # "probe"
    <3>1. Same
      BY <1>2, <2>3 DEF Same
    <3>2. \A g \in GotThen : g.ver = v
      BY <1>3, <2>1, <3>1, ReadsState
    <3> QED
      BY <3>2 DEF Seen
  <2> QED
    BY <2>2, <2>3
<1>8. \A u, w \in split'.of : u = w
  BY <1>7 DEF Reads, AfterAnswer, NoSplit, IInv, ReadsFit
<1>9. \A u, w \in read' : u = w
  <2>1. CASE ~Ends
    BY <2>1 DEF Reads, IInv, ReadsFit
  <2>2. CASE Ends /\ Come.kind # "data"
    BY <2>2 DEF Reads, Together
  <2>3. CASE Ends /\ Come.kind = "data" /\ host.op # "held"
    BY <1>7, <2>3 DEF Reads, Together
  <2>4. CASE Ends /\ Come.kind = "data" /\ host.op = "held"
    <3>1. read' = split.of \cup Seen(GotThen)
      BY <2>4 DEF Reads, Together
    <3>2. CASE reborn
      BY <3>1, <3>2 DEF Seen, IInv, ReadsFit
    <3>3. CASE ~reborn
      <4>1. Same /\ host.op \notin Writes
        BY <1>2, <2>4, <3>3 DEF Same, Writes
      <4>2. /\ \A g \in GotThen : g.ver = v
            /\ split.of \subseteq {v}
        BY <1>3, <1>4, <2>4, <4>1, ReadsState
      <4> QED
        BY <3>1, <4>2 DEF Seen
    <3> QED
      BY <3>2, <3>3
  <2> QED
    BY <2>1, <2>2, <2>3, <2>4
<1>10. /\ split'.due = "held" /\ ~host'.pending => host'.op = "first"
       /\ host'.pending => (split'.due = "held" <=> host'.op = "held")
  BY <1>1, <1>4 DEF Reads, AfterAnswer, NoSplit
<1> QED
  BY <1>5, <1>6, <1>8, <1>9, <1>10 DEF ReadsFit

LEMMA AcceptKeeps == ASSUME IInv, Accept PROVE IInv'
<1>1. CASE AnswerLess(1)
  <2>1. 1 \in DOMAIN toHost
    BY TailIs DEF Accept, IInv, Types
  <2> QED
    BY <1>1, <2>1, AnswerLessKeeps
<1>2. CASE Reads
  <2>1. /\ UNCHANGED <<quiet, dev, held, page, acts, reborn, toDev>> /\ host.pending
        /\ host'.op = host.op /\ host'.id = host.id /\ host'.seq = host.seq
        /\ host'.age = host.age /\ host'.ok = host.ok
    BY <1>2 DEF Reads
  <2>2. \A j \in DOMAIN toHost' : \E k \in DOMAIN toHost : toHost'[j] = toHost[k]
    BY <1>2, LackedIs DEF Reads, IInv, Types
  <2>3. Types'
    <3>1. Len(toHost') <= MaxBack
      BY <1>2, WireAssumption DEF Reads, Lacks, IInv, Types
    <3>2. Seen(GotThen) \subseteq States
      BY <1>2 DEF Reads, Seen, Got
    <3>3. /\ split' \in [due : {"any", "held", "whole"}, of : SUBSET States]
          /\ read' \in SUBSET States
      BY <1>2, <3>2 DEF Reads, AfterAnswer, NoSplit, Together, IInv, Types
    <3>4. up' \in BOOLEAN
      BY <1>2 DEF Reads
    <3> QED
      BY <1>2, <3>1, <3>3, <3>4 DEF Reads, IInv, Types
  <2>4. ModeFits' /\ Numbers' /\ ToldIsHeard' /\ WritesTold' /\ ReadsFit'
    BY <1>2, ReadsMode, ReadsNumbers, ReadsTells, ReadsReads
  <2>5. FramesFit' /\ ActsFit'
    BY <2>1 DEF IInv, FramesFit, Alike, ActsFit, AtMostOnce, Heard
  <2>6. KeptFits'
    BY <2>1 DEF IInv, KeptFits, KeptIsOne, RepeatsInTime, NumberNames, Heard, Young
  <2>7. ProbesAreOld'
    BY <2>1, <2>2 DEF IInv, ProbesAreOld
  <2> QED
    BY <2>3, <2>4, <2>5, <2>6, <2>7 DEF IInv
<1> QED
  BY <1>1, <1>2, AcceptReads

-----------------------------------------------------------------------------
(* The exchange keeps it all.                                              *)

LEMMA StutterKeeps == ASSUME IInv, UNCHANGED vars PROVE IInv'
<1>1. UNCHANGED <<host, next, up, quiet, split, read, dev, held, page, toDev, toHost, acts, reborn>>
  BY DEF vars
<1>2. Types' /\ ModeFits' /\ FramesFit' /\ KeptFits' /\ ActsFit'
  BY <1>1 DEF IInv, Types, ModeFits, Steady, FramesFit, Alike, KeptFits, KeptIsOne,
              RepeatsInTime, NumberNames, Heard, Young, ActsFit, AtMostOnce
<1>3. Numbers' /\ ProbesAreOld' /\ ToldIsHeard' /\ WritesTold' /\ ReadsFit'
  BY <1>1 DEF IInv, Numbers, Steady, Behind, AllOf, Left, Young, ProbesAreOld, ToldIsHeard,
              Same, Told, Heard, WritesTold, TellsActs, ReadsFit, ReadsTold, OfState,
              FirstIsHeard
<1> QED
  BY <1>2, <1>3 DEF IInv

LEMMA NextKeeps == ASSUME IInv, [Next]_vars PROVE IInv'
<1>1. CASE \E op \in Ops : Start(op) \/ Abandon(op)
  BY <1>1, StartKeeps, AbandonKeeps
<1>2. CASE Repeat \/ Cancel \/ Accept \/ GiveUp
  BY <1>2, RepeatKeeps, CancelKeeps, AcceptKeeps, GiveUpKeeps
<1>3. CASE Down \/ PanelRestart \/ Restart
  BY <1>3, DownKeeps, PanelRestartKeeps, RestartKeeps
<1>4. CASE Dispatch \/ PageMoves
  BY <1>4, DispatchKeeps, PageMovesKeeps
<1>5. CASE DropRequest \/ DropAnswer \/ Tick
  BY <1>5, DropRequestKeeps, DropAnswerKeeps, TickKeeps
<1>6. CASE UNCHANGED vars
  BY <1>6, StutterKeeps
<1> QED
  BY <1>1, <1>2, <1>3, <1>4, <1>5, <1>6 DEF Next

LEMMA Invariance == Spec => []IInv
<1>1. Init => IInv
  BY InitFits
<1>2. IInv /\ [Next]_vars => IInv'
  BY NextKeeps
<1> QED
  BY <1>1, <1>2, PTL DEF Spec

-----------------------------------------------------------------------------
(* What it keeps.                                                          *)

\* The exchange's variables have their types.
THEOREM TypeCorrect == Spec => []TypeOK
<1>1. IInv => TypeOK
  BY DEF IInv, Types, TypeOK, Hosts, Devices, KeptAnswers
<1> QED
  BY <1>1, Invariance, PTL

\* No request is acted on twice by an IOmcu that has not restarted, and no
\* ACTIVATE by the image it started, however its frames are delayed, lost
\* and repeated (link_dev_dispatch(), repeat_of()).
THEOREM ActsOnce == Spec => []AtMostOnce
<1>1. IInv => AtMostOnce
  BY DEF IInv, ActsFit
<1> QED
  BY <1>1, Invariance, PTL

\* The end of a numbered write that the caller is told is what happened to
\* the page, while the IOmcu has not restarted (link_host_accept()).
THEOREM OutcomesTrue == Spec => []OutcomeIsTrue
<1>1. IInv => OutcomeIsTrue
  BY DEF IInv, WritesTold, Same, TellsActs, OutcomeIsTrue
<1> QED
  BY <1>1, Invariance, PTL

\* A reply put together from several frames, of one exchange or of the two of
\* a split read, is one state of its page (link_read_split()).
THEOREM ReadsWhole == Spec => []ReadIsOneState
<1>1. ASSUME \A v, w \in read : v = w PROVE Cardinality(read) <= 1
  <2>1. CASE read = {}
    BY <2>1, FS_EmptySet
  <2>2. CASE \E v \in read : TRUE
    <3>1. PICK v \in read : read = {v}
      BY <1>1, <2>2
    <3>2. Cardinality({v}) = 1
      BY FS_Singleton
    <3> QED
      BY <3>1, <3>2
  <2> QED
    BY <2>1, <2>2
<1>2. IInv => ReadIsOneState
  BY <1>1 DEF IInv, ReadsFit, ReadIsOneState
<1> QED
  BY <1>2, Invariance, PTL
==============================================================================
