--------------------------- MODULE PanelArmProofs ---------------------------
(***************************************************************************)
(* Proofs about the panel's control task for every set of roles, every     *)
(* length of the times and of the wire, and everything that may be found   *)
(* or go wrong: what it puts on the wire is wanted, a disarm stands until  *)
(* the far end is down, an outage of touch is owed, and the bank and the   *)
(* policy agree between passes.                                            *)
(***************************************************************************)
EXTENDS PanelArm, SequenceTheorems, TLAPS

-----------------------------------------------------------------------------
(* The policy's operators.                                                 *)

\* What every call of the policy but the step's ARM leaves of an arm that is
\* in force: it was in force before, for these roles or with a switch owed,
\* and no switch or outage that was owed is forgotten.
Follows(a, b) ==
  /\ b \in Policies
  /\ b.armed => /\ a.armed
                /\ b.roles = a.roles \/ b.switching
                /\ a.switching => b.switching
                /\ a.pending => b.pending

LEMMA FollowsItself == ASSUME NEW a \in Policies PROVE Follows(a, a)
BY DEF Follows

LEMMA FollowsOn ==
  ASSUME NEW a, NEW b, NEW c, Follows(a, b), Follows(b, c)
  PROVE  Follows(a, c)
BY DEF Follows

LEMMA IdleFollows ==
  ASSUME NEW a \in Policies
  PROVE  /\ Follows(a, Idle(a)) /\ Idle(a) \in Policies /\ ~Idle(a).arming
         /\ Idle(a).armed = a.armed /\ Idle(a).pending = a.pending
<1> DEFINE phase == IF a.bounded THEN a.phase ELSE "settling"
           role == IF a.armed THEN a.roles ELSE NoRole
           i == [a EXCEPT !.arming = FALSE, !.trusted = FALSE, !.phase = phase, !.roles = role]
<1>1. phase \in Phases /\ role \in Roles \cup {NoRole} /\ (a.armed => role = a.roles)
  BY DEF Policies, Phases
<1>2. Idle(a) = i
  BY DEF Idle
<1> HIDE DEF phase, role
<1>3. i \in Policies /\ ~i.arming
  BY <1>1 DEF Policies
<1>4. /\ i.armed = a.armed /\ i.pending = a.pending /\ i.switching = a.switching
      /\ i.roles = role
  BY DEF Policies
<1> HIDE DEF i
<1>5. Follows(a, i)
  BY <1>1, <1>3, <1>4 DEF Follows
<1> QED BY <1>2, <1>3, <1>4, <1>5

LEMMA OffFollows ==
  ASSUME NEW a \in Policies
  PROVE  Follows(a, Off(a)) /\ ~Off(a).armed /\ ~Off(a).arming
<1> DEFINE off == [a EXCEPT !.armed = FALSE, !.bounded = FALSE]
<1>1. off \in Policies /\ ~off.armed
  BY DEF Policies
<1>2. Off(a) = Idle(off)
  BY DEF Off
<1> HIDE DEF off
<1>3. Off(a) \in Policies /\ ~Off(a).armed /\ ~Off(a).arming
  BY <1>1, <1>2, IdleFollows
<1> QED BY <1>3 DEF Follows

LEMMA StopFollows ==
  ASSUME NEW a \in Policies
  PROVE  Follows(a, Stop(a)) /\ Follows(a, StopPressed(a)) /\ Follows(a, StopRelease(a))
<1> DEFINE i == Idle(a)
           s == [i EXCEPT !.stopped = TRUE, !.knows = {}]
<1>1. Follows(a, i) /\ i \in Policies
  BY IdleFollows DEF Follows
<1>2. Stop(a) = s /\ StopPressed(a) = [s EXCEPT !.held = TRUE]
      /\ StopRelease(a) = [i EXCEPT !.held = FALSE, !.stopped = FALSE]
  BY DEF Stop, StopPressed, StopRelease
<1> HIDE DEF i
<1>3. Follows(i, s) /\ s \in Policies
  BY <1>1 DEF Follows, Policies
<1>4. Follows(i, [i EXCEPT !.held = FALSE, !.stopped = FALSE])
  BY <1>1 DEF Follows, Policies
<1> HIDE DEF s
<1>5. Follows(s, [s EXCEPT !.held = TRUE])
  BY <1>3 DEF Follows, Policies
<1> QED BY <1>1, <1>2, <1>3, <1>4, <1>5, FollowsOn

LEMMA FarEndFollows ==
  ASSUME NEW a \in Policies
  PROVE  /\ Follows(a, StopFromFarEnd(a))
         /\ ~StopFromFarEnd(a).armed /\ ~StopFromFarEnd(a).arming
<1>1. Follows(a, Stop(a)) /\ Stop(a) \in Policies
  BY StopFollows DEF Follows
<1>2. Follows(Stop(a), Off(Stop(a))) /\ ~Off(Stop(a)).armed /\ ~Off(Stop(a)).arming
  BY <1>1, OffFollows
<1> QED BY <1>1, <1>2, FollowsOn DEF StopFromFarEnd

LEMMA TouchFollows ==
  ASSUME NEW a \in Policies, NEW d \in BOOLEAN
  PROVE  /\ Follows(a, TouchPoll(a, d))
         /\ a.pending /\ a.armed => TouchPoll(a, d).pending /\ TouchPoll(a, d).armed
         /\ TouchPoll(a, d).arming => a.arming
<1> DEFINE b == IF d /\ ~a.wasDead
                THEN [Idle(a) EXCEPT !.knows = {}, !.pending = @ \/ a.armed]
                ELSE a
<1>1. Follows(a, b)
  <2>1. Follows(a, Idle(a)) /\ Idle(a) \in Policies /\ Idle(a).armed = a.armed
    BY IdleFollows
  <2>2. Follows(Idle(a), [Idle(a) EXCEPT !.knows = {}, !.pending = @ \/ a.armed])
    <3> DEFINE i == Idle(a)
    <3>1. i \in Policies
      BY <2>1
    <3> HIDE DEF i
    <3>2. (i.pending \/ a.armed) \in BOOLEAN
      OBVIOUS
    <3>3. Follows(i, [i EXCEPT !.knows = {}, !.pending = i.pending \/ a.armed])
      BY <3>1, <3>2 DEF Follows, Policies
    <3> QED BY <3>3 DEF i
  <2> QED BY <2>1, <2>2, FollowsOn, FollowsItself
<1>2. b \in Policies
  BY <1>1 DEF Follows
<1> HIDE DEF b
<1>3. Follows(b, [b EXCEPT !.wasDead = d])
  BY <1>2 DEF Follows, Policies
<1>4. TouchPoll(a, d) = [b EXCEPT !.wasDead = d]
  BY DEF TouchPoll, b
<1>5. a.pending /\ a.armed => b.pending /\ b.armed
  <2>1. Idle(a).armed = a.armed /\ Idle(a).pending = a.pending /\ Idle(a) \in Policies
    BY IdleFollows
  <2> DEFINE i == Idle(a)
  <2> HIDE DEF i
  <2>2. [i EXCEPT !.knows = {}, !.pending = @ \/ a.armed].armed = i.armed
    BY <2>1 DEF i, Policies
  <2>3. a.armed => [i EXCEPT !.knows = {}, !.pending = @ \/ a.armed].pending
    BY <2>1 DEF i, Policies
  <2> QED BY <2>1, <2>2, <2>3 DEF b, i
<1>6. /\ [b EXCEPT !.wasDead = d].pending = b.pending
      /\ [b EXCEPT !.wasDead = d].armed = b.armed
      /\ [b EXCEPT !.wasDead = d].arming = b.arming
  BY <1>2 DEF Policies
<1>7. b.arming => a.arming
  <2>1. ~Idle(a).arming /\ Idle(a) \in Policies
    BY IdleFollows
  <2> DEFINE i == Idle(a)
  <2> HIDE DEF i
  <2>2. [i EXCEPT !.knows = {}, !.pending = @ \/ a.armed].arming = i.arming
    BY <2>1 DEF i, Policies
  <2> QED BY <2>1, <2>2 DEF b, i
<1> QED BY <1>1, <1>3, <1>4, <1>5, <1>6, <1>7, FollowsOn

LEMMA RefusalsFollow ==
  ASSUME NEW a \in Policies, NEW stamp \in BOOLEAN
  PROVE  /\ Follows(a, NoteRefused(a))
         /\ Follows(a, RefuseAsk(a, stamp))
         /\ Follows(a, Unstamped(a))
         /\ Follows(a, Through(a))
<1>1. (a.refused \/ a.mine) \in BOOLEAN /\ (a.refused \/ stamp) \in BOOLEAN
  OBVIOUS
<1>2. Follows(a, NoteRefused(a))
  BY <1>1, ZenonT(30) DEF Follows, Policies, NoteRefused
<1>3. Follows(a, RefuseAsk(a, stamp))
  BY <1>1, ZenonT(30) DEF Follows, Policies, RefuseAsk
<1>4. Follows(a, Unstamped(a))
  BY ZenonT(30) DEF Follows, Policies, Unstamped
<1>5. Follows(a, Through(a))
  BY ZenonT(30) DEF Follows, Policies, Phases, Through
<1> QED BY <1>2, <1>3, <1>4, <1>5

LEMMA RefusedFollows ==
  ASSUME NEW a \in Policies
  PROVE  /\ Follows(a, Refused(a)) /\ ~Refused(a).armed
         /\ Follows(a, TakenBack(a)) /\ ~TakenBack(a).armed
         /\ Follows(a, RequestDisarm(a)) /\ ~RequestDisarm(a).armed
<1>1. Follows(a, Off(a)) /\ ~Off(a).armed /\ Off(a) \in Policies
  BY OffFollows DEF Follows
<1>2. Follows(Off(a), NoteRefused(Off(a)))
  BY <1>1, RefusalsFollow
<1>3. Follows(a, NoteRefused(Off(a))) /\ ~NoteRefused(Off(a)).armed
  BY <1>1, <1>2, FollowsOn DEF Follows
<1> QED BY <1>1, <1>3 DEF Refused, TakenBack, RequestDisarm

LEMMA AskFollows ==
  ASSUME NEW a \in Policies, NEW role \in Roles \cup {NoRole}, NEW stamp \in BOOLEAN, NEW d
  PROVE  Follows(a, RequestArm(a, role, stamp, d))
<1> DEFINE sw == a.switching \/ (a.armed /\ role # a.roles)
           b == Asked(a, role, stamp)
<1>1. /\ sw \in BOOLEAN
      /\ a.switching => sw
      /\ a.armed => role = a.roles \/ sw
  OBVIOUS
<1>2. b = [a EXCEPT !.mine = stamp, !.switching = sw, !.roles = role,
                    !.stopped = FALSE, !.arming = TRUE,
                    !.phase = "settling", !.trusted = FALSE]
  BY DEF Asked
<1> HIDE DEF sw, b
<1>3. /\ b \in Policies
      /\ b.armed = a.armed /\ b.roles = role /\ b.switching = sw
      /\ b.pending = a.pending
  <2>1. b \in Policies
    <3>1. sw \in BOOLEAN /\ role \in Roles \cup {NoRole} /\ "settling" \in Phases
      BY <1>1 DEF Phases
    <3> DEFINE a1 == [a EXCEPT !.mine = stamp, !.switching = sw, !.roles = role]
    <3>2. a1 \in Policies
      BY <3>1 DEF Policies
    <3>3. b = [a1 EXCEPT !.stopped = FALSE, !.arming = TRUE,
                         !.phase = "settling", !.trusted = FALSE]
      BY <1>2
    <3> HIDE DEF a1
    <3> QED BY <3>1, <3>2, <3>3 DEF Policies
  <2>2. b.roles = role
    BY <1>2 DEF Policies
  <2>3. b.armed = a.armed /\ b.pending = a.pending /\ b.switching = sw
    BY <1>2 DEF Policies
  <2> QED BY <2>1, <2>2, <2>3
<1>4. Follows(a, b)
  BY <1>1, <1>3 DEF Follows
<1> QED BY <1>4, FollowsItself DEF RequestArm, b

LEMMA LinkFollows ==
  ASSUME NEW a \in Policies, NEW b \in BOOLEAN, NEW u \in BOOLEAN
  PROVE  /\ Follows(a, LinkLost(a, b)) /\ ~LinkLost(a, b).armed
         /\ ~LinkLost(a, b).arming
         /\ Follows(a, ExchangeUnanswered(a, u, b))
         /\ Follows(a, LinkFound(a, b))
         /\ Follows(a, LineReport(a, u))
<1>1. Follows(a, LineReport(a, u))
  BY DEF Follows, Policies, LineReport
<1>2. /\ Follows(a, a) /\ Follows(a, StopFromFarEnd(a))
      /\ ~StopFromFarEnd(a).armed /\ ~StopFromFarEnd(a).arming
  BY FollowsItself, FarEndFollows
<1> QED BY <1>1, <1>2 DEF LinkLost, LinkNeeded, ExchangeUnanswered, LinkFound, Policies

LEMMA HandshakeFollows ==
  ASSUME NEW a \in Policies, NEW q \in BOOLEAN, NEW b \in BOOLEAN,
         NEW d \in BOOLEAN, NEW k \in BOOLEAN
  PROVE  /\ Follows(a, ArmWriteFailed(a, q, b)) /\ ~ArmWriteFailed(a, q, b).armed
         /\ Follows(a, Prepared(a).pol)
         /\ ~Prepared(a).go => ~Prepared(a).pol.armed
         /\ Follows(a, Cleared(a, d, k).pol)
         /\ ~Cleared(a, d, k).go => ~Cleared(a, d, k).pol.armed
         /\ Cleared(a, d, k).go => Cleared(a, d, k).pol = a /\ ~a.stopped /\ ~d
<1>1. /\ Follows(a, Refused(a)) /\ ~Refused(a).armed
      /\ Follows(a, StopFromFarEnd(a)) /\ ~StopFromFarEnd(a).armed
      /\ Follows(a, LinkLost(a, b)) /\ ~LinkLost(a, b).armed
      /\ Follows(a, a)
  BY RefusedFollows, FarEndFollows, LinkFollows, FollowsItself
<1>2. ArmWriteFailed(a, q, b) \in {LinkLost(a, b), Refused(a)}
  BY DEF ArmWriteFailed
<1>3. \A c \in BOOLEAN : /\ Follows(a, HandshakeClosed(a, c))
                         /\ ~HandshakeClosed(a, c).armed
  BY <1>1 DEF HandshakeClosed
<1>4. /\ Follows(a, Prepared(a).pol)
      /\ ~Prepared(a).go => ~Prepared(a).pol.armed
  BY <1>1, <1>3 DEF Prepared
<1>5. /\ Follows(a, Cleared(a, d, k).pol)
      /\ ~Cleared(a, d, k).go => ~Cleared(a, d, k).pol.armed
      /\ Cleared(a, d, k).go => Cleared(a, d, k).pol = a /\ ~a.stopped /\ ~d
  BY <1>1, <1>3 DEF Cleared, Withdrawn
<1> QED BY <1>1, <1>2, <1>4, <1>5

\* The step forgets an outage or a switch only with the arm it is owed by.
LEMMA StepFollows ==
  ASSUME NEW a \in Policies, NEW d \in BOOLEAN
  PROVE  LET s == Step(a, d)
         IN  /\ s.pol \in Policies
             /\ s.act \in {"DISARM", "NONE", "ARM", "GIVE_UP"}
             /\ s.act # "ARM" => Follows(a, s.pol)
             /\ s.act = "ARM" => a.arming /\ ~(a.pending /\ a.armed)
             /\ s.act = "DISARM" => ~s.pol.armed
<1> DEFINE n == [a EXCEPT !.nobody = FALSE]
           p == TouchPoll(n, d)
           q == [p EXCEPT !.pending = FALSE]
           r == [q EXCEPT !.switching = FALSE]
           fit == ~r.stopped /\ ~d
<1>1. Follows(a, n) /\ n \in Policies
  BY DEF Follows, Policies
<1>2. /\ Follows(a, p) /\ p \in Policies
      /\ a.pending /\ a.armed => p.pending /\ p.armed
      /\ p.arming => a.arming
  <2>1. a.pending = n.pending /\ a.armed = n.armed /\ a.arming = n.arming
    BY DEF Policies
  <2> HIDE DEF n
  <2>2. /\ Follows(n, TouchPoll(n, d))
        /\ TouchPoll(n, d).arming => n.arming
        /\ n.pending /\ n.armed => TouchPoll(n, d).pending /\ TouchPoll(n, d).armed
    BY <1>1, TouchFollows
  <2> QED BY <1>1, <2>1, <2>2, FollowsOn DEF Follows
<1> HIDE DEF n, p
<1>3. CASE Outage(p)
  <2>1. q \in Policies
    BY <1>2 DEF Policies
  <2>2. Step(a, d) = [pol |-> Off(q), act |-> "DISARM"]
    BY <1>3 DEF Step, p, n
  <2>3. Follows(q, Off(q)) /\ ~Off(q).armed
    BY <2>1, OffFollows
  <2> QED BY <2>2, <2>3 DEF Follows
<1>4. CASE ~Outage(p)
  <2>1. /\ r \in Policies /\ q \in Policies
        /\ r.armed = p.armed /\ q.armed = p.armed /\ r.roles = p.roles
        /\ r.arming = p.arming
        /\ q.switching = p.switching
    BY <1>2 DEF Policies
  <2>2. ~(p.pending /\ p.armed) /\ ~(a.pending /\ a.armed)
    BY <1>2, <1>4 DEF Outage
  <2>3. CASE q.switching /\ q.armed
    <3> DEFINE e == [r EXCEPT !.armed = FALSE, !.phase = "settling"]
    <3>1. Step(a, d) = [pol |-> e, act |-> "DISARM"]
      BY <1>4, <2>3 DEF Step, p, n
    <3>2. e \in Policies /\ ~e.armed
      <4> HIDE DEF r
      <4> QED BY <2>1, ZenonT(30) DEF Policies, Phases
    <3> HIDE DEF e
    <3> QED BY <3>1, <3>2 DEF Follows
  <2>4. CASE ~(q.switching /\ q.armed)
    <3>1. Follows(a, r)
      BY <1>2, <2>1, <2>2, <2>4 DEF Follows
    <3>2. CASE ~fit /\ r.armed
      <4>1. Step(a, d) = [pol |-> Off(r), act |-> "DISARM"]
        BY <1>4, <2>4, <3>2 DEF Step, p, n
      <4>2. Follows(r, Off(r)) /\ ~Off(r).armed
        BY <2>1, OffFollows
      <4>3. Follows(a, Off(r))
        BY <3>1, <4>2, FollowsOn
      <4> HIDE DEF r
      <4> QED BY <4>1, <4>2, <4>3 DEF Follows
    <3>3. CASE ~(~fit /\ r.armed) /\ (~r.arming \/ r.phase = "settling")
      <4>1. Step(a, d) = [pol |-> r, act |-> "NONE"]
        BY <1>4, <2>4, <3>3 DEF Step, p, n
      <4> HIDE DEF r
      <4> QED BY <2>1, <3>1, <4>1
    <3>4. CASE ~(~fit /\ r.armed) /\ ~(~r.arming \/ r.phase = "settling")
      <4>1. CASE ~fit
        <5>1. Step(a, d) = [pol |-> Idle(r), act |-> "NONE"]
          BY <1>4, <2>4, <3>4, <4>1 DEF Step, p, n
        <5>2. Follows(a, Idle(r))
          BY <2>1, <3>1, IdleFollows, FollowsOn
        <5> HIDE DEF r
        <5> QED BY <5>1, <5>2 DEF Follows
      <4>2. CASE fit /\ LineSettled(r, a.nobody)
        <5> DEFINE e == [r EXCEPT !.arming = FALSE, !.armed = TRUE,
                               !.trusted = FALSE, !.bounded = ~a.nobody,
                               !.phase = IF a.nobody THEN "settling" ELSE @]
        <5>1. Step(a, d) = [pol |-> e, act |-> "ARM"]
          BY <1>4, <2>4, <3>4, <4>2 DEF Step, p, n
        <5>2. e \in Policies
          <6> DEFINE known == ~a.nobody
                     phase == IF a.nobody THEN "settling" ELSE r.phase
          <6>1. known \in BOOLEAN /\ phase \in Phases
            BY <2>1 DEF Policies, Phases
          <6> DEFINE e1 == [r EXCEPT !.arming = FALSE, !.armed = TRUE, !.trusted = FALSE]
          <6>2. e = [e1 EXCEPT !.bounded = known, !.phase = phase]
            OBVIOUS
          <6> HIDE DEF r, e, known, phase
          <6>3. e1 \in Policies
            BY <2>1, ZenonT(30) DEF Policies
          <6> HIDE DEF e1
          <6> QED BY <6>1, <6>2, <6>3 DEF Policies
        <5>3. a.arming /\ ~(a.pending /\ a.armed)
          BY <1>2, <2>1, <2>2, <3>4
        <5> HIDE DEF e
        <5> QED BY <5>1, <5>2, <5>3
      <4>3. CASE fit /\ ~LineSettled(r, a.nobody) /\ r.phase = "past"
        <5>1. Step(a, d) = [pol |-> NoteRefused(Idle(r)), act |-> "GIVE_UP"]
          BY <1>4, <2>4, <3>4, <4>3 DEF Step, p, n
        <5>2. Follows(a, Idle(r)) /\ Idle(r) \in Policies
          BY <2>1, <3>1, IdleFollows, FollowsOn DEF Follows
        <5>3. Follows(a, NoteRefused(Idle(r)))
          BY <5>2, RefusalsFollow, FollowsOn
        <5> HIDE DEF r
        <5> QED BY <5>1, <5>3 DEF Follows
      <4>4. CASE fit /\ ~LineSettled(r, a.nobody) /\ r.phase # "past"
        <5>1. Step(a, d) = [pol |-> r, act |-> "NONE"]
          BY <1>4, <2>4, <3>4, <4>4 DEF Step, p, n
        <5> HIDE DEF r
        <5> QED BY <2>1, <3>1, <5>1
      <4> QED BY <4>1, <4>2, <4>3, <4>4
    <3> QED BY <3>2, <3>3, <3>4
  <2> QED BY <2>3, <2>4
<1> QED BY <1>3, <1>4

LEMMA FoundFollows ==
  ASSUME pol \in Policies, NEW why, NEW d \in BOOLEAN
  PROVE  Follows(pol, Found(why, d))
<1> DEFINE a == IF why = "press" THEN StopPressed(pol)
                ELSE IF why = "loss" THEN Unstamped(Stop(pol))
                ELSE IF why = "stall" THEN Stop(pol)
                ELSE pol
<1>1. Follows(pol, Stop(pol)) /\ Stop(pol) \in Policies /\ Follows(pol, StopPressed(pol))
  BY StopFollows DEF Follows
<1>2. Follows(pol, Unstamped(Stop(pol)))
  BY <1>1, RefusalsFollow, FollowsOn
<1>3. Follows(pol, a) /\ a \in Policies
  BY <1>1, <1>2, FollowsItself DEF Follows
<1> HIDE DEF a
<1>4. Follows(a, TouchPoll(a, d))
  BY <1>3, TouchFollows
<1>5. Found(why, d) = TouchPoll(a, d)
  BY DEF Found, a
<1> QED BY <1>3, <1>4, <1>5, FollowsOn

-----------------------------------------------------------------------------
(* What a step of the system does to the policy.                           *)

\* The step that hands an arm out owes no outage to one in force.
HandsOut == at' = "handed" /\ ~(pol.pending /\ pol.armed) /\ UNCHANGED bank

PolicyMoves == pol' \in Policies /\ (Follows(pol, pol') \/ HandsOut)

LEMMA SteppedMoves ==
  ASSUME pol \in Policies, dead \in BOOLEAN, NEW a, Follows(pol, a),
         a.arming /\ pol.pending /\ pol.armed => a.pending /\ a.armed,
         Stepped(a)
  PROVE  PolicyMoves
<1>1. a \in Policies
  BY DEF Follows
<1> DEFINE s == Step(a, dead)
<1>2. /\ s.pol \in Policies
      /\ s.act \in {"DISARM", "NONE", "ARM", "GIVE_UP"}
      /\ s.act # "ARM" => Follows(a, s.pol)
      /\ s.act = "ARM" => a.arming /\ ~(a.pending /\ a.armed)
  BY <1>1, StepFollows
<1>3. pol' = s.pol /\ (s.act = "ARM" => at' = "handed" /\ bank' = bank)
  BY DEF Stepped, GoOn
<1> HIDE DEF s
<1>4. CASE s.act # "ARM"
  BY <1>2, <1>3, <1>4, FollowsOn DEF PolicyMoves
<1>5. CASE s.act = "ARM"
  BY <1>2, <1>3, <1>5 DEF PolicyMoves, HandsOut
<1> QED BY <1>4, <1>5

LEMMA ArmingStepMoves ==
  ASSUME TypeOK, ArmingStep
  PROVE  PolicyMoves
<1> USE DEF TypeOK
<1>1. BankArmed \in BOOLEAN
  BY DEF BankArmed
<1>2. CASE Stepped([pol EXCEPT !.nobody = ~up])
  <2> DEFINE a == [pol EXCEPT !.nobody = ~up]
  <2>1. Follows(pol, a) /\ a.pending = pol.pending /\ a.armed = pol.armed
    BY DEF Follows, Policies
  <2>2. Stepped(a)
    BY <1>2
  <2> HIDE DEF a
  <2> QED BY <2>1, <2>2, SteppedMoves
<1>3. CASE Stepped(LinkLost(pol, BankArmed))
  <2>1. Follows(pol, LinkLost(pol, BankArmed)) /\ ~LinkLost(pol, BankArmed).arming
    BY <1>1, LinkFollows
  <2> QED BY <1>3, <2>1, SteppedMoves
<1>4. CASE Stepped(LineReport(pol, reply = "yes"))
  <2> DEFINE yes == reply = "yes"
             a == LineReport(pol, yes)
  <2>1. yes \in BOOLEAN
    OBVIOUS
  <2>2. Stepped(a)
    BY <1>4
  <2> HIDE DEF yes
  <2>3. Follows(pol, a) /\ a.pending = pol.pending /\ a.armed = pol.armed
    BY <1>1, <2>1, LinkFollows DEF LineReport, Policies
  <2> HIDE DEF a
  <2> QED BY <2>2, <2>3, SteppedMoves
<1>5. CASE UNCHANGED <<pol, bank>>
  BY <1>5, FollowsItself DEF PolicyMoves
<1> QED BY <1>2, <1>3, <1>4, <1>5 DEF ArmingStep

LEMMA ControlMoves == ASSUME TypeOK, Control PROVE PolicyMoves
<1> USE DEF TypeOK
<1>0. Follows(pol, pol') => PolicyMoves
  BY DEF Follows, PolicyMoves
<1>1. BankArmed \in BOOLEAN /\ Waiting \in BOOLEAN
  BY DEF BankArmed, Waiting
<1>2. Follows(pol, pol)
  BY FollowsItself
<1>3. \A b, u \in BOOLEAN :
        /\ Follows(pol, LinkLost(pol, b))
        /\ Follows(pol, LinkFound(pol, b))
  BY LinkFollows
<1>4. /\ Follows(pol, Refused(pol)) /\ Follows(pol, TakenBack(pol))
      /\ Follows(pol, RequestDisarm(pol)) /\ Follows(pol, StopFromFarEnd(pol))
      /\ Follows(pol, Through(pol)) /\ Follows(pol, StopRelease(pol))
      /\ Follows(pol, Unstamped(pol))
      /\ \A stamp \in BOOLEAN : Follows(pol, RefuseAsk(pol, stamp))
  BY RefusedFollows, FarEndFollows, RefusalsFollow, StopFollows
<1>5. /\ Follows(pol, Unstamped(StopRelease(pol)))
      /\ Follows(pol, Unstamped(RequestDisarm(pol)))
  BY <1>4, RefusalsFollow, FollowsOn DEF Follows
<1>6. \A d \in BOOLEAN, k \in BOOLEAN :
        /\ Follows(pol, ArmWriteFailed(pol, quiet, BankArmed))
        /\ Follows(pol, Prepared(pol).pol)
        /\ Follows(pol, Cleared(pol, d, k).pol)
  BY <1>1, HandshakeFollows
<1>7. ASSUME NEW why \in Reasons, PassPump(why) PROVE PolicyMoves
  <2>1. PICK d \in {FALSE, dead} : pol' = Found(why, d)
    BY <1>7 DEF PassPump, Pump
  <2> QED BY <1>0, <2>1, FoundFollows
<1>8. ASSUME NEW why \in Reasons, EntryTaken(why) PROVE PolicyMoves
  <2>1. PICK d \in {FALSE, dead}, lost \in BOOLEAN :
          pol' = IF lost THEN RefuseAsk(Found(why, d), Waiting /\ why # "loss")
                 ELSE ApplyArm(Found(why, d), d)
    BY <1>8 DEF EntryTaken
  <2> DEFINE p == Found(why, d)
             stamp == Waiting /\ why # "loss"
  <2>2. Follows(pol, p) /\ p \in Policies
    BY FoundFollows DEF Follows
  <2>3. stamp \in BOOLEAN
    OBVIOUS
  <2>4. pol' = IF lost THEN RefuseAsk(p, stamp) ELSE ApplyArm(p, d)
    BY <2>1
  <2>5. cmd.role \in Roles \cup {NoRole}
    BY DEF Roles0
  <2> HIDE DEF p, stamp
  <2>6. Follows(p, RefuseAsk(p, stamp))
    BY <2>2, <2>3, RefusalsFollow
  <2>7. Follows(p, ApplyArm(p, d))
    BY <1>1, <2>2, <2>5, AskFollows DEF ApplyArm
  <2> QED BY <1>0, <2>2, <2>4, <2>6, <2>7, FollowsOn
<1>9. CASE Serve
  BY <1>0, <1>9, <1>2, <1>4 DEF Serve, ServeDisarm, DisarmServed
<1>10. CASE Reset
  BY <1>0, <1>10, <1>2, <1>5 DEF Reset
<1>11. CASE ArmingStep
  BY <1>11, ArmingStepMoves
<1>12. CASE Unheeded
  BY <1>0, <1>12, <1>2 DEF Unheeded, rest
<1>13. CASE Handed
  BY <1>0, <1>13, <1>2, <1>4 DEF Handed
<1>14. CASE HandshakePrepared
  BY <1>0, <1>14, <1>2, <1>6 DEF HandshakePrepared, WriteFailed
<1>15. CASE HandshakeCleared
  <2>1. CASE WriteFailed
    BY <1>0, <2>1, <1>6 DEF WriteFailed
  <2>2. CASE \E blocked \in BOOLEAN : pol' = Cleared(pol, asked, blocked).pol
    BY <1>0, <2>2, <1>6
  <2> QED BY <1>15, <2>1, <2>2 DEF HandshakeCleared
<1>16. CASE HandshakeArmed
  BY <1>0, <1>16, <1>4, <1>6 DEF HandshakeArmed, WriteFailed
<1>17. CASE Drain
  BY <1>0, <1>17, <1>2, <1>4 DEF Drain, ServeDisarm, DisarmServed, rest
<1>18. CASE EntryRefused
  BY <1>0, <1>18, <1>1, <1>4 DEF EntryRefused
<1>19. CASE Poll
  BY <1>0, <1>19, <1>1, <1>2, <1>3 DEF Poll, PollQuiet
<1>20. CASE BenchRead
  BY <1>0, <1>20, <1>1, <1>2, <1>3 DEF BenchRead, PollQuiet
<1>21. CASE PollWritten
  BY <1>0, <1>21, <1>1, <1>2, <1>3, <1>4 DEF PollWritten, PollQuiet
<1>22. CASE Probed
  BY <1>0, <1>22, <1>1, <1>2, <1>3 DEF Probed
<1>23. CASE Unread
  BY <1>0, <1>23, <1>2 DEF Unread
<1>24. CASE Drawn
  <2> DEFINE drawn == [pol EXCEPT !.knows = @ \cup {"screen"}]
  <2>1. Follows(pol, drawn) /\ drawn \in Policies
    BY DEF Follows, Policies, Copies
  <2>2. pol' = drawn \/ pol' = Unstamped(drawn)
    BY <1>24 DEF Drawn
  <2> HIDE DEF drawn
  <2>3. Follows(pol, Unstamped(drawn))
    BY <2>1, RefusalsFollow, FollowsOn
  <2> QED BY <1>0, <2>1, <2>2, <2>3
<1>25. CASE Watch
  BY <1>0, <1>25, <1>2, <1>5 DEF Watch
<1> QED BY <1>7, <1>8, <1>9, <1>10, <1>11, <1>12, <1>13, <1>14, <1>15, <1>16,
           <1>17, <1>18, <1>19, <1>20, <1>21, <1>22, <1>23, <1>24, <1>25 DEF Control

LEMMA AroundMoves == ASSUME TypeOK, Around PROVE pol' \in Policies /\ Follows(pol, pol')
<1> USE DEF TypeOK
<1>1. BankArmed \in BOOLEAN
  BY DEF BankArmed
<1>2. CASE UNCHANGED pol
  BY <1>2, FollowsItself
<1>3. CASE Backstop
  BY <1>3, StopFollows DEF Backstop, Follows
<1>4. CASE Unanswered
  BY <1>4, <1>1, LinkFollows DEF Unanswered, Follows
<1>5. ASSUME NEW why \in Reasons, WaitPump(why) PROVE pol' \in Policies /\ Follows(pol, pol')
  <2>1. PICK d \in {FALSE, dead} : pol' = Found(why, d)
    BY <1>5 DEF WaitPump, Pump
  <2> QED BY <2>1, FoundFollows DEF Follows
<1>6. CASE PostDisarm
  BY <1>6, RefusalsFollow DEF PostDisarm, Follows
<1>7. ASSUME NEW role \in Roles, PostArm(role) PROVE pol' \in Policies /\ Follows(pol, pol')
  <2> DEFINE kn == IF "screen" \in pol.knows THEN pol.knows \cup {"command"}
                                             ELSE pol.knows \ {"command"}
  <2>1. kn \in SUBSET Copies
    BY DEF Policies, Copies
  <2>2. pol' = [pol EXCEPT !.knows = kn]
    BY <1>7 DEF PostArm
  <2> HIDE DEF kn
  <2> QED BY <2>1, <2>2 DEF Follows, Policies
<1>8. CASE Tick
  <2>1. PICK p \in Later(pol.phase) :
          pol' = IF Timed THEN [pol EXCEPT !.phase = p] ELSE pol
    BY <1>8 DEF Tick
  <2>2. p \in Phases
    BY <2>1 DEF Later, Phases, Policies
  <2>3. [pol EXCEPT !.phase = p] \in Policies /\ Follows(pol, [pol EXCEPT !.phase = p])
    BY <2>2 DEF Follows, Policies
  <2> QED BY <2>1, <2>3, FollowsItself
<1> QED BY <1>2, <1>3, <1>4, <1>5, <1>6, <1>7, <1>8
        DEF Around, Evicted, FarTakes, WireDrops, FarTrusts, FarDoubts

-----------------------------------------------------------------------------
(* The exchanges.                                                          *)

Frame == [kind : Kinds, role : Roles0, cur : BOOLEAN]

\* The frame of an exchange that waits is the last one sent.
CurrentIsLast ==
  \A i \in DOMAIN wire : wire[i].cur => i = Len(wire) /\ reply = "waiting"

\* Frames keep their order, so an exchange that was answered left nothing
\* behind it on the wire.
AnsweredIsEmpty == reply \in Answers => wire = <<>>

\* The task waits for an answer only where it may.
IdleOutside == at \notin Waits => reply = "idle"

\* What a disarm sends is the frame that disarms, and once acknowledged the
\* far end is down and stays down while the task looks at the answer.
DisarmWaits == {"served", "drainServed"}
OffIsSent ==
  at \in DisarmWaits => \A i \in DOMAIN wire : wire[i].cur => wire[i].kind = "off"
AckedIsDown == at \in DisarmWaits /\ reply = "ack" => far.armed = NoRole

Exchanged == /\ CurrentIsLast /\ AnsweredIsEmpty /\ IdleOutside
             /\ OffIsSent /\ AckedIsDown

\* The types of what an exchange touches.
Typed == /\ at \in Places /\ reply \in {"idle", "waiting", "lost"} \cup Answers
         /\ wire \in Seq(Frame) /\ Len(wire) <= MaxWire

LEMMA ExchangeSound ==
  ASSUME Typed, quiet \in BOOLEAN, Exchanged, reply # "waiting",
         NEW kind \in Kinds, NEW role \in Roles0, NEW next \in Waits,
         next \in DisarmWaits => kind = "off",
         Exchange(kind, role, next)
  PROVE  /\ Typed' /\ Exchanged'
         /\ at' = next
         /\ wire' = wire \/ wire'[Len(wire')].kind = kind
<1> USE DEF Typed
<1> DEFINE fr == [kind |-> kind, role |-> role, cur |-> TRUE]
<1>1. at' = next /\ reply' \in {"lost", "waiting"}
  BY DEF Exchange
<1>2. \A i \in DOMAIN wire : ~wire[i].cur
  BY DEF Exchanged, CurrentIsLast
<1>3. CASE wire' = wire
  <2>1. Typed'
    BY <1>1, <1>3 DEF Places
  <2>2. CurrentIsLast' /\ OffIsSent'
    BY <1>2, <1>3 DEF CurrentIsLast, OffIsSent
  <2>3. AnsweredIsEmpty' /\ IdleOutside' /\ AckedIsDown'
    BY <1>1 DEF AnsweredIsEmpty, IdleOutside, AckedIsDown, Answers
  <2> QED BY <1>1, <1>3, <2>1, <2>2, <2>3 DEF Exchanged
<1>4. CASE wire' = Append(wire, fr) /\ Len(wire) # MaxWire /\ ~quiet
  <2>1. fr \in Frame
    BY DEF Frame
  <2>2. /\ wire' \in Seq(Frame) /\ Len(wire') = Len(wire) + 1
        /\ Len(wire') <= MaxWire
        /\ wire'[Len(wire')] = fr
        /\ \A i \in DOMAIN wire' : i # Len(wire') => i \in DOMAIN wire /\ wire'[i] = wire[i]
    <3> HIDE DEF fr
    <3> QED BY <1>4, <2>1, WireAssumption
  <2>3. reply' = "waiting"
    BY <1>4 DEF Exchange
  <2>4. Typed'
    BY <1>1, <2>2 DEF Places
  <2>5. CurrentIsLast'
    BY <1>2, <2>2, <2>3 DEF CurrentIsLast
  <2>6. OffIsSent'
    BY <1>1, <1>2, <2>2 DEF OffIsSent
  <2>7. AnsweredIsEmpty' /\ IdleOutside' /\ AckedIsDown'
    BY <1>1, <2>3 DEF AnsweredIsEmpty, IdleOutside, AckedIsDown, Answers
  <2> QED BY <1>1, <2>2, <2>4, <2>5, <2>6, <2>7 DEF Exchanged
<1> QED BY <1>3, <1>4 DEF Exchange

LEMMA GoOnSound ==
  ASSUME Typed, Exchanged, reply # "waiting", NEW next \in Places, GoOn(next)
  PROVE  Typed' /\ Exchanged' /\ at' = next /\ wire' = wire
<1>1. at' = next /\ reply' = "idle" /\ wire' = wire
  BY DEF GoOn
<1>2. \A i \in DOMAIN wire : ~wire[i].cur
  BY DEF Exchanged, CurrentIsLast, Typed
<1>3. CurrentIsLast' /\ OffIsSent'
  BY <1>1, <1>2 DEF CurrentIsLast, OffIsSent
<1>4. AnsweredIsEmpty' /\ IdleOutside' /\ AckedIsDown'
  BY <1>1 DEF AnsweredIsEmpty, IdleOutside, AckedIsDown, Answers
<1> QED BY <1>1, <1>3, <1>4 DEF Typed, Exchanged

\* What is put on the wire to arm is put there under no stop and no disarm.
SendsWanted ==
  \A kind \in {"arm", "keep"} :
    at' # at /\ wire' # wire /\ wire'[Len(wire')].kind = kind
      => ~pol'.stopped /\ ~asked'

\* What a step of the task leaves of its exchanges: one ends and it goes on,
\* or the next one starts.
ExchangesWell == Typed' /\ Exchanged' /\ SendsWanted

LEMMA QuietlyExchanges ==
  ASSUME Typed, quiet \in BOOLEAN, Exchanged, reply # "waiting",
         \/ \E next \in Places : GoOn(next)
         \/ \E kind \in Kinds \ {"arm", "keep"}, next \in Waits :
              /\ next \in DisarmWaits => kind = "off"
              /\ Exchange(kind, NoRole, next)
  PROVE  ExchangesWell
<1>1. CASE \E next \in Places : GoOn(next)
  BY <1>1, GoOnSound DEF ExchangesWell, SendsWanted
<1>2. CASE \E kind \in Kinds \ {"arm", "keep"}, next \in Waits :
              /\ next \in DisarmWaits => kind = "off"
              /\ Exchange(kind, NoRole, next)
  <2>1. PICK kind \in Kinds \ {"arm", "keep"}, next \in Waits :
              /\ next \in DisarmWaits => kind = "off"
              /\ Exchange(kind, NoRole, next)
    BY <1>2
  <2>2. NoRole \in Roles0
    BY DEF Roles0
  <2>3. /\ Typed' /\ Exchanged'
        /\ wire' = wire \/ wire'[Len(wire')].kind = kind
    BY <2>1, <2>2, ExchangeSound
  <2> QED BY <2>1, <2>3 DEF ExchangesWell, SendsWanted
<1> QED BY <1>1, <1>2

LEMMA ControlExchanges == ASSUME TypeOK, Exchanged, Control PROVE ExchangesWell
<1>1. Typed /\ quiet \in BOOLEAN /\ up \in BOOLEAN
  BY DEF TypeOK, Typed, Frame
<1> DEFINE Goes == \E next \in Places : GoOn(next)
           Asks == \E kind \in Kinds \ {"arm", "keep"}, next \in Waits :
                      /\ next \in DisarmWaits => kind = "off"
                      /\ Exchange(kind, NoRole, next)
<1>2. ASSUME reply # "waiting", Goes \/ Asks PROVE ExchangesWell
  BY <1>1, <1>2, QuietlyExchanges
<1>3. at \notin Waits => reply # "waiting"
  BY DEF Exchanged, IdleOutside
<1>4. /\ \A next \in Places : GoOn(next) => Goes
      /\ \A kind \in {"clear", "off", "page", "ask"}, next \in Waits :
           (next \in DisarmWaits => kind = "off") /\ Exchange(kind, NoRole, next) => Asks
  BY DEF Kinds
<1> HIDE DEF Goes, Asks
<1> USE DEF Places, Waits, DisarmWaits
<1>5. ToReset \in Places /\ ToDrain \in Places
  BY DEF ToReset, ToDrain
<1>6. ASSUME NEW sent \in Waits, NEW unsent \in Places, DisarmFar(sent, unsent)
      PROVE  Goes \/ Asks
  BY <1>4, <1>6 DEF DisarmFar
<1>7. ASSUME NEW why \in Reasons, PassPump(why) PROVE ExchangesWell
  BY <1>2, <1>3, <1>4, <1>7 DEF PassPump
<1>8. ASSUME NEW why \in Reasons, EntryTaken(why) PROVE ExchangesWell
  BY <1>2, <1>3, <1>4, <1>8 DEF EntryTaken
<1>9. ASSUME NEW a, Stepped(a) PROVE Goes \/ Asks
  BY <1>4, <1>5, <1>9 DEF Stepped
<1>10. CASE Serve
  BY <1>2, <1>3, <1>4, <1>5, <1>6, <1>10 DEF Serve, ServeDisarm, DisarmServed, Ended
<1>11. CASE Reset
  BY <1>2, <1>3, <1>4, <1>11 DEF Reset, Ended
<1>12. CASE ArmingStep
  BY <1>2, <1>3, <1>4, <1>9, <1>12 DEF ArmingStep, Ended
<1>13. CASE Unheeded
  BY <1>2, <1>3, <1>4, <1>5, <1>13 DEF Unheeded, Ended
<1>14. CASE Handed
  BY <1>2, <1>3, <1>4, <1>5, <1>14 DEF Handed
<1>15. CASE HandshakePrepared
  BY <1>2, <1>3, <1>4, <1>5, <1>15 DEF HandshakePrepared, WriteFailed, Ended
<1>16. CASE HandshakeCleared
  <2>1. reply # "waiting"
    BY <1>16 DEF HandshakeCleared, Ended
  <2>2. CASE WriteFailed
    BY <1>2, <1>4, <1>5, <2>1, <2>2 DEF WriteFailed
  <2>3. ASSUME NEW blocked \in BOOLEAN,
               pol' = Cleared(pol, asked, blocked).pol,
               IF Cleared(pol, asked, blocked).go THEN ControlArm("armed") ELSE GoOn(ToDrain),
               asked' = asked
        PROVE  ExchangesWell
    <3>1. CASE Cleared(pol, asked, blocked).go
      <4>1. ~pol'.stopped /\ ~asked'
        BY <2>3, <3>1, HandshakeFollows, ZenonT(30) DEF TypeOK
      <4>2. Exchange("arm", pol.roles, "armed")
        BY <2>3, <3>1 DEF ControlArm
      <4>3. pol.roles \in Roles0
        BY DEF TypeOK, Policies, Roles0
      <4>4. Typed' /\ Exchanged'
        BY <1>1, <2>1, <4>2, <4>3, ExchangeSound DEF Kinds
      <4> QED BY <4>1, <4>4 DEF ExchangesWell, SendsWanted
    <3>2. CASE ~Cleared(pol, asked, blocked).go
      BY <1>2, <1>4, <1>5, <2>1, <2>3, <3>2
    <3> QED BY <3>1, <3>2
  <2> QED BY <1>16, <2>2, <2>3 DEF HandshakeCleared, disarm
<1>17. CASE HandshakeArmed
  BY <1>2, <1>3, <1>4, <1>5, <1>17 DEF HandshakeArmed, WriteFailed, Ended
<1>18. CASE Drain
  BY <1>2, <1>3, <1>4, <1>6, <1>18 DEF Drain, ServeDisarm, DisarmServed, Ended
<1>19. CASE EntryRefused
  BY <1>2, <1>3, <1>4, <1>19 DEF EntryRefused
<1>21. CASE Poll
  BY <1>2, <1>3, <1>4, <1>21 DEF Poll, PollQuiet
<1>22. CASE BenchRead
  <2>1. reply # "waiting"
    BY <1>22 DEF BenchRead, Ended
  <2>2. CASE PollQuiet
    BY <1>2, <1>4, <2>1, <2>2 DEF PollQuiet
  <2>3. ASSUME NEW kind \in PollWrites,
               Exchange(kind, IF kind = "keep" THEN bank ELSE NoRole, "written"),
               UNCHANGED <<pol, asked>>
        PROVE  ExchangesWell
    <3>1. CASE kind = "keep"
      <4>1. ~pol'.stopped /\ ~asked'
        BY <2>3, <3>1 DEF PollWrites, Keeps
      <4>2. Exchange("keep", bank, "written") /\ bank \in Roles0
        BY <2>3, <3>1 DEF TypeOK
      <4>3. Typed' /\ Exchanged'
        BY <1>1, <2>1, <4>2, ExchangeSound DEF Kinds
      <4> QED BY <4>1, <4>3 DEF ExchangesWell, SendsWanted
    <3>2. CASE kind # "keep"
      <4>1. kind = "off" /\ Exchange("off", NoRole, "written")
        BY <2>3, <3>2 DEF PollWrites
      <4> QED BY <1>2, <1>4, <2>1, <4>1
    <3> QED BY <3>1, <3>2
  <2> QED BY <1>22, <2>2, <2>3 DEF BenchRead, disarm
<1>23. CASE PollWritten
  BY <1>2, <1>3, <1>4, <1>23 DEF PollWritten, PollQuiet, PollAnswered, Ended
<1>24. CASE Probed
  BY <1>2, <1>3, <1>4, <1>24 DEF Probed, PollAnswered, Ended
<1>25. CASE Unread \/ Drawn
  BY <1>2, <1>3, <1>4, <1>25 DEF Unread, Drawn, PublishedTo
<1>26. CASE Watch
  BY <1>2, <1>3, <1>4, <1>6, <1>26 DEF Watch
<1> QED BY <1>7, <1>8, <1>10, <1>11, <1>12, <1>13, <1>14, <1>15, <1>16, <1>17,
           <1>18, <1>19, <1>21, <1>22, <1>23, <1>24, <1>25, <1>26 DEF Control

\* Around the task the wire loses and delivers, the oldest frame first.
LEMMA AroundExchanges == ASSUME TypeOK, Exchanged, Around PROVE ExchangesWell
<1>1. Typed /\ far \in [trust : BOOLEAN, latched : BOOLEAN, armed : Roles0]
  BY DEF TypeOK, Typed, Frame
<1> USE DEF ExchangesWell, SendsWanted
<1>2. CASE Unanswered
  <2>1. /\ reply = "waiting" /\ reply' = "lost" /\ at' = at
        /\ wire' = [i \in DOMAIN wire |-> [wire[i] EXCEPT !.cur = FALSE]]
    BY <1>2 DEF Unanswered
  <2>2. /\ wire' \in Seq(Frame) /\ Len(wire') = Len(wire)
        /\ \A i \in DOMAIN wire' : ~wire'[i].cur
    <3>1. \A i \in 1 .. Len(wire) : /\ [wire[i] EXCEPT !.cur = FALSE] \in Frame
                                    /\ ~[wire[i] EXCEPT !.cur = FALSE].cur
      <4>1. \A i \in 1 .. Len(wire) : wire[i] \in Frame
        BY <1>1 DEF Typed
      <4> QED BY <4>1 DEF Frame
    <3>2. Len(wire) \in Nat /\ DOMAIN wire = 1 .. Len(wire)
      BY <1>1 DEF Typed
    <3>3. wire' \in [1 .. Len(wire) -> Frame] /\ \A i \in 1 .. Len(wire) : ~wire'[i].cur
      BY <2>1, <3>1, <3>2
    <3>4. wire' \in Seq(Frame) /\ Len(wire') = Len(wire) /\ DOMAIN wire' = 1 .. Len(wire)
      BY <3>2, <3>3, SeqDef
    <3> QED BY <3>3, <3>4
  <2>3. Typed'
    BY <1>1, <2>1, <2>2 DEF Typed
  <2>4. Exchanged'
    BY <1>1, <2>1, <2>2 DEF Exchanged, CurrentIsLast, AnsweredIsEmpty, IdleOutside,
       OffIsSent, AckedIsDown, Answers
  <2> QED BY <2>1, <2>3, <2>4
<1>3. CASE FarTakes
  <2>1. /\ wire # <<>> /\ wire' = Tail(wire) /\ at' = at
        /\ far' = After(far, Head(wire))
        /\ reply' \in IF Head(wire).cur THEN {AnswerTo(far, Head(wire)), reply} ELSE {reply}
    BY <1>3 DEF FarTakes
  <2>2. /\ wire \in Seq(Frame) /\ Len(wire) \in Nat /\ Len(wire) > 0
        /\ Head(wire) = wire[1] /\ 1 \in DOMAIN wire
    BY <1>1, <2>1 DEF Typed
  <2>3. /\ wire' \in Seq(Frame) /\ Len(wire') = Len(wire) - 1
        /\ DOMAIN wire' = 1 .. Len(wire')
        /\ \A i \in DOMAIN wire' : i + 1 \in DOMAIN wire /\ wire'[i] = wire[i + 1]
    BY <2>1, <2>2
  <2>4. AnswerTo(far, Head(wire)) \in Answers
    BY DEF AnswerTo, Answers
  <2>5. Typed'
    <3>1. Len(wire') <= MaxWire
      BY <1>1, <2>2, <2>3, WireAssumption DEF Typed
    <3> QED BY <1>1, <2>1, <2>3, <2>4, <3>1 DEF Typed
  <2>6. CASE Head(wire).cur
    <3>1. Len(wire) = 1 /\ reply = "waiting"
      BY <2>2, <2>6 DEF Exchanged, CurrentIsLast
    <3>2. wire' = <<>>
      BY <2>3, <3>1
    <3>3. CurrentIsLast' /\ OffIsSent' /\ AnsweredIsEmpty'
      BY <2>3, <3>1, <3>2 DEF CurrentIsLast, OffIsSent, AnsweredIsEmpty
    <3>4. IdleOutside'
      BY <2>1, <3>1 DEF Exchanged, IdleOutside
    <3>5. AckedIsDown'
      <4>1. at \in DisarmWaits => Head(wire).kind = "off"
        BY <2>2, <2>6 DEF Exchanged, OffIsSent
      <4>2. Head(wire).kind = "off" => After(far, Head(wire)).armed = NoRole
        BY <1>1 DEF After
      <4> QED BY <2>1, <4>1, <4>2 DEF AckedIsDown
    <3> QED BY <2>1, <2>5, <3>3, <3>4, <3>5 DEF Exchanged
  <2>7. CASE ~Head(wire).cur
    <3>1. reply' = reply /\ reply \notin Answers
      BY <2>1, <2>7 DEF Exchanged, AnsweredIsEmpty
    <3>2. CurrentIsLast'
      BY <2>2, <2>3, <3>1 DEF Exchanged, CurrentIsLast
    <3>3. OffIsSent'
      BY <2>1, <2>3 DEF Exchanged, OffIsSent
    <3>4. AnsweredIsEmpty' /\ IdleOutside' /\ AckedIsDown'
      BY <2>1, <3>1 DEF Exchanged, AnsweredIsEmpty, IdleOutside, AckedIsDown, Answers
    <3> QED BY <2>1, <2>5, <3>2, <3>3, <3>4 DEF Exchanged
  <2> QED BY <2>6, <2>7
<1>4. CASE WireDrops
  <2>1. wire # <<>> /\ wire' = Tail(wire) /\ at' = at /\ reply' = reply /\ far' = far
    BY <1>4 DEF WireDrops, line
  <2>2. wire \in Seq(Frame) /\ Len(wire) \in Nat /\ Len(wire) > 0
    BY <1>1, <2>1 DEF Typed
  <2>3. /\ wire' \in Seq(Frame) /\ Len(wire') = Len(wire) - 1
        /\ DOMAIN wire' = 1 .. Len(wire')
        /\ \A i \in DOMAIN wire' : i + 1 \in DOMAIN wire /\ wire'[i] = wire[i + 1]
    BY <2>1, <2>2
  <2>4. Typed'
    <3>1. Len(wire') <= MaxWire
      BY <1>1, <2>2, <2>3, WireAssumption DEF Typed
    <3> QED BY <1>1, <2>1, <2>3, <3>1 DEF Typed
  <2>5. CurrentIsLast'
    BY <2>1, <2>2, <2>3 DEF Exchanged, CurrentIsLast
  <2>6. OffIsSent'
    BY <2>1, <2>3 DEF Exchanged, OffIsSent
  <2>7. AnsweredIsEmpty' /\ IdleOutside' /\ AckedIsDown'
    BY <2>1 DEF Exchanged, AnsweredIsEmpty, IdleOutside, AckedIsDown
  <2> QED BY <2>1, <2>4, <2>5, <2>6, <2>7 DEF Exchanged
<1>5. ASSUME UNCHANGED task, far'.armed \in {far.armed, NoRole} PROVE ExchangesWell
  BY <1>1, <1>5 DEF task, Typed, Exchanged, CurrentIsLast, AnsweredIsEmpty,
     IdleOutside, OffIsSent, AckedIsDown
<1> HIDE DEF ExchangesWell
<1>6. CASE Backstop \/ PostDisarm \/ Evicted
  BY <1>5, <1>6 DEF Backstop, PostDisarm, Evicted, line
<1>7. ASSUME NEW why \in Reasons, WaitPump(why) PROVE ExchangesWell
  BY <1>5, <1>7 DEF WaitPump, Pump, Leaves
<1>8. ASSUME NEW role \in Roles, PostArm(role) PROVE ExchangesWell
  BY <1>5, <1>8 DEF PostArm, line
<1>9. CASE FarTrusts
  BY <1>1, <1>5, <1>9 DEF FarTrusts
<1>10. CASE FarDoubts
  BY <1>1, <1>5, <1>10 DEF FarDoubts, Down
<1>11. CASE Tick
  <2> DEFINE heard == [far EXCEPT !.trust = @ /\ gap' # Gap]
  <2>1. far' = heard \/ far' = Down(heard)
    BY <1>11 DEF Tick
  <2>2. heard.armed = far.armed /\ Down(heard).armed = NoRole
    BY <1>1 DEF Down
  <2> HIDE DEF heard
  <2>3. UNCHANGED task
    BY <1>11 DEF Tick
  <2> QED BY <1>5, <2>1, <2>2, <2>3
<1> QED BY <1>2, <1>3, <1>4, <1>6, <1>7, <1>8, <1>9, <1>10, <1>11 DEF Around

-----------------------------------------------------------------------------
(* The disarm that is asked for.                                           *)

\* Its time runs only while it stands.
InhibitIsAsked == inhibit > 0 => asked

\* No tick in it passes with an edge, so the line has been down as long.
GapGrows == inhibit > 0 => gap = Gap \/ gap >= inhibit - 1

\* And once it was down for the monitor's gap, the far end trusts it no more
\* and the pump makes no edge it could trust.
HeldDown == inhibit > Gap => ~far.trust /\ ~beating

\* An armed far end trusts the line.
ArmedIsTrusted == far.armed # NoRole => far.trust

Request == InhibitIsAsked /\ GapGrows /\ HeldDown /\ ArmedIsTrusted

\* The request is taken back only with the far end down.
TakesBackDown == asked /\ ~asked' => far.armed = NoRole /\ far'.armed = NoRole

\* The types of all that no exchange and no policy holds.
Settled ==
  /\ dead \in BOOLEAN /\ bank \in Roles0 /\ asked \in BOOLEAN
  /\ inhibit \in 0..(Inhibit + 1) /\ resumed \in BOOLEAN
  /\ cmd \in [role : Roles0, current : BOOLEAN, overtaken : BOOLEAN]
  /\ screen \in [waits : Roles0, sees : Roles0]
  /\ up \in BOOLEAN /\ quiet \in BOOLEAN
  /\ far \in [trust : BOOLEAN, latched : BOOLEAN, armed : Roles0]
  /\ beating \in BOOLEAN /\ gap \in 0..Gap /\ silent \in 0..Silence

LEMMA TypeSplits ==
  TypeOK <=> pol \in Policies /\ Typed /\ Settled
BY DEF TypeOK, Typed, Settled, Frame

LEMMA NumbersAre ==
  /\ Gap \in Nat /\ Gap > 0 /\ Silence \in Nat
  /\ Inhibit \in Nat /\ Inhibit > Gap
  /\ 0 \in 0..(Inhibit + 1) /\ 1 \in 0..(Inhibit + 1)
BY TimeAssumption DEF Inhibit

\* A step that leaves the request's time alone and does not take it back.
Leaving ==
  /\ UNCHANGED <<inhibit, gap, far>>
  /\ asked => asked'
  /\ beating' = beating \/ (beating' => ~asked')

LEMMA LeavingIsSound ==
  ASSUME TypeOK, Request, Leaving
  PROVE  Request' /\ TakesBackDown
<1>1. inhibit \in Nat /\ Gap \in Nat /\ gap \in Nat
  BY NumbersAre DEF TypeOK
<1>2. InhibitIsAsked' /\ GapGrows' /\ ArmedIsTrusted'
  BY DEF Request, Leaving, InhibitIsAsked, GapGrows, ArmedIsTrusted
<1>3. HeldDown'
  BY <1>1, NumbersAre DEF Request, Leaving, HeldDown, InhibitIsAsked
<1> QED BY <1>2, <1>3 DEF Request, Leaving, TakesBackDown

\* An expired request's far end is down.
LEMMA ExpiredIsDown ==
  ASSUME TypeOK, Request, Expired
  PROVE  far.armed = NoRole
<1>1. inhibit > Gap
  BY NumbersAre DEF TypeOK, Expired
<1> QED BY <1>1 DEF Request, HeldDown, ArmedIsTrusted

LEMMA ServedIsSound ==
  ASSUME TypeOK, Request, Exchanged,
         NEW sent \in DisarmWaits, NEW unsent,
         \/ ServeDisarm(sent, unsent)
         \/ DisarmServed(sent, unsent)
  PROVE  Request' /\ TakesBackDown /\ Settled'
<1> USE DEF TypeOK
<1>1. UNCHANGED <<far, gap, beating, silent, dead, cmd, screen, up, quiet, resumed>>
  BY DEF ServeDisarm, DisarmServed, ui, link, line
<1>2. bank' \in Roles0
  BY DEF ServeDisarm, DisarmServed, DisarmFar, Roles0
<1>3. \/ inhibit' = 0 /\ asked' = FALSE /\ far.armed = NoRole
      \/ inhibit' = inhibit /\ asked' = asked
      \/ inhibit = 0 /\ inhibit' = 1 /\ asked' = asked /\ asked
  <2>1. CASE ServeDisarm(sent, unsent)
    BY <2>1, ExpiredIsDown DEF ServeDisarm
  <2>2. CASE DisarmServed(sent, unsent)
    <3>1. Told => far.armed = NoRole
      BY <2>2, ExpiredIsDown DEF DisarmServed, Told, Ended, Exchanged, AckedIsDown
    <3> QED BY <2>2, <3>1 DEF DisarmServed, disarm
  <2> QED BY <2>1, <2>2
<1>4. Settled'
  BY <1>1, <1>2, <1>3, NumbersAre, ZenonT(30) DEF Settled
<1>5. CASE inhibit' = inhibit /\ asked' = asked
  BY <1>1, <1>4, <1>5, LeavingIsSound DEF Leaving
<1>6. CASE inhibit' = 0 /\ asked' = FALSE /\ far.armed = NoRole
  BY <1>1, <1>4, <1>6, NumbersAre DEF Request, TakesBackDown, InhibitIsAsked, GapGrows,
     HeldDown, ArmedIsTrusted
<1>7. CASE inhibit = 0 /\ inhibit' = 1 /\ asked' = asked /\ asked
  <2>1. ~(1 > Gap) /\ gap >= 0
    BY NumbersAre
  <2> QED BY <1>1, <1>4, <1>7, <2>1 DEF Request, TakesBackDown, InhibitIsAsked, GapGrows,
     HeldDown, ArmedIsTrusted
<1> QED BY <1>3, <1>5, <1>6, <1>7

\* A pump beats only with no disarm asked for.
LEMMA PumpIsSound ==
  ASSUME TypeOK, Request, NEW why, NEW d \in {FALSE, dead}, Leaves(why, d)
  PROVE  /\ Leaving
         /\ dead' \in BOOLEAN /\ asked' \in BOOLEAN /\ beating' \in BOOLEAN
         /\ screen' \in [waits : Roles0, sees : Roles0]
         /\ UNCHANGED <<bank, inhibit, resumed, up, quiet, gap, far, silent>>
<1> USE DEF TypeOK, Leaves
<1>1. /\ dead' \in BOOLEAN /\ asked' \in BOOLEAN
      /\ UNCHANGED <<bank, inhibit, resumed, up, quiet, gap, far, silent>>
  BY DEF link
<1>2. beating' \in BOOLEAN /\ (beating' => ~asked')
  OBVIOUS
<1>3. screen' \in [waits : Roles0, sees : Roles0]
  BY DEF Forgets, Roles0
<1> QED BY <1>1, <1>2, <1>3 DEF Leaving

LEMMA ControlRequests ==
  ASSUME TypeOK, Request, Exchanged, Control
  PROVE  Settled' /\ Request' /\ TakesBackDown
<1> USE DEF TypeOK
<1>1. NoRole \in Roles0 /\ pol.roles \in Roles0 /\ bank \in Roles0
  BY DEF Roles0, Policies
<1>2. /\ NoCmd \in [role : Roles0, current : BOOLEAN, overtaken : BOOLEAN]
      /\ Overtaken(cmd) \in [role : Roles0, current : BOOLEAN, overtaken : BOOLEAN]
      /\ [cmd EXCEPT !.current = FALSE] \in [role : Roles0, current : BOOLEAN, overtaken : BOOLEAN]
      /\ Forgets(screen) \in [waits : Roles0, sees : Roles0]
  BY <1>1 DEF NoCmd, Overtaken, Forgets
<1>3. ASSUME Settled', UNCHANGED <<disarm, line>> PROVE Settled' /\ Request' /\ TakesBackDown
  BY <1>3, LeavingIsSound DEF Leaving, disarm, line
<1>4. ASSUME bank' \in Roles0, up' \in BOOLEAN, quiet' \in BOOLEAN, UNCHANGED <<disarm, resumed, ui, line>>
      PROVE  Settled' /\ Request' /\ TakesBackDown
  BY <1>3, <1>4 DEF Settled, disarm, ui, line
<1>5. ASSUME bank' \in Roles0, UNCHANGED <<disarm, resumed, ui, link, line>>
      PROVE  Settled' /\ Request' /\ TakesBackDown
  BY <1>4, <1>5 DEF link
<1>6. ASSUME NEW why \in Reasons, PassPump(why) PROVE Settled' /\ Request' /\ TakesBackDown
  <2>1. PICK d \in {FALSE, dead} : Leaves(why, d)
    BY <1>6 DEF PassPump, Pump
  <2>2. cmd' \in [role : Roles0, current : BOOLEAN, overtaken : BOOLEAN]
    BY <1>2, <1>6 DEF PassPump, Pump
  <2>3. Leaving
    BY <2>1, PumpIsSound
  <2>4. Request' /\ TakesBackDown
    BY <2>3, LeavingIsSound
  <2>5. /\ dead' \in BOOLEAN /\ asked' \in BOOLEAN /\ beating' \in BOOLEAN
        /\ screen' \in [waits : Roles0, sees : Roles0]
        /\ UNCHANGED <<bank, inhibit, resumed, up, quiet, gap, far, silent>>
    BY <2>1, PumpIsSound, ZenonT(30)
  <2>6. Settled'
    BY <2>2, <2>5 DEF Settled
  <2> QED BY <2>4, <2>6
<1>7. ASSUME NEW why \in Reasons, EntryTaken(why) PROVE Settled' /\ Request' /\ TakesBackDown
  <2>1. PICK d \in {FALSE, dead} : Leaves(why, d)
    BY <1>7 DEF EntryTaken
  <2>2. cmd' \in [role : Roles0, current : BOOLEAN, overtaken : BOOLEAN]
    BY <1>2, <1>7 DEF EntryTaken
  <2>3. Leaving
    BY <2>1, PumpIsSound
  <2>4. Request' /\ TakesBackDown
    BY <2>3, LeavingIsSound
  <2>5. /\ dead' \in BOOLEAN /\ asked' \in BOOLEAN /\ beating' \in BOOLEAN
        /\ screen' \in [waits : Roles0, sees : Roles0]
        /\ UNCHANGED <<bank, inhibit, resumed, up, quiet, gap, far, silent>>
    BY <2>1, PumpIsSound, ZenonT(30)
  <2>6. Settled'
    BY <2>2, <2>5 DEF Settled
  <2> QED BY <2>4, <2>6
<1>8. CASE Serve
  <2>1. CASE ServeDisarm("served", ToReset) \/ DisarmServed("served", ToReset)
    BY <2>1, ServedIsSound DEF DisarmWaits
  <2>2. CASE UNCHANGED <<pol, bank, disarm, resumed, ui, link, line>>
    BY <1>1, <1>5, <2>2
  <2> QED BY <1>8, <2>1, <2>2 DEF Serve
<1>9. CASE Drain
  <2>1. CASE ServeDisarm("drainServed", "entry") \/ DisarmServed("drainServed", "entry")
    BY <2>1, ServedIsSound DEF DisarmWaits
  <2>2. CASE UNCHANGED rest
    BY <1>1, <1>5, <2>2 DEF rest, disarm, ui, link, line
  <2> QED BY <1>9, <2>1, <2>2 DEF Drain
<1>10. CASE Reset
  <2>1. /\ UNCHANGED <<bank, disarm, link, line>> /\ resumed' \in BOOLEAN
        /\ cmd' \in {cmd, [cmd EXCEPT !.current = FALSE]}
        /\ screen' \in {screen, Forgets(screen)}
    BY <1>10 DEF Reset, ui
  <2>2. Settled'
    BY <1>2, <2>1 DEF Settled, disarm, link, line
  <2> QED BY <1>3, <2>1, <2>2
<1>11. CASE ArmingStep
  <2>1. bank' \in {NoRole, bank}
    BY <1>11 DEF ArmingStep, Stepped
  <2> QED BY <1>1, <1>5, <1>11, <2>1 DEF ArmingStep
<1>12. CASE Unheeded
  BY <1>1, <1>5, <1>12 DEF Unheeded, rest, disarm, ui, link, line
<1>13. CASE Handed
  BY <1>1, <1>5, <1>13 DEF Handed
<1>14. CASE HandshakePrepared
  BY <1>1, <1>5, <1>14 DEF HandshakePrepared, WriteFailed, ArmHere, StopHere
<1>15. CASE HandshakeCleared
  BY <1>1, <1>5, <1>15 DEF HandshakeCleared, WriteFailed, StopHere
<1>16. CASE HandshakeArmed
  BY <1>1, <1>5, <1>16 DEF HandshakeArmed, WriteFailed, ArmHere, StopHere
<1>17. CASE EntryRefused
  <2>1. Settled'
    BY <1>2, <1>17 DEF EntryRefused, Settled, disarm, link, line
  <2> QED BY <1>3, <1>17, <2>1 DEF EntryRefused
<1>18. CASE Poll
  BY <1>1, <1>4, <1>18 DEF Poll, PollQuiet, link
<1>19. CASE BenchRead
  BY <1>1, <1>4, <1>19 DEF BenchRead, PollQuiet, link
<1>20. CASE PollWritten
  BY <1>1, <1>4, <1>20 DEF PollWritten, PollQuiet, link
<1>21. CASE Probed
  BY <1>1, <1>4, <1>21 DEF Probed
<1>22. CASE Unread
  <2>1. Settled'
    BY <1>22 DEF Unread, PublishedTo, Settled, disarm, link, line
  <2> QED BY <1>3, <1>22, <2>1 DEF Unread, PublishedTo
<1>23. CASE Drawn
  <2>1. screen' \in [waits : Roles0, sees : Roles0]
    BY <1>1, <1>23 DEF Drawn
  <2>2. Settled'
    BY <1>23, <2>1 DEF Drawn, PublishedTo, Settled, disarm, link, line
  <2> QED BY <1>3, <1>23, <2>2 DEF Drawn, PublishedTo
<1>24. CASE Watch
  <2>1. bank' \in {bank, NoRole} /\ screen' \in {screen, Forgets(screen)}
    BY <1>24 DEF Watch, DisarmFar
  <2>2. Settled'
    BY <1>1, <1>2, <1>24, <2>1 DEF Watch, Settled, disarm, link, line
  <2> QED BY <1>3, <1>24, <2>2 DEF Watch
<1> QED BY <1>6, <1>7, <1>8, <1>9, <1>10, <1>11, <1>12, <1>13, <1>14, <1>15, <1>16,
           <1>17, <1>18, <1>19, <1>20, <1>21, <1>22, <1>23, <1>24 DEF Control

LEMMA PastTheGap ==
  ASSUME NEW g \in 0..Gap, NEW i \in Nat, g = Gap \/ g >= i - 1, i > Gap
  PROVE  g = Gap
<1>1. Gap \in Nat
  BY NumbersAre
<1>2. g \in Int /\ g <= Gap
  BY <1>1
<1>3. i >= Gap + 1
  BY <1>1
<1> QED BY <1>1, <1>2, <1>3

\* A tick without an edge ages both counts.
LEMMA BothGrow ==
  ASSUME NEW g \in 0..Gap, NEW i \in Nat, g = Gap \/ g >= i - 1
  PROVE  LET h == Upto(g, Gap)
             j == Upto(i, Inhibit + 1)
         IN  j \in Nat /\ h \in 0..Gap /\ (h = Gap \/ h >= j - 1)
<1>1. Gap \in Nat /\ Inhibit \in Nat
  BY NumbersAre
<1>2. CASE g = Gap
  BY <1>1, <1>2 DEF Upto
<1>3. CASE g < Gap /\ g >= i - 1
  <2>1. Upto(g, Gap) = g + 1
    BY <1>3 DEF Upto
  <2>2. CASE i < Inhibit + 1
    BY <1>1, <1>3, <2>1, <2>2 DEF Upto
  <2>3. CASE ~(i < Inhibit + 1)
    BY <1>1, <1>3, <2>1, <2>3 DEF Upto
  <2> QED BY <2>2, <2>3
<1> QED BY <1>1, <1>2, <1>3

LEMMA AroundRequests ==
  ASSUME TypeOK, Request, Exchanged, Around
  PROVE  Settled' /\ Request' /\ TakesBackDown
<1> USE DEF TypeOK
<1>1. NoRole \in Roles0
  BY DEF Roles0
<1>2. /\ NoCmd \in [role : Roles0, current : BOOLEAN, overtaken : BOOLEAN]
      /\ Forgets(screen) \in [waits : Roles0, sees : Roles0]
  BY <1>1 DEF NoCmd, Forgets
<1>3. /\ Overtaken(cmd) \in [role : Roles0, current : BOOLEAN, overtaken : BOOLEAN]
      /\ Overtaken([cmd EXCEPT !.current = FALSE]) \in
           [role : Roles0, current : BOOLEAN, overtaken : BOOLEAN]
  BY <1>2 DEF Overtaken
<1>4. ASSUME Settled', UNCHANGED <<disarm, line>> PROVE Settled' /\ Request' /\ TakesBackDown
  BY <1>4, LeavingIsSound DEF Leaving, disarm, line
<1>5. CASE Backstop
  <2>1. Settled'
    BY <1>5 DEF Backstop, Settled, disarm, ui, link, line
  <2>2. UNCHANGED <<disarm, line>>
    BY <1>5 DEF Backstop, disarm, line
  <2> QED BY <1>4, <2>1, <2>2
<1>6. CASE Unanswered
  <2>1. bank' \in Roles0 /\ quiet' \in BOOLEAN
    BY <1>1, <1>6 DEF Unanswered, StopHere
  <2>2. Settled'
    BY <1>6, <2>1 DEF Unanswered, Settled, disarm, ui, line
  <2> QED BY <1>4, <1>6, <2>2 DEF Unanswered
<1>7. ASSUME NEW why \in Reasons, WaitPump(why) PROVE Settled' /\ Request' /\ TakesBackDown
  <2>1. PICK d \in {FALSE, dead} : Leaves(why, d)
    BY <1>7 DEF WaitPump, Pump
  <2>2. cmd' \in [role : Roles0, current : BOOLEAN, overtaken : BOOLEAN]
    BY <1>3, <1>7 DEF WaitPump, Pump
  <2>3. Leaving
    BY <2>1, PumpIsSound
  <2>4. Request' /\ TakesBackDown
    BY <2>3, LeavingIsSound
  <2>5. /\ dead' \in BOOLEAN /\ asked' \in BOOLEAN /\ beating' \in BOOLEAN
        /\ screen' \in [waits : Roles0, sees : Roles0]
        /\ UNCHANGED <<bank, inhibit, resumed, up, quiet, gap, far, silent>>
    BY <2>1, PumpIsSound, ZenonT(30)
  <2>6. Settled'
    BY <2>2, <2>5 DEF Settled
  <2> QED BY <2>4, <2>6
<1>8. CASE PostDisarm
  <2>1. Settled'
    BY <1>2, <1>3, <1>8 DEF PostDisarm, Settled, link, line
  <2>2. Leaving
    BY <1>8 DEF PostDisarm, Leaving, line
  <2> QED BY <2>1, <2>2, LeavingIsSound
<1>9. CASE Evicted
  <2>1. Settled'
    BY <1>2, <1>9 DEF Evicted, Settled, disarm, link, line
  <2> QED BY <1>4, <1>9, <2>1 DEF Evicted
<1>10. ASSUME NEW role \in Roles, PostArm(role) PROVE Settled' /\ Request' /\ TakesBackDown
  <2>1. Settled'
    BY <1>10 DEF PostArm, Settled, disarm, link, line, Roles0
  <2> QED BY <1>4, <1>10, <2>1 DEF PostArm
<1>11. CASE WireDrops
  <2>1. Settled'
    BY <1>11 DEF WireDrops, Settled, disarm, ui, link, line
  <2> QED BY <1>4, <1>11, <2>1 DEF WireDrops
<1>12. CASE FarTakes
  <2>1. /\ wire # <<>> /\ far' = After(far, Head(wire)) /\ silent' = 0
        /\ UNCHANGED <<bank, disarm, resumed, ui, link, dead, beating, gap>>
    BY <1>12 DEF FarTakes
  <2>2. Head(wire) \in [kind : Kinds, role : Roles0, cur : BOOLEAN]
    <3>1. wire \in Seq(Frame)
      BY DEF Frame
    <3> HIDE DEF TypeOK
    <3>2. Len(wire) > 0 /\ Head(wire) = wire[1] /\ 1 \in DOMAIN wire
      BY <2>1, <3>1
    <3>3. Head(wire) \in Frame
      BY <3>1, <3>2
    <3> QED BY <3>3 DEF Frame
  <2> DEFINE m == Head(wire)
  <2>3. /\ far' \in [trust : BOOLEAN, latched : BOOLEAN, armed : Roles0]
        /\ far'.trust = far.trust
        /\ far'.armed # NoRole => far.armed # NoRole \/ far.trust
    <3> HIDE DEF m
    <3>1. \/ After(far, m) = far
          \/ After(far, m) = [far EXCEPT !.latched = FALSE]
          \/ After(far, m) = [far EXCEPT !.latched = TRUE]
          \/ After(far, m) = [far EXCEPT !.armed = NoRole]
          \/ far.trust /\ After(far, m) = [far EXCEPT !.armed = m.role]
      <4>1. CASE m.kind = "clear"
        BY <4>1 DEF After
      <4>2. CASE m.kind = "off"
        BY <4>2 DEF After
      <4>3. CASE m.kind \in {"arm", "keep"} /\ Refuses(far, m)
        BY <4>3 DEF After
      <4>4. CASE m.kind \in {"arm", "keep"} /\ ~Refuses(far, m)
        BY <4>4 DEF After, Refuses
      <4>5. CASE m.kind \notin {"clear", "off", "arm", "keep"}
        BY <4>5 DEF After
      <4> QED BY <4>1, <4>2, <4>3, <4>4, <4>5
    <3>2. m.role \in Roles0
      BY <2>2 DEF m
    <3> QED BY <1>1, <2>1, <3>1, <3>2 DEF m
  <2>4. Settled'
    BY <2>1, <2>3, NumbersAre DEF Settled, disarm, ui, link
  <2>5. Request' /\ TakesBackDown
    BY <2>1, <2>3 DEF Request, InhibitIsAsked, GapGrows, HeldDown, ArmedIsTrusted,
       TakesBackDown, disarm
  <2> QED BY <2>4, <2>5
<1>13. CASE FarTrusts
  <2>1. /\ far' = [far EXCEPT !.trust = TRUE] /\ beating
        /\ UNCHANGED <<bank, disarm, resumed, ui, link, dead, beating, gap, silent>>
    BY <1>13 DEF FarTrusts
  <2>2. Settled'
    BY <2>1 DEF Settled, disarm, ui, link
  <2>3. Request' /\ TakesBackDown
    BY <2>1 DEF Request, InhibitIsAsked, GapGrows, HeldDown, ArmedIsTrusted,
       TakesBackDown, disarm
  <2> QED BY <2>2, <2>3
<1>14. CASE FarDoubts
  <2>1. /\ far' = Down([far EXCEPT !.trust = FALSE])
        /\ UNCHANGED <<bank, disarm, resumed, ui, link, dead, beating, gap, silent>>
    BY <1>14 DEF FarDoubts
  <2>2. far' = [trust |-> FALSE, latched |-> TRUE, armed |-> NoRole]
    BY <2>1 DEF Down
  <2>3. Settled'
    <3>1. far' \in [trust : BOOLEAN, latched : BOOLEAN, armed : Roles0]
      BY <1>1, <2>2
    <3> QED BY <2>1, <3>1 DEF Settled, disarm, ui, link
  <2>4. Request' /\ TakesBackDown
    BY <2>1, <2>2 DEF Request, InhibitIsAsked, GapGrows, HeldDown, ArmedIsTrusted,
       TakesBackDown, disarm
  <2> QED BY <2>3, <2>4
<1>15. CASE Tick
  <2> DEFINE heard == [far EXCEPT !.trust = @ /\ gap' # Gap]
             lost == far.trust # heard.trust
             cut == silent # Silence /\ silent' = Silence
  <2>1. /\ beating = (Heartbeat(pol, dead) /\ ~asked)
        /\ gap' = IF beating THEN 0 ELSE Upto(gap, Gap)
        /\ silent' = Upto(silent, Silence)
        /\ far' = IF lost \/ cut THEN Down(heard) ELSE heard
        /\ dead' \in {dead, dead \/ "touch" \in Mishaps}
        /\ inhibit' = IF inhibit = 0 THEN 0 ELSE Upto(inhibit, Inhibit + 1)
        /\ UNCHANGED <<bank, asked, resumed, ui, task, link, beating>>
    BY <1>15 DEF Tick
  <2>2. /\ gap' \in 0..Gap /\ silent' \in 0..Silence /\ inhibit' \in 0..(Inhibit + 1)
        /\ dead' \in BOOLEAN
    <3>1. dead' \in BOOLEAN
      BY <2>1
    <3>2. ASSUME NEW bound \in Nat, NEW n \in 0..bound PROVE Upto(n, bound) \in 0..bound
      BY DEF Upto
    <3>3. gap' \in 0..Gap
      BY <2>1, <3>2, NumbersAre
    <3>4. silent' \in 0..Silence
      BY <2>1, <3>2, NumbersAre
    <3>5. inhibit' \in 0..(Inhibit + 1)
      BY <2>1, <3>2, NumbersAre
    <3> QED BY <3>1, <3>3, <3>4, <3>5
  <2>3. /\ heard \in [trust : BOOLEAN, latched : BOOLEAN, armed : Roles0]
        /\ heard.armed = far.armed
        /\ heard.trust <=> far.trust /\ gap' # Gap
    <3>1. (far.trust /\ gap' # Gap) \in BOOLEAN
      OBVIOUS
    <3> QED BY <3>1
  <2> HIDE DEF heard
  <2>4. /\ far' \in [trust : BOOLEAN, latched : BOOLEAN, armed : Roles0]
        /\ far'.trust <=> far.trust /\ gap' # Gap
        /\ far'.armed # NoRole => far.armed # NoRole /\ far'.trust = far.trust
    BY <1>1, <2>1, <2>3 DEF Down
  <2>5. Settled'
    BY <2>1, <2>2, <2>4 DEF Settled, ui, link
  <2>6. InhibitIsAsked' /\ TakesBackDown
    BY <2>1, NumbersAre DEF Request, InhibitIsAsked, TakesBackDown
  <2>7. ArmedIsTrusted'
    BY <2>4 DEF Request, ArmedIsTrusted
  <2>8. GapGrows' /\ HeldDown'
    <3>1. CASE inhibit = 0
      BY <2>1, <3>1, NumbersAre DEF GapGrows, HeldDown
    <3>2. CASE inhibit > 0
      <4>1. ~beating /\ ~beating'
        BY <2>1, <3>2 DEF Request, InhibitIsAsked
      <4>2. gap' = Upto(gap, Gap) /\ inhibit' = Upto(inhibit, Inhibit + 1)
        BY <2>1, <3>2, <4>1
      <4>3. gap = Gap \/ gap >= inhibit - 1
        BY <3>2 DEF Request, GapGrows
      <4>4. inhibit \in Nat /\ gap \in 0..Gap
        BY NumbersAre
      <4>5. /\ inhibit' \in Nat /\ gap' \in 0..Gap
            /\ gap' = Gap \/ gap' >= inhibit' - 1
        BY <4>2, <4>3, <4>4, NumbersAre, BothGrow
      <4>6. inhibit' > Gap => gap' = Gap
        BY <4>5, PastTheGap
      <4>7. GapGrows'
        BY <4>5 DEF GapGrows
      <4>8. HeldDown'
        <5> HIDE DEF TypeOK
        <5>1. gap' = Gap => ~far'.trust
          BY <2>4
        <5> QED BY <4>1, <4>6, <5>1 DEF HeldDown
      <4> QED BY <4>7, <4>8
    <3> QED BY <3>1, <3>2
  <2> QED BY <2>5, <2>6, <2>7, <2>8 DEF Request
<1> QED BY <1>5, <1>6, <1>7, <1>8, <1>9, <1>10, <1>11, <1>12, <1>13, <1>14, <1>15 DEF Around


-----------------------------------------------------------------------------
(* The roles.                                                              *)

\* Where an arm that was handed out is not through yet.
Handing == {"handed", "prepared", "cleared", "armed"}

\* Outside a handshake an armed bank is armed for the policy's roles, or the
\* switch is owed.
RolesStand ==
  at \notin Handing /\ BankArmed /\ pol.armed => pol.roles = bank \/ pol.switching

\* A step of the task that hands nothing out and is not in a handshake.
LEMMA OutsideStands ==
  ASSUME RolesStand, PolicyMoves, at \notin Handing, bank' \in {bank, NoRole}
  PROVE  RolesStand'
BY DEF RolesStand, PolicyMoves, Follows, HandsOut, Handing, BankArmed

LEMMA ControlRoles == ASSUME TypeOK, RolesStand, Control PROVE RolesStand'
<1> USE DEF TypeOK
<1>1. PolicyMoves
  BY ControlMoves
<1>2. BankArmed \in BOOLEAN
  BY DEF BankArmed
<1>3. ASSUME at \notin Handing, bank' \in {bank, NoRole} PROVE RolesStand'
  BY <1>1, <1>3, OutsideStands
<1>4. ASSUME NEW why \in Reasons, PassPump(why) \/ EntryTaken(why) PROVE RolesStand'
  BY <1>3, <1>4 DEF PassPump, Pump, EntryTaken, Leaves, Handing
<1>5. CASE Serve
  BY <1>3, <1>5 DEF Serve, ServeDisarm, DisarmServed, DisarmFar, Ended, Handing
<1>6. CASE Drain
  BY <1>3, <1>6 DEF Drain, ServeDisarm, DisarmServed, DisarmFar, Ended, rest, Handing
<1>7. CASE Reset
  BY <1>3, <1>7 DEF Reset, Ended, Handing
<1>8. CASE ArmingStep
  BY <1>3, <1>8 DEF ArmingStep, Stepped, Ended, Handing
<1>9. CASE Unheeded
  BY <1>3, <1>9 DEF Unheeded, Ended, rest, Handing
<1>10. CASE Handed
  <2>1. ~Refused(pol).armed
    BY RefusedFollows
  <2> QED BY <1>10, <2>1 DEF Handed, GoOn, Exchange, RolesStand, Handing
<1>11. CASE HandshakePrepared
  <2>1. /\ ~ArmWriteFailed(pol, quiet, BankArmed).armed
        /\ ~Prepared(pol).go => ~Prepared(pol).pol.armed
    BY <1>2, HandshakeFollows
  <2>2. CASE ArmHere /\ UNCHANGED pol
    BY <2>2 DEF ArmHere, RolesStand
  <2>3. CASE ~pol'.armed
    BY <2>3 DEF RolesStand
  <2>4. CASE at' = "cleared"
    BY <2>4 DEF RolesStand, Handing
  <2> QED BY <1>11, <2>1, <2>2, <2>3, <2>4 DEF HandshakePrepared, WriteFailed, Exchange
<1>12. CASE HandshakeCleared
  <2>1. ~ArmWriteFailed(pol, quiet, BankArmed).armed
    BY <1>2, HandshakeFollows
  <2>2. \A b \in BOOLEAN : ~Cleared(pol, asked, b).go => ~Cleared(pol, asked, b).pol.armed
    BY HandshakeFollows
  <2>3. CASE ~pol'.armed
    BY <2>3 DEF RolesStand
  <2>4. CASE at' = "armed"
    BY <2>4 DEF RolesStand, Handing
  <2> QED BY <1>12, <2>1, <2>2, <2>3, <2>4
          DEF HandshakeCleared, WriteFailed, ControlArm, Exchange
<1>13. CASE HandshakeArmed
  <2>1. ~ArmWriteFailed(pol, quiet, BankArmed).armed /\ ~TakenBack(pol).armed
    BY <1>2, HandshakeFollows, RefusedFollows
  <2>2. CASE ArmHere /\ pol' = Through(pol)
    <3>1. Through(pol).roles = pol.roles
      BY DEF Through, Policies
    <3> QED BY <2>2, <3>1 DEF ArmHere, RolesStand
  <2>3. CASE ~pol'.armed
    BY <2>3 DEF RolesStand
  <2> QED BY <1>13, <2>1, <2>2, <2>3 DEF HandshakeArmed, WriteFailed
<1>14. CASE EntryRefused
  BY <1>3, <1>14 DEF EntryRefused, Handing
<1>15. CASE Poll
  BY <1>3, <1>15 DEF Poll, PollQuiet, Handing
<1>16. CASE BenchRead
  BY <1>3, <1>16 DEF BenchRead, PollQuiet, Ended, Handing
<1>17. CASE PollWritten
  BY <1>3, <1>17 DEF PollWritten, PollQuiet, Ended, Handing
<1>18. CASE Probed
  BY <1>3, <1>18 DEF Probed, Ended, Handing
<1>19. CASE Unread \/ Drawn
  BY <1>3, <1>19 DEF Unread, Drawn, PublishedTo, Handing
<1>20. CASE Watch
  BY <1>3, <1>20 DEF Watch, DisarmFar, Handing
<1> QED BY <1>4, <1>5, <1>6, <1>7, <1>8, <1>9, <1>10, <1>11, <1>12, <1>13, <1>14,
           <1>15, <1>16, <1>17, <1>18, <1>19, <1>20 DEF Control

LEMMA AroundRoles == ASSUME TypeOK, RolesStand, Around PROVE RolesStand'
<1>1. Follows(pol, pol')
  BY AroundMoves
<1>2. at' = at
  BY DEF Around, Backstop, Unanswered, WaitPump, PostDisarm, Evicted, PostArm, FarTakes,
     WireDrops, FarTrusts, FarDoubts, Tick, task
<1>3. bank' \in {bank, NoRole}
  BY DEF Around, Backstop, Unanswered, StopHere, WaitPump, Pump, Leaves, PostDisarm,
     Evicted, PostArm, FarTakes, WireDrops, FarTrusts, FarDoubts, Tick
<1> QED BY <1>1, <1>2, <1>3 DEF RolesStand, Follows, BankArmed

-----------------------------------------------------------------------------
(* The queued ARM.                                                         *)

\* Only the two outcomes of the entry take the task on from it.
LEMMA EntrySteps ==
  ASSUME at = "entry", at' = "poll", Next
  PROVE  EntryRefused \/ \E why \in Reasons : EntryTaken(why)
<1>1. ~Around
  BY DEF Around, Backstop, Unanswered, WaitPump, PostDisarm, Evicted, PostArm, FarTakes,
     WireDrops, FarTrusts, FarDoubts, Tick, task
<1>2. ~(\E why \in Reasons : PassPump(why)) /\ ~Serve /\ ~Reset /\ ~ArmingStep /\ ~Unheeded
  BY DEF PassPump, Serve, ServeDisarm, DisarmServed, Reset, ArmingStep, Unheeded, Ended
<1>3. ~Handed /\ ~HandshakePrepared /\ ~HandshakeCleared /\ ~HandshakeArmed
  BY DEF Handed, HandshakePrepared, HandshakeCleared, HandshakeArmed, Ended
<1>4. ~Drain /\ ~Poll /\ ~BenchRead /\ ~PollWritten /\ ~Probed
  BY DEF Drain, ServeDisarm, DisarmServed, Poll, BenchRead, PollWritten, Probed, Ended
<1>5. ~Unread /\ ~Drawn /\ ~Watch
  BY DEF Unread, Drawn, Watch
<1> QED BY <1>1, <1>2, <1>3, <1>4, <1>5 DEF Next, Control

\* With the render loop running, a pump that finds touch answering and no
\* press forgets no copy of the stop count, and none makes an arm wait.
LEMMA FoundKnows ==
  ASSUME pol \in Policies, NEW why \in Findings \ {"stall", "loss"}, NEW d \in BOOLEAN
  PROVE  /\ Found(why, d).arming => pol.arming
         /\ ~d /\ ~Found(why, d).held => Found(why, d).knows = pol.knows
<1>1. CASE why = "press"
  <2> DEFINE a == StopPressed(pol)
  <2>1. a \in Policies /\ a.held /\ ~a.arming
    <3>1. a \in Policies
      BY StopFollows DEF Follows
    <3>2. Idle(pol) \in Policies /\ ~Idle(pol).arming
      BY IdleFollows
    <3> DEFINE i == Idle(pol)
    <3> HIDE DEF i
    <3>3. a = [[i EXCEPT !.stopped = TRUE, !.knows = {}] EXCEPT !.held = TRUE]
      BY DEF StopPressed, Stop, i
    <3> QED BY <3>1, <3>2, <3>3 DEF i, Policies
  <2>2. Found(why, d) = TouchPoll(a, d)
    BY <1>1 DEF Found
  <2> HIDE DEF a
  <2>3. ~TouchPoll(a, d).arming
    BY <2>1, TouchFollows
  <2>4. ~d => TouchPoll(a, d).held
    BY <2>1 DEF TouchPoll, Policies
  <2> QED BY <2>2, <2>3, <2>4
<1>2. CASE why \in {"nothing", "error"}
  <2>1. Found(why, d) = TouchPoll(pol, d)
    BY <1>2 DEF Found
  <2>2. TouchPoll(pol, d).arming => pol.arming
    BY TouchFollows
  <2>3. ~d => TouchPoll(pol, d).knows = pol.knows
    BY DEF TouchPoll, Policies
  <2> QED BY <2>1, <2>2, <2>3
<1> QED BY <1>1, <1>2 DEF Findings

\* What a pump of the entry finds takes the ARM's stop count with it, or makes
\* no arm, but for a stall: that stop idles the policy and the ARM goes on.
LEMMA TakesKnows ==
  ASSUME TypeOK, Next, Takes
  PROVE  /\ "command" \in pol.knows
         /\ "command" \in pol'.knows \/ EntryTaken("stall")
<1> USE DEF TypeOK
<1>1. Waiting \in BOOLEAN
  BY DEF Waiting
<1>2. EntryRefused \/ \E why \in Reasons : EntryTaken(why)
  BY EntrySteps DEF Takes
<1>3. CASE EntryRefused
  <2>1. RefuseAsk(pol, Waiting).arming = pol.arming
    BY DEF RefuseAsk, Policies
  <2> QED BY <1>3, <2>1 DEF EntryRefused, Takes
<1>4. ASSUME NEW why \in Reasons, EntryTaken(why)
      PROVE  "command" \in pol.knows
  BY <1>4 DEF EntryTaken, Stale
<1>5. ASSUME NEW why \in Reasons \ {"stall"}, EntryTaken(why)
      PROVE  "command" \in pol'.knows
  <2>1. PICK d \in {FALSE, dead}, lost \in BOOLEAN :
          /\ why = "loss" => lost
          /\ pol' = IF lost THEN RefuseAsk(Found(why, d), Waiting /\ why # "loss")
                    ELSE ApplyArm(Found(why, d), d)
    BY <1>5 DEF EntryTaken
  <2> DEFINE p == Found(why, d)
  <2>2. p \in Policies
    BY FoundFollows DEF Follows
  <2>3. p.arming => pol.arming
    <3>1. CASE why = "loss"
      <4> DEFINE a == Unstamped(Stop(pol))
      <4>1. a \in Policies /\ ~a.arming
        <5>1. Stop(pol) \in Policies
          BY StopFollows DEF Follows
        <5>2. ~Stop(pol).arming
          <6>1. Idle(pol) \in Policies /\ ~Idle(pol).arming
            BY IdleFollows
          <6> QED BY <6>1 DEF Stop, Policies
        <5>3. a \in Policies
          BY <5>1, RefusalsFollow DEF Follows
        <5>4. a.arming = Stop(pol).arming
          BY <5>1 DEF Unstamped, Policies
        <5> QED BY <5>2, <5>3, <5>4
      <4>2. p = TouchPoll(a, d)
        BY <3>1 DEF Found
      <4> HIDE DEF a
      <4>3. TouchPoll(a, d).arming => a.arming
        BY <4>1, TouchFollows
      <4> HIDE DEF TypeOK, p
      <4> QED BY <4>1, <4>2, <4>3
    <3>2. CASE why # "loss"
      <4>1. why \in Findings \ {"stall", "loss"} /\ d \in BOOLEAN /\ pol \in Policies
        BY <3>2, ReasonsAssumption
      <4> HIDE DEF TypeOK
      <4> QED BY <4>1, FoundKnows
    <3> QED BY <3>1, <3>2
  <2>4. ~p.arming /\ pol'.arming
    BY <2>3 DEF Takes
  <2>5. ~d /\ ~p.held => (why # "loss" => p.knows = pol.knows)
    BY FoundKnows, ReasonsAssumption
  <2>6. "command" \in pol.knows
    BY <1>4, <1>5
  <2>7. pol' = IF lost THEN RefuseAsk(p, Waiting /\ why # "loss") ELSE ApplyArm(p, d)
    BY <2>1
  <2> HIDE DEF p
  <2>8. CASE lost
    <3>1. RefuseAsk(p, Waiting /\ why # "loss").arming = p.arming
      BY <2>2 DEF RefuseAsk, Policies
    <3> QED BY <2>4, <2>7, <2>8, <3>1
  <2>9. CASE ~lost
    <3>1. pol' = IF d \/ p.held THEN p ELSE Asked(p, cmd.role, Waiting)
      BY <2>7, <2>9 DEF ApplyArm, RequestArm
    <3>2. ~d /\ ~p.held /\ why # "loss"
      BY <2>1, <2>4, <2>9, <3>1
    <3>3. Asked(p, cmd.role, Waiting).knows = p.knows
      BY <2>2 DEF Asked, Policies
    <3> QED BY <2>5, <2>6, <3>1, <3>2, <3>3
  <2> QED BY <2>8, <2>9
<1> QED BY <1>2, <1>3, <1>4, <1>5


-----------------------------------------------------------------------------
(* The theorems.                                                           *)

\* TypeOK with all that the task's waits rest on.
IInv == TypeOK /\ Exchanged /\ Request /\ RolesStand

LEMMA InitIInv == Init => IInv
<1> SUFFICES ASSUME Init PROVE IInv
  OBVIOUS
<1>1. Fresh \in Policies
  BY DEF Fresh, Policies, Phases, Copies
<1>2. Typed
  <2>1. <<>> \in Seq(Frame) /\ Len(<<>>) = 0
    OBVIOUS
  <2> QED BY <2>1, WireAssumption DEF Init, Typed, Places
<1>3. Settled
  <2>1. NoRole \in Roles0
    BY DEF Roles0
  <2>2. Gap \in 0..Gap /\ Silence \in 0..Silence
    BY TimeAssumption
  <2> QED BY <2>1, <2>2, NumbersAre DEF Init, Settled, NoCmd
<1>4. TypeOK
  BY <1>1, <1>2, <1>3, TypeSplits DEF Init
<1>5. Exchanged
  BY DEF Init, Exchanged, CurrentIsLast, AnsweredIsEmpty, IdleOutside, OffIsSent,
     AckedIsDown, Waits, DisarmWaits, Answers
<1>6. Request
  BY NumbersAre DEF Init, Request, InhibitIsAsked, GapGrows, HeldDown, ArmedIsTrusted
<1>7. RolesStand
  BY DEF Init, RolesStand, BankArmed
<1> QED BY <1>4, <1>5, <1>6, <1>7 DEF IInv

\* What every step keeps and does not do.
LEMMA StepIsSound ==
  ASSUME IInv, Next
  PROVE  /\ IInv'
         /\ SendsWanted /\ TakesBackDown
         /\ pol' \in Policies /\ (Follows(pol, pol') \/ HandsOut)
<1> USE DEF IInv
<1>1. PolicyMoves
  BY ControlMoves, AroundMoves DEF Next, PolicyMoves
<1>2. ExchangesWell
  BY ControlExchanges, AroundExchanges DEF Next
<1>3. Settled' /\ Request' /\ TakesBackDown
  BY ControlRequests, AroundRequests DEF Next
<1>4. RolesStand'
  BY ControlRoles, AroundRoles DEF Next
<1>5. TypeOK'
  BY <1>1, <1>2, <1>3 DEF PolicyMoves, ExchangesWell, TypeOK, Typed, Settled, Frame
<1> QED BY <1>1, <1>2, <1>3, <1>4, <1>5 DEF PolicyMoves, ExchangesWell

LEMMA Inductive == IInv /\ [Next]_vars => IInv'
<1>1. IInv /\ Next => IInv'
  BY StepIsSound
<1>2. IInv /\ UNCHANGED vars => IInv'
  <2> SUFFICES ASSUME IInv, UNCHANGED vars PROVE IInv'
    OBVIOUS
  <2> USE DEF vars
  <2>1. TypeOK'
    BY DEF IInv, TypeOK
  <2>2. Exchanged'
    BY DEF IInv, Exchanged, CurrentIsLast, AnsweredIsEmpty, IdleOutside, OffIsSent,
       AckedIsDown
  <2>3. Request' /\ RolesStand'
    BY DEF IInv, Request, InhibitIsAsked, GapGrows, HeldDown, ArmedIsTrusted, RolesStand,
       BankArmed
  <2> QED BY <2>1, <2>2, <2>3 DEF IInv
<1> QED BY <1>1, <1>2

THEOREM IInvHolds == Spec => []IInv
<1>1. Init => IInv
  BY InitIInv
<1>2. IInv /\ [Next]_vars => IInv'
  BY Inductive
<1> QED BY <1>1, <1>2, PTL DEF Spec

\* The task, the screens and the far end keep their types for every bound.
THEOREM TypeCorrect == Spec => []TypeOK
<1>1. IInv => TypeOK
  BY DEF IInv
<1> QED BY <1>1, IInvHolds, PTL

\* Between two passes an armed bank is armed for the policy's roles, or the
\* switch is owed, whatever the waits of the pass brought (arming_step()).
THEOREM BankFollowsPolicy == Spec => []RolesAgree
<1>1. IInv => RolesAgree
  BY DEF IInv, RolesStand, RolesAgree, Handing
<1> QED BY <1>1, IInvHolds, PTL

\* No frame that arms is sent under a stop or a disarm, however long the wire
\* and wherever a wait ends (service_arming(), poll_bench()).
THEOREM NothingUnwantedIsSent == Spec => DrivesOnlyWhenWanted
<1> DEFINE A == \A kind \in {"arm", "keep"} :
                  at' # at /\ wire' # wire /\ wire'[Len(wire')].kind = kind
                    => ~pol'.stopped /\ ~asked'
<1>1. IInv /\ [Next]_vars => [A]_vars
  BY StepIsSound DEF SendsWanted
<1> QED BY <1>1, IInvHolds, PTL DEF Spec, DrivesOnlyWhenWanted

\* A disarm request outlives every lost answer, until the far end has taken it
\* or its monitor has tripped, whatever the gap (service_disarm()).
THEOREM RequestStands == Spec => RequestStandsUntilDown
<1> DEFINE A == asked /\ ~asked' => far.armed = NoRole /\ far'.armed = NoRole
<1>1. IInv /\ [Next]_vars => [A]_vars
  BY StepIsSound DEF TakesBackDown
<1> QED BY <1>1, IInvHolds, PTL DEF Spec, RequestStandsUntilDown

\* No call of the policy forgets an outage of touch that an armed bank owes
\* (arming.c, disarm_pending).
THEOREM OutageIsOwed == Spec => OutageDisarms
<1> DEFINE A == pol.pending /\ pol.armed /\ BankArmed /\ BankArmed'
                  => pol'.pending \/ ~pol'.armed
<1>1. IInv /\ [Next]_vars => [A]_vars
  BY StepIsSound DEF Follows, HandsOut, vars
<1> QED BY <1>1, IInvHolds, PTL DEF Spec, OutageDisarms

\* An ARM asked for before a stop arms nothing after it (drain_commands()),
\* whatever the pumps find: the one stop its entry can miss is the one that the
\* pump in that very entry makes for a render loop that stands still.
THEOREM NothingFromBeforeAStop == Spec => NothingBeforeAStopButAStall
<1> DEFINE A == Takes => /\ "command" \in pol.knows
                         /\ "command" \in pol'.knows \/ EntryTaken("stall")
<1>1. IInv /\ [Next]_vars => [A]_vars
  BY TakesKnows DEF IInv, vars, Takes
<1> QED BY <1>1, IInvHolds, PTL DEF Spec, NothingBeforeAStopButAStall
=============================================================================
