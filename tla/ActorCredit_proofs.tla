-------------------------- MODULE ActorCredit_proofs --------------------------
(***************************************************************************)
(* Theorems about ActorCredit, for any horizon, any number of steps,       *)
(* samples, gaps and reports on their way.  The invariant says of every    *)
(* sample that it was paid consecutive steps under its own control, of     *)
(* every trace where it is cut, and of the identities that they grow from  *)
(* what was given away to what is still to be applied.                     *)
(***************************************************************************)
EXTENDS ActorCredit, SequenceTheorems, FiniteSetTheorems, WellFoundedInduction, TLAPS

-----------------------------------------------------------------------------
(* The invariant.  Its parts about the actor are stated of any state s of  *)
(* it, c the steps' controllers, rep the step reported up to and fin how   *)
(* the life ended.                                                         *)

(* A sample was paid consecutive steps, all of which it controlled, and is *)
(* done only if the life died at the end of them.                          *)
Paid(x, c, rep, fin) ==
    /\ x \in Credited /\ FirstStep(x) \in Nat /\ LastStep(x) \in Nat
    /\ FirstStep(x) <= LastStep(x) /\ LastStep(x) < rep
    /\ x.steps = FirstStep(x)..LastStep(x)
    /\ \A t \in x.steps: c[t] = x.id
    /\ x.done => fin = "terminal" /\ LastStep(x) + 1 = rep

(* The trace may go on from x to y.                                        *)
Joined(x, y) ==
    /\ ~x.done
    /\ \/ x.cut = None /\ FirstStep(y) = LastStep(x) + 1 /\ y.tick = FirstStep(y)
       \/ x.cut = LastStep(x) + 1

TraceOk(r, c, rep, fin) ==
    /\ r \in Seq(Credited)
    /\ \A i \in 1..Len(r): Paid(r[i], c, rep, fin)
    /\ \A i, j \in 1..Len(r): i < j => r[i].id < r[j].id
    /\ \A i \in 1..(Len(r) - 1): Joined(r[i], r[i + 1])

(* The rollout that is being collected and the pending sample after it.    *)
RolloutInv(s, c, rep, fin) ==
    /\ TraceOk(s.rollout, c, rep, fin)
    /\ s.rollout = <<>> <=> s.rollEnd = NoEnd
    /\ s.rollout # <<>> =>
         LET x == s.rollout[Len(s.rollout)]
         IN /\ s.rollEnd.step = LastStep(x) + 1 /\ (x.done \/ s.rollEnd.obs)
            /\ s.pend = Nothing => x.cut = None

PendingInv(s, c, rep, fin) ==
    /\ s.pend = Nothing <=> s.end = NoEnd
    /\ s.pend # Nothing =>
         /\ Paid(s.pend, c, rep, fin) /\ s.pend.cut = None
         /\ s.end.step = LastStep(s.pend) + 1 /\ (s.pend.done \/ s.end.obs)
         /\ \A i \in 1..Len(s.rollout): s.rollout[i].id < s.pend.id
         /\ s.rollout # <<>> => Joined(s.rollout[Len(s.rollout)], s.pend)
    /\ s.gate # "open" \/ s.rebase => s.pend = Nothing

CreditInv(s, c, rep, fin) == RolloutInv(s, c, rep, fin) /\ PendingInv(s, c, rep, fin)

(* The pending sample has been paid up to this step.                       *)
PaidUpTo(s, step) == s.pend # Nothing => s.end.step = step

(* The snake has not died in what the actor has read.                      *)
Alive(s) ==
    /\ \A i \in 1..Len(s.rollout): ~s.rollout[i].done
    /\ s.pend # Nothing => ~s.pend.done

(* Identities grow from the rollouts rs given away to the sample sent.     *)
IdsOf(r) == {r[i].id: i \in 1..Len(r)}
GivenIds(rs) == UNION {IdsOf(r.rollout): r \in rs}
HeldIds(s) == IdsOf(s.rollout) \cup (IF s.pend = Nothing THEN {} ELSE {s.pend.id})
IdInv(s, rs) ==
    /\ \A g \in GivenIds(rs), h \in HeldIds(s): g < h
    /\ \A g \in GivenIds(rs) \cup HeldIds(s):
         /\ g \in Nat /\ g <= s.counter /\ (s.pc = "sending" => g < s.counter)
         /\ \A x \in s.issued: g < x.id
    /\ \A x \in s.issued: x.id <= s.counter /\ (s.pc = "sending" => x.id < s.counter)
    /\ s.pc = "sending" => s.sample \in Sample /\ s.sample.id = s.counter

(* What was given away.                                                    *)
GivenInv(rs, c, rep, fin) ==
    /\ \A r \in rs:
         /\ TraceOk(r.rollout, c, rep, fin) /\ r.rollout # <<>>
         /\ LET x == r.rollout[Len(r.rollout)] IN x.done \/ r.boot = LastStep(x) + 1
    /\ \A q, r \in rs: q.rollout # r.rollout => IdsOf(q.rollout) \cap IdsOf(r.rollout) = {}

(* A report tells of the steps that it covers what was so.                 *)
Faithful(e, c, rep, fin) ==
    /\ e.from <= e.to /\ e.to <= rep
    /\ Proven(e) => c[e.from] = e.applied
    /\ e.kind = "initial" => e.from = e.to
    /\ e.kind = "terminal" => fin = "terminal" /\ e.to = rep
ChanInv ==
    /\ chan \in Seq(Envelope)
    /\ \A i \in 1..Len(chan): Faithful(chan[i], ctl, reported, ended)
    /\ \A i \in 1..(Len(chan) - 1): chan[i].to = chan[i + 1].from
    /\ chan # <<>> => chan[Len(chan)].to = reported

(* The step from which the actor has not read.                             *)
Unread(ch, rep) == IF ch = <<>> THEN rep ELSE ch[1].from

Actors == [gated: Gates, pc: {"online", "sending", "joining", "over"},
           gate: {"closed", "fenced", "open"}, fence: 0..MaxId, rebase: BOOLEAN,
           issued: SUBSET Sample, pend: Credited \cup {Nothing},
           end: End \cup {NoEnd}, rollout: Seq(Credited),
           rollEnd: End \cup {NoEnd}, counter: 0..MaxId, last: Ticks \cup {None},
           sample: Sample \cup {Nothing}, track: BOOLEAN]

Rollouts == [rollout: Seq(Credited), boot: Ticks \cup {Zero}]

ServerInv ==
    /\ now \in Ticks /\ ctl \in [Ticks -> 0..MaxId] /\ wire \subseteq Sample
    /\ held \in 0..MaxId /\ source \in {"none", "held", "other"}
    /\ selected \in Ticks \cup {None} /\ reported \in Ticks /\ reported <= now
    /\ gaps \in 0..MaxGaps /\ ended \in {"no", "terminal", "truncated"}
    /\ now > 0 /\ source = "held" => ctl[now - 1] = held

(* An actor's state that is in order.                                      *)
Sound(s, c, rep, fin, rs) ==
    /\ s \in Actors
    /\ IsFiniteSet(s.issued) /\ Cardinality(s.issued) <= MaxUnconfirmed
    /\ CreditInv(s, c, rep, fin)
    /\ IdInv(s, rs)

ActorInv ==
    /\ Sound(actor, ctl, reported, ended, rollouts)
    /\ rollouts \subseteq Rollouts /\ GivenInv(rollouts, ctl, reported, ended)
    /\ actor.pc # "over" => Alive(actor) /\ PaidUpTo(actor, Unread(chan, reported))

IInv == ServerInv /\ ChanInv /\ ActorInv


-----------------------------------------------------------------------------
(* Types, field by field.                                                  *)

LEMMA ActorFields ==
    ASSUME NEW s \in Actors
    PROVE  /\ s.gated \in BOOLEAN /\ s.pc \in {"online", "sending", "joining", "over"}
           /\ s.gate \in {"closed", "fenced", "open"} /\ s.fence \in Nat /\ s.rebase \in BOOLEAN
           /\ s.issued \subseteq Sample /\ s.pend \in Credited \cup {Nothing}
           /\ s.end \in End \cup {NoEnd} /\ s.rollout \in Seq(Credited)
           /\ s.rollEnd \in End \cup {NoEnd} /\ s.counter \in Nat /\ s.counter <= MaxId
           /\ s.sample \in Sample \cup {Nothing} /\ s.track \in BOOLEAN
BY CreditAssumption DEF Actors

LEMMA CreditedFields ==
    ASSUME NEW x \in Credited
    PROVE  /\ x.id \in Nat /\ x.id # 0 /\ x.tick \in Nat /\ x.steps \subseteq Ticks
           /\ x.done \in BOOLEAN /\ x.cut \in Ticks \cup {None, Zero} /\ x # Nothing
<1>1. x.id \in Nat /\ x.id # 0
  BY CreditAssumption DEF Credited, Ids
<1>2. x # Nothing
  BY <1>1 DEF Nothing
<1> QED BY <1>1, <1>2, CreditAssumption DEF Credited, Ticks

LEMMA SampleFields ==
    ASSUME NEW x \in Sample
    PROVE  x.id \in Nat /\ x.id # 0 /\ x.id \in Ids /\ x.tick \in Ticks
BY CreditAssumption DEF Sample, Ids

LEMMA EndFields ==
    ASSUME NEW d \in End \cup {NoEnd}
    PROVE  d # NoEnd => d.step \in Nat /\ d.step \in Ticks /\ d.obs \in BOOLEAN
BY CreditAssumption DEF End, Ticks

LEMMA EndIs ==
    ASSUME NEW t \in Ticks, NEW b \in BOOLEAN, NEW d, d = [step |-> t, obs |-> b]
    PROVE  d \in End /\ d # NoEnd /\ d.step = t /\ d.obs = b
<1>1. t # None
  BY CreditAssumption DEF Ticks, None
<1> QED BY <1>1 DEF End, NoEnd

LEMMA EnvelopeFields ==
    ASSUME NEW e \in Envelope
    PROVE  /\ e.from \in Nat /\ e.from \in Ticks /\ e.to \in Nat /\ e.to \in Ticks
           /\ e.applied \in Nat /\ e.kind \in Kinds
BY CreditAssumption DEF Envelope, Ticks

(* Numbers are well ordered.                                               *)
LEMMA NatMin ==
    ASSUME NEW T \in SUBSET Nat, T # {}
    PROVE  \E x \in T: \A y \in T: x <= y
<1>1. PICK R: R = OpToRel(<, Nat)
  OBVIOUS
<1>2. IsWellFoundedOn(R, Nat)
  BY <1>1, NatLessThanWellFounded
<1>3. \E x \in T: \A y \in T: ~(<<y, x>> \in R)
  BY <1>2, WFMin
<1>4. \A x, y \in T: ~(<<y, x>> \in R) => x <= y
  BY <1>1 DEF OpToRel
<1> QED BY <1>3, <1>4

-----------------------------------------------------------------------------
(* Samples and traces.                                                     *)

LEMMA SpanIs ==
    ASSUME NEW a \in Nat, NEW b \in Nat, a <= b, NEW x, x.steps = a..b
    PROVE  FirstStep(x) = a /\ LastStep(x) = b
<1>1. FirstStep(x) = a
  <2>1. Min(a..b) \in a..b /\ \A y \in a..b: Min(a..b) <= y
    <3>1. a \in a..b /\ \A y \in a..b: a <= y
      OBVIOUS
    <3> QED BY <3>1 DEF Min
  <2> QED BY <2>1 DEF FirstStep
<1>2. LastStep(x) = b
  <2>1. Max(a..b) \in a..b /\ \A y \in a..b: Max(a..b) >= y
    <3>1. b \in a..b /\ \A y \in a..b: b >= y
      OBVIOUS
    <3> QED BY <3>1 DEF Max
  <2> QED BY <2>1 DEF LastStep
<1> QED BY <1>1, <1>2

LEMMA TraceIs ==
    ASSUME NEW c, NEW rep, NEW fin, NEW r, TraceOk(r, c, rep, fin)
    PROVE  /\ r \in Seq(Credited) /\ Len(r) \in Nat /\ DOMAIN r = 1..Len(r)
           /\ r = <<>> <=> Len(r) = 0
           /\ r # <<>> => Len(r) \in 1..Len(r)
           /\ \A i \in 1..Len(r): Paid(r[i], c, rep, fin) /\ r[i] \in Credited /\ r[i].id \in Nat
<1>1. r \in Seq(Credited) /\ Len(r) \in Nat /\ DOMAIN r = 1..Len(r)
  BY DEF TraceOk
<1>2. r = <<>> <=> Len(r) = 0
  BY <1>1, EmptySeq
<1>3. \A i \in 1..Len(r): Paid(r[i], c, rep, fin) /\ r[i] \in Credited
  BY DEF TraceOk, Paid
<1> QED BY <1>1, <1>2, <1>3, CreditedFields

LEMMA TraceAppend ==
    ASSUME NEW c, NEW rep, NEW fin, NEW r, TraceOk(r, c, rep, fin),
           NEW x, Paid(x, c, rep, fin), \A i \in 1..Len(r): r[i].id < x.id,
           r # <<>> => Joined(r[Len(r)], x), NEW q, q = Append(r, x)
    PROVE  /\ TraceOk(q, c, rep, fin) /\ q # <<>> /\ Len(q) = Len(r) + 1 /\ q[Len(q)] = x
           /\ \A i \in 1..Len(r): q[i] = r[i]
<1>1. x \in Credited
  BY DEF Paid
<1>2. r \in Seq(Credited) /\ Len(r) \in Nat /\ (r # <<>> <=> Len(r) > 0)
  BY TraceIs
<1>3. PICK n \in Nat: n = Len(r)
  BY <1>2
<1>4. /\ q \in Seq(Credited) /\ Len(q) = n + 1 /\ q[n + 1] = x
      /\ \A i \in 1..n: q[i] = r[i]
  BY <1>1, <1>2, <1>3, AppendProperties
<1>5. q # <<>>
  BY <1>3, <1>4, EmptySeq
<1>6. \A i \in 1..(n + 1): i \in 1..n \/ i = n + 1
  OBVIOUS
<1>7. \A i \in 1..(n + 1): Paid(q[i], c, rep, fin)
  BY <1>3, <1>4, <1>6 DEF TraceOk
<1>8. ASSUME NEW i \in 1..(n + 1), NEW j \in 1..(n + 1), i < j PROVE q[i].id < q[j].id
  <2>1. i \in 1..n
    BY <1>8
  <2>2. CASE j \in 1..n
    BY <1>3, <1>4, <1>8, <2>1, <2>2 DEF TraceOk
  <2>3. CASE j = n + 1
    BY <1>3, <1>4, <2>1, <2>3
  <2> QED BY <1>6, <2>2, <2>3
<1>9. ASSUME NEW i \in 1..n PROVE Joined(q[i], q[i + 1])
  <2>1. CASE i \in 1..(n - 1)
    <3>1. i + 1 \in 1..n
      BY <2>1
    <3> QED BY <1>3, <1>4, <2>1, <3>1 DEF TraceOk
  <2>2. CASE i = n
    <3>1. r # <<>> /\ q[i] = r[n] /\ q[i + 1] = x
      BY <1>2, <1>3, <1>4, <2>2
    <3> QED BY <1>3, <3>1
  <2>3. i \in 1..(n - 1) \/ i = n
    BY <1>3
  <2> QED BY <2>1, <2>2, <2>3
<1>10. TraceOk(q, c, rep, fin)
  <2>1. Len(q) - 1 = n
    BY <1>4
  <2> QED BY <1>4, <1>7, <1>8, <1>9, <2>1 DEF TraceOk
<1> QED BY <1>3, <1>4, <1>5, <1>10

LEMMA IdsAppend ==
    ASSUME NEW r, Len(r) \in Nat, NEW x, NEW q, Len(q) = Len(r) + 1, q[Len(q)] = x,
           \A i \in 1..Len(r): q[i] = r[i]
    PROVE  \A g: g \in IdsOf(q) <=> g \in IdsOf(r) \/ g = x.id
<1>1. \A i \in 1..Len(q): i \in 1..Len(r) \/ i = Len(q)
  OBVIOUS
<1>2. Len(q) \in 1..Len(q) /\ \A i \in 1..Len(r): i \in 1..Len(q)
  OBVIOUS
<1> QED BY <1>1, <1>2 DEF IdsOf

(* The last sample of a trace is changed otherwise than in its steps.      *)
LEMMA TraceLast ==
    ASSUME NEW c, NEW rep, NEW fin, NEW r, TraceOk(r, c, rep, fin), r # <<>>,
           NEW y, Paid(y, c, rep, fin), y.id = r[Len(r)].id, y.steps = r[Len(r)].steps,
           y.tick = r[Len(r)].tick, NEW q, q = [r EXCEPT ![Len(r)] = y]
    PROVE  /\ TraceOk(q, c, rep, fin) /\ q # <<>> /\ Len(q) = Len(r) /\ q[Len(q)] = y
           /\ \A i \in 1..Len(r): q[i].id = r[i].id
           /\ LastStep(y) = LastStep(r[Len(r)])
           /\ \A i \in 1..(Len(r) - 1): q[i] = r[i]
<1>1. y \in Credited
  BY DEF Paid
<1>2. r \in Seq(Credited) /\ Len(r) \in Nat /\ Len(r) \in 1..Len(r)
  BY TraceIs
<1>3. PICK n \in Nat: n = Len(r) /\ n \in 1..n
  BY <1>2
<1>4. /\ q \in Seq(Credited) /\ Len(q) = n /\ q[n] = y
      /\ \A i \in 1..n: i # n => q[i] = r[i]
  BY <1>1, <1>2, <1>3, ExceptSeq
<1>5. q # <<>>
  BY <1>3, <1>4, EmptySeq
<1>6. \A i \in 1..n: /\ q[i].id = r[i].id /\ FirstStep(q[i]) = FirstStep(r[i])
                     /\ LastStep(q[i]) = LastStep(r[i]) /\ q[i].tick = r[i].tick
                     /\ Paid(q[i], c, rep, fin)
  <2>1. FirstStep(y) = FirstStep(r[n]) /\ LastStep(y) = LastStep(r[n])
    BY <1>3 DEF FirstStep, LastStep
  <2>2. \A i \in 1..n: Paid(r[i], c, rep, fin)
    BY <1>3 DEF TraceOk
  <2> QED BY <1>3, <1>4, <2>1, <2>2
<1>7. ASSUME NEW i \in 1..(n - 1) PROVE Joined(q[i], q[i + 1])
  <2>1. i + 1 \in 1..n /\ i \in 1..n /\ i # n
    BY <1>7
  <2>2. Joined(r[i], r[i + 1])
    BY <1>3 DEF TraceOk
  <2>3. q[i] = r[i]
    BY <1>4, <2>1
  <2> QED BY <1>6, <2>1, <2>2, <2>3 DEF Joined
<1>8. \A i, j \in 1..n: i < j => q[i].id < q[j].id
  BY <1>3, <1>6 DEF TraceOk
<1>9. TraceOk(q, c, rep, fin)
  BY <1>4, <1>6, <1>7, <1>8 DEF TraceOk
<1>10. \A i \in 1..(n - 1): q[i] = r[i]
  BY <1>4
<1> QED BY <1>3, <1>4, <1>5, <1>6, <1>9, <1>10

-----------------------------------------------------------------------------
(* The actor's helpers keep its state in order.                            *)

(* What is asked of the state t that a helper makes of s.                  *)
Same(s, t) ==
    /\ t.gated = s.gated /\ t.pc = s.pc /\ t.counter = s.counter /\ t.last = s.last
    /\ t.sample = s.sample /\ t.track = s.track

LEMMA SoundParts ==
    ASSUME NEW c, NEW rep, NEW fin, NEW rs, NEW s, Sound(s, c, rep, fin, rs)
    PROVE  /\ s \in Actors /\ IsFiniteSet(s.issued) /\ Cardinality(s.issued) <= MaxUnconfirmed
           /\ RolloutInv(s, c, rep, fin) /\ PendingInv(s, c, rep, fin) /\ IdInv(s, rs)
           /\ TraceOk(s.rollout, c, rep, fin)
BY DEF Sound, CreditInv, RolloutInv

LEMMA FinishKeeps ==
    ASSUME NEW c, NEW rep, NEW fin, NEW rs, NEW s, Sound(s, c, rep, fin, rs),
           NEW t, t = FinishCreditedAction(s)
    PROVE  /\ Sound(t, c, rep, fin, rs) /\ t.pend = Nothing /\ t.end = NoEnd
           /\ Same(s, t) /\ t.issued = s.issued /\ t.gate = s.gate /\ t.rebase = s.rebase
           /\ Alive(s) => Alive(t)
           /\ HeldIds(t) = HeldIds(s)
           /\ s.rollout # <<>> => t.rollout # <<>>
<1>1. /\ s \in Actors /\ IsFiniteSet(s.issued) /\ Cardinality(s.issued) <= MaxUnconfirmed
      /\ RolloutInv(s, c, rep, fin) /\ PendingInv(s, c, rep, fin) /\ IdInv(s, rs)
      /\ TraceOk(s.rollout, c, rep, fin)
  BY SoundParts
<1>2. CASE s.pend = Nothing
  <2>1. t = s /\ s.end = NoEnd
    BY <1>1, <1>2 DEF FinishCreditedAction, PendingInv
  <2> QED BY <1>2, <2>1 DEF Same
<1>3. CASE s.pend # Nothing
  <2>1. PICK x \in Credited: x = s.pend
    BY <1>1, <1>3, ActorFields
  <2>2. PICK d \in End: d = s.end
    BY <1>1, <1>3, ActorFields DEF PendingInv
  <2>3. s.end # NoEnd
    BY <1>1, <1>3 DEF PendingInv
  <2> DEFINE r == s.rollout
  <2>4. PICK q: q = Append(r, x)
    OBVIOUS
  <2>5. t = [s EXCEPT !.rollout = q, !.rollEnd = d, !.pend = Nothing, !.end = NoEnd]
    BY <1>3, <2>1, <2>2, <2>3, <2>4 DEF FinishCreditedAction
  <2>6. /\ Paid(x, c, rep, fin) /\ x.cut = None
        /\ d.step = LastStep(x) + 1 /\ (x.done \/ d.obs)
        /\ \A i \in 1..Len(s.rollout): s.rollout[i].id < x.id
        /\ s.rollout # <<>> => Joined(s.rollout[Len(s.rollout)], x)
    BY <1>1, <1>3, <2>1, <2>2 DEF PendingInv
  <2>7. /\ TraceOk(q, c, rep, fin) /\ q # <<>> /\ Len(q) = Len(s.rollout) + 1 /\ q[Len(q)] = x
        /\ \A i \in 1..Len(s.rollout): q[i] = s.rollout[i]
        /\ \A g: g \in IdsOf(q) <=> g \in IdsOf(s.rollout) \/ g = x.id
    <3>1. TraceOk(r, c, rep, fin) /\ Paid(x, c, rep, fin)
      BY <1>1, <2>6
    <3>2. \A i \in 1..Len(r): r[i].id < x.id
      BY <2>6
    <3>3. r # <<>> => Joined(r[Len(r)], x)
      BY <2>6
    <3> HIDE DEF r
    <3>4. TraceOk(q, c, rep, fin)
      BY <2>4, <3>1, <3>2, <3>3, TraceAppend, Zenon
    <3>5. /\ q # <<>> /\ Len(q) = Len(r) + 1 /\ q[Len(q)] = x
          /\ \A i \in 1..Len(r): q[i] = r[i]
      BY <2>4, <3>1, <3>2, <3>3, TraceAppend
    <3>6. \A g: g \in IdsOf(q) <=> g \in IdsOf(r) \/ g = x.id
      BY <3>1, <3>5, TraceIs, IdsAppend
    <3> QED BY <3>4, <3>5, <3>6 DEF r
  <2>8. q \in Seq(Credited)
    BY <2>7 DEF TraceOk
  <2>9. t \in Actors
    BY <1>1, <2>5, <2>8 DEF Actors
  <2>10. /\ t.rollout = q /\ t.rollEnd = d /\ t.pend = Nothing /\ t.end = NoEnd
         /\ Same(s, t) /\ t.issued = s.issued /\ t.gate = s.gate /\ t.rebase = s.rebase
    BY <1>1, <2>5 DEF Actors, Same
  <2>11. d # NoEnd
    BY <2>2, <2>3
  <2>12. RolloutInv(t, c, rep, fin)
    BY <2>6, <2>7, <2>10, <2>11 DEF RolloutInv
  <2>13. PendingInv(t, c, rep, fin)
    BY <2>10 DEF PendingInv
  <2>14. HeldIds(t) = HeldIds(s)
    BY <1>3, <2>1, <2>7, <2>10 DEF HeldIds
  <2>15. IdInv(t, rs)
    BY <1>1, <2>10, <2>14 DEF IdInv, Same
  <2>16. ASSUME Alive(s) PROVE Alive(t)
    <3>1. ~x.done /\ \A i \in 1..Len(s.rollout): ~s.rollout[i].done
      BY <1>3, <2>1, <2>16 DEF Alive
    <3>2. \A i \in 1..Len(q): i \in 1..Len(s.rollout) \/ i = Len(q)
      BY <1>1, <2>7, TraceIs
    <3> QED BY <2>7, <2>10, <3>1, <3>2 DEF Alive
  <2>17. Sound(t, c, rep, fin, rs)
    BY <1>1, <2>9, <2>10, <2>12, <2>13, <2>15 DEF Sound, CreditInv
  <2> QED BY <2>7, <2>10, <2>14, <2>16, <2>17
<1> QED BY <1>2, <1>3

(* The rollout goes on with a sample of this tick that starts at this step. *)
GoesOn(s, step, tick) ==
    s.rollout # <<>> =>
      LET l == s.rollout[Len(s.rollout)]
      IN /\ s.rollEnd.step = LastStep(l) + 1 /\ s.rollEnd.obs /\ ~l.done
         /\ \/ l.cut = None /\ LastStep(l) + 1 = step /\ tick = step
            \/ l.cut = LastStep(l) + 1

(* The pending sample x of u is the one that the report e proves, and has  *)
(* been paid the steps a..(e.from - 1).                                    *)
Payable(u, x, a, e, c, rep, fin, rs) ==
    /\ u \in Actors /\ u.gate = "open" /\ ~u.rebase
    /\ e \in Envelope /\ Faithful(e, c, rep, fin) /\ Proven(e) /\ e.kind # "initial"
    /\ x \in Credited /\ u.pend = x /\ x.id = e.applied /\ x.cut = None
    /\ a \in Nat /\ a <= e.from /\ x.steps = a..(e.from - 1)
    /\ \A t \in x.steps: c[t] = x.id
    /\ IsFiniteSet(u.issued) /\ Cardinality(u.issued) <= MaxUnconfirmed /\ IdInv(u, rs)
    /\ TraceOk(u.rollout, c, rep, fin)
    /\ u.rollout = <<>> <=> u.rollEnd = NoEnd
    /\ GoesOn(u, a, x.tick)
    /\ \A i \in 1..Len(u.rollout): u.rollout[i].id < x.id

LEMMA RewardKeeps ==
    ASSUME NEW c, NEW rep \in Nat, NEW fin, NEW rs, NEW u, NEW x, NEW a, NEW e,
           Payable(u, x, a, e, c, rep, fin, rs), NEW t, t = GiveReward(u, e)
    PROVE  /\ Sound(t, c, rep, fin, rs) /\ Same(u, t) /\ t.pend # Nothing
           /\ t.end.step = e.to /\ t.gate = u.gate /\ t.rebase = u.rebase
           /\ t.issued = u.issued /\ t.rollout = u.rollout
           /\ t.pend.done => e.kind = "terminal"
<1>0. /\ u \in Actors /\ u.gate = "open" /\ ~u.rebase
      /\ e \in Envelope /\ Faithful(e, c, rep, fin) /\ Proven(e) /\ e.kind # "initial"
      /\ x \in Credited /\ u.pend = x /\ x.id = e.applied /\ x.cut = None
      /\ a \in Nat /\ a <= e.from /\ x.steps = a..(e.from - 1)
      /\ \A s \in x.steps: c[s] = x.id
      /\ IsFiniteSet(u.issued) /\ Cardinality(u.issued) <= MaxUnconfirmed /\ IdInv(u, rs)
      /\ TraceOk(u.rollout, c, rep, fin)
      /\ u.rollout = <<>> <=> u.rollEnd = NoEnd
      /\ GoesOn(u, a, x.tick)
      /\ \A i \in 1..Len(u.rollout): u.rollout[i].id < x.id
  BY DEF Payable
<1>1. /\ e.from \in Nat /\ e.from \in Ticks /\ e.to = e.from + 1 /\ e.to \in Ticks
      /\ e.to <= rep /\ c[e.from] = x.id
      /\ e.kind = "terminal" => fin = "terminal" /\ e.to = rep
  BY <1>0, EnvelopeFields DEF Faithful, Proven
<1>2. PICK n \in Nat: n = e.from
  BY <1>0, <1>1
<1>3. PICK b \in BOOLEAN: b = Done(e)
  <2>1. Done(e) \in BOOLEAN
    BY DEF Done
  <2> QED BY <1>0, <2>1, Zenon
<1>4. PICK o \in BOOLEAN: o = (e.kind # "terminal")
  <2>1. (e.kind # "terminal") \in BOOLEAN
    OBVIOUS
  <2> QED BY <1>0, <2>1, Zenon
<1>5. b = ~o /\ (b => e.kind = "terminal")
  BY <1>0, <1>3, <1>4 DEF Done
<1>6. PICK d: d = [step |-> n + 1, obs |-> o]
  OBVIOUS
<1>7. d \in End /\ d # NoEnd /\ d.step = n + 1 /\ d.obs = o
  <2>1. n + 1 \in Ticks
    BY <1>0, <1>1, <1>2
  <2> QED BY <1>0, <1>6, <2>1, EndIs
<1>8. d = EndOfCredit(u, e)
  BY <1>0, <1>1, <1>2, <1>4, <1>6 DEF EndOfCredit
<1>9. PICK w: w = x.steps \cup {n}
  OBVIOUS
<1>10. w = a..n /\ w \subseteq Ticks
  <2>1. a <= n /\ w = (a..(n - 1)) \cup {n}
    BY <1>0, <1>2, <1>9
  <2>2. n \in Ticks
    BY <1>0, <1>1, <1>2
  <2>3. n \in 0..MaxStep /\ MaxStep \in Nat
    BY <1>0, <2>2, CreditAssumption DEF Ticks
  <2>4. w = a..n
    BY <1>0, <2>1
  <2>5. a..n \subseteq 0..MaxStep
    BY <1>0, <2>3
  <2> QED BY <1>0, <2>4, <2>5 DEF Ticks
<1>11. PICK y: y = [x EXCEPT !.steps = w, !.done = b]
  OBVIOUS
<1>12. /\ y \in Credited /\ y.id = x.id /\ y.tick = x.tick /\ y.steps = w /\ y.done = b
       /\ y.cut = None
  BY <1>0, <1>10, <1>11 DEF Credited
<1>13. y # Nothing
  BY <1>0, <1>12, CreditedFields
<1>14. FirstStep(y) = a /\ LastStep(y) = n
  BY <1>0, <1>2, <1>10, <1>12, SpanIs
<1>15. Paid(y, c, rep, fin)
  <2>1. n < rep /\ a <= n
    BY <1>0, <1>1, <1>2
  <2>2. \A s \in w: c[s] = y.id
    BY <1>0, <1>1, <1>2, <1>9, <1>12
  <2>3. y.done => fin = "terminal" /\ n + 1 = rep
    BY <1>0, <1>1, <1>2, <1>5, <1>12
  <2> QED BY <1>0, <1>10, <1>12, <1>14, <2>1, <2>2, <2>3 DEF Paid
<1>16. t = [u EXCEPT !.pend = y, !.end = d]
  <2>1. t = [u EXCEPT !.pend.steps = u.pend.steps \cup {e.from}, !.pend.done = Done(e),
                      !.end = d]
    BY <1>0, <1>8 DEF GiveReward
  <2>2. t = [u EXCEPT !.pend.steps = w, !.pend.done = b, !.end = d]
    BY <1>0, <1>2, <1>3, <1>9, <2>1
  <2> QED BY <1>0, <1>11, <2>2 DEF Actors
<1>17. t \in Actors
  BY <1>0, <1>7, <1>12, <1>16 DEF Actors
<1>18. /\ t.pend = y /\ t.end = d /\ Same(u, t) /\ t.issued = u.issued /\ t.gate = u.gate
       /\ t.rebase = u.rebase /\ t.rollout = u.rollout /\ t.rollEnd = u.rollEnd
  BY <1>0, <1>16 DEF Actors, Same
<1>19. RolloutInv(t, c, rep, fin)
  BY <1>0, <1>13, <1>18 DEF RolloutInv, GoesOn
<1>20. PendingInv(t, c, rep, fin)
  <2>1. t.rollout # <<>> => Joined(t.rollout[Len(t.rollout)], y)
    BY <1>0, <1>12, <1>14, <1>18 DEF Joined, GoesOn
  <2> QED BY <1>0, <1>5, <1>7, <1>12, <1>13, <1>14, <1>15, <1>18, <2>1 DEF PendingInv
<1>21. HeldIds(t) = HeldIds(u)
  <2>1. u.pend # Nothing
    BY <1>0, CreditedFields
  <2> QED BY <1>0, <1>12, <1>13, <1>18, <2>1 DEF HeldIds
<1>22. IdInv(t, rs)
  BY <1>0, <1>18, <1>21 DEF IdInv, Same
<1>23. Sound(t, c, rep, fin, rs)
  BY <1>0, <1>17, <1>18, <1>19, <1>20, <1>22 DEF Sound, CreditInv
<1> QED BY <1>0, <1>1, <1>2, <1>5, <1>7, <1>12, <1>13, <1>18, <1>23

(* A state s of the actor that is about to be paid by the report e, and    *)
(* the state t after that.                                                 *)
Paying(s, e, c, rep, fin, rs) ==
    /\ Sound(s, c, rep, fin, rs) /\ Alive(s) /\ s.gate = "open" /\ ~s.rebase
    /\ e \in Envelope /\ Faithful(e, c, rep, fin) /\ Proven(e) /\ e.kind # "initial"
HasBeenPaid(s, t, e, c, rep, fin, rs) ==
    /\ Sound(t, c, rep, fin, rs) /\ Same(s, t) /\ t.pend # Nothing
    /\ t.end.step = e.to /\ t.gate = s.gate /\ t.rebase = s.rebase
    /\ t.pend.done => e.kind = "terminal"
    /\ \A i \in 1..Len(t.rollout): ~t.rollout[i].done

(* An issued sample is taken, and paid for the step that the report proves. *)
LEMMA TakeKeeps ==
    ASSUME NEW c, NEW rep \in Nat, NEW fin, NEW rs, NEW f, NEW e,
           Paying(f, e, c, rep, fin, rs), f.pend = Nothing,
           NEW x \in f.issued, x.id = e.applied,
           NEW kept, kept = [f EXCEPT !.issued = {y \in f.issued: y.id > e.applied}],
           NEW t, t = GiveReward(TakeIssued(kept, x, e.from), e)
    PROVE  HasBeenPaid(f, t, e, c, rep, fin, rs)
<1> /\ Sound(f, c, rep, fin, rs) /\ Alive(f) /\ f.gate = "open" /\ ~f.rebase
    /\ e \in Envelope /\ Faithful(e, c, rep, fin) /\ Proven(e) /\ e.kind # "initial"
  BY DEF Paying
<1>1. /\ f \in Actors /\ IsFiniteSet(f.issued) /\ Cardinality(f.issued) <= MaxUnconfirmed
      /\ RolloutInv(f, c, rep, fin) /\ PendingInv(f, c, rep, fin) /\ IdInv(f, rs)
      /\ TraceOk(f.rollout, c, rep, fin)
  BY SoundParts
<1>2. /\ e.from \in Nat /\ e.from \in Ticks /\ e.to = e.from + 1 /\ e.to \in Ticks
      /\ e.to <= rep /\ c[e.from] = x.id
  BY EnvelopeFields DEF Faithful, Proven
<1>3. PICK n \in Nat: n = e.from
  BY <1>2
<1>4. x \in Sample /\ x.id \in Nat /\ x.id \in Ids /\ x.id # 0 /\ x.tick \in Ticks
  BY <1>1, ActorFields, SampleFields
<1>5. PICK left: left = {y \in f.issued: y.id > e.applied}
  OBVIOUS
<1>6. left \subseteq f.issued /\ \A y \in left: y.id > x.id
  BY <1>5
<1>7. IsFiniteSet(left) /\ Cardinality(left) <= MaxUnconfirmed
  <2>1. IsFiniteSet(left) /\ Cardinality(left) <= Cardinality(f.issued)
    BY <1>1, <1>6, FS_Subset
  <2>2. Cardinality(left) \in Nat /\ Cardinality(f.issued) \in Nat
    BY <1>1, <2>1, FS_CardinalityType
  <2> QED BY <1>1, <2>1, <2>2, CreditAssumption
<1>8. PICK y: y = [id |-> x.id, tick |-> x.tick, steps |-> {}, done |-> FALSE, cut |-> None]
  OBVIOUS
<1>9. /\ y \in Credited /\ y.id = x.id /\ y.tick = x.tick /\ y.steps = {} /\ ~y.done
      /\ y.cut = None
  BY <1>4, <1>8 DEF Credited
<1>10. \A i \in 1..Len(f.rollout): f.rollout[i].id < y.id /\ ~f.rollout[i].done
  <2>1. \A i \in 1..Len(f.rollout): f.rollout[i].id \in HeldIds(f)
    BY DEF HeldIds, IdsOf
  <2> QED BY <1>1, <1>9, <2>1 DEF IdInv, Alive
<1>11. PICK q: q = IF BrokenTrace(kept, x, e.from)
                   THEN [f.rollout EXCEPT ![Len(f.rollout)].cut = RolloutBootstrap(kept)]
                   ELSE f.rollout
  OBVIOUS
<1>12. PICK u: u = [f EXCEPT !.issued = left, !.rollout = q, !.pend = y]
  OBVIOUS
<1>13. /\ kept.rollout = f.rollout /\ kept.rollEnd = f.rollEnd
       /\ kept = [f EXCEPT !.issued = left]
  BY <1>1, <1>5 DEF Actors
<1>14. TakeIssued(kept, x, e.from) = u
  <2>1. TakeIssued(kept, x, e.from) = [kept EXCEPT !.rollout = q, !.pend = y]
    BY <1>8, <1>11, <1>13 DEF TakeIssued
  <2> QED BY <1>1, <1>12, <1>13, <2>1 DEF Actors
<1>15. /\ TraceOk(q, c, rep, fin) /\ (q = <<>> <=> f.rollout = <<>>)
       /\ \A i \in 1..Len(q): q[i].id < y.id /\ ~q[i].done
       /\ \A g: g \in IdsOf(q) <=> g \in IdsOf(f.rollout)
       /\ f.rollout # <<>> =>
            LET l == q[Len(q)]
            IN /\ f.rollEnd.step = LastStep(l) + 1 /\ f.rollEnd.obs /\ ~l.done
               /\ \/ l.cut = None /\ LastStep(l) + 1 = n /\ y.tick = n
                  \/ l.cut = LastStep(l) + 1
  <2>1. CASE f.rollout = <<>>
    <3>1. q = f.rollout
      BY <1>11, <1>13, <2>1 DEF BrokenTrace
    <3> QED BY <1>1, <1>10, <2>1, <3>1
  <2>2. CASE f.rollout # <<>>
    <3>1. PICK m \in Nat: m = Len(f.rollout) /\ m \in 1..m
      BY <1>1, <2>2, TraceIs
    <3>2. PICK l \in Credited: l = f.rollout[m]
      BY <1>1, <3>1, TraceIs
    <3>3. /\ f.rollEnd \in End /\ f.rollEnd # NoEnd
          /\ f.rollEnd.step = LastStep(l) + 1 /\ f.rollEnd.obs /\ ~l.done /\ l.cut = None
      <4>1. f.rollEnd # NoEnd
        BY <1>1, <2>2 DEF RolloutInv
      <4> QED BY <1>1, <1>10, <2>2, <3>1, <3>2, <4>1, ActorFields DEF RolloutInv
    <3>4. CASE BrokenTrace(kept, x, e.from)
      <4>1. RolloutBootstrap(kept) = f.rollEnd.step /\ f.rollEnd.step \in Ticks
        BY <1>13, <3>3, EndFields DEF RolloutBootstrap
      <4>2. PICK v \in Ticks: v = f.rollEnd.step
        BY <4>1
      <4>3. q = [f.rollout EXCEPT ![m].cut = v]
        BY <1>11, <3>1, <3>4, <4>1, <4>2
      <4>4. PICK z: z = [l EXCEPT !.cut = v]
        OBVIOUS
      <4>5. /\ z \in Credited /\ z.id = l.id /\ z.tick = l.tick /\ z.steps = l.steps
            /\ z.done = l.done /\ z.cut = v
        BY <4>4 DEF Credited
      <4>6. q = [f.rollout EXCEPT ![m] = z]
        BY <3>1, <3>2, <4>3, <4>4
      <4>7. FirstStep(z) = FirstStep(l) /\ LastStep(z) = LastStep(l)
        BY <4>5 DEF FirstStep, LastStep
      <4>8. Paid(l, c, rep, fin)
        BY <1>1, <3>1, <3>2, TraceIs
      <4>9. Paid(z, c, rep, fin)
        BY <4>5, <4>7, <4>8 DEF Paid
      <4> DEFINE r == f.rollout
      <4>10. /\ TraceOk(r, c, rep, fin) /\ r # <<>> /\ m = Len(r) /\ z.id = r[Len(r)].id
             /\ z.steps = r[Len(r)].steps /\ z.tick = r[Len(r)].tick
             /\ q = [r EXCEPT ![Len(r)] = z]
        BY <1>1, <2>2, <3>1, <3>2, <4>5, <4>6
      <4> HIDE DEF r
      <4>11. TraceOk(q, c, rep, fin)
        BY <4>9, <4>10, TraceLast, Zenon
      <4>12. /\ q # <<>> /\ Len(q) = Len(r) /\ q[Len(q)] = z
             /\ \A i \in 1..(Len(r) - 1): q[i] = r[i]
        BY <4>9, <4>10, TraceLast
      <4>13. \A i \in 1..m: q[i].id = r[i].id /\ q[i].done = r[i].done
        <5>1. \A i \in 1..m: i \in 1..(m - 1) \/ i = m
          BY <3>1
        <5> QED BY <3>2, <4>5, <4>10, <4>12, <5>1 DEF r
      <4>14. \A g: g \in IdsOf(q) <=> g \in IdsOf(r)
        BY <4>10, <4>12, <4>13 DEF IdsOf
      <4> USE DEF r
      <4>15. /\ z.cut = LastStep(z) + 1 /\ ~z.done /\ f.rollEnd.step = LastStep(z) + 1
        BY <3>3, <4>2, <4>5, <4>7
      <4> QED BY <1>10, <2>2, <3>3, <4>10, <4>11, <4>12, <4>13, <4>14, <4>15
    <3>5. CASE ~BrokenTrace(kept, x, e.from)
      <4>1. q = f.rollout
        BY <1>11, <3>5
      <4>2. f.rollEnd.step = n /\ x.tick = n
        BY <1>3, <1>13, <2>2, <3>3, <3>5 DEF BrokenTrace
      <4> QED BY <1>1, <1>9, <1>10, <2>2, <3>1, <3>2, <3>3, <4>1, <4>2
    <3> QED BY <3>4, <3>5
  <2> QED BY <2>1, <2>2
<1>16. /\ u \in Actors /\ u.pend = y /\ u.rollout = q /\ u.rollEnd = f.rollEnd
       /\ u.issued = left /\ u.gate = f.gate /\ u.rebase = f.rebase /\ Same(f, u)
  <2>1. q \in Seq(Credited) /\ left \subseteq Sample
    BY <1>1, <1>6, <1>15, ActorFields DEF TraceOk
  <2> QED BY <1>1, <1>9, <1>12, <2>1 DEF Actors, Same
<1>17. IdInv(u, rs)
  <2>1. HeldIds(f) = IdsOf(f.rollout)
    BY DEF HeldIds
  <2>2. \A g: g \in HeldIds(u) <=> g \in HeldIds(f) \/ g = x.id
    <3>1. u.pend # Nothing
      BY <1>9, <1>16, CreditedFields
    <3> QED BY <1>9, <1>15, <1>16, <2>1, <3>1 DEF HeldIds
  <2>3. \A g \in GivenIds(rs), h \in HeldIds(u): g < h
    BY <1>1, <2>2 DEF IdInv
  <2>4. \A g \in GivenIds(rs) \cup HeldIds(u):
          g \in Nat /\ g <= u.counter /\ (u.pc = "sending" => g < u.counter)
    BY <1>1, <1>4, <1>16, <2>2 DEF IdInv, Same
  <2>5. \A g \in GivenIds(rs) \cup HeldIds(u), z \in left: g < z.id
    BY <1>1, <1>6, <2>2 DEF IdInv
  <2>6. \A z \in left: z.id <= u.counter /\ (u.pc = "sending" => z.id < u.counter)
    BY <1>1, <1>6, <1>16 DEF IdInv, Same
  <2>7. u.pc = "sending" => u.sample \in Sample /\ u.sample.id = u.counter
    BY <1>1, <1>16 DEF IdInv, Same
  <2> QED BY <1>16, <2>3, <2>4, <2>5, <2>6, <2>7 DEF IdInv
<1>18. t = GiveReward(u, e)
  BY <1>14
<1>19. /\ Sound(t, c, rep, fin, rs) /\ Same(u, t) /\ t.pend # Nothing
       /\ t.end.step = e.to /\ t.gate = u.gate /\ t.rebase = u.rebase
       /\ t.rollout = u.rollout
       /\ t.pend.done => e.kind = "terminal"
  <2>1. /\ e.from \in Nat /\ e.from <= e.from /\ y.steps = e.from..(e.from - 1)
        /\ \A s \in y.steps: c[s] = y.id
    BY <1>2, <1>9
  <2>2. u.rollout = <<>> <=> u.rollEnd = NoEnd
    BY <1>1, <1>15, <1>16 DEF RolloutInv
  <2>3. GoesOn(u, e.from, y.tick)
    BY <1>3, <1>15, <1>16 DEF GoesOn
  <2>4. \A i \in 1..Len(u.rollout): u.rollout[i].id < y.id
    BY <1>15, <1>16
  <2>5. TraceOk(u.rollout, c, rep, fin) /\ u.gate = "open" /\ ~u.rebase
    BY <1>15, <1>16
  <2>6. IsFiniteSet(u.issued) /\ Cardinality(u.issued) <= MaxUnconfirmed /\ y.id = e.applied
    BY <1>7, <1>9, <1>16
  <2>7. u \in Actors /\ y \in Credited /\ u.pend = y /\ y.cut = None
    BY <1>9, <1>16
  <2>8. Faithful(e, c, rep, fin) /\ Proven(e) /\ e.kind # "initial"
    OBVIOUS
  <2>9. Payable(u, y, e.from, e, c, rep, fin, rs)
    BY <1>17, <2>1, <2>2, <2>3, <2>4, <2>5, <2>6, <2>7, <2>8 DEF Payable
  <2> QED BY <1>18, <2>9, RewardKeeps
<1>20. Same(f, t)
  BY <1>16, <1>19 DEF Same
<1> QED BY <1>15, <1>16, <1>19, <1>20 DEF HasBeenPaid

(* The pending sample is paid on.                                          *)
LEMMA GoOnKeeps ==
    ASSUME NEW c, NEW rep \in Nat, NEW fin, NEW rs, NEW s, NEW e,
           Paying(s, e, c, rep, fin, rs),
           s.pend # Nothing, s.pend.id = e.applied, PaidUpTo(s, e.from),
           NEW t, t = GiveReward(s, e)
    PROVE  HasBeenPaid(s, t, e, c, rep, fin, rs)
<1> /\ Sound(s, c, rep, fin, rs) /\ Alive(s) /\ s.gate = "open" /\ ~s.rebase
    /\ e \in Envelope /\ Faithful(e, c, rep, fin) /\ Proven(e) /\ e.kind # "initial"
  BY DEF Paying
<1>1. /\ s \in Actors /\ IsFiniteSet(s.issued) /\ Cardinality(s.issued) <= MaxUnconfirmed
      /\ RolloutInv(s, c, rep, fin) /\ PendingInv(s, c, rep, fin) /\ IdInv(s, rs)
      /\ TraceOk(s.rollout, c, rep, fin)
  BY SoundParts
<1>2. PICK x \in Credited: x = s.pend
  BY <1>1, ActorFields
<1>3. /\ Paid(x, c, rep, fin) /\ x.cut = None /\ s.end.step = LastStep(x) + 1
      /\ \A i \in 1..Len(s.rollout): s.rollout[i].id < x.id
      /\ s.rollout # <<>> => Joined(s.rollout[Len(s.rollout)], x)
      /\ s.end.step = e.from
  BY <1>1, <1>2 DEF PendingInv, PaidUpTo
<1>4. PICK a \in Nat: a = FirstStep(x)
  BY <1>3 DEF Paid
<1>5. PICK b \in Nat: b = LastStep(x)
  BY <1>3 DEF Paid
<1>6. a <= b /\ x.steps = a..b /\ \A n \in x.steps: c[n] = x.id
  BY <1>3, <1>4, <1>5 DEF Paid
<1>7. e.from = b + 1 /\ e.from - 1 = b
  BY <1>3, <1>5
<1>8. GoesOn(s, a, x.tick)
  <2>1. ASSUME s.rollout # <<>>
        PROVE LET l == s.rollout[Len(s.rollout)]
              IN /\ s.rollEnd.step = LastStep(l) + 1 /\ s.rollEnd.obs /\ ~l.done
                 /\ \/ l.cut = None /\ LastStep(l) + 1 = a /\ x.tick = a
                    \/ l.cut = LastStep(l) + 1
    <3>1. PICK l: l = s.rollout[Len(s.rollout)]
      OBVIOUS
    <3>2. Joined(l, x)
      BY <1>3, <2>1, <3>1
    <3>3. s.rollEnd.step = LastStep(l) + 1 /\ (l.done \/ s.rollEnd.obs)
      BY <1>1, <2>1, <3>1 DEF RolloutInv
    <3>4. /\ ~l.done
          /\ \/ l.cut = None /\ a = LastStep(l) + 1 /\ x.tick = a
             \/ l.cut = LastStep(l) + 1
      BY <1>4, <3>2 DEF Joined
    <3> QED BY <3>1, <3>3, <3>4
  <2> QED BY <2>1 DEF GoesOn
<1>9. Payable(s, x, a, e, c, rep, fin, rs)
  <2>1. a <= e.from /\ x.steps = a..(e.from - 1)
    BY <1>6, <1>7
  <2>2. s.rollout = <<>> <=> s.rollEnd = NoEnd
    BY <1>1 DEF RolloutInv
  <2> QED BY <1>1, <1>2, <1>3, <1>4, <1>6, <1>8, <2>1, <2>2 DEF Payable
<1>10. /\ Sound(t, c, rep, fin, rs) /\ Same(s, t) /\ t.pend # Nothing
       /\ t.end.step = e.to /\ t.gate = s.gate /\ t.rebase = s.rebase
       /\ t.rollout = s.rollout
       /\ t.pend.done => e.kind = "terminal"
  BY <1>9, RewardKeeps
<1> QED BY <1>10 DEF Alive, HasBeenPaid

LEMMA SameTwice ==
    ASSUME NEW s, NEW f, NEW t, Same(s, f), Same(f, t)
    PROVE  Same(s, t)
BY DEF Same

LEMMA CreditKeeps ==
    ASSUME NEW c, NEW rep \in Nat, NEW fin, NEW rs, NEW s, Sound(s, c, rep, fin, rs),
           Alive(s), ~s.rebase, NEW e \in Envelope, Faithful(e, c, rep, fin),
           PaidUpTo(s, e.from), NEW t, t = CreditAction(s, e)
    PROVE  /\ Sound(t, c, rep, fin, rs) /\ Same(s, t) /\ PaidUpTo(t, e.to)
           /\ t.gate = s.gate /\ t.rebase = s.rebase
           /\ e.kind # "terminal" => Alive(t)
<1>1. /\ s \in Actors /\ PendingInv(s, c, rep, fin)
  BY SoundParts
<1>2. Same(s, s)
  BY DEF Same
<1>3. CASE s.gate # "open" \/ e.kind = "initial"
  <2>1. t = s
    BY <1>3 DEF CreditAction
  <2>2. CASE s.gate # "open"
    <3>1. s.pend = Nothing
      BY <1>1, <2>2 DEF PendingInv
    <3> QED BY <1>2, <2>1, <3>1 DEF PaidUpTo
  <2>3. CASE e.kind = "initial"
    <3>1. e.to = e.from
      BY <2>3 DEF Faithful
    <3> QED BY <1>2, <2>1, <3>1
  <2> QED BY <1>3, <2>2, <2>3
<1>4. CASE s.gate = "open" /\ e.kind # "initial"
  <2>1. PICK f: f = IF ~Proven(e) \/ s.pend.id # e.applied THEN FinishCreditedAction(s) ELSE s
    OBVIOUS
  <2>2. PICK kept: kept = [f EXCEPT !.issued = {x \in f.issued: x.id > e.applied}]
    OBVIOUS
  <2>3. PICK match: match = {x \in f.issued: x.id = e.applied}
    OBVIOUS
  <2>4. t = IF ~Proven(e) THEN f
            ELSE IF f.pend # Nothing THEN GiveReward(f, e)
            ELSE IF match = {} THEN kept
            ELSE GiveReward(TakeIssued(kept, CHOOSE x \in match: TRUE, e.from), e)
    BY <1>4, <2>1, <2>2, <2>3 DEF CreditAction
  <2>5. CASE Proven(e) /\ s.pend.id = e.applied
    <3>1. f = s /\ s.pend # Nothing
      BY <2>1, <2>5 DEF Proven, Nothing
    <3>2. t = GiveReward(s, e)
      BY <2>4, <2>5, <3>1
    <3>3. Paying(s, e, c, rep, fin, rs)
      BY <1>4, <2>5 DEF Paying
    <3>4. HasBeenPaid(s, t, e, c, rep, fin, rs)
      BY <2>5, <3>1, <3>2, <3>3, GoOnKeeps
    <3> QED BY <3>4 DEF PaidUpTo, Alive, HasBeenPaid
  <2>6. CASE ~Proven(e) \/ s.pend.id # e.applied
    <3>1. f = FinishCreditedAction(s)
      BY <2>1, <2>6
    <3>2. /\ Sound(f, c, rep, fin, rs) /\ f.pend = Nothing
          /\ Same(s, f) /\ f.gate = s.gate /\ f.rebase = s.rebase /\ Alive(f)
      BY <3>1, FinishKeeps
    <3>3. CASE ~Proven(e)
      <4>1. t = f
        BY <2>4, <3>3
      <4> QED BY <3>2, <4>1 DEF PaidUpTo
    <3>4. CASE Proven(e) /\ match = {}
      <4>1. t = kept
        BY <2>4, <3>2, <3>4
      <4>2. /\ f \in Actors /\ IsFiniteSet(f.issued) /\ Cardinality(f.issued) <= MaxUnconfirmed
            /\ RolloutInv(f, c, rep, fin) /\ PendingInv(f, c, rep, fin) /\ IdInv(f, rs)
        BY <3>2, SoundParts
      <4>3. PICK left: left = {x \in f.issued: x.id > e.applied}
        OBVIOUS
      <4>4. left \subseteq f.issued
        BY <4>3
      <4>5. t = [f EXCEPT !.issued = left]
        BY <2>2, <4>1, <4>3
      <4>6. /\ t \in Actors /\ Same(f, t) /\ t.issued = left /\ t.gate = f.gate
            /\ t.rebase = f.rebase /\ t.pend = f.pend /\ t.end = f.end
            /\ t.rollout = f.rollout /\ t.rollEnd = f.rollEnd
        BY <4>2, <4>4, <4>5 DEF Actors, Same
      <4>7. IsFiniteSet(left) /\ Cardinality(left) <= MaxUnconfirmed
        <5>1. IsFiniteSet(left) /\ Cardinality(left) <= Cardinality(f.issued)
          BY <4>2, <4>4, FS_Subset
        <5>2. Cardinality(left) \in Nat /\ Cardinality(f.issued) \in Nat
          BY <4>2, <5>1, FS_CardinalityType
        <5> QED BY <4>2, <5>1, <5>2, CreditAssumption
      <4>8. RolloutInv(t, c, rep, fin) /\ PendingInv(t, c, rep, fin)
        BY <4>2, <4>6 DEF RolloutInv, PendingInv
      <4>9. IdInv(t, rs)
        <5>1. HeldIds(t) = HeldIds(f)
          BY <4>6 DEF HeldIds
        <5> QED BY <4>2, <4>4, <4>6, <5>1 DEF IdInv, Same
      <4>10. Sound(t, c, rep, fin, rs)
        BY <4>6, <4>7, <4>8, <4>9 DEF Sound, CreditInv
      <4>11. Alive(t) /\ PaidUpTo(t, e.to)
        BY <3>2, <4>6 DEF Alive, PaidUpTo
      <4> QED BY <3>2, <4>6, <4>10, <4>11, SameTwice
    <3>5. CASE Proven(e) /\ match # {}
      <4>1. PICK x: x = CHOOSE y \in match: TRUE
        OBVIOUS
      <4>2. x \in f.issued /\ x.id = e.applied
        BY <2>3, <3>5, <4>1
      <4>3. t = GiveReward(TakeIssued(kept, x, e.from), e)
        BY <2>4, <3>2, <3>5, <4>1
      <4>4. Paying(f, e, c, rep, fin, rs)
        BY <1>4, <3>2, <3>5 DEF Paying
      <4>5. HasBeenPaid(f, t, e, c, rep, fin, rs)
        BY <2>2, <3>2, <4>2, <4>3, <4>4, TakeKeeps
      <4> QED BY <3>2, <4>5, SameTwice DEF PaidUpTo, Alive, HasBeenPaid
    <3> QED BY <3>3, <3>4, <3>5
  <2> QED BY <2>5, <2>6
<1> QED BY <1>3, <1>4

(* What a helper that touches nothing but the gate keeps.                  *)
GateOnly(s, t, c, rep, fin, rs) ==
    /\ Sound(t, c, rep, fin, rs) /\ Same(s, t) /\ t.rebase = s.rebase
    /\ t.pend = s.pend /\ t.end = s.end /\ t.rollout = s.rollout

(* The gate of a synchronous actor opens and closes.                       *)
LEMMA GateKeeps ==
    ASSUME NEW c, NEW rep, NEW fin, NEW rs, NEW s, Sound(s, c, rep, fin, rs),
           NEW g \in {"closed", "fenced", "open"}, NEW n \in 0..MaxId, s.pend = Nothing,
           NEW t, t = [s EXCEPT !.gate = g, !.fence = n]
    PROVE  GateOnly(s, t, c, rep, fin, rs)
<1>1. /\ s \in Actors /\ IsFiniteSet(s.issued) /\ Cardinality(s.issued) <= MaxUnconfirmed
      /\ RolloutInv(s, c, rep, fin) /\ PendingInv(s, c, rep, fin) /\ IdInv(s, rs)
  BY SoundParts
<1>2. /\ t \in Actors /\ Same(s, t) /\ t.issued = s.issued /\ t.gate = g /\ t.fence = n
      /\ t.rebase = s.rebase /\ t.pend = s.pend /\ t.end = s.end
      /\ t.rollout = s.rollout /\ t.rollEnd = s.rollEnd
  BY <1>1 DEF Actors, Same
<1>3. RolloutInv(t, c, rep, fin) /\ PendingInv(t, c, rep, fin)
  BY <1>1, <1>2 DEF RolloutInv, PendingInv
<1>4. IdInv(t, rs)
  <2>1. HeldIds(t) = HeldIds(s)
    BY <1>2 DEF HeldIds
  <2> QED BY <1>1, <1>2, <2>1 DEF IdInv, Same
<1> QED BY <1>1, <1>2, <1>3, <1>4 DEF Sound, CreditInv, GateOnly

LEMMA RefreshKeeps ==
    ASSUME NEW c, NEW rep, NEW fin, NEW rs, NEW s, Sound(s, c, rep, fin, rs),
           NEW advanced, NEW t, t = RefreshCollectionEpoch(s, advanced)
    PROVE  GateOnly(s, t, c, rep, fin, rs)
<1>1. s \in Actors /\ PendingInv(s, c, rep, fin)
  BY SoundParts
<1>2. CASE s.gated /\ advanced /\ s.gate = "closed"
  <2>1. t = [s EXCEPT !.gate = "fenced", !.fence = 0]
    BY <1>2 DEF RefreshCollectionEpoch
  <2>2. s.pend = Nothing
    BY <1>1, <1>2 DEF PendingInv
  <2>3. 0 \in 0..MaxId /\ "fenced" \in {"closed", "fenced", "open"}
    BY CreditAssumption
  <2> QED BY <2>1, <2>2, <2>3, GateKeeps
<1>3. CASE ~(s.gated /\ advanced /\ s.gate = "closed")
  <2>1. t = s
    BY <1>3, Zenon DEF RefreshCollectionEpoch
  <2> QED BY <2>1 DEF GateOnly, Same
<1> QED BY <1>2, <1>3

LEMMA FenceKeeps ==
    ASSUME NEW c, NEW rep, NEW fin, NEW rs, NEW s, Sound(s, c, rep, fin, rs),
           NEW e, NEW t, t = ObserveCollectionFence(s, e)
    PROVE  GateOnly(s, t, c, rep, fin, rs)
<1>1. s \in Actors /\ PendingInv(s, c, rep, fin)
  BY SoundParts
<1>2. CASE s.gate = "fenced" /\ s.fence # 0 /\ e.applied >= s.fence
  <2>1. t = [s EXCEPT !.gate = "open"]
    BY <1>2 DEF ObserveCollectionFence
  <2>2. PICK n \in 0..MaxId: n = s.fence
    BY <1>1 DEF Actors
  <2>3. t = [s EXCEPT !.gate = "open", !.fence = n]
    BY <1>1, <2>1, <2>2 DEF Actors
  <2>4. s.pend = Nothing
    BY <1>1, <1>2 DEF PendingInv
  <2>5. "open" \in {"closed", "fenced", "open"}
    OBVIOUS
  <2> QED BY <2>3, <2>4, <2>5, GateKeeps
<1>3. CASE ~(s.gate = "fenced" /\ s.fence # 0 /\ e.applied >= s.fence)
  <2>1. t = s
    BY <1>3, Zenon DEF ObserveCollectionFence
  <2> QED BY <2>1 DEF GateOnly, Same
<1> QED BY <1>2, <1>3

(* An envelope is accounted for.                                           *)
Accounted(s, t, e, c, rep, fin, rs) ==
    /\ Sound(t, c, rep, fin, rs) /\ Same(s, t) /\ PaidUpTo(t, e.to) /\ ~t.rebase
    /\ e.kind # "terminal" => Alive(t)

LEMMA AccountKeeps ==
    ASSUME NEW c, NEW rep \in Nat, NEW fin, NEW rs, NEW s, Sound(s, c, rep, fin, rs),
           Alive(s), NEW e \in Envelope, Faithful(e, c, rep, fin), PaidUpTo(s, e.from),
           NEW advanced, NEW t, t = AccountEnvelope(s, e, advanced)
    PROVE  Accounted(s, t, e, c, rep, fin, rs)
<1>1. PICK q: q = RefreshCollectionEpoch(s, advanced)
  OBVIOUS
<1>2. GateOnly(s, q, c, rep, fin, rs)
  BY <1>1, RefreshKeeps
<1>3. Sound(q, c, rep, fin, rs)
  BY <1>2 DEF GateOnly
<1>4. PICK u: u = ObserveCollectionFence(q, e)
  OBVIOUS
<1>5. GateOnly(q, u, c, rep, fin, rs)
  BY <1>3, <1>4, FenceKeeps
<1>6. GateOnly(s, u, c, rep, fin, rs)
  BY <1>2, <1>5 DEF GateOnly, Same
<1>7. t = IF s.rebase THEN [u EXCEPT !.rebase = FALSE] ELSE CreditAction(u, e)
  BY <1>1, <1>4 DEF AccountEnvelope
<1>8. Alive(u) /\ PaidUpTo(u, e.from) /\ Sound(u, c, rep, fin, rs)
  BY <1>6 DEF GateOnly, Alive, PaidUpTo
<1>9. CASE s.rebase
  <2>1. t = [u EXCEPT !.rebase = FALSE]
    BY <1>7, <1>9
  <2>2. /\ u \in Actors /\ IsFiniteSet(u.issued) /\ Cardinality(u.issued) <= MaxUnconfirmed
        /\ RolloutInv(u, c, rep, fin) /\ PendingInv(u, c, rep, fin) /\ IdInv(u, rs)
    BY <1>8, SoundParts
  <2>3. u.pend = Nothing
    BY <1>6, <1>9, <2>2 DEF PendingInv, GateOnly
  <2>4. /\ t \in Actors /\ Same(u, t) /\ t.issued = u.issued /\ t.gate = u.gate
        /\ ~t.rebase /\ t.pend = u.pend /\ t.end = u.end
        /\ t.rollout = u.rollout /\ t.rollEnd = u.rollEnd
    BY <2>1, <2>2 DEF Actors, Same
  <2>5. RolloutInv(t, c, rep, fin) /\ PendingInv(t, c, rep, fin)
    BY <2>2, <2>3, <2>4 DEF RolloutInv, PendingInv
  <2>6. IdInv(t, rs)
    <3>1. HeldIds(t) = HeldIds(u)
      BY <2>4 DEF HeldIds
    <3> QED BY <2>2, <2>4, <3>1 DEF IdInv, Same
  <2>7. Sound(t, c, rep, fin, rs)
    BY <2>2, <2>4, <2>5, <2>6 DEF Sound, CreditInv
  <2>8. Alive(t) /\ PaidUpTo(t, e.to)
    BY <1>8, <2>3, <2>4 DEF Alive, PaidUpTo
  <2>9. Same(s, t)
    BY <1>6, <2>4 DEF GateOnly, Same
  <2> QED BY <2>4, <2>7, <2>8, <2>9 DEF Accounted
<1>10. CASE ~s.rebase
  <2>1. t = CreditAction(u, e) /\ ~u.rebase
    BY <1>6, <1>7, <1>10 DEF GateOnly
  <2>2. /\ Sound(t, c, rep, fin, rs) /\ Same(u, t) /\ PaidUpTo(t, e.to)
        /\ t.gate = u.gate /\ t.rebase = u.rebase
        /\ e.kind # "terminal" => Alive(t)
    BY <1>8, <2>1, CreditKeeps
  <2> QED BY <1>6, <2>1, <2>2, SameTwice DEF Accounted, GateOnly
<1> QED BY <1>9, <1>10

-----------------------------------------------------------------------------
(* A rollout is submitted.                                                 *)

LEMMA EmptyTrace ==
    ASSUME NEW c, NEW rep, NEW fin
    PROVE  TraceOk(<<>>, c, rep, fin) /\ IdsOf(<<>>) = {}
<1>1. Len(<<>>) = 0 /\ <<>> \in Seq(Credited)
  BY EmptySeq
<1>2. 1..0 = {} /\ 1..(0 - 1) = {}
  OBVIOUS
<1> QED BY <1>1, <1>2 DEF TraceOk, IdsOf

LEMMA ClearKeeps ==
    ASSUME NEW c, NEW rep, NEW fin, NEW rs, NEW s, Sound(s, c, rep, fin, rs),
           s.pend = Nothing \/ s.rollout = <<>>, NEW t, t = ClearUnfinishedActions(s)
    PROVE  /\ Sound(t, c, rep, fin, rs) /\ Same(s, t) /\ t.rebase = s.rebase
           /\ t.rollout = s.rollout /\ t.rollEnd = s.rollEnd /\ t.pend = Nothing
           /\ t.end = NoEnd /\ t.gate = s.gate /\ t.issued = {}
<1>1. /\ s \in Actors /\ IsFiniteSet(s.issued) /\ Cardinality(s.issued) <= MaxUnconfirmed
      /\ RolloutInv(s, c, rep, fin) /\ PendingInv(s, c, rep, fin) /\ IdInv(s, rs)
  BY SoundParts
<1>2. /\ t \in Actors /\ Same(s, t) /\ t.issued = {} /\ t.gate = s.gate
      /\ t.rebase = s.rebase /\ t.pend = Nothing /\ t.end = NoEnd
      /\ t.rollout = s.rollout /\ t.rollEnd = s.rollEnd
  BY <1>1 DEF ClearUnfinishedActions, Actors, Same
<1>3. IsFiniteSet({}) /\ Cardinality({}) <= MaxUnconfirmed
  BY CreditAssumption, FS_EmptySet
<1>4. RolloutInv(t, c, rep, fin)
  BY <1>1, <1>2 DEF RolloutInv
<1>5. PendingInv(t, c, rep, fin)
  BY <1>2 DEF PendingInv
<1>6. IdInv(t, rs)
  <2>1. HeldIds(t) \subseteq HeldIds(s)
    BY <1>2 DEF HeldIds
  <2> QED BY <1>1, <1>2, <2>1 DEF IdInv, Same
<1> QED BY <1>2, <1>3, <1>4, <1>5, <1>6 DEF Sound, CreditInv

(* The rollouts given away are in order.                                   *)
GivenOk(rs, c, rep, fin) == rs \subseteq Rollouts /\ GivenInv(rs, c, rep, fin)

LEMMA AdmitKeeps ==
    ASSUME NEW c, NEW rep, NEW fin, NEW rs, NEW s, Sound(s, c, rep, fin, rs),
           GivenOk(rs, c, rep, fin), NEW qs, qs = rs \cup Admitted(s)
    PROVE  /\ GivenOk(qs, c, rep, fin)
           /\ \A g: g \in GivenIds(qs) => g \in GivenIds(rs) \/ g \in IdsOf(s.rollout)
<1>1. /\ s \in Actors /\ RolloutInv(s, c, rep, fin) /\ IdInv(s, rs)
      /\ TraceOk(s.rollout, c, rep, fin)
  BY SoundParts
<1>2. CASE s.rollout = <<>> \/ s.gate = "closed"
  <2>1. qs = rs
    BY <1>2 DEF Admitted
  <2> QED BY <2>1
<1>3. CASE s.rollout # <<>> /\ s.gate # "closed"
  <2>1. PICK b: b = RolloutBootstrap(s)
    OBVIOUS
  <2>2. PICK r: r = [rollout |-> s.rollout, boot |-> b]
    OBVIOUS
  <2>3. qs = rs \cup {r}
    BY <1>3, <2>1, <2>2 DEF Admitted
  <2>4. /\ s.rollEnd # NoEnd /\ s.rollEnd \in End
        /\ s.rollEnd.step = LastStep(s.rollout[Len(s.rollout)]) + 1
        /\ s.rollout[Len(s.rollout)].done \/ s.rollEnd.obs
    BY <1>1, <1>3, ActorFields DEF RolloutInv
  <2>5. b \in Ticks \cup {Zero}
    BY <2>1, <2>4, EndFields DEF RolloutBootstrap
  <2>6. r \in Rollouts /\ r.rollout = s.rollout /\ r.boot = b
    BY <1>1, <2>2, <2>5, ActorFields DEF Rollouts
  <2>7. /\ TraceOk(r.rollout, c, rep, fin) /\ r.rollout # <<>>
        /\ LET x == r.rollout[Len(r.rollout)] IN x.done \/ r.boot = LastStep(x) + 1
    BY <1>1, <1>3, <2>1, <2>4, <2>6 DEF RolloutBootstrap
  <2>8. \A q \in rs: \A g \in IdsOf(q.rollout), h \in IdsOf(s.rollout): g < h /\ h \in Nat
    <3>1. \A q \in rs: \A g \in IdsOf(q.rollout): g \in GivenIds(rs)
      BY DEF GivenIds
    <3>2. \A h \in IdsOf(s.rollout): h \in HeldIds(s) /\ h \in Nat
      BY <1>1, TraceIs DEF HeldIds, IdsOf
    <3> QED BY <1>1, <3>1, <3>2 DEF IdInv
  <2>9. \A q \in rs: IdsOf(q.rollout) \cap IdsOf(s.rollout) = {}
    BY <2>8
  <2>10. GivenInv(qs, c, rep, fin)
    <3>1. \A q \in qs: q \in rs \/ q = r
      BY <2>3
    <3>2. \A q \in qs:
            /\ TraceOk(q.rollout, c, rep, fin) /\ q.rollout # <<>>
            /\ LET x == q.rollout[Len(q.rollout)] IN x.done \/ q.boot = LastStep(x) + 1
      BY <2>7, <3>1 DEF GivenOk, GivenInv
    <3>3. ASSUME NEW p \in qs, NEW q \in qs, p.rollout # q.rollout
          PROVE  IdsOf(p.rollout) \cap IdsOf(q.rollout) = {}
      <4>1. CASE p \in rs /\ q \in rs
        BY <3>3, <4>1 DEF GivenOk, GivenInv
      <4>2. CASE p \in rs /\ q = r
        BY <2>6, <2>9, <4>2
      <4>3. CASE p = r /\ q \in rs
        BY <2>6, <2>9, <4>3
      <4> QED BY <3>1, <3>3, <4>1, <4>2, <4>3
    <3> QED BY <3>2, <3>3 DEF GivenInv
  <2>11. \A g: g \in GivenIds(qs) => g \in GivenIds(rs) \/ g \in IdsOf(s.rollout)
    BY <2>3, <2>6 DEF GivenIds
  <2>12. qs \subseteq Rollouts
    BY <2>3, <2>6 DEF GivenOk
  <2> QED BY <2>10, <2>11, <2>12 DEF GivenOk
<1> QED BY <1>2, <1>3

(* What becomes of the actor and of what it gave away.                     *)
GivesAway(s, t, rs, qs, c, rep, fin) ==
    /\ Sound(t, c, rep, fin, qs) /\ GivenOk(qs, c, rep, fin)
    /\ Same(s, t) /\ t.rebase = s.rebase
    /\ Alive(s) => Alive(t)
    /\ t.pend # Nothing => t.pend = s.pend /\ t.end = s.end
    /\ s.gated => t.pend = Nothing

LEMMA SubmitKeeps ==
    ASSUME NEW c, NEW rep, NEW fin, NEW rs, NEW s, Sound(s, c, rep, fin, rs),
           GivenOk(rs, c, rep, fin), NEW qs, qs = rs \cup Admitted(s),
           NEW t, t = Submitted(s)
    PROVE  GivesAway(s, t, rs, qs, c, rep, fin)
<1>1. /\ s \in Actors /\ IsFiniteSet(s.issued) /\ Cardinality(s.issued) <= MaxUnconfirmed
      /\ RolloutInv(s, c, rep, fin) /\ PendingInv(s, c, rep, fin) /\ IdInv(s, rs)
      /\ TraceOk(s.rollout, c, rep, fin)
  BY SoundParts
<1>2. /\ GivenOk(qs, c, rep, fin)
      /\ \A g: g \in GivenIds(qs) => g \in GivenIds(rs) \/ g \in IdsOf(s.rollout)
  BY AdmitKeeps
<1>3. PICK u: u = [s EXCEPT !.rollout = <<>>, !.rollEnd = NoEnd]
  OBVIOUS
<1>4. /\ u \in Actors /\ Same(s, u) /\ u.issued = s.issued /\ u.gate = s.gate
      /\ u.rebase = s.rebase /\ u.pend = s.pend /\ u.end = s.end
      /\ u.rollout = <<>> /\ u.rollEnd = NoEnd
  <2>1. <<>> \in Seq(Credited)
    OBVIOUS
  <2> QED BY <1>1, <1>3, <2>1 DEF Actors, Same
<1>5. TraceOk(<<>>, c, rep, fin) /\ IdsOf(<<>>) = {} /\ Len(<<>>) = 0 /\ 1..0 = {}
  BY EmptyTrace
<1>6. RolloutInv(u, c, rep, fin)
  BY <1>4, <1>5 DEF RolloutInv
<1>7. PendingInv(u, c, rep, fin)
  BY <1>1, <1>4, <1>5 DEF PendingInv
<1>8. \A h \in HeldIds(u): h \in HeldIds(s) /\ h = s.pend.id /\ s.pend # Nothing
  BY <1>4, <1>5 DEF HeldIds
<1>9. IdInv(u, qs)
  <2>1. \A g \in IdsOf(s.rollout): g \in HeldIds(s)
    BY DEF HeldIds
  <2>2. \A g \in GivenIds(qs), h \in HeldIds(u): g < h
    <3>1. ASSUME NEW g \in IdsOf(s.rollout), NEW h \in HeldIds(u) PROVE g < h
      BY <1>1, <1>8 DEF IdsOf, PendingInv
    <3> QED BY <1>1, <1>2, <1>8, <3>1 DEF IdInv
  <2>3. \A g \in GivenIds(qs) \cup HeldIds(u): g \in GivenIds(rs) \cup HeldIds(s)
    BY <1>2, <1>8, <2>1
  <2> QED BY <1>1, <1>4, <2>2, <2>3 DEF IdInv, Same
<1>10. Sound(u, c, rep, fin, qs)
  BY <1>1, <1>4, <1>6, <1>7, <1>9 DEF Sound, CreditInv
<1>11. Alive(s) => Alive(u)
  BY <1>4, <1>5 DEF Alive
<1>12. CASE s.gated /\ s.gate # "closed"
  <2>1. PICK w: w = ClearUnfinishedActions(u)
    OBVIOUS
  <2>2. /\ Sound(w, c, rep, fin, qs) /\ Same(u, w) /\ w.rebase = u.rebase
        /\ w.rollout = u.rollout /\ w.rollEnd = u.rollEnd /\ w.pend = Nothing
        /\ w.end = NoEnd /\ w.gate = u.gate /\ w.issued = {}
    BY <1>4, <1>10, <2>1, ClearKeeps
  <2>3. w \in Actors
    BY <2>2, SoundParts
  <2>4. t = [w EXCEPT !.gate = "closed"]
    BY <1>3, <1>12, <2>1 DEF Submitted
  <2>5. PICK n \in 0..MaxId: n = w.fence
    BY <2>3 DEF Actors
  <2>6. t = [w EXCEPT !.gate = "closed", !.fence = n]
    BY <2>3, <2>4, <2>5 DEF Actors
  <2>7. GateOnly(w, t, c, rep, fin, qs)
    <3>1. "closed" \in {"closed", "fenced", "open"}
      OBVIOUS
    <3> QED BY <2>2, <2>6, <3>1, GateKeeps
  <2>8. t.pend = Nothing /\ Alive(t) /\ Sound(t, c, rep, fin, qs)
    BY <1>4, <1>5, <2>2, <2>7 DEF GateOnly, Alive
  <2>9. Same(s, t) /\ t.rebase = s.rebase
    BY <1>4, <2>2, <2>7 DEF GateOnly, Same
  <2> QED BY <1>2, <2>8, <2>9 DEF GivesAway
<1>13. CASE ~(s.gated /\ s.gate # "closed")
  <2>1. t = u
    BY <1>3, <1>13, Zenon DEF Submitted
  <2>2. s.gated => s.pend = Nothing
    BY <1>1, <1>13 DEF PendingInv
  <2> QED BY <1>2, <1>4, <1>10, <1>11, <2>1, <2>2 DEF GivesAway
<1> QED BY <1>12, <1>13

LEMMA PaidUpToSubmitted ==
    ASSUME NEW s, NEW t, t.pend # Nothing => t.pend = s.pend /\ t.end = s.end,
           NEW n, PaidUpTo(s, n)
    PROVE  PaidUpTo(t, n)
BY DEF PaidUpTo

-----------------------------------------------------------------------------
(* What has been reported stays so.                                        *)

Later(c, d, rep, rep2, fin, fin2) ==
    /\ rep \in Nat /\ rep2 \in Nat /\ rep <= rep2
    /\ \A t \in Nat: t < rep => d[t] = c[t]
    /\ fin = "terminal" => rep2 = rep /\ fin2 = fin

LEMMA LaterPaid ==
    ASSUME NEW c, NEW d, NEW rep, NEW rep2, NEW fin, NEW fin2,
           Later(c, d, rep, rep2, fin, fin2), NEW x, Paid(x, c, rep, fin)
    PROVE  Paid(x, d, rep2, fin2)
<1>1. PICK a \in Nat: a = FirstStep(x)
  BY DEF Paid
<1>2. PICK b \in Nat: b = LastStep(x)
  BY DEF Paid
<1>3. x \in Credited /\ a <= b /\ b < rep /\ x.steps = a..b /\ \A t \in x.steps: c[t] = x.id
  BY <1>1, <1>2 DEF Paid
<1>4. x.done => fin = "terminal" /\ b + 1 = rep
  BY <1>2 DEF Paid
<1>5. rep \in Nat /\ rep2 \in Nat /\ b < rep2
  BY <1>3 DEF Later
<1>6. \A t \in x.steps: d[t] = x.id
  <2>1. \A t \in x.steps: t \in Nat /\ t < rep
    BY <1>3, <1>5
  <2> QED BY <1>3, <2>1 DEF Later
<1>7. x.done => fin2 = "terminal" /\ b + 1 = rep2
  BY <1>4 DEF Later
<1> QED BY <1>1, <1>2, <1>3, <1>5, <1>6, <1>7 DEF Paid

LEMMA LaterTrace ==
    ASSUME NEW c, NEW d, NEW rep, NEW rep2, NEW fin, NEW fin2,
           Later(c, d, rep, rep2, fin, fin2), NEW r, TraceOk(r, c, rep, fin)
    PROVE  TraceOk(r, d, rep2, fin2)
<1>1. \A i \in 1..Len(r): Paid(r[i], d, rep2, fin2)
  BY LaterPaid DEF TraceOk
<1> QED BY <1>1 DEF TraceOk

LEMMA LaterSound ==
    ASSUME NEW c, NEW d, NEW rep, NEW rep2, NEW fin, NEW fin2,
           Later(c, d, rep, rep2, fin, fin2), NEW s, NEW rs, Sound(s, c, rep, fin, rs)
    PROVE  Sound(s, d, rep2, fin2, rs)
<1>1. /\ s \in Actors /\ IsFiniteSet(s.issued) /\ Cardinality(s.issued) <= MaxUnconfirmed
      /\ RolloutInv(s, c, rep, fin) /\ PendingInv(s, c, rep, fin) /\ IdInv(s, rs)
      /\ TraceOk(s.rollout, c, rep, fin)
  BY SoundParts
<1>2. TraceOk(s.rollout, d, rep2, fin2)
  BY <1>1, LaterTrace
<1>3. RolloutInv(s, d, rep2, fin2)
  BY <1>1, <1>2 DEF RolloutInv
<1>4. s.pend # Nothing => Paid(s.pend, d, rep2, fin2)
  BY <1>1, LaterPaid DEF PendingInv
<1>5. PendingInv(s, d, rep2, fin2)
  BY <1>1, <1>4 DEF PendingInv
<1> QED BY <1>1, <1>3, <1>5 DEF Sound, CreditInv

LEMMA LaterGiven ==
    ASSUME NEW c, NEW d, NEW rep, NEW rep2, NEW fin, NEW fin2,
           Later(c, d, rep, rep2, fin, fin2), NEW rs, GivenOk(rs, c, rep, fin)
    PROVE  GivenOk(rs, d, rep2, fin2)
<1>1. \A r \in rs: TraceOk(r.rollout, d, rep2, fin2)
  BY LaterTrace DEF GivenOk, GivenInv
<1> QED BY <1>1 DEF GivenOk, GivenInv

LEMMA LaterFaithful ==
    ASSUME NEW c, NEW d, NEW rep, NEW rep2, NEW fin, NEW fin2,
           Later(c, d, rep, rep2, fin, fin2), NEW e \in Envelope, Faithful(e, c, rep, fin)
    PROVE  Faithful(e, d, rep2, fin2)
<1>1. e.from \in Nat /\ e.to \in Nat /\ e.from <= e.to /\ e.to <= rep
  BY EnvelopeFields DEF Faithful
<1>2. e.to <= rep2
  BY <1>1 DEF Later
<1>3. ASSUME Proven(e) PROVE d[e.from] = e.applied
  <2>1. e.to = e.from + 1
    BY <1>3 DEF Proven
  <2>2. rep \in Nat
    BY DEF Later
  <2>3. e.from < rep
    BY <1>1, <2>1, <2>2
  <2> QED BY <1>1, <1>3, <2>3 DEF Later, Faithful
<1>4. e.kind = "terminal" => fin2 = "terminal" /\ e.to = rep2
  BY DEF Faithful, Later
<1> QED BY <1>1, <1>2, <1>3, <1>4 DEF Faithful

-----------------------------------------------------------------------------
(* The channel.                                                            *)

LEMMA ChanIs ==
    ASSUME ChanInv, chan # <<>>
    PROVE  /\ Head(chan) \in Envelope /\ Head(chan) = chan[1]
           /\ Faithful(Head(chan), ctl, reported, ended)
           /\ Unread(chan, reported) = Head(chan).from
<1>1. chan \in Seq(Envelope) /\ Len(chan) \in Nat /\ 1 \in 1..Len(chan)
  BY EmptySeq DEF ChanInv
<1>2. Head(chan) = chan[1] /\ chan[1] \in Envelope
  BY <1>1, HeadTailProperties, ElementOfSeq
<1> QED BY <1>1, <1>2 DEF ChanInv, Unread

LEMMA ChanRead ==
    ASSUME ChanInv, chan # <<>>, chan' = Tail(chan), UNCHANGED <<ctl, reported, ended>>
    PROVE  ChanInv' /\ Unread(chan', reported') = Head(chan).to
<1>1. chan \in Seq(Envelope) /\ Len(chan) \in Nat /\ 1 \in 1..Len(chan)
  BY EmptySeq DEF ChanInv
<1>2. Head(chan) = chan[1]
  BY ChanIs
<1>3. PICK n \in Nat: n = Len(chan) /\ n > 0
  BY <1>1
<1>4. PICK q: q = Tail(chan)
  OBVIOUS
<1>5. q \in Seq(Envelope) /\ Len(q) = n - 1 /\ \A i \in 1..(n - 1): q[i] = chan[i + 1]
  BY <1>1, <1>3, <1>4, HeadTailProperties
<1>6. \A i \in 1..Len(q): Faithful(q[i], ctl, reported, ended)
  <2>1. \A i \in 1..(n - 1): i + 1 \in 1..n
    BY <1>3
  <2> QED BY <1>3, <1>5, <2>1 DEF ChanInv
<1>7. \A i \in 1..(Len(q) - 1): q[i].to = q[i + 1].from
  <2>1. \A i \in 1..((n - 1) - 1): i \in 1..(n - 1) /\ i + 1 \in 1..(n - 1)
    BY <1>3
  <2> QED BY <1>3, <1>5, <2>1 DEF ChanInv
<1>8. q # <<>> => q[Len(q)].to = reported
  <2>1. ASSUME q # <<>> PROVE q[Len(q)].to = reported
    <3>1. n - 1 \in 1..(n - 1)
      BY <1>3, <1>5, <2>1, EmptySeq
    <3>2. q[n - 1] = chan[n]
      BY <1>3, <1>5, <3>1
    <3> QED BY <1>1, <1>3, <1>5, <3>2, EmptySeq DEF ChanInv
  <2> QED BY <2>1
<1>9. ChanInv'
  BY <1>4, <1>5, <1>6, <1>7, <1>8 DEF ChanInv
<1>10. CASE q = <<>>
  <2>1. n = 1
    <3>1. Len(q) = 0
      BY <1>5, <1>10, EmptySeq
    <3>2. n - 1 = 0
      BY <1>5, <3>1
    <3>3. n \in Nat
      BY <1>3
    <3> QED BY <3>2, <3>3
  <2>2. chan[1].to = reported
    BY <1>3, <2>1 DEF ChanInv
  <2> QED BY <1>2, <1>4, <1>9, <1>10, <2>2 DEF Unread
<1>11. CASE q # <<>>
  <2>1. 1 \in 1..(n - 1)
    BY <1>3, <1>5, <1>11, EmptySeq
  <2>2. q[1] = chan[2] /\ chan[1].to = chan[2].from
    BY <1>3, <1>5, <2>1 DEF ChanInv
  <2> QED BY <1>2, <1>4, <1>9, <1>11, <2>2 DEF Unread
<1> QED BY <1>10, <1>11

LEMMA ChanGrows ==
    ASSUME ServerInv, ChanInv, NEW e \in Envelope, chan' = Append(chan, e), e.from = reported,
           e.to = reported', Later(ctl, ctl', reported, reported', ended, ended'),
           Faithful(e, ctl', reported', ended')
    PROVE  ChanInv' /\ Unread(chan', reported') = Unread(chan, reported)
<1>1. chan \in Seq(Envelope) /\ Len(chan) \in Nat /\ (chan # <<>> <=> Len(chan) > 0)
  BY EmptySeq DEF ChanInv
<1>2. PICK n \in Nat: n = Len(chan)
  BY <1>1
<1>3. PICK q: q = Append(chan, e)
  OBVIOUS
<1>4. /\ q \in Seq(Envelope) /\ Len(q) = n + 1 /\ q[n + 1] = e
      /\ \A i \in 1..n: q[i] = chan[i]
  BY <1>1, <1>2, <1>3, AppendProperties
<1>5. \A i \in 1..(n + 1): i \in 1..n \/ i = n + 1
  OBVIOUS
<1>6. \A i \in 1..n: chan[i] \in Envelope /\ Faithful(chan[i], ctl', reported', ended')
  <2>1. \A i \in 1..n: chan[i] \in Envelope /\ Faithful(chan[i], ctl, reported, ended)
    BY <1>1, <1>2, ElementOfSeq DEF ChanInv
  <2> QED BY <2>1, LaterFaithful
<1>7. \A i \in 1..(n + 1): Faithful(q[i], ctl', reported', ended')
  BY <1>4, <1>5, <1>6
<1>8. ASSUME NEW i \in 1..n PROVE q[i].to = q[i + 1].from
  <2>1. CASE i = n
    BY <1>1, <1>2, <1>4, <2>1 DEF ChanInv
  <2>2. CASE i # n
    <3>1. i \in 1..(n - 1) /\ i + 1 \in 1..n
      BY <2>2
    <3> QED BY <1>2, <1>4, <3>1 DEF ChanInv
  <2> QED BY <2>1, <2>2
<1>9. Len(q) - 1 = n /\ q # <<>>
  BY <1>4, EmptySeq
<1>10. ChanInv'
  BY <1>3, <1>4, <1>7, <1>8, <1>9 DEF ChanInv
<1>11. Unread(q, reported') = Unread(chan, reported)
  <2>1. CASE chan = <<>>
    <3>1. q[1] = e
      BY <1>1, <1>2, <1>4, <2>1, EmptySeq
    <3> QED BY <1>9, <2>1, <3>1 DEF Unread
  <2>2. CASE chan # <<>>
    <3>1. q[1] = chan[1]
      BY <1>1, <1>2, <1>4, <2>2
    <3> QED BY <1>9, <2>2, <3>1 DEF Unread
  <2> QED BY <2>1, <2>2
<1> QED BY <1>3, <1>10, <1>11

-----------------------------------------------------------------------------
(* The server's steps.                                                     *)

LEMMA ServerKeeps ==
    ASSUME IInv, ServerInv', ChanInv', UNCHANGED <<actor, rollouts>>,
           Later(ctl, ctl', reported, reported', ended, ended'),
           Unread(chan', reported') = Unread(chan, reported)
    PROVE  IInv'
<1>1. Sound(actor, ctl, reported, ended, rollouts) /\ GivenOk(rollouts, ctl, reported, ended)
  BY DEF IInv, ActorInv, GivenOk
<1>2. Sound(actor, ctl', reported', ended', rollouts)
  BY <1>1, LaterSound
<1>3. GivenOk(rollouts, ctl', reported', ended')
  BY <1>1, LaterGiven
<1>4. actor.pc # "over" => Alive(actor) /\ PaidUpTo(actor, Unread(chan, reported))
  BY DEF IInv, ActorInv
<1>5. ActorInv'
  BY <1>2, <1>3, <1>4 DEF ActorInv, GivenOk
<1> QED BY <1>5 DEF IInv

LEMMA PhysicsKeeps ==
    ASSUME IInv, Physics
    PROVE  IInv'
<1>1. /\ now \in Ticks /\ ctl \in [Ticks -> 0..MaxId] /\ wire \subseteq Sample
      /\ held \in 0..MaxId /\ source \in {"none", "held", "other"}
      /\ selected \in Ticks \cup {None} /\ reported \in Ticks /\ reported <= now
      /\ gaps \in 0..MaxGaps /\ ended \in {"no", "terminal", "truncated"}
  BY DEF IInv, ServerInv
<1>2. /\ now < MaxStep /\ ctl' = [ctl EXCEPT ![now] = IF source' = "held" THEN held' ELSE 0]
      /\ now' = now + 1
      /\ UNCHANGED <<wire, reported, ended, chan, gaps, actor, rollouts>>
  BY DEF Physics
<1>3. now \in Nat /\ reported \in Nat /\ MaxStep \in Nat /\ now' \in Ticks
  BY <1>1, <1>2, CreditAssumption DEF Ticks
<1>4. /\ held' \in 0..MaxId /\ source' \in {"none", "held", "other"}
      /\ selected' \in Ticks \cup {None}
  <2>1. CASE SelectNothing
    BY <1>1, <2>1 DEF SelectNothing
  <2>2. CASE Reselect
    BY <1>1, <2>2 DEF Reselect
  <2>3. CASE LoseControl
    BY <1>1, <2>3 DEF LoseControl
  <2>4. CASE RegainControl
    BY <1>1, <2>4 DEF RegainControl
  <2>5. CASE \E x \in wire: x.id > held /\ Apply(x)
    <3>1. PICK x \in wire: Apply(x)
      BY <2>5
    <3>2. x.id \in 0..MaxId
      BY <1>1, SampleFields, CreditAssumption DEF Ids
    <3> QED BY <1>1, <3>1, <3>2 DEF Apply
  <2> QED BY <2>1, <2>2, <2>3, <2>4, <2>5 DEF Physics
<1>5. PICK h \in 0..MaxId: h = IF source' = "held" THEN held' ELSE 0
  BY <1>4, CreditAssumption
<1>6. ctl' = [ctl EXCEPT ![now] = h]
  BY <1>2, <1>5
<1>7. ServerInv'
  <2>1. ctl' \in [Ticks -> 0..MaxId] /\ ctl'[now' - 1] = h
    BY <1>1, <1>2, <1>3, <1>6
  <2>2. now' > 0 /\ source' = "held" => ctl'[now' - 1] = held'
    BY <1>5, <2>1
  <2>3. reported' <= now'
    BY <1>1, <1>2, <1>3
  <2> QED BY <1>1, <1>2, <1>3, <1>4, <2>1, <2>2, <2>3 DEF ServerInv
<1>8. Later(ctl, ctl', reported, reported', ended, ended')
  <2>1. \A t \in Nat: t < reported => t \in Ticks /\ t # now
    BY <1>1, <1>3, CreditAssumption DEF Ticks
  <2>2. \A t \in Nat: t < reported => ctl'[t] = ctl[t]
    BY <1>1, <1>6, <2>1
  <2> QED BY <1>2, <1>3, <2>2 DEF Later
<1>9. ChanInv' /\ Unread(chan', reported') = Unread(chan, reported)
  <2>1. ChanInv
    BY DEF IInv
  <2>2. \A i \in 1..Len(chan): Faithful(chan[i], ctl', reported', ended')
    <3>1. \A i \in 1..Len(chan): chan[i] \in Envelope /\ Faithful(chan[i], ctl, reported, ended)
      BY <2>1, ElementOfSeq DEF ChanInv
    <3> QED BY <1>8, <3>1, LaterFaithful
  <2> QED BY <1>2, <2>1, <2>2 DEF ChanInv
<1> QED BY <1>2, <1>7, <1>8, <1>9, ServerKeeps

LEMMA ReportKeeps ==
    ASSUME IInv, NEW kind \in {"live", "terminal", "truncated"}, Report(kind)
    PROVE  IInv'
<1>1. ServerInv /\ ChanInv
  BY DEF IInv
<1>2. /\ now \in Ticks /\ held \in 0..MaxId /\ source \in {"none", "held", "other"}
      /\ selected \in Ticks \cup {None} /\ reported \in Ticks /\ reported <= now
      /\ now > 0 /\ source = "held" => ctl[now - 1] = held
  BY <1>1 DEF ServerInv
<1>3. /\ ended = "no"
      /\ reported' = now /\ ended' = IF kind = "live" THEN "no" ELSE kind
      /\ UNCHANGED <<now, ctl, wire, held, source, selected, gaps, actor, rollouts>>
  BY DEF Report
<1>4. PICK e: e = [from |-> reported, to |-> now, applied |-> held, source |-> source,
                   selected |-> selected, kind |-> kind]
  OBVIOUS
<1>5. /\ chan' = Append(chan, e) /\ e \in Envelope /\ e.from = reported /\ e.to = now
      /\ e.applied = held /\ e.source = source /\ e.kind = kind
  BY <1>2, <1>4 DEF Report, Envelope, Kinds
<1>6. now \in Nat /\ reported \in Nat
  BY <1>2, CreditAssumption DEF Ticks
<1>7. Later(ctl, ctl', reported, reported', ended, ended')
  BY <1>2, <1>3, <1>6 DEF Later
<1>8. Faithful(e, ctl', reported', ended')
  <2>1. ASSUME Proven(e) PROVE ctl'[e.from] = e.applied
    <3>1. source = "held" /\ now = reported + 1
      BY <1>5, <2>1 DEF Proven
    <3>2. now > 0 /\ now - 1 = reported
      BY <1>6, <3>1
    <3> QED BY <1>2, <1>3, <1>5, <3>1, <3>2
  <2>2. e.kind = "terminal" => ended' = "terminal" /\ e.to = reported'
    BY <1>3, <1>5
  <2>3. e.kind # "initial"
    BY <1>5
  <2> QED BY <1>2, <1>3, <1>5, <1>6, <2>1, <2>2, <2>3 DEF Faithful
<1>9. ChanInv' /\ Unread(chan', reported') = Unread(chan, reported)
  BY <1>1, <1>3, <1>5, <1>7, <1>8, ChanGrows
<1>10. ServerInv'
  <2>1. ended' \in {"no", "terminal", "truncated"}
    BY <1>3
  <2> QED BY <1>1, <1>2, <1>3, <1>6, <2>1 DEF ServerInv
<1> QED BY <1>3, <1>7, <1>9, <1>10, ServerKeeps

-----------------------------------------------------------------------------
(* The actor's steps.                                                      *)

LEMMA ActorKeeps ==
    ASSUME IInv, UNCHANGED serverVars, wire' \subseteq Sample, gaps' \in 0..MaxGaps, ChanInv',
           Sound(actor', ctl, reported, ended, rollouts'),
           GivenOk(rollouts', ctl, reported, ended),
           actor'.pc # "over" => Alive(actor') /\ PaidUpTo(actor', Unread(chan', reported))
    PROVE  IInv'
<1>1. UNCHANGED <<now, ctl, held, source, selected, reported, ended>>
  BY DEF serverVars
<1>2. ServerInv'
  BY <1>1 DEF IInv, ServerInv
<1>3. ActorInv'
  BY <1>1 DEF ActorInv, GivenOk
<1> QED BY <1>2, <1>3 DEF IInv

LEMMA ActorIs ==
    ASSUME IInv
    PROVE  /\ Sound(actor, ctl, reported, ended, rollouts)
           /\ GivenOk(rollouts, ctl, reported, ended) /\ reported \in Nat
           /\ wire \subseteq Sample /\ gaps \in 0..MaxGaps /\ ChanInv
           /\ actor.pc # "over" => Alive(actor) /\ PaidUpTo(actor, Unread(chan, reported))
BY CreditAssumption DEF IInv, ActorInv, ServerInv, GivenOk, Ticks

LEMMA ChanStays ==
    ASSUME ChanInv, UNCHANGED <<chan, ctl, reported, ended>>
    PROVE  ChanInv'
BY DEF ChanInv

(* A command is on its way for the sample x.                               *)
LEMMA SampleKeeps ==
    ASSUME NEW c, NEW rep, NEW fin, NEW rs, NEW s, Sound(s, c, rep, fin, rs),
           s.counter < MaxId, NEW x \in Sample, x.id = s.counter + 1, NEW b \in BOOLEAN,
           NEW t, t = [s EXCEPT !.pc = "sending", !.counter = x.id, !.sample = x, !.track = b]
    PROVE  /\ Sound(t, c, rep, fin, rs)
           /\ t.pend = s.pend /\ t.end = s.end /\ t.rollout = s.rollout
<1>1. /\ s \in Actors /\ IsFiniteSet(s.issued) /\ Cardinality(s.issued) <= MaxUnconfirmed
      /\ RolloutInv(s, c, rep, fin) /\ PendingInv(s, c, rep, fin) /\ IdInv(s, rs)
      /\ TraceOk(s.rollout, c, rep, fin)
  BY SoundParts
<1>2. PICK n \in 0..MaxId: n = x.id
  BY SampleFields, CreditAssumption DEF Ids
<1>3. PICK m \in Nat: m = s.counter
  BY <1>1, ActorFields
<1>4. n = m + 1
  BY <1>2, <1>3
<1>5. t = [s EXCEPT !.pc = "sending", !.counter = n, !.sample = x, !.track = b]
  BY <1>2
<1>6. /\ t \in Actors /\ t.issued = s.issued /\ t.gate = s.gate /\ t.counter = n
      /\ t.rebase = s.rebase /\ t.pend = s.pend /\ t.end = s.end /\ t.sample = x
      /\ t.rollout = s.rollout /\ t.rollEnd = s.rollEnd
  BY <1>1, <1>5 DEF Actors
<1>7. RolloutInv(t, c, rep, fin) /\ PendingInv(t, c, rep, fin)
  BY <1>1, <1>6 DEF RolloutInv, PendingInv
<1>8. IdInv(t, rs)
  <2>1. HeldIds(t) = HeldIds(s)
    BY <1>6 DEF HeldIds
  <2>2. /\ \A g \in GivenIds(rs), h \in HeldIds(s): g < h
        /\ \A g \in GivenIds(rs) \cup HeldIds(s): g <= m /\ \A y \in s.issued: g < y.id
        /\ \A y \in s.issued: y.id <= m
    BY <1>1, <1>3 DEF IdInv
  <2>3. \A g \in GivenIds(rs) \cup HeldIds(s): g \in Nat
    BY <1>1 DEF IdInv
  <2>4. \A y \in s.issued: y.id \in Nat
    BY <1>1, ActorFields, SampleFields
  <2>5. \A g \in GivenIds(rs) \cup HeldIds(s): g <= n /\ g < n
    BY <1>4, <2>2, <2>3
  <2>6. \A y \in s.issued: y.id <= n /\ y.id < n
    BY <1>4, <2>2, <2>4
  <2> QED BY <1>2, <1>6, <2>1, <2>2, <2>3, <2>5, <2>6 DEF IdInv
<1>9. Sound(t, c, rep, fin, rs)
  BY <1>1, <1>6, <1>7, <1>8 DEF Sound, CreditInv
<1> QED BY <1>6, <1>9

LEMMA ObserveKeeps ==
    ASSUME IInv, NEW advanced \in BOOLEAN, Observe(advanced)
    PROVE  IInv'
<1>1. /\ Sound(actor, ctl, reported, ended, rollouts)
      /\ GivenOk(rollouts, ctl, reported, ended) /\ reported \in Nat
      /\ wire \subseteq Sample /\ gaps \in 0..MaxGaps /\ ChanInv
      /\ actor.pc # "over" => Alive(actor) /\ PaidUpTo(actor, Unread(chan, reported))
  BY ActorIs
<1>2. PICK e: e = Head(chan)
  OBVIOUS
<1>3. PICK t: t = AccountEnvelope(actor, e, advanced)
  OBVIOUS
<1>4. PICK cutoff: cutoff = IF t.gated THEN FinishCreditedAction(t) ELSE t
  OBVIOUS
<1>5. PICK s: s = IF ReachedHorizon(t) THEN Submitted(cutoff) ELSE t
  OBVIOUS
<1>6. /\ actor.pc = "online" /\ chan # <<>> /\ e.kind \in {"initial", "live"}
      /\ chan' = Tail(chan)
      /\ IF ReachedHorizon(t) THEN Submit(cutoff) ELSE UNCHANGED rollouts
      /\ Return(s) \/ SampleAction(s, e)
      /\ UNCHANGED <<serverVars, gaps>>
  BY <1>2, <1>3, <1>4, <1>5 DEF Observe
<1>7. UNCHANGED <<now, ctl, held, source, selected, reported, ended, gaps>>
  BY <1>6 DEF serverVars
<1>8. e \in Envelope /\ Faithful(e, ctl, reported, ended) /\ Unread(chan, reported) = e.from
  BY <1>1, <1>2, <1>6, ChanIs
<1>9. ChanInv' /\ Unread(chan', reported) = e.to
  BY <1>1, <1>2, <1>6, <1>7, ChanRead
<1>10. Accounted(actor, t, e, ctl, reported, ended, rollouts)
  <2>1. Alive(actor) /\ PaidUpTo(actor, e.from)
    BY <1>1, <1>6, <1>8
  <2> QED BY <1>1, <1>3, <1>8, <2>1, AccountKeeps
<1>11. /\ Sound(t, ctl, reported, ended, rollouts) /\ Same(actor, t) /\ PaidUpTo(t, e.to)
       /\ Alive(t)
  BY <1>6, <1>10 DEF Accounted
<1>12. /\ Sound(s, ctl, reported, ended, rollouts') /\ GivenOk(rollouts', ctl, reported, ended)
       /\ Alive(s) /\ PaidUpTo(s, e.to)
  <2>1. CASE ReachedHorizon(t)
    <3>1. s = Submitted(cutoff) /\ rollouts' = rollouts \cup Admitted(cutoff)
      BY <1>5, <1>6, <2>1 DEF Submit
    <3>2. /\ Sound(cutoff, ctl, reported, ended, rollouts) /\ Alive(cutoff)
          /\ PaidUpTo(cutoff, e.to)
      <4>1. CASE t.gated
        <5>1. cutoff = FinishCreditedAction(t)
          BY <1>4, <4>1
        <5>2. Sound(cutoff, ctl, reported, ended, rollouts) /\ cutoff.pend = Nothing
              /\ (Alive(t) => Alive(cutoff))
          BY <1>11, <5>1, FinishKeeps
        <5> QED BY <1>11, <5>2 DEF PaidUpTo
      <4>2. CASE ~t.gated
        BY <1>4, <1>11, <4>2
      <4> QED BY <4>1, <4>2
    <3>3. GivesAway(cutoff, s, rollouts, rollouts', ctl, reported, ended)
      BY <1>1, <3>1, <3>2, SubmitKeeps
    <3> QED BY <3>2, <3>3, PaidUpToSubmitted DEF GivesAway
  <2>2. CASE ~ReachedHorizon(t)
    BY <1>1, <1>5, <1>6, <1>11, <2>2
  <2> QED BY <2>1, <2>2
<1>13. CASE Return(s)
  <2>1. actor' = s /\ wire' = wire
    BY <1>13 DEF Return
  <2> QED BY <1>1, <1>6, <1>7, <1>9, <1>12, <2>1, ActorKeeps
<1>14. CASE SampleAction(s, e)
  <2>1. PICK x: x = [id |-> s.counter + 1, tick |-> e.to]
    OBVIOUS
  <2>2. PICK b \in BOOLEAN: b = (s.gate # "closed")
    <3>1. (s.gate # "closed") \in BOOLEAN
      OBVIOUS
    <3> QED BY <3>1, Zenon
  <2>3. /\ s.counter < MaxId /\ wire' = wire \cup {x}
        /\ actor' = [s EXCEPT !.pc = "sending", !.counter = x.id, !.sample = x, !.track = b]
    BY <1>14, <2>1, <2>2 DEF SampleAction
  <2>4. x \in Sample /\ x.id = s.counter + 1
    <3>1. s \in Actors
      BY <1>12, SoundParts
    <3>2. s.counter \in Nat
      BY <3>1, ActorFields
    <3>3. PICK n: n = s.counter + 1
      OBVIOUS
    <3>4. n \in Ids
      BY <2>3, <3>2, <3>3, CreditAssumption DEF Ids
    <3>5. e.to \in Ticks
      BY <1>8, EnvelopeFields
    <3>6. x = [id |-> n, tick |-> e.to]
      BY <2>1, <3>3
    <3> QED BY <3>3, <3>4, <3>5, <3>6 DEF Sample
  <2>5. /\ Sound(actor', ctl, reported, ended, rollouts')
        /\ actor'.pend = s.pend /\ actor'.end = s.end /\ actor'.rollout = s.rollout
    <3>1. PICK q: q = [s EXCEPT !.pc = "sending", !.counter = x.id, !.sample = x, !.track = b]
      OBVIOUS
    <3>2. PICK qs: qs = rollouts'
      OBVIOUS
    <3>3. Sound(s, ctl, reported, ended, qs)
      BY <1>12, <3>2
    <3>4. Sound(q, ctl, reported, ended, qs)
      BY <2>3, <2>4, <3>1, <3>3, SampleKeeps
    <3>5. q.pend = s.pend /\ q.end = s.end /\ q.rollout = s.rollout
      <4>1. s \in Actors
        BY <1>12, SoundParts
      <4> QED BY <3>1, <4>1 DEF Actors
    <3> QED BY <2>3, <3>1, <3>2, <3>4, <3>5
  <2>6. Alive(actor') /\ PaidUpTo(actor', e.to)
    BY <1>12, <2>5 DEF Alive, PaidUpTo
  <2>7. wire' \subseteq Sample
    BY <1>1, <2>3, <2>4
  <2> QED BY <1>1, <1>6, <1>7, <1>9, <1>12, <2>5, <2>6, <2>7, ActorKeeps
<1> QED BY <1>6, <1>13, <1>14

(* Issue keeps the samples below the cap.                                  *)
LEMMA IssueKeeps ==
    ASSUME NEW issued, issued \subseteq Sample, IsFiniteSet(issued),
           Cardinality(issued) <= MaxUnconfirmed, NEW x \in Sample,
           NEW t, t = Issue(issued, x)
    PROVE  /\ t \subseteq Sample /\ IsFiniteSet(t) /\ Cardinality(t) <= MaxUnconfirmed
           /\ \A y \in t: y \in issued \/ y = x
<1>1. MaxUnconfirmed \in Nat \ {0} /\ Cardinality(issued) \in Nat
  BY CreditAssumption, FS_CardinalityType
<1>2. PICK old: old = IF Cardinality(issued) < MaxUnconfirmed THEN {}
                      ELSE {CHOOSE y \in issued: \A z \in issued: y.id <= z.id}
  OBVIOUS
<1>3. t = (issued \ old) \cup {x}
  BY <1>2 DEF Issue
<1>4. PICK left: left = issued \ old
  OBVIOUS
<1>5. IsFiniteSet(left) /\ Cardinality(left) <= Cardinality(issued) /\ Cardinality(left) \in Nat
  BY <1>4, FS_Subset, FS_CardinalityType
<1>6. Cardinality(left) < MaxUnconfirmed
  <2>1. CASE Cardinality(issued) < MaxUnconfirmed
    BY <1>1, <1>5, <2>1
  <2>2. CASE ~(Cardinality(issued) < MaxUnconfirmed)
    <3>1. issued # {}
      BY <1>1, <2>2, FS_EmptySet
    <3>2. PICK T: T = {y.id: y \in issued}
      OBVIOUS
    <3>3. T \in SUBSET Nat /\ T # {}
      <4>1. \A y \in issued: y.id \in Nat
        BY SampleFields
      <4> QED BY <3>1, <3>2, <4>1
    <3>4. PICK n \in T: \A m \in T: n <= m
      BY <3>3, NatMin
    <3>5. \E y \in issued: \A z \in issued: y.id <= z.id
      BY <3>2, <3>4
    <3>6. PICK y: y = CHOOSE v \in issued: \A z \in issued: v.id <= z.id
      OBVIOUS
    <3>7. y \in issued
      BY <3>5, <3>6
    <3>8. left = issued \ {y}
      BY <1>2, <1>4, <2>2, <3>6
    <3>9. Cardinality(left) = Cardinality(issued) - 1
      BY <3>7, <3>8, FS_RemoveElement
    <3> QED BY <1>1, <3>9
  <2> QED BY <2>1, <2>2
<1>7. IsFiniteSet(t) /\ Cardinality(t) <= MaxUnconfirmed
  <2>1. t = left \cup {x}
    BY <1>3, <1>4
  <2>2. /\ IsFiniteSet(t)
        /\ Cardinality(t) = Cardinality(left) \/ Cardinality(t) = Cardinality(left) + 1
    <3>1. /\ IsFiniteSet(left \cup {x})
          /\ Cardinality(left \cup {x}) =
               IF x \in left THEN Cardinality(left) ELSE Cardinality(left) + 1
      BY <1>5, FS_AddElement
    <3> QED BY <2>1, <3>1, Zenon
  <2> QED BY <1>1, <1>5, <1>6, <2>2
<1> QED BY <1>3, <1>7

LEMMA SendDoneKeeps ==
    ASSUME IInv, SendDone
    PROVE  IInv'
<1>1. /\ Sound(actor, ctl, reported, ended, rollouts)
      /\ GivenOk(rollouts, ctl, reported, ended) /\ reported \in Nat
      /\ wire \subseteq Sample /\ gaps \in 0..MaxGaps /\ ChanInv
      /\ actor.pc # "over" => Alive(actor) /\ PaidUpTo(actor, Unread(chan, reported))
  BY ActorIs
<1>2. PICK s: s = actor
  OBVIOUS
<1>3. /\ s \in Actors /\ IsFiniteSet(s.issued) /\ Cardinality(s.issued) <= MaxUnconfirmed
      /\ RolloutInv(s, ctl, reported, ended) /\ PendingInv(s, ctl, reported, ended)
      /\ IdInv(s, rollouts)
  BY <1>1, <1>2, SoundParts
<1>4. s.pc = "sending" /\ UNCHANGED <<serverVars, wire, chan, gaps, rollouts>>
  BY <1>2 DEF SendDone
<1>5. UNCHANGED <<now, ctl, held, source, selected, reported, ended, wire, chan, gaps, rollouts>>
  BY <1>4 DEF serverVars
<1>6. s.sample \in Sample /\ s.sample.id = s.counter
  BY <1>3, <1>4 DEF IdInv
<1>7. PICK x \in Sample: x = s.sample
  BY <1>6
<1>8. PICK i: i = IF s.track THEN Issue(s.issued, x) ELSE s.issued
  OBVIOUS
<1>9. /\ i \subseteq Sample /\ IsFiniteSet(i) /\ Cardinality(i) <= MaxUnconfirmed
      /\ \A y \in i: y \in s.issued \/ y = x
  <2>1. s.issued \subseteq Sample
    BY <1>3, ActorFields
  <2>2. CASE s.track
    <3>1. i = Issue(s.issued, x)
      BY <1>8, <2>2
    <3> QED BY <1>3, <2>1, <3>1, IssueKeeps
  <2>3. CASE ~s.track
    BY <1>3, <1>8, <2>1, <2>3
  <2> QED BY <2>2, <2>3
<1>10. PICK f: f = IF s.gated /\ s.gate = "fenced" /\ s.fence = 0 THEN x.id ELSE s.fence
  OBVIOUS
<1>11. f \in 0..MaxId
  <2>1. x.id \in 0..MaxId
    BY SampleFields, CreditAssumption DEF Ids
  <2>2. s.fence \in 0..MaxId
    BY <1>3 DEF Actors
  <2> QED BY <1>10, <2>1, <2>2
<1>12. actor' = [s EXCEPT !.pc = "online", !.sample = Nothing, !.track = FALSE,
                          !.issued = i, !.last = x.tick, !.fence = f]
  <2>1. actor' = [s EXCEPT !.pc = "online", !.sample = Nothing, !.track = FALSE,
                           !.issued = IF s.track THEN Issue(@, s.sample) ELSE @,
                           !.last = s.sample.tick,
                           !.fence = IF s.gated /\ s.gate = "fenced" /\ s.fence = 0
                                     THEN s.sample.id ELSE @]
    BY <1>2 DEF SendDone
  <2> QED BY <1>3, <1>7, <1>8, <1>10, <2>1 DEF Actors
<1>13. PICK k \in Ticks: k = x.tick
  BY SampleFields
<1>14. PICK t: t = [s EXCEPT !.pc = "online", !.sample = Nothing, !.track = FALSE,
                             !.issued = i, !.last = k, !.fence = f]
  OBVIOUS
<1>15. /\ actor' = t /\ t \in Actors /\ t.issued = i /\ t.pc = "online" /\ t.gate = s.gate
       /\ t.counter = s.counter
       /\ t.rebase = s.rebase /\ t.pend = s.pend /\ t.end = s.end
       /\ t.rollout = s.rollout /\ t.rollEnd = s.rollEnd
  BY <1>3, <1>9, <1>11, <1>12, <1>13, <1>14 DEF Actors
<1>16. RolloutInv(t, ctl, reported, ended) /\ PendingInv(t, ctl, reported, ended)
  BY <1>3, <1>15 DEF RolloutInv, PendingInv
<1>17. IdInv(t, rollouts)
  <2>1. HeldIds(t) = HeldIds(s)
    BY <1>15 DEF HeldIds
  <2>2. /\ \A g \in GivenIds(rollouts), h \in HeldIds(s): g < h
        /\ \A g \in GivenIds(rollouts) \cup HeldIds(s):
             g \in Nat /\ g <= s.counter /\ g < x.id /\ \A y \in s.issued: g < y.id
        /\ \A y \in s.issued: y.id <= s.counter
    BY <1>3, <1>4, <1>6, <1>7 DEF IdInv
  <2>3. x.id = s.counter /\ s.counter \in Nat
    BY <1>6, <1>7, SampleFields
  <2>4. \A y \in i: y.id <= s.counter
    BY <1>9, <2>2, <2>3
  <2>5. \A g \in GivenIds(rollouts) \cup HeldIds(s): \A y \in i: g < y.id
    BY <1>9, <2>2
  <2> QED BY <1>15, <2>1, <2>2, <2>4, <2>5 DEF IdInv
<1>18. Sound(t, ctl, reported, ended, rollouts)
  BY <1>9, <1>15, <1>16, <1>17 DEF Sound, CreditInv
<1>19. Alive(t) /\ PaidUpTo(t, Unread(chan, reported))
  BY <1>1, <1>2, <1>4, <1>15 DEF Alive, PaidUpTo
<1>20. ChanInv'
  BY <1>1, <1>5, ChanStays
<1> QED BY <1>1, <1>4, <1>5, <1>15, <1>18, <1>19, <1>20, ActorKeeps

(* A state that differs in where the actor is.                             *)
LEMMA MoveKeeps ==
    ASSUME NEW c, NEW rep, NEW fin, NEW rs, NEW s, Sound(s, c, rep, fin, rs),
           NEW t \in Actors, t.pc # "sending", t.issued = s.issued, t.counter = s.counter,
           t.gate = s.gate, t.pend = s.pend, t.end = s.end, t.rollout = s.rollout,
           t.rollEnd = s.rollEnd, s.pend = Nothing \/ t.rebase = s.rebase
    PROVE  Sound(t, c, rep, fin, rs)
<1>1. /\ s \in Actors /\ IsFiniteSet(s.issued) /\ Cardinality(s.issued) <= MaxUnconfirmed
      /\ RolloutInv(s, c, rep, fin) /\ PendingInv(s, c, rep, fin) /\ IdInv(s, rs)
  BY SoundParts
<1>2. RolloutInv(t, c, rep, fin) /\ PendingInv(t, c, rep, fin)
  BY <1>1 DEF RolloutInv, PendingInv
<1>3. IdInv(t, rs)
  <2>1. HeldIds(t) = HeldIds(s)
    BY DEF HeldIds
  <2> QED BY <1>1, <2>1 DEF IdInv
<1> QED BY <1>1, <1>2, <1>3 DEF Sound, CreditInv

(* The closure gives the last sample its exact endpoint.                   *)
LEMMA CloseAtEndKeeps ==
    ASSUME NEW c, NEW rep \in Nat, NEW fin, NEW rs, NEW s, Sound(s, c, rep, fin, rs),
           s.pend = Nothing, NEW e \in Envelope, Faithful(e, c, rep, fin),
           NEW t, t = CloseAtEnd(s, e)
    PROVE  Sound(t, c, rep, fin, rs) /\ Same(s, t) /\ t.pend = Nothing
<1>1. /\ s \in Actors /\ IsFiniteSet(s.issued) /\ Cardinality(s.issued) <= MaxUnconfirmed
      /\ RolloutInv(s, c, rep, fin) /\ PendingInv(s, c, rep, fin) /\ IdInv(s, rs)
      /\ TraceOk(s.rollout, c, rep, fin)
  BY SoundParts
<1>2. CASE ~(s.rollEnd # NoEnd /\ s.rollEnd.step = e.to)
  <2>1. t = s
    BY <1>2, Zenon DEF CloseAtEnd
  <2> QED BY <2>1 DEF Same
<1>3. CASE s.rollEnd # NoEnd /\ s.rollEnd.step = e.to
  <2>1. s.rollout # <<>>
    BY <1>1, <1>3 DEF RolloutInv
  <2>2. PICK m \in Nat: m = Len(s.rollout) /\ m \in 1..m
    BY <1>1, <2>1, TraceIs
  <2>3. PICK x \in Credited: x = s.rollout[m]
    BY <1>1, <2>2, TraceIs
  <2>4. Paid(x, c, rep, fin)
    BY <1>1, <2>2, <2>3, TraceIs
  <2>5. s.rollEnd.step = LastStep(x) + 1 /\ x.cut = None
    BY <1>1, <2>1, <2>2, <2>3 DEF RolloutInv
  <2>6. PICK b \in BOOLEAN: b = Done(e)
    <3>1. Done(e) \in BOOLEAN
      BY DEF Done
    <3> QED BY <3>1, Zenon
  <2>7. PICK o \in BOOLEAN: o = (e.kind # "terminal")
    <3>1. (e.kind # "terminal") \in BOOLEAN
      OBVIOUS
    <3> QED BY <3>1, Zenon
  <2>8. b = ~o /\ (b => e.kind = "terminal")
    BY <2>6, <2>7 DEF Done
  <2>9. PICK d: d = [step |-> e.to, obs |-> o]
    OBVIOUS
  <2>10. d \in End /\ d # NoEnd /\ d.step = e.to /\ d.obs = o /\ d = EndOfCredit(s, e)
    <3>1. e.to \in Ticks
      BY EnvelopeFields
    <3>2. d \in End /\ d # NoEnd /\ d.step = e.to /\ d.obs = o
      BY <2>9, <3>1, EndIs
    <3> QED BY <2>7, <2>9, <3>2 DEF EndOfCredit
  <2>11. PICK y: y = [x EXCEPT !.done = b]
    OBVIOUS
  <2>12. /\ y \in Credited /\ y.id = x.id /\ y.tick = x.tick /\ y.steps = x.steps
         /\ y.done = b /\ y.cut = None
    BY <2>5, <2>11 DEF Credited
  <2>13. FirstStep(y) = FirstStep(x) /\ LastStep(y) = LastStep(x)
    BY <2>12 DEF FirstStep, LastStep
  <2>14. Paid(y, c, rep, fin)
    <3>1. y.done => fin = "terminal" /\ LastStep(x) + 1 = rep
      BY <1>3, <2>5, <2>8, <2>12 DEF Faithful
    <3> QED BY <2>4, <2>12, <2>13, <3>1 DEF Paid
  <2>15. PICK q: q = [s.rollout EXCEPT ![m] = y]
    OBVIOUS
  <2>16. t = [s EXCEPT !.rollout = q, !.rollEnd = d]
    <3>1. t = [s EXCEPT !.rollout[m].done = b, !.rollEnd = d]
      BY <1>3, <2>2, <2>6, <2>10 DEF CloseAtEnd
    <3> QED BY <1>1, <2>2, <2>3, <2>11, <2>15, <3>1 DEF Actors
  <2> DEFINE r == s.rollout
  <2>17. /\ TraceOk(r, c, rep, fin) /\ r # <<>> /\ m = Len(r) /\ y.id = r[Len(r)].id
         /\ y.steps = r[Len(r)].steps /\ y.tick = r[Len(r)].tick
         /\ q = [r EXCEPT ![Len(r)] = y]
    BY <1>1, <2>1, <2>2, <2>3, <2>12, <2>15
  <2> HIDE DEF r
  <2>18. TraceOk(q, c, rep, fin)
    BY <2>14, <2>17, TraceLast, Zenon
  <2>19. /\ q # <<>> /\ Len(q) = Len(r) /\ q[Len(q)] = y
         /\ \A i \in 1..Len(r): q[i].id = r[i].id
    BY <2>14, <2>17, TraceLast
  <2>20. \A g: g \in IdsOf(q) <=> g \in IdsOf(r)
    BY <2>19 DEF IdsOf
  <2> USE DEF r
  <2>21. q \in Seq(Credited)
    BY <2>18 DEF TraceOk
  <2>22. /\ t \in Actors /\ Same(s, t) /\ t.rollout = q /\ t.rollEnd = d /\ t.pend = s.pend
         /\ t.end = s.end /\ t.issued = s.issued /\ t.gate = s.gate /\ t.rebase = s.rebase
    BY <1>1, <2>10, <2>16, <2>21 DEF Actors, Same
  <2>23. RolloutInv(t, c, rep, fin)
    <3>1. d.step = LastStep(y) + 1 /\ (y.done \/ d.obs)
      BY <1>3, <2>5, <2>8, <2>10, <2>12, <2>13
    <3> QED BY <2>10, <2>12, <2>18, <2>19, <2>22, <3>1 DEF RolloutInv
  <2>24. PendingInv(t, c, rep, fin)
    BY <1>1, <2>22 DEF PendingInv
  <2>25. IdInv(t, rs)
    <3>1. \A g: g \in HeldIds(t) => g \in HeldIds(s)
      BY <2>20, <2>22 DEF HeldIds
    <3> QED BY <1>1, <2>22, <3>1 DEF IdInv, Same
  <2> QED BY <1>1, <2>22, <2>23, <2>24, <2>25 DEF Sound, CreditInv
<1> QED BY <1>2, <1>3

LEMMA CloseKeeps ==
    ASSUME IInv, NEW advanced \in BOOLEAN, Close(advanced)
    PROVE  IInv'
<1>1. /\ Sound(actor, ctl, reported, ended, rollouts)
      /\ GivenOk(rollouts, ctl, reported, ended) /\ reported \in Nat
      /\ wire \subseteq Sample /\ gaps \in 0..MaxGaps /\ ChanInv
      /\ actor.pc # "over" => Alive(actor) /\ PaidUpTo(actor, Unread(chan, reported))
  BY ActorIs
<1>2. PICK e: e = Head(chan)
  OBVIOUS
<1>3. PICK a: a = AccountEnvelope(actor, e, advanced)
  OBVIOUS
<1>4. PICK t: t = FinishCreditedAction(a)
  OBVIOUS
<1>5. PICK u: u = CloseAtEnd(t, e)
  OBVIOUS
<1>6. PICK s: s = ClearUnfinishedActions(u)
  OBVIOUS
<1>7. PICK z: z = Submitted(s)
  OBVIOUS
<1>8. /\ actor.pc = "online" /\ chan # <<>> /\ chan' = Tail(chan)
      /\ rollouts' = rollouts \cup Admitted(s)
      /\ actor' = [z EXCEPT !.pc = "over"]
      /\ UNCHANGED <<serverVars, wire, gaps>>
  BY <1>2, <1>3, <1>4, <1>5, <1>6, <1>7 DEF Close, Submit
<1>9. UNCHANGED <<now, ctl, held, source, selected, reported, ended, wire, gaps>>
  BY <1>8 DEF serverVars
<1>10. e \in Envelope /\ Faithful(e, ctl, reported, ended) /\ Unread(chan, reported) = e.from
  BY <1>1, <1>2, <1>8, ChanIs
<1>11. ChanInv'
  BY <1>1, <1>8, <1>9, ChanRead
<1>12. Accounted(actor, a, e, ctl, reported, ended, rollouts)
  <2>1. Alive(actor) /\ PaidUpTo(actor, e.from)
    BY <1>1, <1>8, <1>10
  <2> QED BY <1>1, <1>3, <1>10, <2>1, AccountKeeps
<1>13. Sound(a, ctl, reported, ended, rollouts)
  BY <1>12 DEF Accounted
<1>14. Sound(t, ctl, reported, ended, rollouts) /\ t.pend = Nothing
  BY <1>4, <1>13, FinishKeeps
<1>15. Sound(u, ctl, reported, ended, rollouts) /\ u.pend = Nothing
  BY <1>1, <1>5, <1>10, <1>14, CloseAtEndKeeps
<1>16. Sound(s, ctl, reported, ended, rollouts)
  BY <1>6, <1>15, ClearKeeps
<1>17. GivesAway(s, z, rollouts, rollouts', ctl, reported, ended)
  BY <1>1, <1>7, <1>8, <1>16, SubmitKeeps
<1>18. Sound(z, ctl, reported, ended, rollouts') /\ GivenOk(rollouts', ctl, reported, ended)
  BY <1>17 DEF GivesAway
<1>19. PICK v: v = [z EXCEPT !.pc = "over"]
  OBVIOUS
<1>20. z \in Actors
  BY <1>18, SoundParts
<1>21. /\ v \in Actors /\ v.pc = "over" /\ v.issued = z.issued /\ v.counter = z.counter
       /\ v.gate = z.gate /\ v.pend = z.pend /\ v.end = z.end /\ v.rollout = z.rollout
       /\ v.rollEnd = z.rollEnd /\ v.rebase = z.rebase
  BY <1>19, <1>20 DEF Actors
<1>22. Sound(v, ctl, reported, ended, rollouts')
  BY <1>18, <1>21, MoveKeeps
<1>23. actor' = v
  BY <1>8, <1>19
<1> QED BY <1>1, <1>8, <1>9, <1>11, <1>18, <1>21, <1>22, <1>23, ActorKeeps

LEMMA DisconnectKeeps ==
    ASSUME IInv, NEW advanced \in BOOLEAN, Disconnect(advanced)
    PROVE  IInv'
<1>1. /\ Sound(actor, ctl, reported, ended, rollouts)
      /\ GivenOk(rollouts, ctl, reported, ended) /\ reported \in Nat
      /\ wire \subseteq Sample /\ gaps \in 0..MaxGaps /\ ChanInv
      /\ actor.pc # "over" => Alive(actor) /\ PaidUpTo(actor, Unread(chan, reported))
  BY ActorIs
<1>2. PICK a: a = RefreshCollectionEpoch(actor, advanced)
  OBVIOUS
<1>3. PICK t: t = FinishCreditedAction(a)
  OBVIOUS
<1>4. PICK s: s = ClearUnfinishedActions(t)
  OBVIOUS
<1>5. PICK z: z = Submitted(s)
  OBVIOUS
<1>6. PICK v: v = [z EXCEPT !.pc = "joining", !.rebase = TRUE, !.last = None,
                            !.sample = Nothing, !.track = FALSE]
  OBVIOUS
<1>7. /\ Connected /\ gaps < MaxGaps /\ gaps' = gaps + 1 /\ chan' = <<>>
      /\ rollouts' = rollouts \cup Admitted(s) /\ actor' = v
      /\ UNCHANGED <<serverVars, wire>>
  BY <1>2, <1>3, <1>4, <1>5, <1>6 DEF Disconnect, Submit, Truncated
<1>8. UNCHANGED <<now, ctl, held, source, selected, reported, ended, wire>>
  BY <1>7 DEF serverVars
<1>9. GateOnly(actor, a, ctl, reported, ended, rollouts)
  BY <1>1, <1>2, RefreshKeeps
<1>10. Sound(a, ctl, reported, ended, rollouts) /\ Alive(a)
  <2>1. Alive(actor)
    BY <1>1, <1>7 DEF Connected
  <2> QED BY <1>9, <2>1 DEF GateOnly, Alive
<1>11. /\ Sound(t, ctl, reported, ended, rollouts) /\ t.pend = Nothing
       /\ Alive(a) => Alive(t)
  BY <1>3, <1>10, FinishKeeps
<1>12. /\ Sound(s, ctl, reported, ended, rollouts) /\ s.pend = Nothing
       /\ s.rollout = t.rollout
  BY <1>4, <1>11, ClearKeeps
<1>13. GivesAway(s, z, rollouts, rollouts', ctl, reported, ended)
  BY <1>1, <1>5, <1>7, <1>12, SubmitKeeps
<1>14. /\ Sound(z, ctl, reported, ended, rollouts') /\ GivenOk(rollouts', ctl, reported, ended)
       /\ z.pend = Nothing /\ Alive(z)
  <2>1. Alive(s)
    BY <1>10, <1>11, <1>12 DEF Alive
  <2> QED BY <1>12, <1>13, <2>1 DEF GivesAway
<1>15. z \in Actors
  BY <1>14, SoundParts
<1>16. /\ v \in Actors /\ v.pc = "joining" /\ v.issued = z.issued /\ v.counter = z.counter
       /\ v.gate = z.gate /\ v.pend = z.pend /\ v.end = z.end /\ v.rollout = z.rollout
       /\ v.rollEnd = z.rollEnd
  BY <1>6, <1>15 DEF Actors
<1>17. Sound(v, ctl, reported, ended, rollouts')
  BY <1>14, <1>16, MoveKeeps
<1>18. Alive(v) /\ PaidUpTo(v, Unread(chan', reported))
  BY <1>14, <1>16 DEF Alive, PaidUpTo
<1>19. ChanInv'
  <2>1. <<>> \in Seq(Envelope) /\ Len(<<>>) = 0 /\ 1..0 = {} /\ 1..(0 - 1) = {}
    BY EmptySeq
  <2> QED BY <1>7, <2>1 DEF ChanInv
<1>20. gaps' \in 0..MaxGaps
  BY <1>1, <1>7, CreditAssumption
<1> QED BY <1>1, <1>7, <1>8, <1>14, <1>17, <1>18, <1>19, <1>20, ActorKeeps

LEMMA ReclaimKeeps ==
    ASSUME IInv, Reclaimed \/ ReclaimRefused
    PROVE  IInv'
<1>1. /\ Sound(actor, ctl, reported, ended, rollouts)
      /\ GivenOk(rollouts, ctl, reported, ended) /\ reported \in Nat
      /\ wire \subseteq Sample /\ gaps \in 0..MaxGaps /\ ChanInv
      /\ actor.pc # "over" => Alive(actor) /\ PaidUpTo(actor, Unread(chan, reported))
  BY ActorIs
<1>2. /\ actor.pc = "joining" /\ UNCHANGED <<serverVars, wire, chan, gaps, rollouts>>
      /\ \E p \in {"online", "over"}: actor' = [actor EXCEPT !.pc = p]
  BY DEF Reclaimed, ReclaimRefused
<1>3. PICK p \in {"online", "over"}: actor' = [actor EXCEPT !.pc = p]
  BY <1>2
<1>4. UNCHANGED <<now, ctl, held, source, selected, reported, ended, wire, chan, gaps, rollouts>>
  BY <1>2 DEF serverVars
<1>5. actor \in Actors
  BY <1>1, SoundParts
<1>6. PICK v: v = [actor EXCEPT !.pc = p]
  OBVIOUS
<1>7. /\ v \in Actors /\ v.pc = p /\ v.issued = actor.issued /\ v.counter = actor.counter
      /\ v.gate = actor.gate /\ v.pend = actor.pend /\ v.end = actor.end
      /\ v.rollout = actor.rollout /\ v.rollEnd = actor.rollEnd /\ v.rebase = actor.rebase
  BY <1>5, <1>6 DEF Actors
<1>8. Sound(v, ctl, reported, ended, rollouts)
  BY <1>1, <1>7, MoveKeeps
<1>9. Alive(v) /\ PaidUpTo(v, Unread(chan, reported))
  BY <1>1, <1>2, <1>7 DEF Alive, PaidUpTo
<1>10. ChanInv'
  BY <1>1, <1>4, ChanStays
<1>11. actor' = v
  BY <1>3, <1>6
<1> QED BY <1>1, <1>2, <1>4, <1>8, <1>9, <1>10, <1>11, ActorKeeps

-----------------------------------------------------------------------------
(* The invariant holds.                                                    *)

LEMMA InitIsSound ==
    ASSUME Init
    PROVE  IInv
<1>1. /\ now = 0 /\ ctl = [t \in Ticks |-> 0] /\ wire = {} /\ held = 0
      /\ source = "none" /\ selected = None /\ reported = 0 /\ ended = "no"
      /\ gaps = 0 /\ rollouts = {}
  BY DEF Init
<1>2. 0 \in Ticks /\ 0 \in 0..MaxId /\ 0 \in 0..MaxGaps
  BY CreditAssumption DEF Ticks
<1>3. ServerInv
  BY <1>1, <1>2 DEF ServerInv
<1>4. PICK e: e = [from |-> 0, to |-> 0, applied |-> 0, source |-> "none", selected |-> None,
                   kind |-> "initial"]
  OBVIOUS
<1>5. /\ e \in Envelope /\ e.from = 0 /\ e.to = 0 /\ e.applied = 0 /\ e.kind = "initial"
  BY <1>2, <1>4 DEF Envelope, Kinds
<1>6. chan = <<e>>
  BY <1>4 DEF Init
<1>7. Faithful(e, ctl, reported, ended)
  BY <1>1, <1>5 DEF Faithful, Proven
<1>8. chan \in Seq(Envelope) /\ Len(chan) = 1 /\ chan[1] = e
  BY <1>5, <1>6
<1>9. 1..1 = {1} /\ 1..(1 - 1) = {}
  OBVIOUS
<1>10. ChanInv
  BY <1>1, <1>5, <1>7, <1>8, <1>9 DEF ChanInv
<1>11. PICK b \in Gates: actor = NewActor(b)
  BY DEF Init
<1>12. <<>> \in Seq(Credited) /\ FALSE \in BOOLEAN
  OBVIOUS
<1>13. actor \in Actors
  BY <1>2, <1>11, <1>12 DEF NewActor, Actors
<1>14. /\ actor.pc = "online" /\ actor.gate = "open" /\ ~actor.rebase /\ actor.issued = {}
       /\ actor.pend = Nothing /\ actor.end = NoEnd /\ actor.rollout = <<>>
       /\ actor.rollEnd = NoEnd /\ actor.counter = 0
  BY <1>11 DEF NewActor
<1>15. IsFiniteSet({}) /\ Cardinality({}) <= MaxUnconfirmed
  BY CreditAssumption, FS_EmptySet
<1>16. TraceOk(<<>>, ctl, reported, ended) /\ IdsOf(<<>>) = {} /\ Len(<<>>) = 0 /\ 1..0 = {}
  BY EmptyTrace
<1>17. RolloutInv(actor, ctl, reported, ended)
  BY <1>14, <1>16 DEF RolloutInv
<1>18. PendingInv(actor, ctl, reported, ended)
  BY <1>14 DEF PendingInv
<1>19. HeldIds(actor) = {} /\ GivenIds(rollouts) = {}
  BY <1>1, <1>14, <1>16 DEF HeldIds, GivenIds
<1>20. IdInv(actor, rollouts)
  BY <1>14, <1>19 DEF IdInv
<1>21. Sound(actor, ctl, reported, ended, rollouts)
  BY <1>13, <1>14, <1>15, <1>17, <1>18, <1>20 DEF Sound, CreditInv
<1>22. Alive(actor) /\ PaidUpTo(actor, Unread(chan, reported))
  BY <1>14, <1>16 DEF Alive, PaidUpTo
<1>23. ActorInv
  BY <1>1, <1>21, <1>22 DEF ActorInv, GivenInv
<1> QED BY <1>3, <1>10, <1>23 DEF IInv

LEMMA StutterKeeps ==
    ASSUME IInv, UNCHANGED vars
    PROVE  IInv'
<1>1. UNCHANGED <<now, ctl, wire, held, source, selected, reported, ended, chan, gaps,
                  actor, rollouts>>
  BY DEF vars
<1>2. ServerInv'
  BY <1>1 DEF IInv, ServerInv
<1>3. ChanInv'
  BY <1>1 DEF IInv, ChanInv
<1>4. ActorInv'
  BY <1>1 DEF IInv, ActorInv
<1> QED BY <1>2, <1>3, <1>4 DEF IInv

LEMMA NextKeeps ==
    ASSUME IInv, [Next]_vars
    PROVE  IInv'
<1>1. CASE Server
  <2>1. CASE Physics
    BY <2>1, PhysicsKeeps
  <2>2. CASE \E kind \in {"live", "terminal", "truncated"}: Report(kind)
    BY <2>2, ReportKeeps
  <2> QED BY <1>1, <2>1, <2>2 DEF Server
<1>2. CASE Actor
  <2>1. CASE \E advanced \in BOOLEAN: Observe(advanced) \/ Close(advanced) \/ Disconnect(advanced)
    BY <2>1, ObserveKeeps, CloseKeeps, DisconnectKeeps
  <2>2. CASE SendDone
    BY <2>2, SendDoneKeeps
  <2>3. CASE Reclaimed \/ ReclaimRefused
    BY <2>3, ReclaimKeeps
  <2> QED BY <1>2, <2>1, <2>2, <2>3 DEF Actor
<1>3. CASE UNCHANGED vars
  BY <1>3, StutterKeeps
<1> QED BY <1>1, <1>2, <1>3 DEF Next

(* The invariant holds in every state of every behaviour.                  *)
THEOREM Invariance == Spec => []IInv
<1>1. Init => IInv
  BY InitIsSound
<1>2. IInv /\ [Next]_vars => IInv'
  BY NextKeeps
<1> QED BY <1>1, <1>2, PTL DEF Spec

-----------------------------------------------------------------------------
(* What follows from it.                                                   *)

LEMMA TracesOk ==
    ASSUME IInv
    PROVE  /\ \A r \in Traces: TraceOk(r, ctl, reported, ended)
           /\ \A r \in Traces: \/ \E g \in rollouts: r = g.rollout
                               \/ \A i \in DOMAIN r: r[i].id \in HeldIds(actor)
           /\ \A q, r \in Traces: q # r => \/ \E g \in rollouts: q = g.rollout
                                           \/ \E g \in rollouts: r = g.rollout
<1>1. /\ Sound(actor, ctl, reported, ended, rollouts) /\ GivenOk(rollouts, ctl, reported, ended)
  BY ActorIs
<1>2. /\ RolloutInv(actor, ctl, reported, ended) /\ PendingInv(actor, ctl, reported, ended)
      /\ TraceOk(actor.rollout, ctl, reported, ended) /\ actor \in Actors
  BY <1>1, SoundParts
<1>3. PICK w: w = IF actor.pend = Nothing THEN actor.rollout
                  ELSE Append(actor.rollout, actor.pend)
  OBVIOUS
<1>4. TraceOk(w, ctl, reported, ended) /\ \A i \in DOMAIN w: w[i].id \in HeldIds(actor)
  <2>1. PICK r: r = actor.rollout
    OBVIOUS
  <2>2. TraceOk(r, ctl, reported, ended) /\ Len(r) \in Nat /\ DOMAIN r = 1..Len(r)
    BY <1>2, <2>1, TraceIs
  <2>3. \A i \in 1..Len(r): r[i].id \in HeldIds(actor)
    BY <2>1 DEF HeldIds, IdsOf
  <2>4. CASE actor.pend = Nothing
    BY <1>3, <2>1, <2>2, <2>3, <2>4
  <2>5. CASE actor.pend # Nothing
    <3>1. PICK x: x = actor.pend
      OBVIOUS
    <3>2. /\ Paid(x, ctl, reported, ended) /\ \A i \in 1..Len(r): r[i].id < x.id
          /\ r # <<>> => Joined(r[Len(r)], x)
      BY <1>2, <2>1, <2>5, <3>1 DEF PendingInv
    <3>3. w = Append(r, x)
      BY <1>3, <2>1, <2>5, <3>1
    <3>4. TraceOk(w, ctl, reported, ended)
      BY <2>2, <3>2, <3>3, TraceAppend, Zenon
    <3>5. /\ Len(w) = Len(r) + 1 /\ w[Len(w)] = x
          /\ \A i \in 1..Len(r): w[i] = r[i]
      BY <2>2, <3>2, <3>3, TraceAppend
    <3>6. DOMAIN w = 1..Len(w)
      BY <3>4, TraceIs
    <3>7. \A i \in DOMAIN w: i \in 1..Len(r) \/ i = Len(w)
      BY <2>2, <3>5, <3>6
    <3>8. x.id \in HeldIds(actor)
      BY <2>5, <3>1 DEF HeldIds
    <3> QED BY <2>3, <3>4, <3>5, <3>7, <3>8
  <2> QED BY <2>4, <2>5
<1>5. \A r \in Traces: r = w \/ \E g \in rollouts: r = g.rollout
  BY <1>3 DEF Traces
<1>6. \A g \in rollouts: TraceOk(g.rollout, ctl, reported, ended)
  BY <1>1 DEF GivenOk, GivenInv
<1> QED BY <1>4, <1>5, <1>6

LEMMA SamplesArePaid ==
    ASSUME IInv
    PROVE  \A x \in Samples: Paid(x, ctl, reported, ended)
<1>1. ASSUME NEW x \in Samples PROVE Paid(x, ctl, reported, ended)
  <2>1. PICK r \in Traces: x \in {r[i]: i \in DOMAIN r}
    BY <1>1 DEF Samples
  <2>2. TraceOk(r, ctl, reported, ended)
    BY <2>1, TracesOk
  <2>3. PICK i \in DOMAIN r: x = r[i]
    BY <2>1
  <2> QED BY <2>2, <2>3, TraceIs
<1> QED BY <1>1

(* Every variable keeps its type: in particular the actor never holds more *)
(* unconfirmed samples than the cap.                                       *)
THEOREM TypeCorrect == Spec => []TypeOK
<1>1. IInv => TypeOK
  <2>1. ASSUME IInv PROVE TypeOK
    <3>1. actor \in Actors /\ Cardinality(actor.issued) <= MaxUnconfirmed
      BY <2>1, ActorIs, SoundParts
    <3>2. rollouts \subseteq Rollouts
      BY <2>1, ActorIs DEF GivenOk
    <3>3. chan \in Seq(Envelope)
      BY <2>1 DEF IInv, ChanInv
    <3> QED BY <2>1, <3>1, <3>2, <3>3 DEF IInv, ServerInv, TypeOK, Actors, Rollouts
  <2> QED BY <2>1
<1> QED BY <1>1, Invariance, PTL

(* Reward goes to the sample that was in physical control: no step is      *)
(* credited to a sample whose command did not hold for all of it.          *)
THEOREM CreditGoesToControl == Spec => []CreditIsControl
<1>1. IInv => CreditIsControl
  <2>1. ASSUME IInv, NEW x \in Samples
        PROVE  x.steps # {} /\ \A t \in x.steps: ctl[t] = x.id
    <3>1. Paid(x, ctl, reported, ended)
      BY <2>1, SamplesArePaid
    <3>2. PICK a \in Nat: a = FirstStep(x)
      BY <3>1 DEF Paid
    <3>3. PICK b \in Nat: b = LastStep(x)
      BY <3>1 DEF Paid
    <3>4. a <= b /\ x.steps = a..b
      BY <3>1, <3>2, <3>3 DEF Paid
    <3>5. a \in x.steps
      BY <3>4
    <3> QED BY <3>1, <3>5 DEF Paid
  <2> QED BY <2>1 DEF CreditIsControl
<1> QED BY <1>1, Invariance, PTL

(* No step is paid twice, no sample is collected twice, and the steps of a *)
(* sample are consecutive.                                                 *)
THEOREM PaidOnce == Spec => []NoStepTwice
<1>1. IInv => NoStepTwice
  <2>1. ASSUME IInv PROVE NoStepTwice
    <3>1. ASSUME NEW r \in Traces PROVE \A i, j \in DOMAIN r: i < j => r[i].id < r[j].id
      <4>1. TraceOk(r, ctl, reported, ended)
        BY <2>1, TracesOk
      <4> QED BY <4>1, TraceIs DEF TraceOk
    <3>2. ASSUME NEW q \in Traces, NEW r \in Traces, q # r,
                 NEW i \in DOMAIN q, NEW j \in DOMAIN r
          PROVE  q[i].id # r[j].id
      <4>1. TraceOk(q, ctl, reported, ended) /\ TraceOk(r, ctl, reported, ended)
        BY <2>1, TracesOk
      <4>2. q[i].id \in IdsOf(q) /\ r[j].id \in IdsOf(r) /\ q[i].id \in Nat /\ r[j].id \in Nat
        BY <4>1, TraceIs DEF IdsOf
      <4>3. IdInv(actor, rollouts) /\ GivenInv(rollouts, ctl, reported, ended)
        BY <2>1, ActorIs, SoundParts DEF GivenOk
      <4>4. \A g \in rollouts: \A k \in IdsOf(g.rollout): k \in GivenIds(rollouts)
        BY DEF GivenIds
      <4>5. \A k \in GivenIds(rollouts), h \in HeldIds(actor): k < h
        BY <4>3 DEF IdInv
      <4>6. CASE (\E g \in rollouts: q = g.rollout) /\ (\E g \in rollouts: r = g.rollout)
        BY <3>2, <4>2, <4>3, <4>6 DEF GivenInv
      <4>7. CASE (\E g \in rollouts: q = g.rollout) /\ r[j].id \in HeldIds(actor)
        BY <4>2, <4>4, <4>5, <4>7
      <4>8. CASE q[i].id \in HeldIds(actor) /\ (\E g \in rollouts: r = g.rollout)
        BY <4>2, <4>4, <4>5, <4>8
      <4>9. /\ (\E g \in rollouts: q = g.rollout) \/ q[i].id \in HeldIds(actor)
            /\ (\E g \in rollouts: r = g.rollout) \/ r[j].id \in HeldIds(actor)
            /\ (\E g \in rollouts: q = g.rollout) \/ (\E g \in rollouts: r = g.rollout)
        BY <2>1, <3>2, TracesOk
      <4> QED BY <4>6, <4>7, <4>8, <4>9
    <3>3. ASSUME NEW x \in Samples, NEW y \in Samples, x.id # y.id
          PROVE  x.steps \cap y.steps = {}
      <4>1. Paid(x, ctl, reported, ended) /\ Paid(y, ctl, reported, ended)
        BY <2>1, SamplesArePaid
      <4> QED BY <3>3, <4>1 DEF Paid
    <3>4. ASSUME NEW x \in Samples PROVE x.steps = FirstStep(x)..LastStep(x)
      BY <2>1, SamplesArePaid DEF Paid
    <3> QED BY <3>1, <3>2, <3>3, <3>4 DEF NoStepTwice
  <2> QED BY <2>1
<1> QED BY <1>1, Invariance, PTL

(* Generalized advantage estimation gets the trace that the snake lived:   *)
(* cut, ended and bootstrapped where, and only where, its life or the      *)
(* actor's control of it was.                                              *)
THEOREM TraceIsExact == Spec => []TraceExact
<1>1. IInv => TraceExact
  <2>1. ASSUME IInv PROVE TraceExact
    <3>1. TraceContinuous
      <4>1. ASSUME NEW r \in Traces, NEW i \in 1..(Len(r) - 1) PROVE Joined(r[i], r[i + 1])
        BY <2>1, TracesOk DEF TraceOk
      <4> QED BY <4>1 DEF TraceContinuous, Joined
    <3>2. DoneAtDeath
      BY <2>1, SamplesArePaid DEF DoneAtDeath, Paid
    <3>3. BootstrapAtEnd
      <4>1. GivenInv(rollouts, ctl, reported, ended)
        BY <2>1, ActorIs DEF GivenOk
      <4>2. RolloutInv(actor, ctl, reported, ended) /\ PendingInv(actor, ctl, reported, ended)
        BY <2>1, ActorIs, SoundParts
      <4> QED BY <4>1, <4>2 DEF BootstrapAtEnd, GivenInv, RolloutInv, PendingInv
    <3> QED BY <3>1, <3>2, <3>3 DEF TraceExact
  <2> QED BY <2>1
<1> QED BY <1>1, Invariance, PTL
=============================================================================
