------------------------ MODULE SyncCollection_proofs ------------------------
(***************************************************************************)
(* The safety of the collection barrier for any actors, horizon, budget,   *)
(* queue capacity and bounds.                                              *)
(***************************************************************************)
EXTENDS SyncCollection, FiniteSetTheorems, SequenceTheorems, TLAPS

(* x was sampled in epoch e from policy version v.                         *)
Fresh(x, e, v) == x.epoch = e /\ x.ver = v

Idle(s) == s.rollout = <<>> /\ s.pend = NoSample /\ s.issued = {}

(* Every decision that s knows of is older than n.                         *)
Below(s, n) ==
    /\ \A i \in 1..Len(s.rollout): s.rollout[i].id < n
    /\ s.pend # NoSample => s.pend.id < n
    /\ \A x \in s.issued: x.id < n

(* Decisions are older along rollout, credited and issued samples.         *)
Ordered(s) ==
    /\ \A i, j \in 1..Len(s.rollout): i < j => s.rollout[i].id < s.rollout[j].id
    /\ s.pend # NoSample => \A i \in 1..Len(s.rollout): s.rollout[i].id < s.pend.id
    /\ \A x \in s.issued:
         /\ \A i \in 1..Len(s.rollout): s.rollout[i].id < x.id
         /\ s.pend # NoSample => s.pend.id < x.id
    /\ \A x, y \in s.issued: x.id = y.id => x = y
    /\ Below(s, s.counter + 1)

(* What every helper of an actor keeps.                                    *)
Core(s, e, v) ==
    /\ s \in ActorState
    /\ s.submitted <= s.active /\ s.active <= e
    /\ s.active # e \/ s.submitted = e => Idle(s)
    /\ \A i \in 1..Len(s.rollout): Fresh(s.rollout[i], e, v)
    /\ \A x \in s.issued: Fresh(x, e, v)
    /\ s.pend # NoSample => Fresh(s.pend, e, v)
    /\ s.fence => s.rollout = <<>> /\ s.pend = NoSample
    /\ s.fenceId # 0 => s.fenceEpoch = s.active
    /\ s.active > 0 /\ ~s.fence => s.fenceId # 0
    /\ Ordered(s)

(* t differs from s at most in what Core does not speak of.                *)
SameData(t, s) ==
    /\ t.active = s.active /\ t.submitted = s.submitted
    /\ t.fence = s.fence /\ t.fenceId = s.fenceId /\ t.fenceEpoch = s.fenceEpoch
    /\ t.rollout = s.rollout /\ t.issued = s.issued /\ t.pend = s.pend
    /\ t.counter \in {s.counter, s.counter + 1}

(* What holds of an actor between two of its steps.                        *)
ActorInv(s, e, v) ==
    /\ Core(s, e, v)
    /\ s.pc # "fatal"
    /\ s.pc = "sending" =>
         /\ s.sample \in Sample /\ s.sample.epoch = s.active
         /\ s.sample.id = s.counter /\ Below(s, s.counter)
         /\ s.track => s.submitted # e /\ s.active = e /\ Fresh(s.sample, e, v)
    /\ s.pc = "putting" => /\ s.submitted # e /\ s.active = e /\ s.cont \in Callers
                           /\ Len(s.rollout) <= Horizon + 1
    /\ s.pc # "putting" => Len(s.rollout) < Horizon

-----------------------------------------------------------------------------
(* The helpers of an actor.                                                *)

LEMMA NoSampleIsNone == NoSample \notin Sample
BY DEF NoSample, Sample, Ids

LEMMA Zeros == /\ 0 \in Epochs /\ 0 \in 0..MaxId
               /\ \A e \in Epochs: e \in Nat /\ e # None
BY BoundsAssumption DEF Epochs, None

LEMMA SamplesHaveIds ==
    ASSUME NEW s, s \in ActorState
    PROVE  /\ s.counter \in Nat /\ Len(s.rollout) \in Nat
           /\ \A i \in 1..Len(s.rollout): s.rollout[i] \in Sample /\ s.rollout[i].id \in Nat
           /\ \A x \in s.issued: x \in Sample /\ x.id \in Nat
           /\ s.pend.id \in Nat
<1>1. \A x \in Sample: x.id \in Nat
  BY DEF Sample, Ids
<1>2. /\ s.counter \in 0..MaxId /\ s.rollout \in Seq(Sample)
      /\ s.issued \subseteq Sample /\ s.pend \in Sample \cup {NoSample}
  BY DEF ActorState
<1> QED BY <1>1, <1>2 DEF NoSample

LEMMA OrderedFrame ==
    ASSUME NEW s, NEW t, s \in ActorState, Ordered(s), SameData(t, s)
    PROVE  Ordered(t) /\ Below(t, s.counter + 1)
<1>1. Below(t, s.counter + 1)
  BY DEF Ordered, Below, SameData
<1>2. Below(t, t.counter + 1)
  <2>1. CASE t.counter = s.counter
    BY <1>1, <2>1
  <2>2. CASE t.counter = s.counter + 1
    <3>1. /\ s.counter \in Nat /\ Len(s.rollout) \in Nat
          /\ \A i \in 1..Len(s.rollout): s.rollout[i].id \in Nat
          /\ \A x \in s.issued: x.id \in Nat
          /\ s.pend.id \in Nat
      BY SamplesHaveIds
    <3> QED BY <1>1, <2>2, <3>1 DEF Below, SameData
  <2> QED BY <2>1, <2>2 DEF SameData
<1>3. Ordered(t)
  BY <1>2 DEF Ordered, SameData
<1> QED BY <1>1, <1>3

LEMMA IdleOrdered ==
    ASSUME NEW s, Idle(s)
    PROVE  Ordered(s) /\ \A n: Below(s, n)
BY DEF Idle, Ordered, Below

LEMMA CoreFrame ==
    ASSUME NEW s, NEW t, NEW e, NEW v, Core(s, e, v), t \in ActorState, SameData(t, s)
    PROVE  Core(t, e, v)
<1>1. Ordered(t)
  BY OrderedFrame DEF Core
<1> QED BY <1>1 DEF Core, SameData, Idle

(* Nothing an actor holds crosses an epoch, and entering one keeps Core.   *)
LEMMA RefreshCore ==
    ASSUME NEW s, NEW v, epoch \in Epochs, Core(s, epoch, v)
    PROVE  /\ ~CrossedEpoch(s)
           /\ Core(RefreshCollectionEpoch(s), epoch, v)
           /\ RefreshCollectionEpoch(s).active = epoch
           /\ RefreshCollectionEpoch(s).rollout = s.rollout
           /\ RefreshCollectionEpoch(s).submitted = epoch <=> s.submitted = epoch
           /\ RefreshCollectionEpoch(s).pc = s.pc
<1>1. ~CrossedEpoch(s)
  BY DEF Core, CrossedEpoch, Idle
<1>2. CASE s.active = epoch
  BY <1>1, <1>2 DEF RefreshCollectionEpoch
<1>3. CASE s.active # epoch
  <2> DEFINE r == [s EXCEPT !.active = epoch, !.submitted = None, !.fence = TRUE,
                            !.fenceId = 0, !.fenceEpoch = 0]
  <2>1. RefreshCollectionEpoch(s) = r
    BY <1>3 DEF RefreshCollectionEpoch
  <2>2. r \in ActorState
    BY Zeros DEF Core, ActorState
  <2>3. Idle(s) /\ s.submitted # epoch
    BY <1>3, Zeros DEF Core, ActorState, None
  <2>4. Idle(r) /\ r.active = epoch /\ r.submitted = None /\ r.fence /\ r.fenceId = 0
    BY <2>2, <2>3 DEF Idle, Core, ActorState
  <2> HIDE DEF r
  <2>5. Core(r, epoch, v)
    <3>1. Ordered(r)
      BY <2>4, IdleOrdered
    <3> QED BY <2>2, <2>4, <3>1, Zeros DEF Core, Idle, None
  <2>6. r.rollout = s.rollout /\ r.pc = s.pc
    BY DEF Core, ActorState, r
  <2> QED BY <1>1, <2>1, <2>3, <2>4, <2>5, <2>6, Zeros
<1> QED BY <1>2, <1>3

LEMMA ClearCore ==
    ASSUME NEW s, NEW e, NEW v, Core(s, e, v)
    PROVE  /\ Core(ClearUnfinishedActions(s), e, v)
           /\ ClearUnfinishedActions(s).rollout = s.rollout
           /\ ClearUnfinishedActions(s).active = s.active
           /\ ClearUnfinishedActions(s).submitted = s.submitted
           /\ ClearUnfinishedActions(s).pc = s.pc
<1> DEFINE t == ClearUnfinishedActions(s)
<1>1. /\ t \in ActorState /\ t.pend = NoSample /\ t.issued = {}
      /\ t.rollout = s.rollout /\ t.active = s.active /\ t.submitted = s.submitted
      /\ t.fence = s.fence /\ t.fenceId = s.fenceId /\ t.fenceEpoch = s.fenceEpoch
      /\ t.pc = s.pc /\ t.counter = s.counter
  BY DEF Core, ClearUnfinishedActions, ActorState
<1> HIDE DEF t
<1>2. Ordered(t)
  BY <1>1 DEF Core, Ordered, Below
<1>3. Core(t, e, v)
  BY <1>1, <1>2 DEF Core, Idle
<1> QED BY <1>1, <1>3 DEF t

LEMMA FinishCore ==
    ASSUME NEW s, NEW e, NEW v, Core(s, e, v)
    PROVE  /\ Core(FinishCreditedAction(s), e, v)
           /\ Len(FinishCreditedAction(s).rollout) <= Len(s.rollout) + 1
           /\ FinishCreditedAction(s).active = s.active
           /\ FinishCreditedAction(s).submitted = s.submitted
           /\ FinishCreditedAction(s).fence = s.fence
           /\ FinishCreditedAction(s).pc = s.pc
           /\ FinishCreditedAction(s).pend = NoSample
           /\ FinishCreditedAction(s).issued = s.issued
<1>1. CASE s.pend = NoSample
  BY <1>1 DEF Core, ActorState, FinishCreditedAction
<1>2. CASE s.pend # NoSample
  <2> DEFINE r == Append(s.rollout, s.pend)
             f == [s EXCEPT !.rollout = r, !.pend = NoSample]
  <2>1. FinishCreditedAction(s) = f
    BY <1>2 DEF FinishCreditedAction
  <2>2. s.rollout \in Seq(Sample) /\ s.pend \in Sample /\ Len(s.rollout) \in Nat
    BY <1>2 DEF Core, ActorState
  <2>3. /\ r \in Seq(Sample) /\ Len(r) = Len(s.rollout) + 1
        /\ \A i \in 1..Len(r): r[i] = IF i <= Len(s.rollout) THEN s.rollout[i] ELSE s.pend
    BY <2>2, AppendProperties
  <2>4. \A i \in 1..Len(r): Fresh(r[i], e, v)
    BY <1>2, <2>2, <2>3 DEF Core
  <2> HIDE DEF r
  <2>5. /\ f \in ActorState /\ f.rollout = r /\ f.pend = NoSample
        /\ f.issued = s.issued /\ f.counter = s.counter /\ f.pc = s.pc
        /\ f.active = s.active /\ f.submitted = s.submitted /\ f.fence = s.fence
        /\ f.fenceId = s.fenceId /\ f.fenceEpoch = s.fenceEpoch
    BY <2>3 DEF Core, ActorState
  <2>6. s.active = e /\ s.submitted # e /\ ~s.fence
    BY <1>2 DEF Core, Idle
  <2> HIDE DEF f
  <2>7. Ordered(f)
    <3>1. Ordered(s) /\ s \in ActorState
      BY DEF Core
    <3>2. Below(f, f.counter + 1)
      BY <1>2, <2>2, <2>3, <2>5, <3>1 DEF Ordered, Below
    <3>3. \A i, j \in 1..Len(r): i < j => r[i].id < r[j].id
      BY <1>2, <2>2, <2>3, <3>1 DEF Ordered
    <3>4. \A x \in s.issued: \A i \in 1..Len(r): r[i].id < x.id
      BY <1>2, <2>2, <2>3, <3>1 DEF Ordered
    <3> QED BY <2>5, <3>1, <3>2, <3>3, <3>4 DEF Ordered
  <2>8. Core(f, e, v)
    BY <2>4, <2>5, <2>6, <2>7 DEF Core, Idle
  <2> QED BY <2>1, <2>2, <2>3, <2>5, <2>8
<1> QED BY <1>1, <1>2

-----------------------------------------------------------------------------
LEMMA ObserveFenceCore ==
    ASSUME NEW s, NEW v, NEW k, Core(s, epoch, v)
    PROVE  /\ Core(ObserveCollectionFence(s, k), epoch, v)
           /\ ObserveCollectionFence(s, k).active = s.active
           /\ ObserveCollectionFence(s, k).submitted = s.submitted
           /\ ObserveCollectionFence(s, k).rollout = s.rollout
           /\ ObserveCollectionFence(s, k).pc = s.pc
<1> DEFINE o == [s EXCEPT !.fence = FALSE]
<1>1. CASE ObserveCollectionFence(s, k) = s
  BY <1>1
<1>2. CASE ObserveCollectionFence(s, k) # s
  <2>1. ObserveCollectionFence(s, k) = o /\ s.fenceId # 0
    BY <1>2 DEF ObserveCollectionFence
  <2>2. /\ o \in ActorState /\ ~o.fence
        /\ o.active = s.active /\ o.submitted = s.submitted
        /\ o.fenceId = s.fenceId /\ o.fenceEpoch = s.fenceEpoch
        /\ o.rollout = s.rollout /\ o.issued = s.issued /\ o.pend = s.pend
        /\ o.counter = s.counter /\ o.pc = s.pc
    BY DEF Core, ActorState
  <2> HIDE DEF o
  <2>3. Ordered(o)
    BY <2>2 DEF Core, Ordered, Below
  <2>4. Core(o, epoch, v)
    BY <2>1, <2>2, <2>3 DEF Core, Idle
  <2> QED BY <2>1, <2>2, <2>4
<1> QED BY <1>1, <1>2

LEMMA CreditCore ==
    ASSUME NEW s, NEW v, NEW k, NEW proven, Core(s, epoch, v), s.active = epoch
    PROVE  /\ Core(CreditAction(s, k, proven), epoch, v)
           /\ CreditAction(s, k, proven).active = s.active
           /\ CreditAction(s, k, proven).submitted = s.submitted
           /\ Len(CreditAction(s, k, proven).rollout) <= Len(s.rollout) + 1
           /\ CreditAction(s, k, proven).pc = s.pc
<1> DEFINE f == IF ~proven \/ s.pend.id # k THEN FinishCreditedAction(s) ELSE s
           match == {x \in f.issued: x.id = k}
           p == IF match = {} THEN NoSample ELSE CHOOSE x \in match: TRUE
           g == [f EXCEPT !.pend = p, !.issued = AwaitingAfter(f, k)]
<1>1. /\ Core(f, epoch, v) /\ Len(f.rollout) <= Len(s.rollout) + 1
      /\ f.active = s.active /\ f.submitted = s.submitted /\ f.pc = s.pc
      /\ f.fence = s.fence
  <2>1. Len(s.rollout) \in Nat
    BY DEF Core, ActorState
  <2>2. CASE f = s
    BY <2>1, <2>2
  <2>3. CASE f = FinishCreditedAction(s)
    BY <2>3, FinishCore
  <2> QED BY <2>2, <2>3
<1>2. CASE ~TrainingCollectionOpen(s)
  BY <1>2 DEF CreditAction, Core, ActorState
<1>3. CASE TrainingCollectionOpen(s) /\ (~proven \/ f.pend # NoSample)
  <2>1. CreditAction(s, k, proven) = f
    BY <1>3, Zenon DEF CreditAction
  <2> HIDE DEF f
  <2> QED BY <1>1, <2>1
<1>4. CASE TrainingCollectionOpen(s) /\ proven /\ f.pend = NoSample
  <2>1. CreditAction(s, k, proven) = g
    BY <1>4, Zenon DEF CreditAction
  <2> HIDE DEF f
  <2>2. match # {} => (CHOOSE x \in match: TRUE) \in match
    BY Zenon
  <2>3. p = NoSample \/ (p \in f.issued /\ p.id = k)
    BY <2>2
  <2> HIDE DEF p
  <2>4. s.submitted # epoch /\ ~s.fence
    BY <1>4 DEF TrainingCollectionOpen, CollectionOpen
  <2>5. g \in ActorState /\ g.pend = p /\ g.issued \subseteq f.issued
        /\ g.rollout = f.rollout /\ g.pc = f.pc
        /\ g.active = f.active /\ g.submitted = f.submitted /\ g.fence = f.fence
        /\ g.fenceId = f.fenceId /\ g.fenceEpoch = f.fenceEpoch
        /\ g.counter = f.counter /\ g.issued = AwaitingAfter(f, k)
    BY <1>1, <2>3 DEF Core, ActorState, AwaitingAfter
  <2> HIDE DEF g
  <2>6. Ordered(g)
    <3>1. Ordered(f) /\ f.pend = NoSample
      BY <1>1, <1>4 DEF Core
    <3>2. Below(g, g.counter + 1)
      BY <2>3, <2>5, <3>1 DEF Ordered, Below
    <3>3. g.pend # NoSample => \A x \in g.issued: g.pend.id < x.id
      BY <2>3, <2>5 DEF AwaitingAfter
    <3> QED BY <2>3, <2>5, <3>1, <3>2, <3>3 DEF Ordered
  <2>7. Core(g, epoch, v)
    BY <1>1, <2>3, <2>4, <2>5, <2>6 DEF Core
  <2> QED BY <1>1, <2>1, <2>5, <2>7
<1> QED BY <1>2, <1>3, <1>4

(* An envelope leaves the actor in the current epoch with at most one more *)
(* sample in its rollout.                                                  *)
LEMMA AccountCore ==
    ASSUME NEW s, NEW v, NEW k \in 0..MaxId, NEW proven, NEW initial,
           epoch \in Epochs, Core(s, epoch, v)
    PROVE  LET t == AccountEnvelope(s, k, proven, initial) IN
           /\ Core(t, epoch, v)
           /\ t.active = epoch
           /\ t.submitted = epoch <=> s.submitted = epoch
           /\ Len(t.rollout) <= Len(s.rollout) + 1
           /\ t.pc = s.pc
<1> DEFINE r == RefreshCollectionEpoch(s)
           h == IF k = 0 THEN r ELSE [r EXCEPT !.applied = TRUE, !.floor = k]
           o == ObserveCollectionFence(h, k)
           c == IF s.rebase \/ initial THEN o ELSE CreditAction(o, k, proven)
           l == IF s.rebase \/ s.life = "broken" THEN "broken" ELSE "live"
           t == [c EXCEPT !.rebase = FALSE, !.life = l]
<1>1. /\ Core(r, epoch, v) /\ r.active = epoch /\ r.rollout = s.rollout /\ r.pc = s.pc
      /\ r.submitted = epoch <=> s.submitted = epoch
  BY RefreshCore
<1> HIDE DEF r
<1>2. /\ Core(h, epoch, v) /\ h.active = epoch /\ h.rollout = s.rollout /\ h.pc = s.pc
      /\ h.submitted = r.submitted
  <2> DEFINE q == [r EXCEPT !.applied = TRUE, !.floor = k]
  <2>1. q \in ActorState /\ SameData(q, r) /\ q.pc = r.pc
    BY <1>1 DEF Core, ActorState, SameData
  <2> HIDE DEF q
  <2>2. Core(q, epoch, v)
    BY <1>1, <2>1, CoreFrame
  <2>3. h = r \/ h = q
    BY DEF q
  <2> HIDE DEF h
  <2> QED BY <1>1, <2>1, <2>2, <2>3 DEF SameData
<1> HIDE DEF h
<1>3. /\ Core(o, epoch, v) /\ o.active = epoch /\ o.rollout = s.rollout /\ o.pc = s.pc
      /\ o.submitted = r.submitted
  BY <1>2, ObserveFenceCore
<1> HIDE DEF o
<1>4. Len(s.rollout) \in Nat
  BY DEF Core, ActorState
<1>5. /\ Core(c, epoch, v) /\ c.active = epoch /\ c.pc = s.pc
      /\ c.submitted = r.submitted /\ Len(c.rollout) <= Len(s.rollout) + 1
  <2>1. CASE c = o
    BY <1>3, <1>4, <2>1
  <2>2. CASE c = CreditAction(o, k, proven)
    BY <1>3, <2>2, CreditCore
  <2> QED BY <2>1, <2>2
<1> HIDE DEF c
<1>6. t \in ActorState /\ SameData(t, c) /\ t.pc = c.pc
  <2>1. l \in Lives
    BY DEF Lives
  <2> HIDE DEF l
  <2>2. c \in ActorState
    BY <1>5 DEF Core
  <2> QED BY <2>1, <2>2 DEF ActorState, SameData
<1> HIDE DEF t
<1>7. Core(t, epoch, v)
  BY <1>5, <1>6, CoreFrame
<1>8. AccountEnvelope(s, k, proven, initial) = t
  BY Zenon DEF AccountEnvelope, t, l, c, o, h, r
<1> QED BY <1>1, <1>5, <1>6, <1>7, <1>8 DEF SameData

(* The bookkeeping of an admission leaves nothing behind.                  *)
LEMMA AdmitCore ==
    ASSUME NEW s, NEW v, epoch \in Epochs, Core(s, epoch, v), s.active = epoch
    PROVE  LET t == Admit([s EXCEPT !.cont = "none"], epoch) IN
           /\ Core(t, epoch, v) /\ t.active = epoch /\ t.submitted = epoch
           /\ t.rollout = <<>>
<1> DEFINE t == [s EXCEPT !.cont = "none", !.pend = NoSample, !.issued = {},
                          !.rollout = <<>>, !.submitted = epoch]
<1>1. Admit([s EXCEPT !.cont = "none"], epoch) = t
  BY DEF Core, ActorState, Admit, ClearUnfinishedActions
<1>2. s \in ActorState /\ <<>> \in Seq(Sample)
  BY DEF Core
<1>3. t \in ActorState /\ Idle(t) /\ t.active = s.active /\ t.submitted = epoch
      /\ t.fenceId = s.fenceId /\ t.fenceEpoch = s.fenceEpoch /\ t.fence = s.fence
  BY <1>2 DEF ActorState, Idle
<1> HIDE DEF t
<1>4. Core(t, epoch, v)
  BY <1>3, Zeros, IdleOrdered DEF Core, Idle
<1> QED BY <1>1, <1>3, <1>4 DEF Idle

(* Between two steps only sending and waiting for room need more than Core. *)
LEMMA Settled ==
    ASSUME NEW s, NEW e, NEW v, Core(s, e, v), s.pc \in {"joining", "online"},
           Len(s.rollout) < Horizon
    PROVE  ActorInv(s, e, v)
BY DEF ActorInv

LEMMA FreshLifeInv ==
    ASSUME NEW s, NEW e, NEW v, Core(s, e, v)
    PROVE  ActorInv(FreshLife(s), e, v) /\ FreshLife(s).submitted = s.submitted
<1> DEFINE t == [s EXCEPT !.pend = NoSample, !.issued = {}, !.pc = "online",
                          !.life = "unseen", !.rebase = FALSE, !.rollout = <<>>,
                          !.applied = FALSE, !.floor = s.counter]
<1>1. FreshLife(s) = t
  BY DEF Core, ActorState, FreshLife, ClearUnfinishedActions
<1>2. s \in ActorState /\ <<>> \in Seq(Sample)
  BY DEF Core
<1>3. t \in ActorState /\ Idle(t) /\ t.active = s.active /\ t.submitted = s.submitted
      /\ t.fenceId = s.fenceId /\ t.fenceEpoch = s.fenceEpoch /\ t.fence = s.fence
      /\ t.pc = "online"
  BY <1>2 DEF ActorState, Idle, Lives
<1> HIDE DEF t
<1>4. Core(t, e, v)
  BY <1>3, Zeros, IdleOrdered DEF Core, Idle
<1>5. Len(t.rollout) < Horizon
  BY <1>3, HorizonAssumption DEF Idle
<1> QED BY <1>1, <1>3, <1>4, <1>5, Settled

(* The rest of a handler keeps what the actor has submitted.               *)
LEMMA AfterSubmitInv ==
    ASSUME NEW s, NEW cont \in Callers, Core(s, epoch, published), epoch \in Epochs,
           published \in Nat, s.active = epoch, Len(s.rollout) < Horizon,
           NEW t \in AfterSubmit(s, cont)
    PROVE  ActorInv(t, epoch, published) /\ t.submitted = s.submitted
<1>0. s \in ActorState /\ s.counter \in 0..MaxId
  BY DEF Core, ActorState
<1>1. CASE cont = "sensors" /\ t = [s EXCEPT !.pc = "online"]
  <2>1. t \in ActorState /\ SameData(t, s) /\ t.pc = "online"
    BY <1>0, <1>1 DEF ActorState, SameData
  <2> QED BY <2>1, CoreFrame, Settled DEF SameData
<1>2. CASE cont = "sensors" /\ t = SampleAction(s) /\ s.counter < MaxId
  <2> DEFINE x == [id |-> s.counter + 1, epoch |-> epoch, ver |-> published]
             n == s.counter + 1
  <2>1. x \in Sample /\ n \in 0..MaxId
    BY <1>0, <1>2, BoundsAssumption DEF Sample, Ids, Versions
  <2>2. Fresh(x, epoch, published) /\ x.epoch = epoch
    BY DEF Fresh
  <2>3. t = [s EXCEPT !.pc = "sending", !.counter = n, !.sample = x,
                      !.track = (s.submitted # epoch)]
    BY <1>2 DEF SampleAction, CanTrackAction, CollectionOpen
  <2> HIDE DEF x, n
  <2>4. t \in ActorState /\ SameData(t, s) /\ t.pc = "sending" /\ t.sample = x
        /\ t.track = (s.submitted # epoch) /\ t.counter = n
    BY <1>0, <2>1, <2>3 DEF ActorState, SameData, n
  <2>5. Core(t, epoch, published)
    BY <2>4, CoreFrame
  <2>6. x.id = t.counter /\ Below(t, t.counter)
    BY <2>4, OrderedFrame DEF Core, x, n
  <2> QED BY <2>1, <2>2, <2>4, <2>5, <2>6 DEF ActorInv, SameData
<1>3. CASE cont \in {"closure", "replaced", "refused", "rejoin"}
  <2>1. PICK how \in {"closed", "none"}, p \in {"online", "joining"}:
          t = [s EXCEPT !.life = how, !.rebase = FALSE, !.applied = FALSE, !.floor = 0,
                        !.pc = p]
    BY <1>0, <1>3 DEF AfterSubmit, EndLife, ActorState
  <2>2. t \in ActorState /\ SameData(t, s) /\ t.pc = p
    BY <1>0, <2>1, Zeros DEF ActorState, SameData, Lives
  <2> QED BY <2>2, CoreFrame, Settled DEF SameData
<1>4. CASE cont = "gap"
  <2>1. t = Gap(s)
    BY <1>4 DEF AfterSubmit
  <2> DEFINE l == IF s.life = "live" THEN "broken" ELSE s.life
             b == s.life \in {"unseen", "live", "broken"}
  <2>2. l \in Lives /\ b \in BOOLEAN
    BY <1>0 DEF ActorState, Lives
  <2>3. t = [s EXCEPT !.pc = "joining", !.rebase = b, !.life = l]
    BY <2>1 DEF Gap
  <2> HIDE DEF l, b
  <2>4. t \in ActorState /\ SameData(t, s) /\ t.pc = "joining"
    BY <1>0, <2>2, <2>3 DEF ActorState, SameData
  <2> QED BY <2>4, CoreFrame, Settled DEF SameData
<1>5. CASE cont = "assign"
  BY <1>5, FreshLifeInv DEF AfterSubmit
<1>6. CASE cont = "sensors"
  <2>1. \/ t = [s EXCEPT !.pc = "online"]
        \/ t = SampleAction(s) /\ s.counter < MaxId
    BY <1>6 DEF AfterSubmit
  <2> QED BY <1>1, <1>2, <1>6, <2>1
<1> QED BY <1>3, <1>4, <1>5, <1>6 DEF Callers

-----------------------------------------------------------------------------
(* What a step of an actor amounts to for everybody else.                  *)

(* It changes itself, without any contribution.                            *)
Stays(a) ==
    \E t:
        /\ act' = [act EXCEPT ![a] = t]
        /\ ActorInv(t, epoch, published)
        /\ t.submitted = epoch <=> act[a].submitted = epoch
        /\ UNCHANGED <<queue, admitted>>

(* It contributes to the current epoch, for the first time.                *)
Contributes(a) ==
    \E t, r:
        /\ act' = [act EXCEPT ![a] = t]
        /\ ActorInv(t, epoch, published)
        /\ act[a].submitted # epoch /\ t.submitted = epoch
        /\ r \in Seq(Sample) /\ Len(r) <= Horizon + 1
        /\ \A i \in 1..Len(r): Fresh(r[i], epoch, published)
        /\ queue' = Append(queue, [actor |-> a, epoch |-> epoch, rollout |-> r])
        /\ admitted' = admitted + Len(r)

Premise(a) ==
    /\ a \in Actors /\ epoch \in Epochs /\ published \in Nat
    /\ act \in [Actors -> ActorState]
    /\ ActorInv(act[a], epoch, published)

LEMMA PutMoves ==
    ASSUME NEW a, NEW s, NEW cont \in Callers, Premise(a), Core(s, epoch, published),
           s.active = epoch, s.submitted # epoch, act[a].submitted # epoch,
           Len(s.rollout) <= Horizon + 1, Put(a, s, epoch, cont)
    PROVE  Contributes(a)
<1> DEFINE d == Admit([s EXCEPT !.cont = "none"], epoch)
<1>1. PICK t \in AfterSubmit(d, cont): act' = [act EXCEPT ![a] = t]
  BY DEF Put
<1>2. /\ Core(d, epoch, published) /\ d.active = epoch /\ d.submitted = epoch
      /\ d.rollout = <<>>
  BY AdmitCore DEF Premise
<1> HIDE DEF d
<1>3. Len(d.rollout) < Horizon
  BY <1>2, HorizonAssumption
<1>4. ActorInv(t, epoch, published) /\ t.submitted = epoch
  BY <1>1, <1>2, <1>3, AfterSubmitInv DEF Premise
<1>5. s.rollout \in Seq(Sample) /\ \A i \in 1..Len(s.rollout): Fresh(s.rollout[i], epoch, published)
  BY DEF Core, ActorState
<1>6. /\ queue' = Append(queue, [actor |-> a, epoch |-> epoch, rollout |-> s.rollout])
      /\ admitted' = admitted + Len(s.rollout)
  BY DEF Put, AdmittedDecisions
<1> QED BY <1>1, <1>4, <1>5, <1>6 DEF Contributes

LEMMA SubmitMoves ==
    ASSUME NEW a, NEW s, NEW cont \in Callers, Premise(a), Core(s, epoch, published),
           s.active = epoch, s.submitted = epoch <=> act[a].submitted = epoch,
           Len(s.rollout) <= Horizon + 1, cont = "sensors" => Len(s.rollout) <= Horizon,
           Submit(a, s, cont)
    PROVE  Stays(a) \/ Contributes(a)
<1> DEFINE f == IF cont = "sensors" THEN FinishCreditedAction(s) ELSE s
<1>0. Len(s.rollout) \in Nat /\ Horizon \in Nat \ {0} /\ s \in ActorState
  BY HorizonAssumption DEF Core, ActorState
<1>1. /\ Core(f, epoch, published) /\ f.active = epoch /\ f.submitted = s.submitted
      /\ Len(f.rollout) <= Horizon + 1
  <2>1. CASE cont # "sensors"
    BY <1>0, <2>1
  <2>2. CASE cont = "sensors"
    <3>0. f = FinishCreditedAction(s)
      BY <2>2
    <3> HIDE DEF f
    <3>1. /\ Core(f, epoch, published) /\ f.active = s.active
          /\ f.submitted = s.submitted /\ Len(f.rollout) <= Len(s.rollout) + 1
      BY <3>0, FinishCore
    <3>2. Len(f.rollout) \in Nat
      BY <3>1 DEF Core, ActorState
    <3> QED BY <1>0, <2>2, <3>1, <3>2
  <2> QED BY <2>1, <2>2
<1>2. CASE NothingToSubmit(s)
  <2> DEFINE e == [s EXCEPT !.rollout = <<>>]
  <2>1. PICK t \in AfterSubmit(e, cont): act' = [act EXCEPT ![a] = t]
    BY <1>2, Zenon DEF Submit
  <2>2. UNCHANGED <<queue, admitted>>
    BY <1>2, Zenon DEF Submit
  <2>3. s.submitted = epoch /\ s.rollout = <<>>
    BY <1>2 DEF NothingToSubmit, CollectionOpen, Core, Idle
  <2>4. e = s
    BY <1>0, <2>3 DEF ActorState
  <2>5. ActorInv(t, epoch, published) /\ t.submitted = s.submitted
    BY <1>0, <2>1, <2>3, <2>4, AfterSubmitInv DEF Premise
  <2> QED BY <2>1, <2>2, <2>3, <2>5 DEF Stays
<1>3. CASE ~NothingToSubmit(s) /\ Put(a, f, epoch, cont)
  <2>1. s.submitted # epoch
    BY <1>3 DEF NothingToSubmit, CollectionOpen
  <2> HIDE DEF f
  <2> QED BY <1>1, <1>3, <2>1, PutMoves
<1>4. CASE /\ ~NothingToSubmit(s)
           /\ act' = [act EXCEPT ![a] = [f EXCEPT !.pc = "putting", !.cont = cont]]
           /\ UNCHANGED <<queue, admitted>>
  <2>1. s.submitted # epoch
    BY <1>4 DEF NothingToSubmit, CollectionOpen
  <2> HIDE DEF f
  <2> DEFINE t == [f EXCEPT !.pc = "putting", !.cont = cont]
  <2>2. t \in ActorState /\ SameData(t, f) /\ t.pc = "putting" /\ t.cont = cont
    BY <1>1 DEF Core, ActorState, SameData
  <2> HIDE DEF t
  <2>3. Core(t, epoch, published)
    BY <1>1, <2>2, CoreFrame
  <2>4. ActorInv(t, epoch, published)
    BY <1>1, <2>1, <2>2, <2>3 DEF ActorInv, SameData
  <2>5. t.submitted # epoch
    BY <1>1, <2>1, <2>2 DEF SameData
  <2> QED BY <1>4, <2>1, <2>4, <2>5 DEF Stays, t
<1>5. ~(s.fence /\ s.rollout # <<>>)
  BY DEF Core
<1> HIDE DEF f
<1>6. \/ NothingToSubmit(s)
      \/ ~NothingToSubmit(s) /\ Put(a, f, epoch, cont)
      \/ /\ ~NothingToSubmit(s)
         /\ act' = [act EXCEPT ![a] = [f EXCEPT !.pc = "putting", !.cont = cont]]
         /\ UNCHANGED <<queue, admitted>>
  BY <1>5, Zenon DEF Submit, f
<1> QED BY <1>2, <1>3, <1>4, <1>6

-----------------------------------------------------------------------------
(* Every step of an actor stays or contributes.                            *)

LEMMA NeverCrossed ==
    ASSUME NEW a, Premise(a)
    PROVE  ~CrossedEpoch(act[a]) /\ ~RaiseCrossedEpoch(a)
BY RefreshCore DEF Premise, ActorInv, RaiseCrossedEpoch

LEMMA StaysHere ==
    ASSUME NEW a, NEW t, act' = [act EXCEPT ![a] = t], UNCHANGED <<queue, admitted>>,
           ActorInv(t, epoch, published), t.submitted = epoch <=> act[a].submitted = epoch
    PROVE  Stays(a)
BY DEF Stays

LEMMA ObserveMoves ==
    ASSUME NEW a, NEW k \in 0..MaxId, NEW proven, Premise(a), Observe(a, k, proven)
    PROVE  Stays(a) \/ Contributes(a)
<1> DEFINE s == act[a]
           t == AccountEnvelope(s, k, proven, s.life = "unseen")
<1>1. s.pc = "online" /\ Core(s, epoch, published) /\ Len(s.rollout) < Horizon
  BY DEF Observe, Premise, ActorInv
<1>2. Len(s.rollout) \in Nat /\ Horizon \in Nat \ {0} /\ epoch \in Epochs
  BY <1>1, HorizonAssumption DEF Core, ActorState, Premise
<1>3. /\ Core(t, epoch, published) /\ t.active = epoch
      /\ t.submitted = epoch <=> s.submitted = epoch
      /\ Len(t.rollout) <= Len(s.rollout) + 1
  BY <1>1, <1>2, AccountCore
<1>4. ~CrossedEpoch(s) /\ ~RaiseCrossedEpoch(a)
  BY NeverCrossed
<1>5. \/ ReachedHorizon(t) /\ Submit(a, t, "sensors")
      \/ /\ ~ReachedHorizon(t)
         /\ \E u \in AfterSubmit(t, "sensors"): act' = [act EXCEPT ![a] = u]
         /\ UNCHANGED <<queue, admitted>>
  BY <1>4, Zenon DEF Observe
<1> HIDE DEF t
<1>6. "sensors" \in Callers /\ Len(t.rollout) \in Nat
  BY <1>3 DEF Callers, Core, ActorState
<1>7. CASE Submit(a, t, "sensors")
  <2>1. Len(t.rollout) <= Horizon /\ Len(t.rollout) <= Horizon + 1
    BY <1>1, <1>2, <1>3, <1>6
  <2> QED BY <1>3, <1>6, <1>7, <2>1, SubmitMoves
<1>8. CASE /\ ~ReachedHorizon(t)
           /\ \E u \in AfterSubmit(t, "sensors"): act' = [act EXCEPT ![a] = u]
           /\ UNCHANGED <<queue, admitted>>
  <2>1. Len(t.rollout) < Horizon
    <3>1. CASE TrainingCollectionOpen(t)
      BY <1>2, <1>6, <1>8, <3>1 DEF ReachedHorizon
    <3>2. CASE ~TrainingCollectionOpen(t)
      <4>1. t.rollout = <<>>
        BY <1>3, <3>2 DEF TrainingCollectionOpen, CollectionOpen, Core, Idle
      <4> QED BY <1>2, <4>1
    <3> QED BY <3>1, <3>2
  <2>2. PICK u \in AfterSubmit(t, "sensors"): act' = [act EXCEPT ![a] = u]
    BY <1>8
  <2>3. ActorInv(u, epoch, published) /\ u.submitted = t.submitted
    BY <1>2, <1>3, <1>6, <2>1, <2>2, AfterSubmitInv DEF Premise
  <2> QED BY <1>3, <1>8, <2>2, <2>3, StaysHere
<1> QED BY <1>5, <1>7, <1>8

LEMMA CloseMoves ==
    ASSUME NEW a, NEW k \in 0..MaxId, NEW proven, Premise(a), Close(a, k, proven)
    PROVE  Stays(a) \/ Contributes(a)
<1> DEFINE s == act[a]
           e == AccountEnvelope(s, k, proven, FALSE)
           f == FinishCreditedAction(e)
           t == ClearUnfinishedActions(f)
<1>1. s.pc = "online" /\ Core(s, epoch, published) /\ Len(s.rollout) < Horizon
  BY DEF Close, Premise, ActorInv
<1>2. Len(s.rollout) \in Nat /\ Horizon \in Nat \ {0} /\ epoch \in Epochs
  BY <1>1, HorizonAssumption DEF Core, ActorState, Premise
<1>3. Submit(a, t, "closure")
  BY NeverCrossed, Zenon DEF Close
<1>4. /\ Core(e, epoch, published) /\ e.active = epoch
      /\ e.submitted = epoch <=> s.submitted = epoch
      /\ Len(e.rollout) <= Len(s.rollout) + 1
  <2>1. ASSUME NEW initial, initial = FALSE
        PROVE  LET u == AccountEnvelope(s, k, proven, initial) IN
               /\ Core(u, epoch, published) /\ u.active = epoch
               /\ u.submitted = epoch <=> s.submitted = epoch
               /\ Len(u.rollout) <= Len(s.rollout) + 1
    BY <1>1, <1>2, AccountCore
  <2> QED BY <2>1, Zenon
<1> HIDE DEF e
<1>5. /\ Core(f, epoch, published) /\ f.active = epoch /\ f.submitted = e.submitted
      /\ Len(f.rollout) <= Len(e.rollout) + 1 /\ f.pend = NoSample
  BY <1>4, FinishCore
<1>6. Len(f.rollout) <= Horizon + 1
  <2>1. Len(e.rollout) \in Nat /\ Len(f.rollout) \in Nat
    BY <1>4, <1>5 DEF Core, ActorState
  <2> HIDE DEF f
  <2> QED BY <1>1, <1>2, <1>4, <1>5, <2>1
<1> HIDE DEF f
<1>7. /\ Core(t, epoch, published) /\ t.active = epoch /\ t.submitted = e.submitted
      /\ t.rollout = f.rollout
  BY <1>5, ClearCore
<1> HIDE DEF t
<1> QED BY <1>3, <1>4, <1>6, <1>7, SubmitMoves DEF Callers

LEMMA RecordCore ==
    ASSUME NEW s, NEW v, NEW x \in Sample, Core(s, epoch, v), x.epoch = s.active
    PROVE  /\ Core(RecordCollectionCommand(s, x), epoch, v)
           /\ RecordCollectionCommand(s, x).submitted = s.submitted
           /\ RecordCollectionCommand(s, x).rollout = s.rollout
           /\ RecordCollectionCommand(s, x).pc = s.pc
<1> DEFINE t == [s EXCEPT !.fenceId = x.id, !.fenceEpoch = x.epoch]
<1>1. x.id \in 0..MaxId /\ x.epoch \in Epochs
  BY BoundsAssumption DEF Sample, Ids
<1>2. /\ t \in ActorState /\ t.active = s.active /\ t.submitted = s.submitted
      /\ t.fence = s.fence /\ t.fenceId = x.id /\ t.fenceEpoch = x.epoch
      /\ t.rollout = s.rollout /\ t.issued = s.issued /\ t.pend = s.pend /\ t.pc = s.pc
      /\ t.counter = s.counter
  BY <1>1 DEF Core, ActorState
<1> HIDE DEF t
<1>3. CASE RecordCollectionCommand(s, x) = s
  BY <1>3
<1>4. CASE RecordCollectionCommand(s, x) = t /\ s.fence
  <2>1. Ordered(t)
    BY <1>2 DEF Core, Ordered, Below
  <2>2. Core(t, epoch, v)
    BY <1>2, <1>4, <2>1 DEF Core, Idle
  <2> QED BY <1>2, <1>4, <2>2
<1> QED BY <1>3, <1>4, Zenon DEF RecordCollectionCommand, t

LEMMA SendDoneMoves ==
    ASSUME NEW a, Premise(a), SendDone(a)
    PROVE  Stays(a)
<1> DEFINE s == act[a]
           oldest == CHOOSE x \in s.issued: \A y \in s.issued: x.id <= y.id
           kept == IF Cardinality(s.issued) >= MaxIssued
                   THEN s.issued \ {oldest} ELSE s.issued
           i == IF s.track THEN kept \cup {s.sample} ELSE s.issued
           t == [s EXCEPT !.pc = "online", !.sample = NoSample, !.track = FALSE,
                          !.issued = i]
           u == RecordCollectionCommand(t, s.sample)
<1>1. /\ s \in ActorState /\ Core(s, epoch, published) /\ Len(s.rollout) < Horizon
      /\ s.sample \in Sample /\ s.sample.epoch = s.active
      /\ s.sample.id = s.counter /\ Below(s, s.counter)
      /\ s.track => /\ s.submitted # epoch /\ s.active = epoch
                    /\ Fresh(s.sample, epoch, published)
  BY DEF SendDone, Premise, ActorInv, Core
<1>2. act' = [act EXCEPT ![a] = u] /\ UNCHANGED <<queue, admitted>>
  BY Zenon DEF SendDone
<1>3. \A x \in i: x \in s.issued \/ (s.track /\ x = s.sample)
  OBVIOUS
<1> HIDE DEF i
<1>4. i \subseteq Sample
  BY <1>1, <1>3 DEF ActorState
<1>5. /\ t \in ActorState /\ t.active = s.active /\ t.submitted = s.submitted
      /\ t.fence = s.fence /\ t.fenceId = s.fenceId /\ t.fenceEpoch = s.fenceEpoch
      /\ t.rollout = s.rollout /\ t.issued = i /\ t.pend = s.pend /\ t.pc = "online"
      /\ t.counter = s.counter
  BY <1>1, <1>4 DEF ActorState
<1> HIDE DEF t
<1>6. Core(t, epoch, published)
  <2>1. ~s.track => \A x \in i: x \in s.issued
    BY <1>3
  <2>2. \A x \in i: Fresh(x, epoch, published)
    BY <1>1, <1>3 DEF Core
  <2>3. s.active # epoch \/ s.submitted = epoch => i = {}
    BY <1>1, <2>1 DEF Core, Idle
  <2>4. Ordered(t)
    <3>1. Ordered(s) /\ s.counter \in Nat
      BY <1>1, SamplesHaveIds DEF Core
    <3>2. \A x \in i: x \in s.issued \/ x.id = s.counter
      BY <1>1, <1>3
    <3>3. \A x, y \in i: x.id = y.id => x = y
      <4> SUFFICES ASSUME NEW x \in i, NEW y \in i, x.id = y.id PROVE x = y
        OBVIOUS
      <4>1. \A z \in s.issued: z.id < s.counter
        BY <1>1 DEF Below
      <4>2. CASE x \in s.issued /\ y \in s.issued
        BY <3>1, <4>2 DEF Ordered
      <4>3. CASE x = s.sample /\ y = s.sample
        BY <4>3
      <4>4. CASE x \in s.issued /\ y = s.sample
        BY <1>1, <4>1, <4>4, SamplesHaveIds, <3>1
      <4>5. CASE x = s.sample /\ y \in s.issued
        BY <1>1, <4>1, <4>5, SamplesHaveIds, <3>1
      <4> QED BY <1>3, <4>2, <4>3, <4>4, <4>5
    <3>4. Below(t, t.counter + 1)
      BY <1>5, <3>1, <3>2 DEF Ordered, Below
    <3>5. \A x \in i: /\ \A j \in 1..Len(s.rollout): s.rollout[j].id < x.id
                      /\ s.pend # NoSample => s.pend.id < x.id
      BY <1>1, <3>1, <3>2 DEF Ordered, Below
    <3> QED BY <1>5, <3>1, <3>3, <3>4, <3>5 DEF Ordered
  <2> QED BY <1>1, <1>5, <2>2, <2>3, <2>4 DEF Core, Idle
<1>7. /\ Core(u, epoch, published) /\ u.submitted = s.submitted
      /\ u.rollout = s.rollout /\ u.pc = "online"
  <2> HIDE DEF s
  <2>1. s.sample \in Sample /\ s.sample.epoch = t.active
    BY <1>1, <1>5
  <2>2. /\ Core(u, epoch, published) /\ u.submitted = t.submitted
        /\ u.rollout = t.rollout /\ u.pc = t.pc
    BY <1>6, <2>1, RecordCore, Zenon
  <2> QED BY <1>5, <2>2
<1> HIDE DEF u
<1>8. ActorInv(u, epoch, published)
  BY <1>1, <1>7, Settled
<1> QED BY <1>2, <1>7, <1>8, StaysHere

LEMMA ResumePutMoves ==
    ASSUME NEW a, Premise(a), ResumePut(a)
    PROVE  Contributes(a)
<1>1. /\ Core(act[a], epoch, published) /\ act[a].submitted # epoch
      /\ act[a].active = epoch /\ act[a].cont \in Callers
      /\ Len(act[a].rollout) <= Horizon + 1
      /\ Put(a, act[a], epoch, act[a].cont)
  BY DEF ResumePut, Premise, ActorInv
<1> QED BY <1>1, PutMoves

LEMMA TruncateMoves ==
    ASSUME NEW a, NEW s, NEW cont \in Callers \ {"sensors"}, Premise(a),
           Core(s, epoch, published), s.active = act[a].active,
           s.rollout = act[a].rollout, s.pend = act[a].pend, s.issued = act[a].issued,
           s.submitted = act[a].submitted, act[a].pc # "putting", Truncate(a, s, cont)
    PROVE  Stays(a) \/ Contributes(a)
<1> DEFINE r == RefreshCollectionEpoch(s)
           f == FinishCreditedAction(r)
           t == ClearUnfinishedActions(f)
<1>1. epoch \in Epochs /\ Len(s.rollout) < Horizon /\ Horizon \in Nat \ {0}
  BY HorizonAssumption DEF Premise, ActorInv
<1>2. Submit(a, t, cont)
  BY NeverCrossed, Zenon DEF Truncate
<1>3. /\ Core(r, epoch, published) /\ r.active = epoch /\ r.rollout = s.rollout
      /\ r.submitted = epoch <=> s.submitted = epoch
  BY <1>1, RefreshCore
<1> HIDE DEF r
<1>4. /\ Core(f, epoch, published) /\ f.active = epoch /\ f.submitted = r.submitted
      /\ Len(f.rollout) <= Len(s.rollout) + 1
  BY <1>3, FinishCore
<1>5. Len(s.rollout) \in Nat /\ Len(f.rollout) \in Nat
  BY <1>3, <1>4 DEF Core, ActorState
<1> HIDE DEF f
<1>6. /\ Core(t, epoch, published) /\ t.active = epoch /\ t.submitted = r.submitted
      /\ t.rollout = f.rollout
  BY <1>4, ClearCore
<1> HIDE DEF t
<1>7. Len(t.rollout) <= Horizon + 1 /\ cont # "sensors" /\ cont \in Callers
  BY <1>1, <1>4, <1>5, <1>6
<1> QED BY <1>2, <1>3, <1>6, <1>7, SubmitMoves

LEMMA DisconnectMoves ==
    ASSUME NEW a, Premise(a), Disconnect(a)
    PROVE  Stays(a) \/ Contributes(a)
<1> DEFINE s == [act[a] EXCEPT !.sample = NoSample, !.track = FALSE]
<1>1. Truncate(a, s, "gap") /\ act[a].pc # "putting" /\ Core(act[a], epoch, published)
  BY DEF Disconnect, Premise, ActorInv
<1>2. s \in ActorState /\ SameData(s, act[a])
  BY <1>1 DEF Core, ActorState, SameData
<1> HIDE DEF s
<1>3. Core(s, epoch, published)
  BY <1>1, <1>2, CoreFrame
<1> QED BY <1>1, <1>2, <1>3, TruncateMoves DEF SameData, Callers

LEMMA ReclaimedMoves ==
    ASSUME NEW a, Premise(a), Reclaimed(a)
    PROVE  Stays(a)
<1> DEFINE s == act[a]
           l == IF s.life = "live" THEN "broken" ELSE s.life
           b == s.life \in {"unseen", "live", "broken"}
           t == [s EXCEPT !.pc = "online", !.rebase = b, !.life = l]
<1>1. s \in ActorState /\ Core(s, epoch, published) /\ Len(s.rollout) < Horizon
  BY DEF Reclaimed, Premise, ActorInv, Core
<1>2. l \in Lives /\ b \in BOOLEAN
  BY <1>1 DEF ActorState, Lives
<1>3. [Gap(s) EXCEPT !.pc = "online"] = t
  BY <1>1 DEF Gap, ActorState
<1>4. act' = [act EXCEPT ![a] = t] /\ UNCHANGED <<queue, admitted>>
  BY <1>3, Zenon DEF Reclaimed
<1> HIDE DEF l, b
<1>5. t \in ActorState /\ SameData(t, s) /\ t.pc = "online"
  BY <1>1, <1>2 DEF ActorState, SameData
<1> HIDE DEF t
<1>6. ActorInv(t, epoch, published)
  BY <1>1, <1>5, CoreFrame, Settled DEF SameData
<1> QED BY <1>4, <1>5, <1>6, StaysHere DEF SameData

LEMMA ReplacementMoves ==
    ASSUME NEW a, Premise(a), ReclaimRefused(a) \/ StateReplaced(a)
    PROVE  Stays(a) \/ Contributes(a)
<1>1. PICK cont \in {"refused", "rejoin", "replaced"}: Truncate(a, act[a], cont)
  BY DEF ReclaimRefused, StateReplaced
<1>2. Core(act[a], epoch, published) /\ act[a].pc # "putting"
  BY DEF ReclaimRefused, StateReplaced, Premise, ActorInv
<1>3. cont \in Callers \ {"sensors"}
  BY DEF Callers
<1> QED BY <1>1, <1>2, <1>3, TruncateMoves

LEMMA AssignMoves ==
    ASSUME NEW a, Premise(a), Assign(a)
    PROVE  Stays(a) \/ Contributes(a)
<1>1. Core(act[a], epoch, published) /\ act[a].pc # "putting"
  BY DEF Assign, Premise, ActorInv
<1>2. CASE act' = [act EXCEPT ![a] = FreshLife(act[a])] /\ UNCHANGED <<queue, admitted>>
  BY <1>1, <1>2, FreshLifeInv, StaysHere
<1>3. CASE Truncate(a, act[a], "assign")
  BY <1>1, <1>3, TruncateMoves DEF Callers
<1> QED BY <1>2, <1>3, Zenon DEF Assign

LEMMA ObserveUnassignedMoves ==
    ASSUME NEW a, Premise(a), ObserveUnassigned(a)
    PROVE  Stays(a)
<1> DEFINE t == RefreshCollectionEpoch(act[a])
<1>1. /\ Core(act[a], epoch, published) /\ act[a].pc = "online"
      /\ Len(act[a].rollout) < Horizon /\ epoch \in Epochs
  BY DEF ObserveUnassigned, Premise, ActorInv
<1>2. act' = [act EXCEPT ![a] = t] /\ UNCHANGED <<queue, admitted>>
  BY NeverCrossed, Zenon DEF ObserveUnassigned
<1>3. /\ Core(t, epoch, published) /\ t.rollout = act[a].rollout /\ t.pc = "online"
      /\ t.submitted = epoch <=> act[a].submitted = epoch
  BY <1>1, RefreshCore
<1> HIDE DEF t
<1>4. ActorInv(t, epoch, published)
  BY <1>1, <1>3, Settled
<1> QED BY <1>2, <1>3, <1>4, StaysHere

LEMMA ActorMoves ==
    ASSUME NEW a, Premise(a), ActorStep(a)
    PROVE  (Stays(a) \/ Contributes(a)) /\ UNCHANGED learnerVars
<1>1. ASSUME NEW k \in 0..MaxId, NEW proven \in BOOLEAN,
             Observe(a, k, proven) \/ Close(a, k, proven)
      PROVE  (Stays(a) \/ Contributes(a)) /\ UNCHANGED learnerVars
  <2>1. UNCHANGED learnerVars
    BY <1>1, Zenon DEF Observe, Close
  <2> QED BY <1>1, <2>1, ObserveMoves, CloseMoves
<1>2. CASE ObserveUnassigned(a)
  BY <1>2, ObserveUnassignedMoves, Zenon DEF ObserveUnassigned
<1>3. CASE SendDone(a)
  BY <1>3, SendDoneMoves, Zenon DEF SendDone
<1>4. CASE ResumePut(a)
  BY <1>4, ResumePutMoves, Zenon DEF ResumePut
<1>5. CASE Disconnect(a)
  BY <1>5, DisconnectMoves, Zenon DEF Disconnect
<1>6. CASE Reclaimed(a)
  <2>1. UNCHANGED learnerVars
    BY <1>6 DEF Reclaimed, learnerVars
  <2> QED BY <1>6, <2>1, ReclaimedMoves
<1>7. CASE ReclaimRefused(a) \/ StateReplaced(a)
  BY <1>7, ReplacementMoves, Zenon DEF ReclaimRefused, StateReplaced
<1>8. CASE Assign(a)
  BY <1>8, AssignMoves, Zenon DEF Assign
<1> QED BY <1>1, <1>2, <1>3, <1>4, <1>5, <1>6, <1>7, <1>8, Zenon DEF ActorStep

-----------------------------------------------------------------------------
(* The inductive invariant of the whole barrier.                           *)

(* A contribution the learner can still receive in epoch e of version v,   *)
(* when the actors are as in f.                                            *)
Current(c, e, v, f) ==
    /\ c \in Contribution /\ c.epoch = e
    /\ Len(c.rollout) <= Horizon + 1
    /\ \A i \in 1..Len(c.rollout): Fresh(c.rollout[i], e, v)
    /\ f[c.actor].submitted = e

ActorsInv ==
    /\ act \in [Actors -> ActorState]
    /\ \A a \in Actors: ActorInv(act[a], epoch, published)

QueueInv ==
    /\ queue \in Seq(Contribution)
    /\ \A i \in 1..Len(queue): Current(queue[i], epoch, published, act)
    /\ \A i, j \in 1..Len(queue): queue[i].actor = queue[j].actor => i = j

PendingInv ==
    /\ IsFiniteSet(pending)
    /\ \A c \in pending: Current(c, epoch, published, act)
    /\ \A c, d \in pending: c.actor = d.actor => c = d
    /\ \A c \in pending: \A i \in 1..Len(queue): queue[i].actor # c.actor

(* While the learner trains, nobody contributes and nothing waits.         *)
LearnerInv ==
    /\ epoch \in Epochs /\ published \in Nat /\ steps \in Nat
    /\ stale \in BOOLEAN /\ total \in Nat /\ admitted \in Nat
    /\ lpc \in {"get", "training", "publish", "staleBatch", "done", "failed"}
    /\ published <= steps /\ (lpc = "get" => published = steps)
    /\ lpc # "get" => /\ \A a \in Actors: act[a].submitted = epoch
                      /\ queue = <<>> /\ pending = {}

IInv == LearnerInv /\ ActorsInv /\ QueueInv /\ PendingInv

LEMMA InitIInv == Init => IInv
<1> SUFFICES ASSUME Init PROVE IInv
  OBVIOUS
<1>0. LearnerInv
  <2>1. published = 0 /\ steps = 0 /\ published <= steps
    BY DEF Init
  <2> QED BY <2>1, Zeros DEF Init, LearnerInv
<1>1. QueueInv /\ PendingInv
  BY FS_EmptySet DEF Init, QueueInv, PendingInv
<1>2. NewActor \in ActorState
  BY Zeros DEF NewActor, ActorState, Lives
<1>3. Core(NewActor, epoch, published)
  BY <1>2, Zeros, IdleOrdered DEF Core, Init, Idle, NewActor, None
<1>4. ActorInv(NewActor, epoch, published)
  BY <1>3, HorizonAssumption, Settled DEF NewActor
<1> QED BY <1>0, <1>1, <1>2, <1>4 DEF Init, ActorsInv, IInv

LEMMA StaysIInv ==
    ASSUME NEW a \in Actors, IInv, Stays(a), UNCHANGED learnerVars
    PROVE  IInv'
<1>1. PICK t: /\ act' = [act EXCEPT ![a] = t]
              /\ ActorInv(t, epoch, published)
              /\ t.submitted = epoch <=> act[a].submitted = epoch
              /\ UNCHANGED <<queue, admitted>>
  BY DEF Stays
<1>2. t \in ActorState
  BY <1>1 DEF ActorInv, Core
<1>3. ActorsInv'
  BY <1>1, <1>2 DEF IInv, ActorsInv, learnerVars
<1>4. \A b \in Actors: act'[b].submitted = epoch <=> act[b].submitted = epoch
  BY <1>1 DEF IInv, ActorsInv
<1>5. \A c: Current(c, epoch, published, act) => Current(c, epoch, published, act')
  BY <1>4 DEF Current, Contribution, learnerVars
<1>6. LearnerInv'
  BY <1>1, <1>4 DEF IInv, LearnerInv, learnerVars
<1>7. QueueInv' /\ PendingInv'
  BY <1>1, <1>5 DEF IInv, QueueInv, PendingInv, learnerVars
<1> QED BY <1>3, <1>6, <1>7 DEF IInv

LEMMA ContributesIInv ==
    ASSUME NEW a \in Actors, IInv, Contributes(a), UNCHANGED learnerVars
    PROVE  IInv'
<1>1. PICK t, r: /\ act' = [act EXCEPT ![a] = t]
                 /\ ActorInv(t, epoch, published)
                 /\ act[a].submitted # epoch /\ t.submitted = epoch
                 /\ r \in Seq(Sample) /\ Len(r) <= Horizon + 1
                 /\ \A i \in 1..Len(r): Fresh(r[i], epoch, published)
                 /\ queue' = Append(queue, [actor |-> a, epoch |-> epoch, rollout |-> r])
                 /\ admitted' = admitted + Len(r)
  BY DEF Contributes
<1> DEFINE c == [actor |-> a, epoch |-> epoch, rollout |-> r]
<1>2. t \in ActorState
  BY <1>1 DEF ActorInv, Core
<1>3. ActorsInv'
  BY <1>1, <1>2 DEF IInv, ActorsInv, learnerVars
<1>4. \A b \in Actors: act[b].submitted = epoch => act'[b].submitted = epoch
  BY <1>1 DEF IInv, ActorsInv
<1>5. \A d: Current(d, epoch, published, act) => Current(d, epoch, published, act') /\ d.actor # a
  BY <1>1, <1>4 DEF Current, Contribution, learnerVars
<1>6. act'[a].submitted = epoch /\ epoch \in Epochs
  BY <1>1 DEF IInv, ActorsInv, LearnerInv
<1>7. c \in Contribution /\ c.actor = a /\ c.epoch = epoch /\ c.rollout = r
  BY <1>1, <1>6 DEF Contribution
<1> HIDE DEF c
<1>8. Current(c, epoch, published, act')
  BY <1>1, <1>6, <1>7 DEF Current
<1>9. LearnerInv'
  <2>1. lpc = "get"
    BY <1>1 DEF IInv, LearnerInv
  <2>2. Len(r) \in Nat
    BY <1>1
  <2> QED BY <1>1, <2>1, <2>2 DEF IInv, LearnerInv, learnerVars
<1>10. /\ queue' \in Seq(Contribution) /\ Len(queue) \in Nat /\ Len(queue') = Len(queue) + 1
       /\ \A i \in 1..Len(queue'): queue'[i] = IF i <= Len(queue) THEN queue[i] ELSE c
  BY <1>1, <1>7, AppendProperties DEF c, IInv, QueueInv
<1>11. QueueInv'
  <2>1. \A i \in 1..Len(queue): Current(queue[i], epoch, published, act') /\ queue[i].actor # a
    BY <1>5 DEF IInv, QueueInv
  <2>2. \A i \in 1..Len(queue'): Current(queue'[i], epoch, published, act')
    BY <1>8, <1>10, <2>1
  <2>3. ASSUME NEW i \in 1..Len(queue'), NEW j \in 1..Len(queue'),
               queue'[i].actor = queue'[j].actor
        PROVE  i = j
    <3>1. CASE i <= Len(queue) /\ j <= Len(queue)
      BY <1>10, <2>3, <3>1 DEF IInv, QueueInv
    <3>2. CASE i > Len(queue) /\ j > Len(queue)
      BY <1>10, <3>2
    <3>3. CASE (i <= Len(queue)) # (j <= Len(queue))
      BY <1>7, <1>10, <2>1, <2>3, <3>3
    <3> QED BY <1>10, <3>1, <3>2, <3>3
  <2> QED BY <1>10, <2>2, <2>3 DEF QueueInv, learnerVars
<1>12. PendingInv'
  <2>1. pending' = pending
    BY DEF learnerVars
  <2>2. \A d \in pending: Current(d, epoch, published, act') /\ d.actor # a
    BY <1>5 DEF IInv, PendingInv
  <2>3. \A d \in pending: \A i \in 1..Len(queue'): queue'[i].actor # d.actor
    BY <1>7, <1>10, <2>2 DEF IInv, PendingInv
  <2> QED BY <2>1, <2>2, <2>3 DEF IInv, PendingInv, learnerVars
<1> QED BY <1>3, <1>9, <1>11, <1>12 DEF IInv

-----------------------------------------------------------------------------
(* What is counted: the decisions of contributions read, and those still   *)
(* in the queue.                                                           *)

(* The decisions in a sequence of contributions, one by one.               *)
Waiting(q) == UNION {{i} \X DOMAIN q[i].rollout: i \in DOMAIN q}

Bounded(c) == c.rollout \in Seq(Sample) /\ Len(c.rollout) <= Horizon + 1

(* A rollout's decisions, each beside the same tag.                        *)
LEMMA TaggedCount ==
    ASSUME NEW x, NEW n \in Nat
    PROVE  IsFiniteSet({x} \X (1..n)) /\ Cardinality({x} \X (1..n)) = n
<1> DEFINE X == {x}
           N == 1..n
<1>1. IsFiniteSet(X) /\ Cardinality(X) = 1
  BY FS_Singleton
<1>2. IsFiniteSet(N) /\ Cardinality(N) = n
  BY FS_Interval
<1> HIDE DEF X, N
<1>3. IsFiniteSet(X \X N) /\ Cardinality(X \X N) = Cardinality(X) * Cardinality(N)
  BY <1>1, <1>2, FS_Product
<1>4. Cardinality(X \X N) = n
  BY <1>1, <1>2, <1>3
<1> QED BY <1>3, <1>4 DEF X, N

LEMMA DisjointCount ==
    ASSUME NEW S, NEW T, IsFiniteSet(S), IsFiniteSet(T), S \cap T = {}
    PROVE  /\ IsFiniteSet(S \cup T)
           /\ Cardinality(S \cup T) = Cardinality(S) + Cardinality(T)
           /\ Cardinality(S) \in Nat /\ Cardinality(T) \in Nat
<1>1. Cardinality(S) \in Nat /\ Cardinality(T) \in Nat
  BY FS_CardinalityType
<1>2. Cardinality(S \cap T) = 0
  BY FS_EmptySet
<1>3. /\ IsFiniteSet(S \cup T)
      /\ Cardinality(S \cup T) = Cardinality(S) + Cardinality(T) - Cardinality(S \cap T)
  BY FS_Union
<1>4. Cardinality(S \cup T) = Cardinality(S) + Cardinality(T)
  BY <1>1, <1>2, <1>3
<1> QED BY <1>1, <1>3, <1>4

LEMMA DecisionsFinite ==
    ASSUME NEW S, IsFiniteSet(S), \A c \in S: Bounded(c)
    PROVE  IsFiniteSet(UNION {{c} \X DOMAIN c.rollout: c \in S})
<1> DEFINE D == UNION {{c} \X DOMAIN c.rollout: c \in S}
           P == S \X (1..(Horizon + 1))
<1>1. IsFiniteSet(1..(Horizon + 1))
  BY FS_Interval, HorizonAssumption
<1>2. IsFiniteSet(P)
  BY <1>1, FS_Product
<1>3. \A c \in S: DOMAIN c.rollout \subseteq 1..(Horizon + 1)
  <2> TAKE c \in S
  <2>1. DOMAIN c.rollout = 1..Len(c.rollout) /\ Len(c.rollout) \in Nat
    BY DEF Bounded
  <2> QED BY <2>1, HorizonAssumption DEF Bounded
<1>4. D \in SUBSET P
  BY <1>3
<1> QED BY <1>2, <1>4, FS_Subset

LEMMA DecisionsOfOneMore ==
    ASSUME NEW S, NEW c, IsFiniteSet(S), c \notin S, \A d \in S \cup {c}: Bounded(d)
    PROVE  /\ Decisions(S \cup {c}) = Decisions(S) + Len(c.rollout)
           /\ Decisions(S) \in Nat
<1> DEFINE D == UNION {{d} \X DOMAIN d.rollout: d \in S}
           C == {c} \X (1..Len(c.rollout))
<1>1. DOMAIN c.rollout = 1..Len(c.rollout) /\ Len(c.rollout) \in Nat
  BY DEF Bounded
<1>2. UNION {{d} \X DOMAIN d.rollout: d \in S \cup {c}} = D \cup C
  BY <1>1
<1>3. IsFiniteSet(D)
  BY DecisionsFinite
<1>4. IsFiniteSet(C) /\ Cardinality(C) = Len(c.rollout)
  BY <1>1, TaggedCount
<1>5. D \cap C = {}
  OBVIOUS
<1> HIDE DEF C, D
<1>6. Cardinality(D \cup C) = Cardinality(D) + Len(c.rollout) /\ Cardinality(D) \in Nat
  BY <1>3, <1>4, <1>5, DisjointCount
<1> QED BY <1>2, <1>6 DEF Decisions, D

LEMMA NoDecisions == Decisions({}) = 0
BY FS_EmptySet DEF Decisions

LEMMA WaitingFinite ==
    ASSUME NEW q, NEW n \in Nat, DOMAIN q = 1..n, \A i \in 1..n: Bounded(q[i])
    PROVE  IsFiniteSet(Waiting(q))
<1> DEFINE P == (1..n) \X (1..(Horizon + 1))
<1>1. IsFiniteSet(1..(Horizon + 1)) /\ IsFiniteSet(1..n)
  BY FS_Interval, HorizonAssumption
<1>2. IsFiniteSet(P)
  BY <1>1, FS_Product
<1>3. \A i \in 1..n: DOMAIN q[i].rollout \subseteq 1..(Horizon + 1)
  <2> TAKE i \in 1..n
  <2>1. DOMAIN q[i].rollout = 1..Len(q[i].rollout) /\ Len(q[i].rollout) \in Nat
    BY DEF Bounded
  <2> QED BY <2>1, HorizonAssumption DEF Bounded
<1>4. Waiting(q) \in SUBSET P
  BY <1>3 DEF Waiting
<1> QED BY <1>2, <1>4, FS_Subset

LEMMA WaitingOfOneMore ==
    ASSUME NEW q, NEW p, NEW n \in Nat, NEW c, DOMAIN q = 1..n, DOMAIN p = 1..(n + 1),
           \A i \in 1..n: p[i] = q[i], p[n + 1] = c, \A i \in 1..n: Bounded(q[i]), Bounded(c)
    PROVE  /\ Cardinality(Waiting(p)) = Cardinality(Waiting(q)) + Len(c.rollout)
           /\ Cardinality(Waiting(q)) \in Nat
<1> DEFINE C == {n + 1} \X (1..Len(c.rollout))
<1>1. DOMAIN c.rollout = 1..Len(c.rollout) /\ Len(c.rollout) \in Nat
  BY DEF Bounded
<1>2. Waiting(p) = Waiting(q) \cup C
  <2>1. \A i: i \in 1..(n + 1) <=> i \in 1..n \/ i = n + 1
    OBVIOUS
  <2> QED BY <1>1, <2>1 DEF Waiting
<1>3. IsFiniteSet(Waiting(q))
  BY WaitingFinite
<1>4. IsFiniteSet(C) /\ Cardinality(C) = Len(c.rollout)
  BY <1>1, TaggedCount
<1>5. Waiting(q) \cap C = {}
  <2>1. n + 1 \notin 1..n
    OBVIOUS
  <2> QED BY <2>1 DEF Waiting
<1> HIDE DEF C
<1> QED BY <1>2, <1>3, <1>4, <1>5, DisjointCount

(* Taking the first contribution renumbers the others.                     *)
LEMMA WaitingOfTail ==
    ASSUME NEW q, NEW p, NEW n \in Nat, DOMAIN q = 1..(n + 1), DOMAIN p = 1..n,
           \A i \in 1..n: p[i] = q[i + 1], \A i \in 1..(n + 1): Bounded(q[i])
    PROVE  /\ Cardinality(Waiting(q)) = Cardinality(Waiting(p)) + Len(q[1].rollout)
           /\ Cardinality(Waiting(p)) \in Nat
<1> DEFINE C == {1} \X (1..Len(q[1].rollout))
           T == UNION {{i} \X DOMAIN q[i].rollout: i \in 2..(n + 1)}
           f == [x \in Waiting(p) |-> <<x[1] + 1, x[2]>>]
<1>0. 1 \in 1..(n + 1) /\ Bounded(q[1])
  OBVIOUS
<1>1. DOMAIN q[1].rollout = 1..Len(q[1].rollout) /\ Len(q[1].rollout) \in Nat
  BY <1>0 DEF Bounded
<1>2. Waiting(q) = T \cup C
  <2>1. \A i: i \in 1..(n + 1) <=> i \in 2..(n + 1) \/ i = 1
    OBVIOUS
  <2> QED BY <1>1, <2>1 DEF Waiting
<1>3. IsFiniteSet(Waiting(p))
  <2>1. \A i \in 1..n: Bounded(p[i])
    <3> TAKE i \in 1..n
    <3>1. i + 1 \in 1..(n + 1)
      OBVIOUS
    <3> QED BY <3>1
  <2> QED BY <2>1, WaitingFinite
<1>4. f \in Bijection(Waiting(p), T)
  <2>1. \A x: x \in Waiting(p) <=>
                \E i \in 1..n: \E j \in DOMAIN q[i + 1].rollout: x = <<i, j>>
    BY DEF Waiting
  <2>2. \A y: y \in T <=>
                \E i \in 2..(n + 1): \E j \in DOMAIN q[i].rollout: y = <<i, j>>
    OBVIOUS
  <2> HIDE DEF T
  <2>3. f \in [Waiting(p) -> T]
    <3> SUFFICES ASSUME NEW x \in Waiting(p) PROVE <<x[1] + 1, x[2]>> \in T
      OBVIOUS
    <3>1. PICK i \in 1..n: \E j \in DOMAIN q[i + 1].rollout: x = <<i, j>>
      BY <2>1
    <3>2. PICK j \in DOMAIN q[i + 1].rollout: x = <<i, j>>
      BY <3>1
    <3>3. x[1] + 1 = i + 1 /\ x[2] = j /\ i + 1 \in 2..(n + 1)
      BY <3>2
    <3> QED BY <2>2, <3>3
  <2>4. ASSUME NEW x \in Waiting(p), NEW y \in Waiting(p), f[x] = f[y] PROVE x = y
    <3>1. PICK i \in 1..n: \E j \in DOMAIN q[i + 1].rollout: x = <<i, j>>
      BY <2>1
    <3>2. PICK j \in DOMAIN q[i + 1].rollout: x = <<i, j>>
      BY <3>1
    <3>3. PICK k \in 1..n: \E l \in DOMAIN q[k + 1].rollout: y = <<k, l>>
      BY <2>1
    <3>4. PICK l \in DOMAIN q[k + 1].rollout: y = <<k, l>>
      BY <3>3
    <3>5. f[x] = <<i + 1, j>> /\ f[y] = <<k + 1, l>>
      BY <3>2, <3>4
    <3> HIDE DEF f
    <3>6. <<i + 1, j>> = <<k + 1, l>>
      BY <2>4, <3>5
    <3>7. i + 1 = k + 1 /\ j = l
      BY <3>6, Zenon
    <3> QED BY <3>2, <3>4, <3>7
  <2>5. ASSUME NEW y \in T PROVE \E x \in Waiting(p): f[x] = y
    <3>1. PICK i \in 2..(n + 1): \E j \in DOMAIN q[i].rollout: y = <<i, j>>
      BY <2>2
    <3>2. PICK j \in DOMAIN q[i].rollout: y = <<i, j>>
      BY <3>1
    <3>3. i - 1 \in 1..n /\ (i - 1) + 1 = i
      OBVIOUS
    <3>4. <<i - 1, j>> \in Waiting(p)
      BY <2>1, <3>2, <3>3
    <3>5. f[<<i - 1, j>>] = y
      BY <3>2, <3>3, <3>4
    <3> QED BY <3>4, <3>5
  <2> HIDE DEF f
  <2> QED BY <2>3, <2>4, <2>5 DEF Bijection, Injection, Surjection, IsInjective
<1>5. IsFiniteSet(T) /\ Cardinality(T) = Cardinality(Waiting(p))
  BY <1>3, <1>4, FS_Bijection, Zenon DEF ExistsBijection
<1>6. IsFiniteSet(C) /\ Cardinality(C) = Len(q[1].rollout)
  BY <1>1, TaggedCount
<1>7. T \cap C = {}
  <2>1. 1 \notin 2..(n + 1)
    OBVIOUS
  <2> QED BY <2>1
<1> HIDE DEF C, T
<1>8. /\ Cardinality(T \cup C) = Cardinality(T) + Cardinality(C)
      /\ Cardinality(T) \in Nat
  BY <1>5, <1>6, <1>7, DisjointCount
<1> QED BY <1>2, <1>5, <1>6, <1>8

-----------------------------------------------------------------------------
(* The steps of the learner.                                               *)

(* An actor that has contributed may find the same or the next epoch, with *)
(* any policy version published.                                           *)
LEMMA ContributedInv ==
    ASSUME NEW s, NEW e \in Epochs, NEW v, NEW f \in {e, e + 1}, NEW w,
           ActorInv(s, e, v), s.submitted = e
    PROVE  ActorInv(s, f, w) /\ (f # e => s.submitted # f)
<1>1. /\ s.submitted = e /\ s.active = e /\ Idle(s) /\ e \in Nat
      /\ s \in ActorState
  <2>1. s.submitted <= s.active /\ s.active <= e /\ s.active \in Epochs
    BY DEF ActorInv, Core, ActorState
  <2> QED BY <2>1, Zeros DEF ActorInv, Core
<1>2. Core(s, f, w)
  <2>1. s.active <= f
    BY <1>1
  <2> QED BY <1>1, <2>1 DEF ActorInv, Core, Idle
<1>3. s.pc = "sending" => ~s.track
  BY <1>1 DEF ActorInv
<1> QED BY <1>1, <1>2, <1>3 DEF ActorInv

LEMMA DecisionsAreCounted ==
    ASSUME NEW S, IsFiniteSet(S),
           \A c \in S: c.rollout \in Seq(Sample) /\ Len(c.rollout) <= Horizon + 1
    PROVE  Decisions(S) \in Nat
<1> DEFINE D == UNION {{c} \X DOMAIN c.rollout: c \in S}
           P == S \X (1..(Horizon + 1))
<1>1. IsFiniteSet(1..(Horizon + 1))
  BY FS_Interval, HorizonAssumption
<1>2. IsFiniteSet(P)
  BY <1>1, FS_Product
<1>3. \A c \in S: DOMAIN c.rollout \subseteq 1..(Horizon + 1)
  <2> TAKE c \in S
  <2>1. DOMAIN c.rollout = 1..Len(c.rollout) /\ Len(c.rollout) \in Nat
    OBVIOUS
  <2> QED BY <2>1, HorizonAssumption
<1>4. D \in SUBSET P
  BY <1>3
<1>5. IsFiniteSet(D)
  BY <1>2, <1>4, FS_Subset
<1> HIDE DEF D
<1>6. Cardinality(D) \in Nat
  BY <1>5, FS_CardinalityType
<1> QED BY <1>6 DEF Decisions, D

LEMMA OneVersion ==
    ASSUME NEW S, NEW e, NEW v,
           \A c \in S: /\ c.rollout \in Seq(Sample)
                       /\ \A i \in 1..Len(c.rollout): Fresh(c.rollout[i], e, v)
    PROVE  ~(Cardinality(PolicyVersions(S)) > 1)
<1>1. \A c \in S: \A x \in Range(c.rollout): x.ver = v
  <2> SUFFICES ASSUME NEW c \in S, NEW x \in Range(c.rollout) PROVE x.ver = v
    OBVIOUS
  <2>1. DOMAIN c.rollout = 1..Len(c.rollout)
    OBVIOUS
  <2> QED BY <2>1 DEF Range, Fresh
<1>2. PolicyVersions(S) \in SUBSET {v}
  BY <1>1 DEF PolicyVersions
<1>3. IsFiniteSet({v}) /\ Cardinality({v}) = 1
  BY FS_Singleton
<1>4. IsFiniteSet(PolicyVersions(S)) /\ Cardinality(PolicyVersions(S)) <= 1
  BY <1>2, <1>3, FS_Subset
<1>5. Cardinality(PolicyVersions(S)) \in Nat
  BY <1>4, FS_CardinalityType
<1> QED BY <1>4, <1>5

(* As many contributions as actors, one each, are one of every actor.      *)
LEMMA EveryActorIn ==
    ASSUME NEW S, IsFiniteSet(S), S \subseteq Contribution,
           \A c, d \in S: c.actor = d.actor => c = d, RoundComplete(S)
    PROVE  \A a \in Actors: \E c \in S: c.actor = a
<1> DEFINE f == [c \in S |-> c.actor]
<1>1. f \in [S -> Actors]
  BY DEF Contribution
<1>2. f \in Injection(S, Actors)
  BY <1>1 DEF Injection, IsInjective
<1>3. /\ Cardinality(S) <= Cardinality(Actors)
      /\ Cardinality(S) = Cardinality(Actors) <=> f \in Surjection(S, Actors)
  BY <1>2, FS_Injection, ActorsAssumption
<1>4. Cardinality(S) \in Nat /\ Cardinality(Actors) \in Nat
  BY FS_CardinalityType, ActorsAssumption
<1>5. f \in Surjection(S, Actors)
  BY <1>3, <1>4 DEF RoundComplete
<1> QED BY <1>5 DEF Surjection

(* A round that ends with everybody in it leaves the next one clean.       *)
LEMMA EndRoundIInv ==
    ASSUME IInv, \A a \in Actors: act[a].submitted = epoch,
           NEW decisions, NEW isStale, EndRound(decisions, isStale),
           queue' = <<>>, pending' = {}, UNCHANGED <<act, admitted>>,
           steps' \in Nat, published' = steps', total' \in Nat, stale' \in BOOLEAN
    PROVE  IInv'
<1>1. /\ epoch' \in {epoch, epoch + 1} /\ epoch' \in Epochs
      /\ lpc' \in {"get", "staleBatch", "done"}
      /\ lpc' # "get" => epoch' = epoch
  <2>1. epoch \in Epochs /\ MaxEpoch \in Nat
    BY BoundsAssumption DEF IInv, LearnerInv
  <2>2. CASE epoch' = epoch /\ lpc' \in {"staleBatch", "done"}
    BY <2>1, <2>2
  <2>3. CASE AdvanceCollectionEpoch /\ lpc' = "get"
    BY <2>1, <2>3 DEF AdvanceCollectionEpoch, Epochs
  <2> QED BY <2>2, <2>3 DEF EndRound
<1>2. ActorsInv'
  <2>1. \A a \in Actors: ActorInv(act[a], epoch', published')
    BY <1>1, ContributedInv DEF IInv, ActorsInv, LearnerInv
  <2> QED BY <2>1 DEF IInv, ActorsInv
<1>3. LearnerInv'
  BY <1>1 DEF IInv, LearnerInv
<1>4. QueueInv' /\ PendingInv'
  BY FS_EmptySet DEF QueueInv, PendingInv
<1> QED BY <1>2, <1>3, <1>4 DEF IInv

(* What reading one contribution comes to: p is then pending, and nothing   *)
(* else, or its round is taken.                                             *)
Got(p) ==
    /\ lpc = "get" /\ UNCHANGED <<published, steps, stale, admitted, act>>
    /\ Len(queue) \in Nat \ {0} /\ Len(queue') = Len(queue) - 1
    /\ queue' \in Seq(Contribution)
    /\ \A i \in 1..Len(queue'): queue'[i] = queue[i + 1]
    /\ p = pending \cup {queue[1]} /\ queue[1] \notin pending
    /\ IsFiniteSet(p)
    /\ \A d \in p: Current(d, epoch, published, act)
    /\ \A d, e \in p: d.actor = e.actor => d = e
    /\ \A d \in p: \A i \in 1..Len(queue'): queue'[i].actor # d.actor
    /\ \/ pending' = p /\ UNCHANGED <<total, lpc, epoch>>
       \/ RoundComplete(p) /\ TakeRound(p, {})

LEMMA GetIsGot ==
    ASSUME IInv, LearnerGet
    PROVE  \E p: Got(p)
<1> DEFINE c == Head(queue)
           same == {d \in pending: d.epoch = c.epoch /\ d.actor = c.actor}
           p == IF same = {} THEN pending \cup {c} ELSE pending
           round == {d \in p: d.epoch = epoch}
<1>0. /\ lpc = "get" /\ queue # <<>> /\ queue' = Tail(queue)
      /\ UNCHANGED <<published, steps, stale, admitted, act>>
  BY Zenon DEF LearnerGet
<1>1. /\ c = queue[1] /\ Len(queue) \in Nat \ {0}
      /\ queue' \in Seq(Contribution) /\ Len(queue') = Len(queue) - 1
      /\ \A i \in 1..Len(queue'): queue'[i] = queue[i + 1]
  BY <1>0, HeadTailProperties DEF IInv, QueueInv
<1>2. Current(c, epoch, published, act)
  BY <1>1 DEF IInv, QueueInv
<1>3. \/ c.epoch < epoch \/ c.epoch > epoch
      \/ /\ c.epoch = epoch /\ ~RoundComplete(round) /\ pending' = p
         /\ UNCHANGED <<total, lpc, epoch>>
      \/ c.epoch = epoch /\ RoundComplete(round) /\ TakeRound(round, p \ round)
  BY Zenon DEF LearnerGet
<1>4. \A d \in pending: d.actor # c.actor
  BY <1>1 DEF IInv, PendingInv
<1>5. p = pending \cup {c} /\ c \notin pending
  BY <1>4
<1> HIDE DEF p, c, same
<1>6. /\ IsFiniteSet(p)
      /\ \A d \in p: Current(d, epoch, published, act)
      /\ \A d, e \in p: d.actor = e.actor => d = e
  BY <1>2, <1>4, <1>5, FS_AddElement DEF IInv, PendingInv
<1>7. round = p
  BY <1>6 DEF Current
<1>8. \A d \in p: \A i \in 1..Len(queue'): queue'[i].actor # d.actor
  <2> SUFFICES ASSUME NEW d \in p, NEW i \in 1..Len(queue'),
                      queue'[i].actor = d.actor
               PROVE  FALSE
    OBVIOUS
  <2>1. queue'[i] = queue[i + 1] /\ i + 1 \in 1..Len(queue) /\ i + 1 # 1
        /\ 1 \in 1..Len(queue)
    BY <1>1
  <2>2. CASE d = c
    BY <1>1, <2>1, <2>2 DEF IInv, QueueInv
  <2>3. CASE d \in pending
    BY <2>1, <2>3 DEF IInv, PendingInv
  <2> QED BY <1>5, <2>2, <2>3
<1>9. c.epoch = epoch /\ epoch \in Nat /\ p \ p = {}
  BY <1>2, Zeros DEF Current, IInv, LearnerInv
<1> HIDE DEF round
<1>10. \/ pending' = p /\ UNCHANGED <<total, lpc, epoch>>
       \/ RoundComplete(p) /\ TakeRound(p, {})
  <2>1. CASE c.epoch < epoch \/ c.epoch > epoch
    BY <1>9, <2>1
  <2>2. CASE RoundComplete(round) /\ TakeRound(round, p \ round)
    BY <1>7, <1>9, <2>2, Zenon
  <2> QED BY <1>3, <2>1, <2>2, Zenon
<1>11. p = pending \cup {queue[1]} /\ queue[1] \notin pending
  BY <1>1, <1>5
<1> QED BY <1>0, <1>1, <1>6, <1>8, <1>10, <1>11, Zenon DEF Got

(* A complete round has everybody in it and nobody behind it.              *)
LEMMA RoundIsIn ==
    ASSUME IInv, NEW p, Got(p), RoundComplete(p)
    PROVE  /\ \A a \in Actors: act[a].submitted = epoch
           /\ queue' = <<>>
<1>1. \A a \in Actors: \E d \in p: d.actor = a
  <2>1. p \subseteq Contribution
    BY DEF Got, Current
  <2> QED BY <2>1, EveryActorIn DEF Got
<1>2. \A a \in Actors: act[a].submitted = epoch
  BY <1>1 DEF Got, Current
<1>3. ASSUME 1 \in 1..Len(queue') PROVE FALSE
  <2>1. queue'[1] \in Contribution
    BY <1>3 DEF Got
  <2>2. queue'[1].actor \in Actors
    BY <2>1 DEF Contribution
  <2> QED BY <1>1, <1>3, <2>2 DEF Got
<1>4. queue' \in Seq(Contribution)
  BY DEF Got
<1>5. Len(queue') \in Nat /\ (queue' # <<>> => Len(queue') # 0)
  BY <1>4
<1> QED BY <1>2, <1>3, <1>5

LEMMA PendingCounts ==
    ASSUME NEW S, \A d \in S: Current(d, epoch, published, act)
    PROVE  \A d \in S: /\ d.rollout \in Seq(Sample) /\ Len(d.rollout) <= Horizon + 1
                       /\ \A i \in 1..Len(d.rollout): Fresh(d.rollout[i], epoch, published)
BY DEF Current, Contribution

LEMMA GetIInv ==
    ASSUME IInv, LearnerGet
    PROVE  /\ IInv'
           /\ epoch' # epoch => /\ \A a \in Actors: act[a].submitted = epoch
                                /\ queue' = <<>> /\ pending' = {}
<1>1. PICK p: Got(p)
  BY GetIsGot
<1>2. UNCHANGED <<published, steps, stale, admitted, act>> /\ lpc = "get"
  BY <1>1 DEF Got
<1>3. CASE pending' = p /\ UNCHANGED <<total, lpc, epoch>>
  <2>1. PendingInv'
    BY <1>1, <1>2, <1>3 DEF Got, PendingInv
  <2>2. ActorsInv' /\ LearnerInv'
    BY <1>2, <1>3 DEF IInv, ActorsInv, LearnerInv
  <2>3. \A i \in 1..Len(queue'): /\ i + 1 \in 1..Len(queue) /\ queue'[i] = queue[i + 1]
                                 /\ Current(queue'[i], epoch, published, act)
    BY <1>1 DEF Got, IInv, QueueInv
  <2>4. \A i, j \in 1..Len(queue'): queue'[i].actor = queue'[j].actor => i = j
    <3> TAKE i, j \in 1..Len(queue')
    <3>1. queue'[i].actor = queue'[j].actor => i + 1 = j + 1
      BY <2>3 DEF IInv, QueueInv
    <3> QED BY <3>1
  <2>5. QueueInv'
    BY <1>1, <1>2, <1>3, <2>3, <2>4 DEF Got, QueueInv
  <2> QED BY <1>3, <2>1, <2>2, <2>5 DEF IInv
<1>4. CASE RoundComplete(p) /\ TakeRound(p, {})
  <2>1. (\A a \in Actors: act[a].submitted = epoch) /\ queue' = <<>>
    BY <1>1, <1>4, RoundIsIn
  <2>2. \A d \in p: /\ d.rollout \in Seq(Sample) /\ Len(d.rollout) <= Horizon + 1
                    /\ \A i \in 1..Len(d.rollout): Fresh(d.rollout[i], epoch, published)
    BY <1>1, PendingCounts DEF Got
  <2>3. Decisions(p) \in Nat
    BY <1>1, <2>2, DecisionsAreCounted DEF Got
  <2>4. ~(Cardinality(PolicyVersions(p)) > 1)
    BY <2>2, OneVersion
  <2>5. pending' = {} /\ total' = total + Decisions(p) /\ total' \in Nat
    BY <1>4, <2>3 DEF TakeRound, IInv, LearnerInv
  <2>6. CASE lpc' = "training" /\ UNCHANGED epoch
    <3>1. ActorsInv' /\ LearnerInv'
      BY <1>2, <2>1, <2>5, <2>6 DEF IInv, ActorsInv, LearnerInv
    <3>2. QueueInv' /\ PendingInv'
      BY <2>1, <2>5, FS_EmptySet DEF QueueInv, PendingInv
    <3> QED BY <2>6, <3>1, <3>2 DEF IInv
  <2>7. CASE EndRound(total + Decisions(p), FALSE)
    <3>1. steps' \in Nat /\ published' = steps' /\ stale' \in BOOLEAN
      BY <1>2 DEF IInv, LearnerInv
    <3>2. PICK isStale: isStale = FALSE /\ EndRound(total + Decisions(p), isStale)
      BY <2>7, Zenon
    <3>3. IInv'
      BY <1>2, <2>1, <2>5, <3>1, <3>2, EndRoundIInv
    <3> QED BY <2>1, <2>5, <3>3
  <2> QED BY <1>4, <2>4, <2>6, <2>7, Zenon DEF TakeRound
<1> QED BY <1>1, <1>3, <1>4, Zenon DEF Got

LEMMA ThreadUpdateIInv ==
    ASSUME IInv, ThreadUpdate
    PROVE  IInv' /\ UNCHANGED <<epoch, published>>
<1>1. PICK k \in 0..MaxOptSteps: steps' = steps + k
  BY DEF ThreadUpdate
<1>2. /\ steps' \in Nat /\ published <= steps'
      /\ lpc' \in {"publish", "failed"} /\ stale' \in BOOLEAN
      /\ UNCHANGED <<epoch, published, queue, pending, total, admitted, act>>
      /\ lpc # "get"
  <2>1. steps' \in Nat /\ published <= steps'
    BY <1>1, BoundsAssumption DEF IInv, LearnerInv
  <2>2. stale \in BOOLEAN
    BY DEF IInv, LearnerInv
  <2>3. stale' \in BOOLEAN
    BY <2>2, Zenon DEF ThreadUpdate
  <2>4. lpc' \in {"publish", "failed"} /\ lpc # "get"
    BY DEF ThreadUpdate
  <2> QED BY <2>1, <2>3, <2>4, Zenon DEF ThreadUpdate
<1>3. LearnerInv'
  BY <1>2 DEF IInv, LearnerInv
<1>4. ActorsInv' /\ QueueInv' /\ PendingInv'
  BY <1>2 DEF IInv, ActorsInv, QueueInv, PendingInv
<1> QED BY <1>2, <1>3, <1>4 DEF IInv

LEMMA PublishIInv ==
    ASSUME IInv, LearnerPublish
    PROVE  /\ IInv'
           /\ \A a \in Actors: act[a].submitted = epoch
           /\ queue' = <<>> /\ pending' = {}
<1>1. /\ \A a \in Actors: act[a].submitted = epoch
      /\ queue = <<>> /\ pending = {} /\ steps \in Nat /\ total \in Nat
      /\ stale \in BOOLEAN
  BY DEF LearnerPublish, IInv, LearnerInv
<1>2. PICK isStale: isStale = stale /\ EndRound(total, isStale)
  BY Zenon DEF LearnerPublish
<1>3. /\ published' = steps /\ stale' = FALSE
      /\ UNCHANGED <<steps, queue, pending, total, admitted, act>>
  BY DEF LearnerPublish
<1> QED BY <1>1, <1>2, <1>3, EndRoundIInv

-----------------------------------------------------------------------------
(* The invariant is inductive, and an epoch or a policy version is left     *)
(* behind only by a step that finds every actor's contribution taken.       *)

LEMMA NextIInv == IInv /\ [Next]_vars => IInv'
<1> SUFFICES ASSUME IInv, [Next]_vars PROVE IInv'
  OBVIOUS
<1>1. ASSUME NEW a \in Actors, ActorStep(a) PROVE IInv'
  <2>1. Premise(a)
    BY DEF Premise, IInv, LearnerInv, ActorsInv
  <2>2. (Stays(a) \/ Contributes(a)) /\ UNCHANGED learnerVars
    BY <1>1, <2>1, ActorMoves
  <2> QED BY <2>2, StaysIInv, ContributesIInv
<1>2. CASE Learner
  BY <1>2, GetIInv, ThreadUpdateIInv, PublishIInv DEF Learner
<1>3. CASE UNCHANGED vars
  BY <1>3 DEF vars, IInv, LearnerInv, ActorsInv, QueueInv, PendingInv
<1> QED BY <1>1, <1>2, <1>3, Zenon DEF Next

LEMMA Invariance == Spec => []IInv
BY InitIInv, NextIInv, PTL DEF Spec

LEMMA StepPublishesBehindBarrier ==
    ASSUME IInv, Next
    PROVE  published' # published \/ epoch' # epoch =>
             /\ \A a \in Actors: act[a].submitted = epoch
             /\ queue' = <<>> /\ pending' = {}
<1>1. CASE LearnerGet
  <2>1. UNCHANGED published
    BY <1>1, Zenon DEF LearnerGet
  <2> QED BY <1>1, <2>1, GetIInv
<1>2. CASE ThreadUpdate
  BY <1>2, ThreadUpdateIInv
<1>3. CASE LearnerPublish
  BY <1>3, PublishIInv
<1>4. ASSUME NEW a \in Actors, ActorStep(a) PROVE UNCHANGED <<epoch, published>>
  <2>1. Premise(a)
    BY DEF Premise, IInv, LearnerInv, ActorsInv
  <2> QED BY <1>4, <2>1, ActorMoves DEF learnerVars
<1>5. CASE UNCHANGED vars
  BY <1>5 DEF vars
<1> QED BY <1>1, <1>2, <1>3, <1>4, <1>5, Zenon DEF Next, Learner

-----------------------------------------------------------------------------
(* What every step does to the decisions held between actors and learner.  *)

LEMMA HeldCounts ==
    ASSUME IInv
    PROVE  /\ Held = Decisions(pending) + Cardinality(Waiting(queue))
           /\ Decisions(pending) \in Nat /\ Cardinality(Waiting(queue)) \in Nat
           /\ DOMAIN queue = 1..Len(queue) /\ Len(queue) \in Nat
           /\ \A i \in 1..Len(queue): Bounded(queue[i])
           /\ \A c \in pending: Bounded(c)
<1>1. /\ DOMAIN queue = 1..Len(queue) /\ Len(queue) \in Nat
      /\ \A i \in 1..Len(queue): Bounded(queue[i])
  BY DEF IInv, QueueInv, Current, Contribution, Bounded
<1>2. IsFiniteSet(pending) /\ \A c \in pending: Bounded(c)
  BY DEF IInv, PendingInv, Current, Contribution, Bounded
<1>3. Decisions(pending) \in Nat
  BY <1>2, DecisionsFinite, FS_CardinalityType DEF Decisions
<1>4. Cardinality(Waiting(queue)) \in Nat
  BY <1>1, WaitingFinite, FS_CardinalityType
<1> QED BY <1>1, <1>2, <1>3, <1>4 DEF Held, Waiting

(* A contribution is counted once and held.                                *)
LEMMA ContributesHeld ==
    ASSUME NEW a \in Actors, IInv, Contributes(a), UNCHANGED learnerVars
    PROVE  \E n \in 0..(Horizon + 1): \E t:
             /\ act' = [act EXCEPT ![a] = t]
             /\ act[a].submitted # epoch /\ t.submitted = epoch
             /\ Held' = Held + n /\ admitted' = admitted + n
<1>1. PICK t, r: /\ act' = [act EXCEPT ![a] = t]
                 /\ act[a].submitted # epoch /\ t.submitted = epoch
                 /\ r \in Seq(Sample) /\ Len(r) <= Horizon + 1
                 /\ queue' = Append(queue, [actor |-> a, epoch |-> epoch, rollout |-> r])
                 /\ admitted' = admitted + Len(r)
  BY DEF Contributes
<1> DEFINE c == [actor |-> a, epoch |-> epoch, rollout |-> r]
<1>2. c.rollout = r /\ Bounded(c) /\ Len(r) \in Nat
  BY <1>1 DEF Bounded
<1>3. c \in Contribution
  BY <1>1 DEF IInv, LearnerInv, Contribution
<1> HIDE DEF c
<1>4. queue \in Seq(Contribution) /\ queue' = Append(queue, c)
  BY <1>1 DEF IInv, QueueInv, c
<1>5. /\ queue' \in Seq(Contribution) /\ Len(queue') = Len(queue) + 1
      /\ DOMAIN queue' = 1..(Len(queue) + 1)
      /\ \A i \in 1..Len(queue): queue'[i] = queue[i]
      /\ queue'[Len(queue) + 1] = c
  BY <1>3, <1>4, AppendProperties
<1>6. /\ DOMAIN queue = 1..Len(queue) /\ Len(queue) \in Nat
      /\ \A i \in 1..Len(queue): Bounded(queue[i])
      /\ Held = Decisions(pending) + Cardinality(Waiting(queue))
      /\ Decisions(pending) \in Nat
  BY HeldCounts
<1>7. /\ Cardinality(Waiting(queue')) = Cardinality(Waiting(queue)) + Len(c.rollout)
      /\ Cardinality(Waiting(queue)) \in Nat
  BY <1>2, <1>5, <1>6, WaitingOfOneMore
<1>8. Held' = Decisions(pending) + Cardinality(Waiting(queue'))
  BY DEF Held, Waiting, learnerVars
<1>9. Held' = Held + Len(r)
  BY <1>2, <1>6, <1>7, <1>8
<1>10. Len(r) \in 0..(Horizon + 1)
  BY <1>1, <1>2, HorizonAssumption
<1> QED BY <1>1, <1>9, <1>10

(* Reading a contribution moves it from the queue to the pending ones.      *)
LEMMA GotHeld ==
    ASSUME IInv, NEW p, Got(p)
    PROVE  /\ Held = Decisions(p) + Cardinality(Waiting(queue'))
           /\ Decisions(p) \in Nat /\ Cardinality(Waiting(queue')) \in Nat
<1> DEFINE n == Len(queue) - 1
           c == queue[1]
<1>1. /\ DOMAIN queue = 1..Len(queue) /\ Len(queue) \in Nat
      /\ \A i \in 1..Len(queue): Bounded(queue[i])
      /\ \A d \in pending: Bounded(d)
      /\ Held = Decisions(pending) + Cardinality(Waiting(queue))
  BY HeldCounts
<1>2. /\ n \in Nat /\ Len(queue) = n + 1 /\ Len(queue') = n
      /\ queue' \in Seq(Contribution)
      /\ \A i \in 1..n: queue'[i] = queue[i + 1]
  BY DEF Got
<1>3. DOMAIN queue' = 1..n
  BY <1>2
<1> HIDE DEF n
<1>4. DOMAIN queue = 1..(n + 1) /\ \A i \in 1..(n + 1): Bounded(queue[i])
  BY <1>1, <1>2
<1>5. /\ Cardinality(Waiting(queue)) = Cardinality(Waiting(queue')) + Len(c.rollout)
      /\ Cardinality(Waiting(queue')) \in Nat
  BY <1>2, <1>3, <1>4, WaitingOfTail
<1>6. p = pending \cup {c} /\ c \notin pending /\ IsFiniteSet(pending) /\ Bounded(c)
  <2>1. 1 \in 1..(n + 1)
    BY <1>2
  <2> QED BY <1>4, <2>1 DEF Got, IInv, PendingInv
<1>7. Len(c.rollout) \in Nat
  BY <1>6 DEF Bounded
<1> HIDE DEF c
<1>8. Decisions(p) = Decisions(pending) + Len(c.rollout) /\ Decisions(pending) \in Nat
  BY <1>1, <1>6, DecisionsOfOneMore
<1> QED BY <1>1, <1>5, <1>7, <1>8

LEMMA NothingWaits == Cardinality(Waiting(<<>>)) = 0
<1>1. Waiting(<<>>) = {}
  BY DEF Waiting
<1> QED BY <1>1, FS_EmptySet

LEMMA NothingHeld ==
    ASSUME queue = <<>>, pending = {}
    PROVE  Held = 0
<1>1. Held = Decisions({}) + Cardinality(Waiting(<<>>))
  BY DEF Held, Waiting
<1> QED BY <1>1, NoDecisions, NothingWaits

(* A round that is taken is everything that is held.                       *)
LEMMA TakenHeld ==
    ASSUME IInv, NEW p, Got(p), RoundComplete(p), TakeRound(p, {})
    PROVE  /\ queue' = <<>> /\ pending' = {} /\ Held' = 0
           /\ Held = Decisions(p) /\ total' = total + Held
<1>1. queue' = <<>> /\ pending' = {} /\ total' = total + Decisions(p)
  BY RoundIsIn DEF TakeRound
<1>2. Held = Decisions(p) + Cardinality(Waiting(<<>>)) /\ Decisions(p) \in Nat
  BY <1>1, GotHeld
<1>3. Held' = Decisions({}) + Cardinality(Waiting(<<>>))
  BY <1>1 DEF Held, Waiting
<1> QED BY <1>1, <1>2, <1>3, NoDecisions, NothingWaits

(* Reading without taking a round changes nothing that counts.             *)
LEMMA ReadHeld ==
    ASSUME IInv, NEW p, Got(p), pending' = p
    PROVE  Held' = Held
<1>1. Held' = Decisions(p) + Cardinality(Waiting(queue'))
  BY DEF Held, Waiting
<1> QED BY <1>1, GotHeld

LEMMA SameHeld ==
    ASSUME UNCHANGED <<queue, pending>>
    PROVE  Held' = Held
BY DEF Held

(* The run says "done" only when the budget has been reached.              *)
DoneInv == lpc = "done" => total >= Budget

LEMMA CountsKept ==
    ASSUME IInv, AdmissionConserved, DoneInv, Next
    PROVE  AdmissionConserved' /\ DoneInv'
<1>0. total \in Nat /\ admitted \in Nat /\ Budget \in Nat
  BY BoundsAssumption DEF IInv, LearnerInv
<1>1. ASSUME NEW a \in Actors, ActorStep(a) PROVE AdmissionConserved' /\ DoneInv'
  <2>1. Premise(a)
    BY DEF Premise, IInv, LearnerInv, ActorsInv
  <2>2. (Stays(a) \/ Contributes(a)) /\ UNCHANGED learnerVars
    BY <1>1, <2>1, ActorMoves
  <2>3. DoneInv' /\ UNCHANGED <<pending, total>>
    BY <2>2 DEF DoneInv, learnerVars
  <2>4. CASE Stays(a)
    <3>1. UNCHANGED <<queue, admitted>>
      BY <2>4 DEF Stays
    <3> QED BY <2>3, <3>1, SameHeld DEF AdmissionConserved
  <2>5. CASE Contributes(a)
    <3>1. PICK n \in 0..(Horizon + 1): Held' = Held + n /\ admitted' = admitted + n
      BY <2>2, <2>5, ContributesHeld
    <3>2. Held \in Nat /\ n \in Nat
      BY HeldCounts, HorizonAssumption
    <3> QED BY <1>0, <2>3, <3>1, <3>2 DEF AdmissionConserved
  <2> QED BY <2>2, <2>4, <2>5
<1>2. CASE LearnerGet
  <2>1. PICK p: Got(p)
    BY <1>2, GetIsGot
  <2>2. UNCHANGED admitted /\ lpc = "get"
    BY <2>1 DEF Got
  <2>3. CASE pending' = p /\ UNCHANGED <<total, lpc, epoch>>
    <3>1. Held' = Held
      BY <2>1, <2>3, ReadHeld
    <3> QED BY <2>2, <2>3, <3>1 DEF AdmissionConserved, DoneInv
  <2>4. CASE RoundComplete(p) /\ TakeRound(p, {})
    <3>1. Held' = 0 /\ Held = Decisions(p) /\ total' = total + Held
      BY <2>1, <2>4, TakenHeld
    <3>2. Held \in Nat
      BY HeldCounts
    <3>3. AdmissionConserved'
      BY <1>0, <2>2, <3>1, <3>2 DEF AdmissionConserved
    <3>4. lpc' = "done" => BudgetReached(total + Decisions(p))
      BY <2>4 DEF TakeRound, EndRound
    <3>5. DoneInv'
      BY <3>1, <3>4 DEF DoneInv, BudgetReached
    <3> QED BY <3>3, <3>5
  <2> QED BY <2>1, <2>3, <2>4, Zenon DEF Got
<1>3. CASE ThreadUpdate
  <2>1. UNCHANGED <<queue, pending, total, admitted>> /\ lpc' # "done"
    BY <1>3 DEF ThreadUpdate
  <2> QED BY <2>1, SameHeld DEF AdmissionConserved, DoneInv
<1>4. CASE LearnerPublish
  <2>1. UNCHANGED <<queue, pending, total, admitted>>
    BY <1>4 DEF LearnerPublish
  <2>2. lpc' = "done" => BudgetReached(total)
    BY <1>4 DEF LearnerPublish, EndRound
  <2> QED BY <2>1, <2>2, SameHeld DEF AdmissionConserved, DoneInv, BudgetReached
<1>5. CASE UNCHANGED vars
  <2>1. UNCHANGED <<queue, pending, total, admitted, lpc>>
    BY <1>5 DEF vars
  <2> QED BY <2>1, SameHeld DEF AdmissionConserved, DoneInv
<1> QED BY <1>1, <1>2, <1>3, <1>4, <1>5, Zenon DEF Next, Learner

LEMMA Counted == Spec => [](AdmissionConserved /\ DoneInv)
<1>1. Init => AdmissionConserved /\ DoneInv
  <2> SUFFICES ASSUME Init PROVE AdmissionConserved /\ DoneInv
    OBVIOUS
  <2>1. Held = 0
    BY NothingHeld DEF Init
  <2> QED BY <2>1 DEF Init, AdmissionConserved, DoneInv
<1>2. /\ IInv /\ IInv' /\ AdmissionConserved /\ DoneInv /\ [Next]_vars
      => AdmissionConserved' /\ DoneInv'
  <2> SUFFICES ASSUME IInv, AdmissionConserved, DoneInv, [Next]_vars
               PROVE  AdmissionConserved' /\ DoneInv'
    OBVIOUS
  <2>1. CASE UNCHANGED vars
    <3>1. UNCHANGED <<queue, pending, total, admitted, lpc>>
      BY <2>1 DEF vars
    <3> QED BY <3>1, SameHeld DEF AdmissionConserved, DoneInv
  <2> QED BY <2>1, CountsKept
<1> QED BY <1>1, <1>2, Invariance, PTL DEF Spec

-----------------------------------------------------------------------------
(* The barrier implements its rounds, step by step.                        *)

LEMMA InitRounds == Init => Rounds!Init
<1> SUFFICES ASSUME Init PROVE Rounds!Init
  OBVIOUS
<1>1. Held = 0
  BY NothingHeld DEF Init
<1>2. {a \in Actors: act[a].submitted = epoch} = {}
  BY DEF Init, NewActor, None
<1> QED BY <1>1, <1>2 DEF Init, Rounds!Init

LEMMA ActorRounds ==
    ASSUME IInv, NEW a \in Actors, ActorStep(a)
    PROVE  [Rounds!Next]_(Rounds!vars)
<1>1. (Stays(a) \/ Contributes(a)) /\ UNCHANGED learnerVars
  <2>1. Premise(a)
    BY DEF Premise, IInv, LearnerInv, ActorsInv
  <2> QED BY <2>1, ActorMoves
<1>2. UNCHANGED <<epoch, published, pending, lpc, total>>
  BY <1>1 DEF learnerVars
<1>3. CASE Stays(a)
  <2>1. PICK t: /\ act' = [act EXCEPT ![a] = t]
                /\ t.submitted = epoch <=> act[a].submitted = epoch
                /\ UNCHANGED <<queue, admitted>>
    BY <1>3 DEF Stays
  <2>2. {b \in Actors: act'[b].submitted = epoch} = {b \in Actors: act[b].submitted = epoch}
    BY <2>1 DEF IInv, ActorsInv
  <2>3. Held' = Held
    BY <1>2, <2>1, SameHeld
  <2> QED BY <1>2, <2>2, <2>3 DEF Rounds!vars
<1>4. CASE Contributes(a)
  <2>0. PICK n \in 0..(Horizon + 1): \E t:
           /\ act' = [act EXCEPT ![a] = t]
           /\ act[a].submitted # epoch /\ t.submitted = epoch
           /\ Held' = Held + n
    BY <1>1, <1>4, ContributesHeld
  <2>1. PICK t: /\ act' = [act EXCEPT ![a] = t]
                /\ act[a].submitted # epoch /\ t.submitted = epoch
                /\ Held' = Held + n
    BY <2>0
  <2>2. {b \in Actors: act'[b].submitted = epoch}
           = {b \in Actors: act[b].submitted = epoch} \cup {a}
    BY <2>1 DEF IInv, ActorsInv
  <2>3. lpc = "get"
    BY <2>1 DEF IInv, LearnerInv
  <2>4. Rounds!Contribute(a, n)
    BY <1>2, <2>1, <2>2, <2>3 DEF Rounds!Contribute
  <2> QED BY <2>1, <2>4 DEF Rounds!Next
<1> QED BY <1>1, <1>3, <1>4

(* The end of a round: the new one has no actor in it yet.                 *)
LEMMA EndRoundRounds ==
    ASSUME IInv, \A a \in Actors: act[a].submitted = epoch, UNCHANGED act,
           NEW decisions, NEW isStale, EndRound(decisions, isStale)
    PROVE  Rounds!EndRound
<1>1. CASE UNCHANGED epoch /\ lpc' \in {"staleBatch", "done"}
  BY <1>1 DEF Rounds!EndRound
<1>2. CASE epoch' = epoch + 1 /\ lpc' = "get"
  <2>1. epoch \in Nat
    BY Zeros DEF IInv, LearnerInv
  <2>2. {a \in Actors: act'[a].submitted = epoch'} = {}
    BY <1>2, <2>1
  <2> QED BY <1>2, <2>2 DEF Rounds!EndRound
<1> QED BY <1>1, <1>2 DEF EndRound, AdvanceCollectionEpoch

(* One policy version is the version of some decision.                     *)
LEMMA VersionsAndDecisions ==
    ASSUME NEW S, IsFiniteSet(S), \A c \in S: Bounded(c)
    PROVE  /\ PolicyVersions(S) = {} => Decisions(S) = 0
           /\ Cardinality(PolicyVersions(S)) = 1 => Decisions(S) > 0
<1> DEFINE D == UNION {{c} \X DOMAIN c.rollout: c \in S}
<1>1. \A c \in S: c.rollout \in Seq(Sample) /\ DOMAIN c.rollout = 1..Len(c.rollout)
  BY DEF Bounded
<1>2. D = {} <=> PolicyVersions(S) = {}
  <2>1. ASSUME D = {} PROVE PolicyVersions(S) = {}
    <3>1. ASSUME NEW c \in S, NEW i \in DOMAIN c.rollout PROVE FALSE
      <4>1. <<c, i>> \in D
        OBVIOUS
      <4> QED BY <2>1, <4>1
    <3> QED BY <3>1 DEF PolicyVersions, Range
  <2>2. ASSUME NEW c \in S, NEW i \in DOMAIN c.rollout PROVE PolicyVersions(S) # {}
    <3>1. c.rollout[i].ver \in PolicyVersions(S)
      BY <2>2 DEF PolicyVersions, Range
    <3> QED BY <3>1
  <2> QED BY <2>1, <2>2
<1>3. IsFiniteSet(D)
  BY DecisionsFinite
<1>4. Cardinality(PolicyVersions(S)) = 1 => PolicyVersions(S) # {}
  BY FS_EmptySet
<1> HIDE DEF D
<1>5. Cardinality(D) \in Nat /\ (Cardinality(D) = 0 <=> D = {})
  BY <1>3, FS_CardinalityType, FS_EmptySet
<1> QED BY <1>2, <1>4, <1>5 DEF Decisions, D

LEMMA GetRounds ==
    ASSUME IInv, LearnerGet
    PROVE  [Rounds!Next]_(Rounds!vars)
<1>1. PICK p: Got(p)
  BY GetIsGot
<1>2. UNCHANGED <<published, act>> /\ lpc = "get"
  BY <1>1 DEF Got
<1>3. CASE pending' = p /\ UNCHANGED <<total, lpc, epoch>>
  <2>1. Held' = Held
    BY <1>1, <1>3, ReadHeld
  <2> QED BY <1>2, <1>3, <2>1 DEF Rounds!vars
<1>4. CASE RoundComplete(p) /\ TakeRound(p, {})
  <2>1. \A a \in Actors: act[a].submitted = epoch
    BY <1>1, <1>4, RoundIsIn
  <2>2. {a \in Actors: act[a].submitted = epoch} = Actors
    BY <2>1
  <2>3. Held' = 0 /\ Held = Decisions(p) /\ total' = total + Held
    BY <1>1, <1>4, TakenHeld
  <2>4. /\ PolicyVersions(p) = {} => Decisions(p) = 0
        /\ Cardinality(PolicyVersions(p)) = 1 => Decisions(p) > 0
        /\ ~(Cardinality(PolicyVersions(p)) > 1)
    <3>1. \A d \in p: Bounded(d)
      BY <1>1, PendingCounts DEF Got, Bounded
    <3>2. ~(Cardinality(PolicyVersions(p)) > 1)
      BY <1>1, PendingCounts, OneVersion DEF Got
    <3> QED BY <1>1, <3>1, <3>2, VersionsAndDecisions DEF Got
  <2>5. CASE PolicyVersions(p) = {} /\ EndRound(total + Decisions(p), FALSE)
    <3>1. PICK isStale: isStale = FALSE /\ EndRound(total + Decisions(p), isStale)
      BY <2>5, Zenon
    <3>2. Rounds!EndRound
      BY <1>2, <2>1, <3>1, EndRoundRounds
    <3>3. Rounds!Take
      BY <1>2, <2>2, <2>3, <2>4, <2>5, <3>2 DEF Rounds!Take
    <3> QED BY <3>3 DEF Rounds!Next
  <2>6. CASE /\ Cardinality(PolicyVersions(p)) = 1
             /\ lpc' = "training" /\ UNCHANGED epoch
    <3>1. Rounds!Take
      BY <1>2, <2>2, <2>3, <2>4, <2>6 DEF Rounds!Take
    <3> QED BY <3>1 DEF Rounds!Next
  <2> QED BY <1>4, <2>4, <2>5, <2>6, Zenon DEF TakeRound
<1> QED BY <1>1, <1>3, <1>4, Zenon DEF Got

LEMMA UpdateRounds ==
    ASSUME IInv, ThreadUpdate \/ LearnerPublish
    PROVE  [Rounds!Next]_(Rounds!vars)
<1>0. UNCHANGED <<queue, pending, total, act>>
  BY DEF ThreadUpdate, LearnerPublish
<1>1. Held' = Held
  BY <1>0, SameHeld
<1>2. CASE ThreadUpdate
  <2>1. UNCHANGED <<epoch, published>> /\ lpc = "training" /\ lpc' \in {"publish", "failed"}
    BY <1>2 DEF ThreadUpdate
  <2>2. CASE lpc' = "publish"
    BY <1>0, <1>1, <2>1, <2>2 DEF Rounds!vars
  <2>3. CASE lpc' = "failed"
    <3>1. Rounds!Release
      BY <1>0, <1>1, <2>1, <2>3 DEF Rounds!Release
    <3> QED BY <3>1 DEF Rounds!Next
  <2> QED BY <2>1, <2>2, <2>3
<1>3. CASE LearnerPublish
  <2>1. lpc = "publish" /\ published' = steps
    BY <1>3 DEF LearnerPublish
  <2>2. PICK isStale: isStale = stale /\ EndRound(total, isStale)
    BY <1>3, Zenon DEF LearnerPublish
  <2>3. /\ \A a \in Actors: act[a].submitted = epoch
        /\ published' >= published /\ published' \in Nat
    BY <2>1 DEF IInv, LearnerInv
  <2>4. Rounds!EndRound
    BY <1>0, <2>2, <2>3, EndRoundRounds
  <2>5. Rounds!Release
    BY <1>0, <1>1, <2>1, <2>3, <2>4 DEF Rounds!Release
  <2> QED BY <2>5 DEF Rounds!Next
<1> QED BY <1>2, <1>3

-----------------------------------------------------------------------------
(* The theorems.                                                           *)

(* Every variable keeps its type, whatever actors, learner and sockets do. *)
THEOREM TypeCorrect == Spec => []TypeOK
<1>1. IInv => TypeOK
  <2> SUFFICES ASSUME IInv PROVE TypeOK
    OBVIOUS
  <2>1. pending \subseteq Contribution
    BY DEF IInv, PendingInv, Current
  <2>2. /\ epoch \in Epochs /\ published \in Versions /\ steps \in Versions
        /\ lpc \in {"get", "training", "publish", "mixed", "staleBatch", "done", "failed"}
        /\ total \in Nat /\ admitted \in Nat /\ stale \in BOOLEAN
    BY DEF IInv, LearnerInv, Versions
  <2>3. queue \in Seq(Contribution) /\ act \in [Actors -> ActorState]
    BY DEF IInv, QueueInv, ActorsInv
  <2> QED BY <2>1, <2>2, <2>3, Zenon DEF TypeOK
<1> QED BY <1>1, Invariance, PTL

(* The RuntimeErrors of sync_ppo.py (experience that crosses an epoch, a   *)
(* submission behind the fence, a batch of mixed policy versions) are never *)
(* raised.                                                                 *)
THEOREM NeverFatal == Spec => []NoFatal
<1>1. IInv => NoFatal
  BY DEF IInv, LearnerInv, ActorsInv, ActorInv, NoFatal
<1> QED BY <1>1, Invariance, PTL

(* While a round is open, everything an actor holds and everything the     *)
(* learner can receive comes from that epoch and the published weights.    *)
THEOREM OnPolicyHolds == Spec => []OnPolicy
<1>1. IInv => OnPolicy
  <2> SUFFICES ASSUME IInv, lpc = "get"
               PROVE  /\ published = steps
                      /\ \A x \in UNION ({Experience(a): a \in Actors}
                              \cup {Range(c.rollout): c \in Contributions}):
                            x.epoch = epoch /\ x.ver = published
    BY DEF OnPolicy
  <2>1. published = steps
    BY DEF IInv, LearnerInv
  <2>2. ASSUME NEW a \in Actors, NEW x \in Experience(a)
        PROVE  Fresh(x, epoch, published)
    <3>1. Core(act[a], epoch, published)
      BY DEF IInv, ActorsInv, ActorInv
    <3>2. DOMAIN act[a].rollout = 1..Len(act[a].rollout)
      BY <3>1 DEF Core, ActorState
    <3> QED BY <2>2, <3>1, <3>2 DEF Core, Experience, Range
  <2>3. ASSUME NEW c \in Contributions PROVE Current(c, epoch, published, act)
    <3>1. DOMAIN queue = 1..Len(queue)
      BY DEF IInv, QueueInv
    <3> QED BY <2>3, <3>1 DEF IInv, QueueInv, PendingInv, Contributions, Range
  <2>4. ASSUME NEW c \in Contributions, NEW x \in Range(c.rollout)
        PROVE  Fresh(x, epoch, published)
    <3>1. Current(c, epoch, published, act)
      BY <2>3
    <3>2. DOMAIN c.rollout = 1..Len(c.rollout)
      BY <3>1 DEF Current, Contribution
    <3> QED BY <2>4, <3>1, <3>2 DEF Current, Range
  <2> QED BY <2>1, <2>2, <2>4 DEF Fresh
<1> QED BY <1>1, Invariance, PTL

(* No actor contributes twice to an epoch, and no contribution of another  *)
(* epoch ever reaches the learner.                                         *)
THEOREM ContributesOnce == Spec => []OneContribution
<1>1. IInv => OneContribution
  <2> SUFFICES ASSUME IInv PROVE OneContribution
    OBVIOUS
  <2>1. DOMAIN queue = 1..Len(queue)
    BY DEF IInv, QueueInv
  <2>2. \A c \in Contributions: c.epoch = epoch
    BY <2>1 DEF IInv, QueueInv, PendingInv, Contributions, Range, Current
  <2>3. \A c \in pending: \A d \in Contributions: c.actor = d.actor => d \in pending /\ d = c
    BY <2>1 DEF IInv, PendingInv, Contributions, Range
  <2> QED BY <2>2, <2>3 DEF OneContribution, IInv, QueueInv, PendingInv
<1> QED BY <1>1, Invariance, PTL

(* A rollout never holds more than one sample beyond the rollout target.   *)
THEOREM RolloutBounded == Spec => []RolloutBound
<1>1. IInv => RolloutBound
  <2> SUFFICES ASSUME IInv PROVE RolloutBound
    OBVIOUS
  <2>1. \A a \in Actors: Len(act[a].rollout) <= Horizon + 1
    <3> TAKE a \in Actors
    <3>1. ActorInv(act[a], epoch, published) /\ Horizon \in Nat \ {0}
      BY HorizonAssumption DEF IInv, ActorsInv
    <3>2. Len(act[a].rollout) \in Nat
      BY <3>1 DEF ActorInv, Core, ActorState
    <3> QED BY <3>1, <3>2 DEF ActorInv
  <2>2. DOMAIN queue = 1..Len(queue)
    BY DEF IInv, QueueInv
  <2>3. \A c \in Contributions: Len(c.rollout) <= Horizon + 1
    BY <2>2 DEF IInv, QueueInv, PendingInv, Contributions, Range, Current
  <2> QED BY <2>1, <2>3 DEF RolloutBound
<1> QED BY <1>1, Invariance, PTL

(* Credit in a later epoch presupposes that the server has applied a       *)
(* command sampled in that epoch.                                          *)
THEOREM FenceHolds == Spec => []FenceProven
<1>1. IInv => FenceProven
  BY DEF IInv, ActorsInv, ActorInv, Core, FenceProven
<1> QED BY <1>1, Invariance, PTL

(* The policy is published, and an epoch left, only once every actor has   *)
(* contributed to it and the learner has taken every contribution.         *)
THEOREM PublishesBehindBarrier == Spec => PublishBehindBarrier
<1>1. IInv /\ [Next]_vars =>
        [published' # published \/ epoch' # epoch =>
           /\ \A a \in Actors: act[a].submitted = epoch
           /\ queue' = <<>> /\ pending' = {}]_vars
  BY StepPublishesBehindBarrier
<1> QED BY <1>1, Invariance, PTL DEF Spec, PublishBehindBarrier

(* The rollout statistics and the learner's total differ by exactly the    *)
(* decisions that are still queued or pending.                             *)
THEOREM AdmissionIsConserved == Spec => []AdmissionConserved
BY Counted, PTL

(* A bounded run is done on exactly the decisions that were admitted, at   *)
(* least as many as its budget, with nothing left unread.                  *)
THEOREM BudgetIsExact == Spec => []BudgetExact
<1>1. IInv /\ AdmissionConserved /\ DoneInv => BudgetExact
  <2> SUFFICES ASSUME IInv, AdmissionConserved, DoneInv, lpc = "done"
               PROVE  /\ total = admitted /\ total >= Budget
                      /\ queue = <<>> /\ pending = {}
    BY DEF BudgetExact
  <2>1. queue = <<>> /\ pending = {} /\ total \in Nat
    BY DEF IInv, LearnerInv
  <2>2. Held = 0
    BY <2>1, NothingHeld
  <2> QED BY <2>1, <2>2 DEF AdmissionConserved, DoneInv
<1> QED BY <1>1, Invariance, Counted, PTL

(* Queue, epochs, fences and sockets together implement the rounds of      *)
(* BarrierRounds: every actor joins a round once, the learner takes what   *)
(* all of them have contributed, and only then is a policy released.       *)
THEOREM BarrierImplementsRounds == Spec => ImplementsRounds
<1>1. IInv /\ [Next]_vars => [Rounds!Next]_(Rounds!vars)
  <2> SUFFICES ASSUME IInv, [Next]_vars PROVE [Rounds!Next]_(Rounds!vars)
    OBVIOUS
  <2>1. CASE UNCHANGED vars
    <3>1. /\ UNCHANGED <<epoch, published, queue, pending, lpc, total, act>>
          /\ Held' = Held
      BY <2>1, SameHeld DEF vars
    <3> QED BY <3>1 DEF Rounds!vars
  <2>2. ASSUME NEW a \in Actors, ActorStep(a) PROVE [Rounds!Next]_(Rounds!vars)
    BY <2>2, ActorRounds
  <2>3. CASE Learner
    BY <2>3, GetRounds, UpdateRounds DEF Learner
  <2> QED BY <2>1, <2>2, <2>3, Zenon DEF Next
<1> QED BY <1>1, InitRounds, Invariance, PTL DEF Spec, ImplementsRounds, Rounds!Spec

(* No decision is credited twice, whatever gaps, lives and replies come:   *)
(* identities grow along rollout, credited and issued samples.             *)
THEOREM CreditsOnce == Spec => []NoDecisionTwice
<1>1. IInv => NoDecisionTwice
  <2> SUFFICES ASSUME IInv, NEW a \in Actors
               PROVE  LET s == act[a]
                          r == IF s.pend = NoSample THEN s.rollout
                               ELSE Append(s.rollout, s.pend)
                      IN /\ \A i, j \in 1..Len(r): i < j => r[i].id < r[j].id
                         /\ \A x \in s.issued: \A i \in 1..Len(r): r[i].id < x.id
                         /\ \A x, y \in s.issued: x.id = y.id => x = y
    BY DEF NoDecisionTwice
  <2> DEFINE s == act[a]
             q == Append(s.rollout, s.pend)
  <2>1. Ordered(s) /\ s \in ActorState
    BY DEF IInv, ActorsInv, ActorInv, Core
  <2>2. s.rollout \in Seq(Sample) /\ Len(s.rollout) \in Nat
    BY <2>1 DEF ActorState
  <2> HIDE DEF s
  <2>3. CASE s.pend = NoSample
    BY <2>1, <2>3 DEF Ordered, s
  <2>4. CASE s.pend # NoSample
    <3>1. s.pend \in Sample
      BY <2>1, <2>4 DEF ActorState
    <3>2. /\ Len(q) = Len(s.rollout) + 1
          /\ \A i \in 1..Len(q): q[i] = IF i <= Len(s.rollout) THEN s.rollout[i] ELSE s.pend
      BY <2>2, <3>1, AppendProperties
    <3> HIDE DEF q
    <3>3. \A i, j \in 1..Len(q): i < j => q[i].id < q[j].id
      BY <2>1, <2>2, <2>4, <3>2 DEF Ordered
    <3>4. \A x \in s.issued: \A i \in 1..Len(q): q[i].id < x.id
      BY <2>1, <2>2, <2>4, <3>2 DEF Ordered
    <3> QED BY <2>1, <2>4, <3>3, <3>4 DEF Ordered, q, s
  <2> QED BY <2>3, <2>4
<1> QED BY <1>1, Invariance, PTL
=============================================================================
