----------------------------- MODULE ActorCredit -----------------------------
(***************************************************************************)
(* How one actor of pyrl_trainer/agent.py attributes reward to its samples *)
(* over one life: which physical steps are credited to which sample, where *)
(* an advantage trace is cut and from which observation a rollout is       *)
(* bootstrapped.  A gated actor is the SynchronousActorClient of           *)
(* sync_ppo.py, whose collection closes with each submission and reopens   *)
(* behind the control fence; one that is not is the plain ActorClient.     *)
(*                                                                         *)
(* The server is the environment: it steps the physics, lets a command it  *)
(* has received take control of a step, and reports intervals in order on  *)
(* a connection that may fail.                                             *)
(***************************************************************************)
EXTENDS Integers, Sequences, FiniteSets, FiniteSetsExt

CONSTANTS
    Gates,    \* the values of gated to consider: the classes of actor
    Horizon,  \* cfg.horizon
    MaxUnconfirmed, \* MAX_UNCONFIRMED_ACTIONS
    MaxStep,  \* bound: physical steps of the life
    MaxId,    \* bound: samples
    MaxChan,  \* bound: envelopes the actor has not read yet
    MaxGaps   \* bound: transport gaps

ASSUME CreditAssumption ==
    /\ Gates \subseteq BOOLEAN /\ Horizon \in Nat \ {0}
    /\ MaxUnconfirmed \in Nat \ {0} /\ MaxStep \in Nat /\ MaxId \in Nat
    /\ MaxChan \in Nat \ {0} /\ MaxGaps \in Nat

VARIABLES
    now,      \* the physical step that comes next
    ctl,      \* history: ctl[t] is the sample in control of step t, 0 for none
    wire,     \* the commands of this life sent to the server
    held,     \* the last command it has applied, 0 for none
    source,   \* what controls the snake: "none", "held" or "other"
    selected, \* the step at which that was selected, -1 for never
    reported, \* the step up to which the server has reported
    ended,    \* "no", "terminal" or "truncated"
    chan,     \* reports on their way to the actor
    gaps,     \* transport gaps so far
    actor,    \* the state of the ActorClient
    rollouts  \* history: what it has put in the queue

vars == <<now, ctl, wire, held, source, selected, reported, ended, chan, gaps,
          actor, rollouts>>
serverVars == <<now, ctl, held, source, selected, reported, ended>>

-----------------------------------------------------------------------------
None == -1      \* no value
Zero == -2      \* the bootstrap value 0.0, of no observation
Ticks == 0..MaxStep
Ids == 1..MaxId
Kinds == {"initial", "live", "terminal", "truncated"}

Envelope == [from: Ticks, to: Ticks, applied: 0..MaxId, source: {"none", "held", "other"},
             selected: Ticks \cup {None}, kind: Kinds]

(* A Transition: the observation it was sampled on, the steps whose reward  *)
(* it has been given, done, and bootstrap_override (by the observation it   *)
(* was computed from).                                                     *)
Sample == [id: Ids, tick: Ticks]
Credited == [id: Ids, tick: Ticks, steps: SUBSET Ticks, done: BOOLEAN,
             cut: Ticks \cup {None, Zero}]
Nothing == [id |-> 0]
NoEnd == [step |-> None, obs |-> FALSE]
End == [step: Ticks, obs: BOOLEAN]

NewActor(gated) ==
    [ gated |-> gated,         \* is the actor synchronous?
      pc |-> "online",
      gate |-> "open",         \* "closed", "fenced" or "open" to collection
      fence |-> 0,             \* _fence_action_id
      rebase |-> FALSE,
      issued |-> {},           \* _issued_transitions
      pend |-> Nothing,        \* pending_transition
      end |-> NoEnd,           \* _credit_end
      rollout |-> <<>>,
      rollEnd |-> NoEnd,       \* _rollout_end
      counter |-> 0,           \* _action_id_counter
      last |-> None,           \* last_sent_tick
      sample |-> Nothing,      \* the sample inside _send_action
      track |-> FALSE ]        \* its _can_track_action

Init ==
    /\ now = 0 /\ ctl = [t \in Ticks |-> 0] /\ wire = {} /\ held = 0
    /\ source = "none" /\ selected = None /\ reported = 0 /\ ended = "no"
    /\ chan = <<[from |-> 0, to |-> 0, applied |-> 0, source |-> "none",
                 selected |-> None, kind |-> "initial"]>>
    /\ gaps = 0 /\ actor \in {NewActor(gated): gated \in Gates} /\ rollouts = {}

-----------------------------------------------------------------------------
(* The actor's helpers, as functions of its state.                         *)

ClearUnfinishedActions(s) == [s EXCEPT !.issued = {}, !.pend = Nothing, !.end = NoEnd]

\* A defect of FinishCreditedAction: the finished sample stays pending.
FinishKeepsPending(s) ==
    IF s.pend = Nothing \/ s.end = NoEnd THEN s
    ELSE [s EXCEPT !.rollout = Append(s.rollout, s.pend), !.rollEnd = s.end]

FinishCreditedAction(s) ==
    IF s.pend = Nothing \/ s.end = NoEnd THEN s
    ELSE [s EXCEPT !.rollout = Append(s.rollout, s.pend), !.rollEnd = s.end,
                   !.pend = Nothing, !.end = NoEnd]

RolloutBootstrap(s) == IF s.rollEnd.obs THEN s.rollEnd.step ELSE Zero

\* A defect of Proven: a coalesced interval is paid whole.
ProvenOverSpan(e) == e.applied # 0 /\ e.source = "held"

(* Only a single completed step proves which command controlled all of it. *)
Proven(e) ==
    /\ e.applied # 0 /\ e.source = "held"
    /\ e.to = e.from + 1 /\ e.selected = e.from

\* A defect of BrokenTrace: a join is judged by the end of the rollout only.
BrokenTraceByEnd(s, x, start) == s.rollout # <<>> /\ s.rollEnd.step # start

(* The next sample and its credited interval must both start where the     *)
(* previous sample of the rollout ended.                                   *)
BrokenTrace(s, x, start) ==
    /\ s.rollout # <<>> /\ s.rollEnd # NoEnd
    /\ s.rollEnd.step # start \/ x.tick # start

(* The issued sample x has been applied: it is the pending one from now on. *)
TakeIssued(s, x, start) ==
    LET last == Len(s.rollout)
        cut == IF BrokenTrace(s, x, start)
               THEN [s.rollout EXCEPT ![last].cut = RolloutBootstrap(s)] ELSE s.rollout
    IN [s EXCEPT !.rollout = cut,
                 !.pend = [id |-> x.id, tick |-> x.tick, steps |-> {}, done |-> FALSE,
                           cut |-> None]]

EndOfCredit(s, e) == [step |-> e.to, obs |-> e.kind # "terminal"]

Done(e) == e.kind = "terminal"

GiveReward(s, e) ==
    [s EXCEPT !.pend.steps = @ \cup {e.from}, !.pend.done = Done(e),
              !.end = EndOfCredit(s, e)]

CreditAction(s, e) ==
    LET f == IF ~Proven(e) \/ s.pend.id # e.applied THEN FinishCreditedAction(s) ELSE s
        kept == [f EXCEPT !.issued = {x \in f.issued: x.id > e.applied}]
        match == {x \in f.issued: x.id = e.applied}
    IN IF s.gate # "open" \/ e.kind = "initial" THEN s
       ELSE IF ~Proven(e) THEN f
       ELSE IF f.pend # Nothing THEN GiveReward(f, e)
       ELSE IF match = {} THEN kept
       ELSE GiveReward(TakeIssued(kept, CHOOSE x \in match: TRUE, e.from), e)

(* A new epoch is only seen here once the old one has been submitted to.   *)
RefreshCollectionEpoch(s, advanced) ==
    IF s.gated /\ advanced /\ s.gate = "closed"
    THEN [s EXCEPT !.gate = "fenced", !.fence = 0] ELSE s

ObserveCollectionFence(s, e) ==
    IF s.gate = "fenced" /\ s.fence # 0 /\ e.applied >= s.fence
    THEN [s EXCEPT !.gate = "open"] ELSE s

AccountEnvelope(s, e, advanced) ==
    LET t == ObserveCollectionFence(RefreshCollectionEpoch(s, advanced), e)
    IN IF s.rebase THEN [t EXCEPT !.rebase = FALSE] ELSE CreditAction(t, e)

(* What _submit_training_rollout leaves behind.                            *)
Submitted(s) ==
    LET t == [s EXCEPT !.rollout = <<>>, !.rollEnd = NoEnd]
    IN IF s.gated /\ s.gate # "closed" THEN [ClearUnfinishedActions(t) EXCEPT !.gate = "closed"]
       ELSE t

(* What it puts in the queue, a set of at most one rollout.                *)
Admitted(s) ==
    IF s.rollout = <<>> \/ s.gate = "closed" THEN {}
    ELSE {[rollout |-> s.rollout, boot |-> RolloutBootstrap(s)]}

Submit(s) == rollouts' = rollouts \cup Admitted(s)

-----------------------------------------------------------------------------
(* The server.                                                             *)

SelectNothing == UNCHANGED <<held, source, selected>>
Reselect == selected' = now /\ UNCHANGED <<held, source>>
Apply(x) == held' = x.id /\ source' = "held" /\ selected' = now
LoseControl == source' = "other" /\ selected' = now /\ UNCHANGED held
RegainControl == held # 0 /\ source' = "held" /\ selected' = now /\ UNCHANGED held

Physics ==
    /\ ended = "no" /\ now < MaxStep
    /\ \/ SelectNothing \/ (source # "none" /\ Reselect) \/ LoseControl \/ RegainControl
       \/ \E x \in wire: x.id > held /\ Apply(x)
    /\ ctl' = [ctl EXCEPT ![now] = IF source' = "held" THEN held' ELSE 0]
    /\ now' = now + 1
    /\ UNCHANGED <<wire, reported, ended, chan, gaps, actor, rollouts>>

Connected == actor.pc \in {"online", "sending"}

(* An interval is reported, which may hold no step, one or several, or the *)
(* life is closed.                                                         *)
Report(kind) ==
    /\ ended = "no" /\ Connected /\ Len(chan) < MaxChan
    /\ chan' = Append(chan, [from |-> reported, to |-> now, applied |-> held,
                             source |-> source, selected |-> selected, kind |-> kind])
    /\ reported' = now
    /\ ended' = IF kind = "live" THEN "no" ELSE kind
    /\ UNCHANGED <<now, ctl, wire, held, source, selected, gaps, actor, rollouts>>

-----------------------------------------------------------------------------
(* The actor.                                                              *)

(* The handler returns, or samples and suspends in ws.send.                *)
Return(s) == actor' = s /\ UNCHANGED wire
SampleAction(s, e) ==
    LET x == [id |-> s.counter + 1, tick |-> e.to] IN
    /\ s.counter < MaxId /\ s.last # x.tick
    /\ actor' = [s EXCEPT !.pc = "sending", !.counter = x.id, !.sample = x,
                          !.track = (s.gate # "closed")]
    /\ wire' = wire \cup {x}

ReachedHorizon(s) == s.gate = "open" /\ Len(s.rollout) >= Horizon

(* _handle_sensors.                                                        *)
Observe(advanced) ==
    LET e == Head(chan)
        t == AccountEnvelope(actor, e, advanced)
        cutoff == IF t.gated THEN FinishCreditedAction(t) ELSE t
        s == IF ReachedHorizon(t) THEN Submitted(cutoff) ELSE t
    IN /\ actor.pc = "online" /\ chan # <<>> /\ e.kind \in {"initial", "live"}
       /\ chan' = Tail(chan)
       /\ IF ReachedHorizon(t) THEN Submit(cutoff) ELSE UNCHANGED rollouts
       /\ Return(s) \/ SampleAction(s, e)
       /\ UNCHANGED <<serverVars, gaps>>

(* The issued samples with x, the oldest given up at the cap.              *)
Issue(issued, x) ==
    LET old == IF Cardinality(issued) < MaxUnconfirmed THEN {}
               ELSE {CHOOSE y \in issued: \A z \in issued: y.id <= z.id}
    IN (issued \ old) \cup {x}

(* await ws.send returned.                                                 *)
SendDone ==
    LET s == actor
        first == s.gated /\ s.gate = "fenced" /\ s.fence = 0
    IN /\ s.pc = "sending"
       /\ actor' = [s EXCEPT !.pc = "online", !.sample = Nothing, !.track = FALSE,
                             !.issued = IF s.track THEN Issue(@, s.sample) ELSE @,
                             !.last = s.sample.tick,
                             !.fence = IF first THEN s.sample.id ELSE @]
       /\ UNCHANGED <<serverVars, wire, chan, gaps, rollouts>>

(* A closure at the very step where the last credited sample ended gives   *)
(* that sample its exact endpoint.                                         *)
CloseAtEnd(s, e) ==
    IF s.rollEnd # NoEnd /\ s.rollEnd.step = e.to
    THEN [s EXCEPT !.rollout[Len(s.rollout)].done = Done(e),
                   !.rollEnd = EndOfCredit(s, e)]
    ELSE s

(* _handle_transition.                                                     *)
Close(advanced) ==
    LET e == Head(chan)
        t == FinishCreditedAction(AccountEnvelope(actor, e, advanced))
        s == ClearUnfinishedActions(CloseAtEnd(t, e))
    IN /\ actor.pc = "online" /\ chan # <<>> /\ e.kind \in {"terminal", "truncated"}
       /\ chan' = Tail(chan)
       /\ Submit(s)
       /\ actor' = [Submitted(s) EXCEPT !.pc = "over"]
       /\ UNCHANGED <<serverVars, wire, gaps>>

Truncated(s) == ClearUnfinishedActions(FinishCreditedAction(s))

(* The socket failed: _truncate_disconnected_rollout.  Unread reports are  *)
(* lost with it.                                                           *)
Disconnect(advanced) ==
    LET s == Truncated(RefreshCollectionEpoch(actor, advanced)) IN
    /\ Connected /\ gaps < MaxGaps
    /\ gaps' = gaps + 1 /\ chan' = <<>>
    /\ Submit(s)
    /\ actor' = [Submitted(s) EXCEPT !.pc = "joining", !.rebase = TRUE,
                                     !.last = None, !.sample = Nothing, !.track = FALSE]
    /\ UNCHANGED <<serverVars, wire>>

(* The same snake is given back, or it is gone.                            *)
Reclaimed ==
    /\ actor.pc = "joining" /\ ended = "no"
    /\ actor' = [actor EXCEPT !.pc = "online"]
    /\ UNCHANGED <<serverVars, wire, chan, gaps, rollouts>>
ReclaimRefused ==
    /\ actor.pc = "joining" /\ ended # "no"
    /\ actor' = [actor EXCEPT !.pc = "over"]
    /\ UNCHANGED <<serverVars, wire, chan, gaps, rollouts>>

Server == Physics \/ \E kind \in {"live", "terminal", "truncated"}: Report(kind)
Actor ==
    \/ \E advanced \in BOOLEAN: Observe(advanced) \/ Close(advanced) \/ Disconnect(advanced)
    \/ SendDone \/ Reclaimed \/ ReclaimRefused

Next == Server \/ Actor \/ (actor.pc = "over" /\ UNCHANGED vars)

Spec == Init /\ [][Next]_vars

-----------------------------------------------------------------------------
(* Properties.                                                             *)

TypeOK ==
    /\ now \in Ticks /\ ctl \in [Ticks -> 0..MaxId] /\ wire \subseteq Sample
    /\ held \in 0..MaxId /\ source \in {"none", "held", "other"}
    /\ selected \in Ticks \cup {None} /\ reported \in Ticks
    /\ ended \in {"no", "terminal", "truncated"}
    /\ chan \in Seq(Envelope) /\ gaps \in 0..MaxGaps
    /\ Cardinality(actor.issued) <= MaxUnconfirmed
    /\ rollouts \subseteq [rollout: Seq(Credited), boot: Ticks \cup {Zero}]
    /\ actor \in [gated: Gates, pc: {"online", "sending", "joining", "over"},
                  gate: {"closed", "fenced", "open"}, fence: 0..MaxId, rebase: BOOLEAN,
                  issued: SUBSET Sample, pend: Credited \cup {Nothing},
                  end: End \cup {NoEnd}, rollout: Seq(Credited),
                  rollEnd: End \cup {NoEnd}, counter: 0..MaxId, last: Ticks \cup {None},
                  sample: Sample \cup {Nothing}, track: BOOLEAN]

(* Everything the actor has submitted or is collecting.                    *)
Traces == {r.rollout: r \in rollouts}
          \cup {IF actor.pend = Nothing THEN actor.rollout
                ELSE Append(actor.rollout, actor.pend)}
Samples == UNION {{r[i]: i \in DOMAIN r}: r \in Traces}
FirstStep(x) == Min(x.steps)
LastStep(x) == Max(x.steps)

(* Reward goes to the sample that was in physical control: no step is      *)
(* credited to a sample whose command did not hold for all of it.          *)
CreditIsControl ==
    \A x \in Samples: x.steps # {} /\ \A t \in x.steps: ctl[t] = x.id

(* No step is paid twice, no sample is collected twice, and the steps of a *)
(* sample are consecutive.                                                 *)
NoStepTwice ==
    /\ \A r \in Traces: \A i, j \in DOMAIN r: i < j => r[i].id < r[j].id
    /\ \A q, r \in Traces: q # r =>
         \A i \in DOMAIN q, j \in DOMAIN r: q[i].id # r[j].id
    /\ \A x, y \in Samples: x.id # y.id => x.steps \cap y.steps = {}
    /\ \A x \in Samples: x.steps = FirstStep(x)..LastStep(x)

(* An advantage trace passes from one sample to the next only if the next  *)
(* was sampled on, and starts at, the observation that ended the previous; *)
(* elsewhere it is cut at the observation that ended the previous.         *)
TraceContinuous ==
    \A r \in Traces: \A i \in 1..(Len(r) - 1):
        LET x == r[i] y == r[i + 1] IN
        /\ ~x.done
        /\ \/ x.cut = None /\ FirstStep(y) = LastStep(x) + 1 /\ y.tick = FirstStep(y)
           \/ x.cut = LastStep(x) + 1

(* A rollout is bootstrapped from the observation at the end of its last   *)
(* sample, unless that sample is done.                                     *)
BootstrapAtEnd ==
    /\ \A r \in rollouts:
         LET x == r.rollout[Len(r.rollout)] IN
         x.done \/ r.boot = LastStep(x) + 1
    /\ actor.rollout = <<>> <=> actor.rollEnd = NoEnd
    /\ actor.pend = Nothing <=> actor.end = NoEnd

(* done means that the snake died at the end of the sample.                *)
DoneAtDeath ==
    \A x \in Samples: x.done => ended = "terminal" /\ LastStep(x) + 1 = reported

(* Generalized advantage estimation gets the trace that the snake lived:   *)
(* cut, ended and bootstrapped where, and only where, its life or the      *)
(* actor's control of it was.                                              *)
TraceExact == TraceContinuous /\ DoneAtDeath /\ BootstrapAtEnd
=============================================================================
