--------------------------- MODULE SyncCollection ---------------------------
(***************************************************************************)
(* The synchronous collection barrier of pyrl_trainer/sync_ppo.py: the     *)
(* training actors (SynchronousActorClient over agent.ActorClient), the    *)
(* experience queue and synchronous_learner_loop, with the server and its  *)
(* sockets as the environment.                                             *)
(*                                                                         *)
(* Everything runs on one asyncio loop, so a step is the code between two  *)
(* suspension points: ws.recv, ws.send, queue.put on a full queue, the     *)
(* to_thread of the PPO update and the reconnect sleep.  The update thread *)
(* is the only code that runs beside the loop.                             *)
(***************************************************************************)
EXTENDS Integers, Sequences, FiniteSets, Functions

CONSTANTS
    Actors,      \* the training actors 0 .. cfg.actors - 1
    Horizon,     \* cfg.horizon, the rollout target
    QueueCap,    \* maxsize of experience_q, in main twice the number of actors
    MaxIssued,   \* MAX_UNCONFIRMED_ACTIONS
    Budget,      \* decision_budget, 0 for an unbounded run
    MaxEpoch,    \* bound: collection epochs explored
    MaxId,       \* bound: action identities per actor
    MaxOptSteps  \* bound: optimizer steps of one PPO update

ASSUME ActorsAssumption == IsFiniteSet(Actors) /\ Actors # {}
ASSUME HorizonAssumption == Horizon \in Nat \ {0}
ASSUME QueueAssumption == QueueCap \in Nat \ {0}
ASSUME MaxIssuedAssumption == MaxIssued \in Nat \ {0}
ASSUME BoundsAssumption ==
    Budget \in Nat /\ MaxEpoch \in Nat /\ MaxId \in Nat /\ MaxOptSteps \in Nat

VARIABLES
    epoch,      \* shared_state.collection_epoch
    published,  \* shared_state.published_policy_version
    steps,      \* shared_state.update_steps, advanced by the update thread
    queue,      \* experience_q
    pending,    \* the learner's pending contributions, as a set
    lpc,        \* where synchronous_learner_loop is suspended or how it ended
    stale,      \* metrics["stale_batch"] of the update in progress
    total,      \* total_steps of the learner
    admitted,   \* decisions counted by record_admitted_rollout, undrained
    act         \* act[a]: the state of actor a and of its connection

vars == <<epoch, published, steps, queue, pending, lpc, stale, total, admitted, act>>
learnerVars == <<epoch, published, steps, pending, lpc, stale, total>>

-----------------------------------------------------------------------------
(* Data.  A sample is one Transition; epoch is a history field, the        *)
(* collection epoch in which it was sampled.                               *)

None == -1
Epochs == 0..MaxEpoch
Ids == 1..MaxId
Versions == Nat
Sample == [id: Ids, epoch: Epochs, ver: Versions]
NoSample == [id |-> 0, epoch |-> 0, ver |-> 0]
Contribution == [actor: Actors, epoch: Epochs, rollout: Seq(Sample)]

(* The callers of _submit_training_rollout: the horizon cutoff, a closure, *)
(* the reconnect handler, a refused reclaim, a replaced server state seen   *)
(* on a socket or in its handshake, and an assignment over a broken life.   *)
Callers == {"sensors", "closure", "gap", "refused", "replaced", "rejoin", "assign"}

(* What an actor knows of its life: snake_id is None; no observation yet    *)
(* (_reward_has_observation); observed without and with a transport gap     *)
(* (_episode_integrity); _episode_closed.                                  *)
Lives == {"none", "unseen", "live", "broken", "closed"}

ActorState ==
    [ pc: {"joining", "online", "sending", "putting", "fatal"},
      cont: Callers \cup {"none"},                    \* what follows a blocked put
      life: Lives,
      rebase: BOOLEAN,                        \* _reward_rebase
      active: Epochs,                         \* _active_collection_epoch
      submitted: Epochs \cup {None},          \* _submitted_collection_epoch
      fence: BOOLEAN,                         \* _fence_required
      fenceId: 0..MaxId,                      \* _fence_action_id, 0 for None
      fenceEpoch: Epochs,                     \* history: epoch that command was sampled in
      rollout: Seq(Sample),
      issued: SUBSET Sample,                  \* _issued_transitions, by identity
      pend: Sample \cup {NoSample},           \* pending_transition
      counter: 0..MaxId,                      \* _action_id_counter
      sample: Sample \cup {NoSample},         \* the sample inside _send_action
      track: BOOLEAN,                         \* its _can_track_action
      applied: BOOLEAN,                       \* server: some command of this life applied
      floor: 0..MaxId ]                       \* server: the last one applied, or superseded

NewActor ==
    [ pc |-> "joining", cont |-> "none", life |-> "none", rebase |-> FALSE, active |-> 0,
      submitted |-> None, fence |-> FALSE, fenceId |-> 0, fenceEpoch |-> 0,
      rollout |-> <<>>, issued |-> {}, pend |-> NoSample, counter |-> 0,
      sample |-> NoSample, track |-> FALSE, applied |-> FALSE, floor |-> 0 ]

Init ==
    /\ epoch = 0 /\ published = 0 /\ steps = 0
    /\ queue = <<>> /\ pending = {} /\ lpc = "get" /\ stale = FALSE
    /\ total = 0 /\ admitted = 0
    /\ act = [a \in Actors |-> NewActor]

-----------------------------------------------------------------------------
(* The actor's helpers, as functions of its state.                         *)

CollectionOpen(s) == s.submitted # epoch
TrainingCollectionOpen(s) == CollectionOpen(s) /\ ~s.fence
\* A defect of CanTrackAction: an actor tracks samples whether or not collection is open.
CanTrackActionAlways(s) == TRUE
CanTrackAction(s) == CollectionOpen(s)
ReachedHorizon(s) == TrainingCollectionOpen(s) /\ Len(s.rollout) >= Horizon

ClearUnfinishedActions(s) == [s EXCEPT !.pend = NoSample, !.issued = {}]

FinishCreditedAction(s) ==
    IF s.pend = NoSample THEN s
    ELSE [s EXCEPT !.rollout = Append(s.rollout, s.pend), !.pend = NoSample]

(* A new epoch finds leftovers of the old one: the code raises.            *)
CrossedEpoch(s) ==
    /\ s.active # epoch
    /\ s.rollout # <<>> \/ s.pend # NoSample \/ s.issued # {}

RefreshCollectionEpoch(s) ==
    IF s.active = epoch THEN s
    ELSE [s EXCEPT !.active = epoch, !.submitted = None,
                   !.fence = TRUE, !.fenceId = 0, !.fenceEpoch = 0]

\* A defect of ObserveCollectionFence: any command proves the fence.
ObserveCollectionFenceAny(s, k) ==
    IF CollectionOpen(s) /\ s.fence /\ k # 0 THEN [s EXCEPT !.fence = FALSE] ELSE s

(* k is the applied command identity of the envelope, 0 if there is none.  *)
ObserveCollectionFence(s, k) ==
    IF /\ CollectionOpen(s) /\ s.fence
       /\ k # 0 /\ s.fenceId # 0 /\ k >= s.fenceId
    THEN [s EXCEPT !.fence = FALSE]
    ELSE s

RecordCollectionCommand(s, x) ==
    IF s.fence /\ CollectionOpen(s) /\ s.fenceId = 0 /\ s.active = epoch
    THEN [s EXCEPT !.fenceId = x.id, !.fenceEpoch = x.epoch]
    ELSE s

\* A defect of AwaitingAfter: the proven command stays in the list.
AwaitingKeepsApplied(s, k) == {x \in s.issued: x.id >= k}
AwaitingAfter(s, k) == {x \in s.issued: x.id > k}

(* proven: k was the command held for the whole of a one-step interval.    *)
(* Issued samples older than k were superseded and are dropped.            *)
CreditAction(s, k, proven) ==
    LET f == IF ~proven \/ s.pend.id # k THEN FinishCreditedAction(s) ELSE s
        match == {x \in f.issued: x.id = k}
    IN IF ~TrainingCollectionOpen(s) THEN s
       ELSE IF ~proven \/ f.pend # NoSample THEN f
       ELSE [f EXCEPT !.pend = IF match = {} THEN NoSample ELSE CHOOSE x \in match: TRUE,
                      !.issued = AwaitingAfter(f, k)]

(* What one validated envelope does before its handler submits anything.   *)
AccountEnvelope(s, k, proven, initial) ==
    LET r == RefreshCollectionEpoch(s)
        heard == IF k = 0 THEN r ELSE [r EXCEPT !.applied = TRUE, !.floor = k]
        fenced == ObserveCollectionFence(heard, k)
        t == IF s.rebase \/ initial THEN fenced ELSE CreditAction(fenced, k, proven)
    IN [t EXCEPT !.rebase = FALSE,
                 !.life = IF s.rebase \/ s.life = "broken" THEN "broken" ELSE "live"]

(* The observation handler may go on to sample and send one command; its   *)
(* identity is taken before the send, which suspends.                      *)
SampleAction(s) ==
    [s EXCEPT !.pc = "sending", !.counter = s.counter + 1,
              !.sample = [id |-> s.counter + 1, epoch |-> epoch, ver |-> published],
              !.track = CanTrackAction(s)]

(* A life begins: _reset_per_snake_state and the new identity.             *)
FreshLife(s) ==
    [ClearUnfinishedActions(s) EXCEPT
        !.pc = "online", !.life = "unseen", !.rebase = FALSE, !.rollout = <<>>,
        !.applied = FALSE, !.floor = s.counter]

(* A life is over; the server will not report on it again.                 *)
EndLife(s, how) ==
    [s EXCEPT !.life = how, !.rebase = FALSE, !.applied = FALSE, !.floor = 0]

(* A transport gap: the next envelope of a life that goes on only rebases. *)
Gap(s) ==
    [s EXCEPT !.pc = "joining", !.rebase = s.life \in {"unseen", "live", "broken"},
              !.life = IF s.life = "live" THEN "broken" ELSE s.life]

(* The states in which a handler can leave the actor once its call of      *)
(* _submit_training_rollout has returned (or was not needed).              *)
AfterSubmit(s, cont) ==
    CASE cont = "sensors" -> {[s EXCEPT !.pc = "online"]}
                             \cup (IF s.counter < MaxId THEN {SampleAction(s)} ELSE {})
      [] cont = "closure"  -> {[EndLife(s, "closed") EXCEPT !.pc = "online"]}
      [] cont = "gap"      -> {Gap(s)}
      [] cont \in {"refused", "rejoin"} -> {[EndLife(s, "none") EXCEPT !.pc = "joining"]}
      [] cont = "replaced" -> {[EndLife(s, "none") EXCEPT !.pc = "online"]}
      [] cont = "assign"   -> {FreshLife(s)}

\* A defect of Admit: the unfinished actions survive the submission.
AdmitKeepsActions(s, e) == [s EXCEPT !.rollout = <<>>, !.submitted = e]
\* A defect of Admit: the epoch is not marked as submitted.
AdmitUnmarked(s, e) == [ClearUnfinishedActions(s) EXCEPT !.rollout = <<>>]
(* The bookkeeping that follows the admission of the rollout to epoch e.   *)
Admit(s, e) ==
    [ClearUnfinishedActions(s) EXCEPT !.rollout = <<>>, !.submitted = e]

\* A defect of AdmittedDecisions: the decisions are counted after the rollout was cleared.
AdmittedAfterClear(s, e) == Len(Admit(s, e).rollout)
AdmittedDecisions(s, e) == Len(s.rollout)

(* experience_q.put, its statistics and the rest of the handler.           *)
Put(a, s, e, cont) ==
    /\ Len(queue) < QueueCap
    /\ queue' = Append(queue, [actor |-> a, epoch |-> e, rollout |-> s.rollout])
    /\ admitted' = admitted + AdmittedDecisions(s, e)
    /\ \E t \in AfterSubmit(Admit([s EXCEPT !.cont = "none"], e), cont):
         act' = [act EXCEPT ![a] = t]

\* A defect of NothingToSubmit: an empty rollout is not submitted.
NothingToSubmitEmpty(s) == ~CollectionOpen(s) \/ s.rollout = <<>>
NothingToSubmit(s) == ~CollectionOpen(s)

(***************************************************************************)
(* _submit_training_rollout by actor a in state s.  At the horizon cutoff  *)
(* ("sensors") the code finishes the credited successor first; the other   *)
(* callers already have, and admit an empty rollout too.                   *)
(***************************************************************************)
Submit(a, s, cont) ==
    LET f == IF cont = "sensors" THEN FinishCreditedAction(s) ELSE s
        behindFence == s.fence /\ s.rollout # <<>>
    IN \/ /\ NothingToSubmit(s)
          /\ \E t \in AfterSubmit([s EXCEPT !.rollout = <<>>], cont):
                act' = [act EXCEPT ![a] = t]
          /\ UNCHANGED <<queue, admitted>>
       \/ /\ ~NothingToSubmit(s) /\ behindFence
          /\ act' = [act EXCEPT ![a] = [s EXCEPT !.pc = "fatal"]]
          /\ UNCHANGED <<queue, admitted>>
       \/ ~NothingToSubmit(s) /\ ~behindFence /\ Put(a, f, epoch, cont)
       \/ /\ ~NothingToSubmit(s) /\ ~behindFence /\ Len(queue) >= QueueCap
          /\ act' = [act EXCEPT ![a] = [f EXCEPT !.pc = "putting", !.cont = cont]]
          /\ UNCHANGED <<queue, admitted>>

(* RefreshCollectionEpoch's refusal escapes the reconnect handler as well, *)
(* because that handler refreshes again.                                   *)
RaiseCrossedEpoch(a) ==
    /\ CrossedEpoch(act[a])
    /\ act' = [act EXCEPT ![a] = [act[a] EXCEPT !.pc = "fatal"]]
    /\ UNCHANGED <<queue, admitted>>

-----------------------------------------------------------------------------
(* The steps of one actor.                                                 *)

(* The applied identity an envelope carries, 0 for None: the server stays  *)
(* with its last one or moves on to a later command sent in this life.     *)
AppliedNext(s) ==
    {IF s.applied THEN s.floor ELSE 0} \cup {k \in Ids: s.floor < k /\ k <= s.counter}

(* _handle_sensors.  The first envelope of a life is its zero baseline.    *)
Observe(a, k, proven) ==
    LET s == act[a]
        t == AccountEnvelope(s, k, proven, s.life = "unseen")
    IN /\ s.pc = "online" /\ s.life \in {"unseen", "live", "broken"}
       /\ k \in AppliedNext(s) /\ (proven => k # 0)
       /\ UNCHANGED learnerVars
       /\ \/ RaiseCrossedEpoch(a)
          \/ /\ ~CrossedEpoch(s)
             /\ ReachedHorizon(t) /\ Submit(a, t, "sensors")
          \/ /\ ~CrossedEpoch(s)
             /\ ~ReachedHorizon(t)
             /\ \E u \in AfterSubmit(t, "sensors"): act' = [act EXCEPT ![a] = u]
             /\ UNCHANGED <<queue, admitted>>

(* _handle_transition: the closing envelope of a life.                     *)
Close(a, k, proven) ==
    LET s == act[a]
        t == ClearUnfinishedActions(
                FinishCreditedAction(AccountEnvelope(s, k, proven, FALSE)))
    IN /\ s.pc = "online" /\ (s.life \in {"live", "broken"} \/ s.rebase)
       /\ k \in AppliedNext(s) /\ (proven => k # 0)
       /\ UNCHANGED learnerVars
       /\ \/ RaiseCrossedEpoch(a)
          \/ ~CrossedEpoch(s) /\ Submit(a, t, "closure")

(* await ws.send returned: the sample becomes an issued transition.        *)
SendDone(a) ==
    LET s == act[a]
        oldest == CHOOSE x \in s.issued: \A y \in s.issued: x.id <= y.id
        kept == IF Cardinality(s.issued) >= MaxIssued THEN s.issued \ {oldest} ELSE s.issued
        t == [s EXCEPT !.pc = "online", !.sample = NoSample, !.track = FALSE,
                       !.issued = IF s.track THEN kept \cup {s.sample} ELSE s.issued]
    IN /\ s.pc = "sending"
       /\ act' = [act EXCEPT ![a] = RecordCollectionCommand(t, s.sample)]
       /\ UNCHANGED <<queue, admitted, learnerVars>>

(* A blocked put found room: the rest of the handler runs.                 *)
ResumePut(a) ==
    /\ act[a].pc = "putting"
    /\ Put(a, act[a], act[a].active, act[a].cont)
    /\ UNCHANGED learnerVars

(* _truncate_disconnected_rollout, then what its caller does.              *)
Truncate(a, s, cont) ==
    LET t == ClearUnfinishedActions(FinishCreditedAction(RefreshCollectionEpoch(s)))
    IN \/ RaiseCrossedEpoch(a)
       \/ ~CrossedEpoch(s) /\ Submit(a, t, cont)

(* The socket failed, or connecting failed: run's handler truncates.       *)
Disconnect(a) ==
    /\ act[a].pc \in {"joining", "online", "sending"}
    /\ Truncate(a, [act[a] EXCEPT !.sample = NoSample, !.track = FALSE], "gap")
    /\ UNCHANGED learnerVars

-----------------------------------------------------------------------------
(* Lifecycle messages.                                                     *)

(* The server gave the same living snake back: every later reward is       *)
(* judged from a new baseline.                                             *)
Reclaimed(a) ==
    /\ act[a].pc = "joining" /\ act[a].life \in {"unseen", "live", "broken"}
    /\ act' = [act EXCEPT ![a] = [Gap(act[a]) EXCEPT !.pc = "online"]]
    /\ UNCHANGED <<queue, admitted, learnerVars>>

ReclaimRefused(a) ==
    /\ act[a].pc = "joining" /\ act[a].life # "none"
    /\ Truncate(a, act[a], "refused")
    /\ UNCHANGED learnerVars

StateReplaced(a) ==
    /\ act[a].pc \in {"joining", "online"}
    /\ Truncate(a, act[a], IF act[a].pc = "joining" THEN "rejoin" ELSE "replaced")
    /\ UNCHANGED learnerVars

(* An assignment of a snake.  The server closes an unbroken life before it *)
(* replaces it; a life that a gap has broken is truncated here.            *)
Assign(a) ==
    LET s == act[a] IN
       /\ s.pc \in {"joining", "online"}
       /\ UNCHANGED learnerVars
       /\ \/ /\ s.life \in {"none", "unseen", "closed"}
             /\ act' = [act EXCEPT ![a] = FreshLife(s)]
             /\ UNCHANGED <<queue, admitted>>
          \/ s.life = "broken" /\ Truncate(a, s, "assign")

(* An observation between two lives: _handle_sensors only refreshes.       *)
ObserveUnassigned(a) ==
    LET s == act[a] IN
    /\ s.pc = "online" /\ s.life = "none"
    /\ UNCHANGED learnerVars
    /\ \/ RaiseCrossedEpoch(a)
       \/ /\ ~CrossedEpoch(s)
          /\ act' = [act EXCEPT ![a] = RefreshCollectionEpoch(s)]
          /\ UNCHANGED <<queue, admitted>>

-----------------------------------------------------------------------------
(* synchronous_learner_loop.                                               *)

(* The decisions of some contributions, counted one by one.                *)
Decisions(contributions) ==
    Cardinality(UNION {{c} \X DOMAIN c.rollout: c \in contributions})
PolicyVersions(contributions) ==
    UNION {{x.ver: x \in Range(c.rollout)}: c \in contributions}

AdvanceCollectionEpoch == epoch < MaxEpoch /\ epoch' = epoch + 1

\* A defect of BudgetReached: the budget counts one decision too many.
BudgetReachedEarly(decisions) == Budget # 0 /\ decisions + 1 >= Budget
BudgetReached(decisions) == Budget # 0 /\ decisions >= Budget

(* What follows the update (or its absence, when every rollout was empty). *)
EndRound(decisions, isStale) ==
    \/ isStale /\ Budget # 0 /\ lpc' = "staleBatch" /\ UNCHANGED epoch
    \/ ~isStale /\ BudgetReached(decisions) /\ lpc' = "done" /\ UNCHANGED epoch
    \/ /\ Budget = 0 \/ (~isStale /\ ~BudgetReached(decisions))
       /\ AdvanceCollectionEpoch /\ lpc' = "get"

\* A defect of RoundComplete: one actor is not waited for.
RoundCompleteEarly(round) == Cardinality(round) >= Cardinality(Actors) - 1
RoundComplete(round) == Cardinality(round) >= Cardinality(Actors)

(* Every actor has contributed to the current epoch.                       *)
TakeRound(round, rest) ==
    /\ pending' = rest
    /\ total' = total + Decisions(round)
    /\ \/ /\ Cardinality(PolicyVersions(round)) > 1
          /\ lpc' = "mixed" /\ UNCHANGED epoch
       \/ /\ Cardinality(PolicyVersions(round)) = 1
          /\ lpc' = "training" /\ UNCHANGED epoch
       \/ PolicyVersions(round) = {} /\ EndRound(total + Decisions(round), FALSE)

LearnerGet ==
    /\ lpc = "get" /\ queue # <<>>
    /\ queue' = Tail(queue)
    /\ LET c == Head(queue)
           same == {d \in pending: d.epoch = c.epoch /\ d.actor = c.actor}
           p == IF same = {} THEN pending \cup {c} ELSE pending
           round == {d \in p: d.epoch = epoch}
       IN \/ /\ c.epoch < epoch
             /\ UNCHANGED <<pending, total, lpc, epoch>>
          \/ /\ c.epoch > epoch
             /\ pending' = (pending \ same) \cup {c}
             /\ UNCHANGED <<total, lpc, epoch>>
          \/ /\ c.epoch = epoch /\ ~RoundComplete(round)
             /\ pending' = p
             /\ UNCHANGED <<total, lpc, epoch>>
          \/ /\ c.epoch = epoch /\ RoundComplete(round)
             /\ TakeRound(round, p \ round)
    /\ UNCHANGED <<published, steps, stale, admitted, act>>

(* _ppo_update_batch_sync on its thread: k optimizer steps, none of them   *)
(* if the batch was found stale first; or it raises (a non-finite          *)
(* gradient) after k of them.  Only a bounded run reads stale_batch.       *)
ThreadUpdate ==
    /\ lpc = "training"
    /\ \E k \in 0..MaxOptSteps:
         /\ steps' = steps + k
         /\ \/ lpc' = "publish" /\ stale' = FALSE
            \/ lpc' = "publish" /\ stale' = TRUE /\ k = 0 /\ Budget # 0
            \/ lpc' = "failed" /\ UNCHANGED stale
    /\ UNCHANGED <<epoch, published, queue, pending, total, admitted, act>>

(* The loop resumes: publication and the new epoch are one step.           *)
LearnerPublish ==
    /\ lpc = "publish"
    /\ published' = steps /\ stale' = FALSE
    /\ EndRound(total, stale)
    /\ UNCHANGED <<steps, queue, pending, total, admitted, act>>

-----------------------------------------------------------------------------
ActorStep(a) ==
    \/ \E k \in 0..MaxId, proven \in BOOLEAN: Observe(a, k, proven) \/ Close(a, k, proven)
    \/ ObserveUnassigned(a) \/ SendDone(a) \/ ResumePut(a) \/ Disconnect(a)
    \/ Reclaimed(a) \/ ReclaimRefused(a) \/ StateReplaced(a) \/ Assign(a)

Learner == LearnerGet \/ ThreadUpdate \/ LearnerPublish

(* A task that returns or raises ends the program: __main__.py cancels the *)
(* others.                                                                 *)
Ended == \/ lpc \in {"mixed", "staleBatch", "done", "failed"}
         \/ \E a \in Actors: act[a].pc = "fatal"

Next ==
    \/ ~Ended /\ (Learner \/ \E a \in Actors: ActorStep(a))
    \/ Ended /\ UNCHANGED vars

Spec == Init /\ [][Next]_vars

(* What the scheduling gives: the event loop runs every ready task, a send  *)
(* returns or raises, and the environment lets every life end or its       *)
(* socket fail, every connection be answered and every closed life be      *)
(* replaced.                                                               *)
LifeEnds(a) ==
    \/ \E k \in 0..MaxId, proven \in BOOLEAN: Close(a, k, proven)
    \/ act[a].life \in {"unseen", "live", "broken"} /\ Disconnect(a)
Joins(a) == Reclaimed(a) \/ ReclaimRefused(a) \/ Assign(a) \/ Disconnect(a)
ClosedLifeReplaced(a) ==
    /\ act[a].life \in {"none", "closed"}
    /\ Assign(a) \/ StateReplaced(a) \/ SendDone(a) \/ Disconnect(a)

Fairness ==
    /\ WF_vars(~Ended /\ Learner)
    /\ \A a \in Actors:
         /\ WF_vars(~Ended /\ (SendDone(a) \/ Disconnect(a)))
         /\ WF_vars(~Ended /\ ResumePut(a))
         /\ WF_vars(~Ended /\ act[a].pc = "joining" /\ Joins(a))
         /\ WF_vars(~Ended /\ LifeEnds(a))
         /\ WF_vars(~Ended /\ ClosedLifeReplaced(a))

FairSpec == Spec /\ Fairness

-----------------------------------------------------------------------------
(* Properties.                                                             *)

(* The type of every variable.                                             *)
TypeOK ==
    /\ epoch \in Epochs /\ published \in Versions /\ steps \in Versions
    /\ queue \in Seq(Contribution)
    /\ pending \subseteq Contribution
    /\ lpc \in {"get", "training", "publish", "mixed", "staleBatch", "done", "failed"}
    /\ stale \in BOOLEAN /\ total \in Nat /\ admitted \in Nat
    /\ act \in [Actors -> ActorState]

(* None of the three consistency checks of sync_ppo.py ever fires: no      *)
(* experience crosses an epoch, none is submitted behind the fence, and no *)
(* batch mixes policy versions.                                            *)
NoFatal ==
    /\ \A a \in Actors: act[a].pc # "fatal"
    /\ lpc # "mixed"

Contributions == Range(queue) \cup pending
Experience(a) ==
    Range(act[a].rollout) \cup act[a].issued \cup ({act[a].pend} \ {NoSample})

(* On-policy data: while a round is open, everything an actor holds or has *)
(* submitted for it was sampled in that epoch from the published weights,  *)
(* and those are the weights the learner is about to train.                *)
OnPolicy ==
    lpc = "get" =>
        /\ published = steps
        /\ \A x \in UNION ({Experience(a): a \in Actors}
                            \cup {Range(c.rollout): c \in Contributions}):
              x.epoch = epoch /\ x.ver = published

(* An actor contributes at most once to an epoch, and nothing the learner  *)
(* can receive is of an earlier or later epoch, so neither of the branches *)
(* for those ever runs.                                                    *)
OneContribution ==
    /\ \A c \in Contributions: c.epoch = epoch
    /\ \A i, j \in 1..Len(queue): queue[i].actor = queue[j].actor => i = j
    /\ \A c \in pending: \A d \in Contributions: c.actor = d.actor =>
         d \in pending /\ d = c
    /\ \A c \in pending: \A i \in 1..Len(queue): queue[i].actor # c.actor

(* The statistics of record_admitted_rollout and the learner's total_steps *)
(* count the same decisions; what separates them is still on its way.      *)
Held ==
    Decisions(pending)
    + Cardinality(UNION {{i} \X DOMAIN queue[i].rollout: i \in DOMAIN queue})

AdmissionConserved == admitted = total + Held

(* docs/ppo-reward-contract-v1.md: a rollout holds at most one sample more *)
(* than the rollout target.                                                *)
RolloutBound ==
    /\ \A a \in Actors: Len(act[a].rollout) <= Horizon + 1
    /\ \A c \in Contributions: Len(c.rollout) <= Horizon + 1

(* No decision is credited twice: along rollout, credited sample and       *)
(* samples awaiting their application, identities strictly increase.       *)
NoDecisionTwice ==
    \A a \in Actors:
        LET s == act[a]
            r == IF s.pend = NoSample THEN s.rollout ELSE Append(s.rollout, s.pend)
        IN /\ \A i, j \in 1..Len(r): i < j => r[i].id < r[j].id
           /\ \A x \in s.issued: \A i \in 1..Len(r): r[i].id < x.id
           /\ \A x, y \in s.issued: x.id = y.id => x = y

(* An actor that holds credited experience of a later epoch has seen the   *)
(* server apply a command that it sampled in that epoch.                   *)
FenceProven ==
    \A a \in Actors: LET s == act[a] IN
        /\ s.fenceId # 0 => s.fenceEpoch = s.active
        /\ s.active > 0 /\ (~s.fence \/ s.rollout # <<>> \/ s.pend # NoSample) =>
             s.fenceId # 0 /\ ~s.fence

(* The bounded run stops on exactly the admitted decisions, no fewer than  *)
(* its budget, and without opening another round.                          *)
BudgetExact ==
    lpc = "done" => /\ total = admitted /\ total >= Budget
                    /\ queue = <<>> /\ pending = {}

(* The published policy changes, and an epoch ends, only when every actor  *)
(* has contributed to it and no contribution is left unread.               *)
PublishBehindBarrier ==
    [][published' # published \/ epoch' # epoch =>
         /\ \A a \in Actors: act[a].submitted = epoch
         /\ queue' = <<>> /\ pending' = {}]_vars

(* The barrier implements BarrierRounds: an actor has joined the round once *)
(* its rollout is in the queue, and what is still in the queue or pending  *)
(* is held.                                                                *)
Rounds == INSTANCE BarrierRounds WITH
    MaxContribution <- Horizon + 1,
    round <- epoch,
    joined <- {a \in Actors: act[a].submitted = epoch},
    held <- Held,
    consumed <- total,
    version <- published,
    phase <- IF lpc = "get" THEN "collect"
             ELSE IF lpc \in {"training", "publish"} THEN "train" ELSE "ended"

ImplementsRounds == Rounds!Spec

(* A collection epoch is never the last one unless the update fails or the *)
(* decisions of a bounded run have been collected.                         *)
BarrierAdvances ==
    \A e \in 0..(MaxEpoch - 1):
        epoch = e ~> \/ epoch = e + 1 \/ lpc = "failed"
                     \/ lpc = "staleBatch" /\ Budget # 0
                     \/ lpc = "done" /\ total >= Budget
=============================================================================
