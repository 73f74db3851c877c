--------------------------- MODULE TaskSupervision ---------------------------
(***************************************************************************)
(* How the trainer ends (__main__.py main, _supervise_tasks,               *)
(* _cancel_and_wait), and what becomes of a PPO update on the way          *)
(* (learner.py _ppo_update_batch_sync, ppo_update_async).                  *)
(*                                                                         *)
(* main owns the learner, the actors and the evaluator as tasks.  Any of   *)
(* them may fail, the caller may cancel main, and a bounded run ends when  *)
(* its learner has reached the budget; whichever is first, the others are  *)
(* cancelled at their next await and waited for.  The thread that runs an  *)
(* update cannot be cancelled and outlives the task that awaits it.        *)
(*                                                                         *)
(* SyncCollection has what the tasks do in detail; here a player only runs *)
(* or fails.  Weights are the number of optimizer steps behind them.       *)
(***************************************************************************)
EXTENDS Naturals, Sequences, Functions

CONSTANTS
    Players,        \* the tasks of the actors and of the evaluator
    Learner,        \* the task of the learner
    Minibatches,    \* minibatches of one update, over all epochs
    MaxUpdates,     \* bound: updates started
    MaxInterrupts   \* bound: cancellations of main

ASSUME SupervisionAssumption ==
    /\ Learner \notin Players /\ {"none", "interrupt"} \cap (Players \cup {Learner}) = {}
    /\ Minibatches \in Nat \ {0}
    /\ MaxUpdates \in Nat /\ MaxInterrupts \in Nat

VARIABLES
    bounded,    \* a decision budget was given
    status,     \* what has become of every task
    requested,  \* running tasks that were asked to cancel
    owner,      \* what _supervise_tasks is doing
    judged,     \* the tasks done when asyncio.wait returned
    reported,   \* the task whose exception is raised, or the interrupt
    interrupts, \* cancellations of main so far
    learner,    \* whether the learner awaits a round or an update
    thread,     \* the update thread
    updates,    \* updates so far
    weights,    \* of train_model
    published,  \* weights that actors see
    saved,      \* weights of the newest checkpoint
    whole,      \* history: weights at which an update had ended
    ended       \* history: the tasks that ended badly, in order, and whether they were asked to

supervision == <<owner, judged, reported, interrupts>>
training == <<learner, thread, updates, weights, published, saved, whole>>
vars == <<bounded, status, requested, supervision, training, ended>>

Tasks == Players \cup {Learner}
None == "none"
Interrupt == "interrupt"
Idle == [phase |-> "idle", left |-> 0, steps |-> 0]

Init ==
    /\ bounded \in BOOLEAN
    /\ status = [t \in Tasks |-> "running"] /\ requested = {} /\ ended = <<>>
    /\ owner = "watch" /\ judged = {} /\ reported = None /\ interrupts = 0
    /\ learner = "collect" /\ thread = Idle /\ updates = 0
    /\ weights = 0 /\ published = 0 /\ saved = 0 /\ whole = {0}

Running == {t \in Tasks: status[t] = "running"}
Bad == {t \in Tasks: status[t] \in {"failed", "cancelled"}}
Free(t) == t \in Running \ requested

Ends(t, how) ==
    /\ status' = [status EXCEPT ![t] = how]
    /\ requested' = requested \ {t}
    /\ ended' = IF how = "returned" THEN ended
              ELSE Append(ended, [task |-> t, asked |-> t \in requested])

-----------------------------------------------------------------------------
(* The tasks.  A connection's errors are retried by the actor itself; what *)
(* leaves its run() is a contract that the server breaks.                  *)
PlayerFails(t) ==
    /\ t \in Players /\ Free(t) /\ Ends(t, "failed")
    /\ UNCHANGED <<bounded, supervision, training>>

(* CancelledError is thrown at the await of the task; what it does on the  *)
(* way out may itself fail.                                                *)
Cancelled(t) ==
    /\ t \in requested
    /\ \E how \in {"cancelled", "failed"}: Ends(t, how)
    /\ UNCHANGED <<bounded, supervision, training>>

(* The round is not of one policy version, or the like.                    *)
LearnerFails ==
    /\ Free(Learner) /\ learner = "collect" /\ Ends(Learner, "failed")
    /\ UNCHANGED <<bounded, supervision, training>>

StartUpdate ==
    /\ Free(Learner) /\ learner = "collect" /\ updates < MaxUpdates
    /\ learner' = "update" /\ updates' = updates + 1
    /\ thread' = [phase |-> "measure", left |-> Minibatches, steps |-> 0]
    /\ UNCHANGED <<bounded, status, requested, supervision, weights, published, saved, whole,
                   ended>>

-----------------------------------------------------------------------------
(* The update thread: the drift of the whole batch, then one minibatch     *)
(* after the other until the drift is too large or a gradient not finite.  *)
ThreadEnds(phase) == thread' = [thread EXCEPT !.phase = phase]

Measure ==
    /\ thread.phase = "measure"
    /\ \/ ThreadEnds("stale") /\ whole' = whole \cup {weights}
       \/ ThreadEnds("minibatch") /\ UNCHANGED whole
    /\ UNCHANGED <<bounded, status, requested, supervision, learner, updates, weights, published,
                   saved, ended>>

OptimizerStep ==
    /\ thread.left > 0
    /\ weights' = weights + 1
    /\ thread' = [thread EXCEPT !.left = @ - 1, !.steps = @ + 1]
    /\ UNCHANGED whole

Minibatch ==
    /\ thread.phase = "minibatch"
    /\ \/ OptimizerStep
       \/ ThreadEnds("done") /\ whole' = whole \cup {weights} /\ UNCHANGED weights
       \/ thread.left > 0 /\ ThreadEnds("raised") /\ UNCHANGED <<weights, whole>>
    /\ UNCHANGED <<bounded, status, requested, supervision, learner, updates, published, saved,
                   ended>>

ThreadRuns == Measure \/ Minibatch

-----------------------------------------------------------------------------
(* The learner resumes with what the thread returned.                      *)

\* A defect of Publishes: actors get the weights in a finally.
PublishesAlways == thread.steps > 0
Publishes == thread.phase = "done" /\ thread.steps > 0

UpdateRaises ==
    /\ thread.phase = "raised"
    /\ Ends(Learner, "failed")
    /\ UNCHANGED saved

(* A bounded run never sees a stale batch, and saves once at its end; an   *)
(* unbounded one saves now and then, and goes on if that fails.            *)
UpdateReturns ==
    /\ thread.phase \in {"stale", "done"}
    /\ \/ bounded /\ thread.phase = "stale" /\ Ends(Learner, "failed") /\ UNCHANGED saved
       \/ /\ bounded /\ thread.phase = "done"
          /\ \/ Ends(Learner, "returned") /\ saved' = weights
             \/ Ends(Learner, "failed") /\ UNCHANGED saved
       \/ /\ ~(bounded /\ thread.phase = "stale")
          /\ saved' \in {saved, weights}
          /\ UNCHANGED <<status, requested, ended>>

LearnerResumes ==
    /\ Free(Learner) /\ learner = "update"
    /\ UpdateRaises \/ UpdateReturns
    /\ published' = IF Publishes THEN weights ELSE published
    /\ learner' = "collect" /\ thread' = Idle
    /\ UNCHANGED <<bounded, supervision, updates, weights, whole>>

-----------------------------------------------------------------------------
(* _supervise_tasks.                                                       *)

\* A defect of Unfinished: the learner is left to itself.
UnfinishedPlayers == Players \cap Running
Unfinished == Running

\* A defect of Settled: the tasks are asked to cancel and not waited for.
SettledOnRequest == requested = Running
Settled == Running = {}

(* The except clause: nothing is awaited between the error and the         *)
(* requests.                                                               *)
CancelAll(why) ==
    /\ reported' = why
    /\ requested' = Unfinished /\ owner' = "settle"

(* gather: the exception of the first task that ended with one.            *)
GatherRaises ==
    /\ owner = "watch" /\ ~bounded
    /\ \/ Bad # {} /\ CancelAll(ended[1].task)
       \/ Bad = {} /\ Settled /\ CancelAll(Interrupt)
    /\ UNCHANGED <<bounded, status, judged, interrupts, training, ended>>

(* asyncio.wait: the tasks that are done when it resumes.                  *)
WaitReturns ==
    /\ owner = "watch" /\ bounded /\ Running # Tasks
    /\ judged' = Tasks \ Running /\ owner' = "judge"
    /\ UNCHANGED <<bounded, status, requested, reported, interrupts, training, ended>>

(* The exceptions of those, in any order; without one, the budget must     *)
(* have been reached, and the other tasks are cancelled in the finally.    *)
Judge ==
    /\ owner = "judge"
    /\ \/ \E t \in judged \cap Bad: CancelAll(t)
       \/ /\ judged \cap Bad = {} /\ Learner \in judged
          /\ requested' = Unfinished /\ owner' = "drain" /\ UNCHANGED reported
    /\ UNCHANGED <<bounded, status, judged, interrupts, training, ended>>

(* main is cancelled.  A gather passes that on to its tasks and goes on    *)
(* until one of them ends, or all of them where it returns exceptions; the *)
(* other awaits raise at once.                                             *)
InterruptOwner ==
    /\ interrupts < MaxInterrupts /\ interrupts' = interrupts + 1
    /\ \/ /\ owner = "watch" /\ ~bounded /\ Bad = {} /\ ~Settled
          /\ requested' = Running /\ UNCHANGED <<owner, reported>>
       \/ owner = "watch" /\ (bounded \/ Bad # {} \/ Settled) /\ CancelAll(Interrupt)
       \/ owner = "judge" /\ CancelAll(Interrupt)
       \/ /\ owner \in {"settle", "drain"}
          /\ requested' = Running /\ reported' = Interrupt /\ UNCHANGED owner
    /\ UNCHANGED <<bounded, status, judged, training, ended>>

\* A defect of Raised: an exception met while waiting replaces the first.
RaisedLast == IF reported = None THEN None ELSE ended[Len(ended)].task
Raised == reported

OwnerEnds ==
    /\ owner \in {"settle", "drain"} /\ Settled
    /\ owner' = IF reported = None THEN "returned" ELSE "raised"
    /\ reported' = Raised
    /\ UNCHANGED <<bounded, status, requested, judged, interrupts, training, ended>>

Next ==
    \/ \E t \in Players: PlayerFails(t)
    \/ \E t \in Tasks: Cancelled(t)
    \/ LearnerFails \/ StartUpdate \/ Measure \/ Minibatch \/ LearnerResumes
    \/ GatherRaises \/ WaitReturns \/ Judge \/ InterruptOwner \/ OwnerEnds

Spec == Init /\ [][Next]_vars

(* The event loop runs every task that is ready, CancelledError included,  *)
(* and the thread runs to its end.  Nothing is assumed of what is awaited. *)
FairSpec ==
    /\ Spec
    /\ \A t \in Tasks: WF_vars(Cancelled(t))
    /\ WF_vars(ThreadRuns) /\ WF_vars(LearnerResumes)
    /\ WF_vars(GatherRaises) /\ WF_vars(WaitReturns) /\ WF_vars(Judge) /\ WF_vars(OwnerEnds)

-----------------------------------------------------------------------------
Phases == {"idle", "measure", "minibatch", "stale", "done", "raised"}

(* Types, and who may be asked to cancel.                                  *)
TypeOK ==
    /\ bounded \in BOOLEAN
    /\ status \in [Tasks -> {"running", "returned", "failed", "cancelled"}]
    /\ requested \subseteq Running /\ judged \subseteq Tasks \ Running
    /\ owner \in {"watch", "judge", "settle", "drain", "returned", "raised"}
    /\ reported \in Tasks \cup {None, Interrupt} /\ interrupts \in 0..MaxInterrupts
    /\ learner \in {"collect", "update"} /\ updates \in 0..MaxUpdates
    /\ thread \in [phase: Phases, left: 0..Minibatches, steps: Nat]
    /\ {weights, published, saved} \subseteq Nat
    /\ ended \in Seq([task: Tasks, asked: BOOLEAN])

Over == owner \in {"returned", "raised"}

(* Whatever failed, however often main is cancelled while it cleans up:    *)
(* when it is left no task still runs, and it is left normally only after  *)
(* a bounded run whose learner has saved the weights it publishes.         *)
NoOrphan ==
    /\ Over => Running = {}
    /\ owner = "returned" =>
         bounded /\ status[Learner] = "returned" /\ saved = weights /\ published = weights

(* "Propagate the primary fatal failure": unless main was cancelled, what  *)
(* it raises is the exception of a task that failed of itself, never that  *)
(* of one that was cancelled on its account.                               *)
PrimaryReported ==
    owner = "raised" /\ interrupts = 0 =>
        \E e \in Range(ended): e.task = reported /\ ~e.asked

(* Actors and checkpoints get the weights of a whole update, or none: not  *)
(* those of an update that failed on a gradient, nor those that the thread *)
(* of a cancelled learner is still changing.                               *)
PublishedWhole == published \in whole /\ saved \in whole

(* Any failure, any cancellation and the end of a budget leads to the end  *)
(* of main, and the thread that it could not cancel ends too.              *)
Settles ==
    (Bad # {} \/ interrupts > 0 \/ status[Learner] = "returned")
        ~> Over /\ thread.phase \notin {"measure", "minibatch"}
=============================================================================
