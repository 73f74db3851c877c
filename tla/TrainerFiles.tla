---------------------------- MODULE TrainerFiles ----------------------------
(***************************************************************************)
(* What the synchronous trainer keeps on disk and takes from it at a       *)
(* restart: recovery checkpoints (checkpointing.py) and the best-policy    *)
(* artifacts of the frozen evaluator (sync_ppo.py, evaluation.py).         *)
(*                                                                         *)
(* Files are published one by one, each atomically (os.replace); a write   *)
(* may raise and the process may die between any two of them.  Publishing  *)
(* blocks the event loop, so the evaluator moves only while the learner    *)
(* waits for its queue or for the update thread.                           *)
(***************************************************************************)
EXTENDS Integers, Sequences, FiniteSets

CONSTANTS
    KeepLast,   \* cfg.keep_last
    MaxSteps,   \* bound: optimizer steps
    MaxReturn,  \* bound: evaluator returns are 1..MaxReturn
    MaxScored,  \* bound: results of the evaluator
    MaxRuns,    \* bound: starts of the process
    MaxDamage   \* bound: recovery files damaged from outside

ASSUME FilesAssumption ==
    /\ KeepLast \in Nat /\ MaxSteps \in Nat /\ MaxReturn \in Nat
    /\ MaxScored \in Nat
    /\ MaxRuns \in Nat /\ MaxDamage \in Nat

VARIABLES
    disk,       \* the content of every file
    pc,         \* what the process is doing
    todo,       \* the files it still has to publish, in order
    then,       \* what follows the best-policy save
    tried,      \* the candidates that could not be applied
    runs,       \* starts so far
    mem,        \* the SharedState: update_steps, models and optimizer
    best,       \* its best_episode_return, best_policy_snapshot, best_checkpoint_pending
    episode,    \* the frozen policy of the evaluator's episode
    scored,     \* history: the policies evaluated, with their returns
    committed,  \* history: update_steps that a restart must not fall behind
    complete,   \* history: update_steps of the last save that published every file
    damaged     \* files damaged so far

vars == <<disk, pc, todo, then, tried, runs, mem, best, episode, scored, committed,
          complete, damaged>>

-----------------------------------------------------------------------------
None == -1
Steps == 0..MaxSteps
Policy == [run: 0..MaxRuns, steps: Steps]   \* the weights a run had at that step
NoPolicy == [run |-> 0]
Absent == [state |-> "absent"]

Numbered(n) == <<"numbered", n>>
LatestArch == <<"latest_arch", 0>>
Latest == <<"latest", 0>>
BestArch == <<"best_arch", 0>>
Best == <<"best", 0>>
Meta == <<"meta", 0>>               \* best_evaluator.json
NumberedNames == {Numbered(n): n \in Steps}
RecoveryNames == NumberedNames \cup {LatestArch, Latest}
PolicyNames == RecoveryNames \cup {BestArch, Best}   \* what *.pt matches
Names == PolicyNames \cup {Meta}

(* A "corrupt" payload is rejected when it is inspected, an "unappliable"  *)
(* one raises while it is applied.                                         *)
Payload == [state: {"good", "corrupt", "unappliable"}, steps: Steps, model: Policy,
            opt: Policy \cup {NoPolicy}, ret: 0..MaxReturn]
Present(n) == disk[n].state # "absent"

Fresh(run) == LET p == [run |-> run, steps |-> 0]
              IN [steps |-> 0, model |-> p, opt |-> p, infer |-> p]
NoBest == [ret |-> 0, policy |-> NoPolicy, pending |-> FALSE]

Init ==
    /\ disk = [n \in Names |-> Absent] /\ pc = "down" /\ todo = <<>> /\ then = "idle"
    /\ tried = {} /\ runs = 0 /\ mem = Fresh(0) /\ best = NoBest
    /\ episode = NoPolicy /\ scored = {} /\ committed = None /\ complete = None
    /\ damaged = 0

files == <<disk, committed, complete, damaged>>
evaluator == <<episode, scored>>

-----------------------------------------------------------------------------
(* Starting: load_checkpoint_if_present and restore_exact_best_metadata.   *)

Start ==
    /\ pc = "down" /\ runs < MaxRuns
    /\ runs' = runs + 1 /\ mem' = Fresh(runs + 1) /\ best' = NoBest
    /\ pc' = "loading" /\ tried' = {}
    /\ UNCHANGED <<files, evaluator, todo, then>>

Candidates == {n \in RecoveryNames \ tried: disk[n].state \in {"good", "unappliable"}}
Priority(n) == CASE n = LatestArch -> 0 [] n = Latest -> 1 [] OTHER -> 2
\* A defect of Preferred: the name decides before the step count.
PreferredByPriority(m, n) ==
    \/ Priority(m) < Priority(n)
    \/ Priority(m) = Priority(n) /\ disk[m].steps >= disk[n].steps
Preferred(m, n) ==
    \/ disk[m].steps > disk[n].steps
    \/ disk[m].steps = disk[n].steps /\ Priority(m) <= Priority(n)

Applied(f) == [steps |-> f.steps, model |-> f.model, opt |-> f.opt, infer |-> f.model]
\* A defect of RolledBack: the model stays as the refused file set it.
NotRolledBack(f) == [Fresh(runs) EXCEPT !.model = f.model]
RolledBack(f) == Fresh(runs)   \* a run loads before it trains

(* The leaderboard is restored from best_evaluator.json alone.             *)
Restored == IF Present(Meta) THEN [NoBest EXCEPT !.ret = disk[Meta].ret] ELSE NoBest

Load(n) ==
    /\ pc = "loading" /\ n \in Candidates /\ \A m \in Candidates: Preferred(n, m)
    /\ \/ /\ disk[n].state = "good"
          /\ mem' = Applied(disk[n]) /\ best' = Restored /\ pc' = "idle"
          /\ UNCHANGED tried
       \/ /\ disk[n].state = "unappliable"
          /\ mem' = RolledBack(disk[n]) /\ tried' = tried \cup {n}
          /\ UNCHANGED <<best, pc>>
    /\ UNCHANGED <<files, evaluator, todo, then, runs>>

(* No candidate is left: start afresh only if the directory has no policy. *)
LoadNothing ==
    /\ pc = "loading" /\ Candidates = {}
    /\ IF \E n \in PolicyNames: Present(n) THEN pc' = "refused" /\ UNCHANGED best
       ELSE pc' = "idle" /\ best' = Restored
    /\ UNCHANGED <<files, evaluator, todo, then, tried, runs, mem>>

-----------------------------------------------------------------------------
(* The learner.                                                            *)

BestFiles == <<BestArch, Best, Meta>>
CheckpointFiles == <<Numbered(mem.steps), LatestArch, Latest>>

Enter(next) ==
    /\ pc' = next
    /\ todo' = IF next = "checkpoint" THEN CheckpointFiles ELSE <<>>
    /\ then' = "idle"

(* _save_pending_exact_best, followed by next.                             *)
SaveBestThen(next) ==
    IF best.pending THEN pc' = "best" /\ todo' = BestFiles /\ then' = next
    ELSE Enter(next)

(* A rollout is taken off the queue; it may complete the barrier.          *)
Get ==
    /\ pc = "idle" /\ \E next \in {"idle", "update"}: SaveBestThen(next)
    /\ UNCHANGED <<files, evaluator, tried, runs, mem, best>>

Minibatch ==
    /\ pc = "update" /\ mem.steps < MaxSteps
    /\ LET p == [run |-> runs, steps |-> mem.steps + 1]
       IN mem' = [mem EXCEPT !.steps = mem.steps + 1, !.model = p, !.opt = p]
    /\ UNCHANGED <<files, evaluator, pc, todo, then, tried, runs, best>>

(* The update is published; the checkpoint is due every so many updates.   *)
UpdateDone ==
    /\ pc = "update"
    /\ mem' = [mem EXCEPT !.infer = mem.model]
    /\ \E next \in {"idle", "checkpoint"}: SaveBestThen(next)
    /\ UNCHANGED <<files, evaluator, tried, runs, best>>

Content(n) ==
    IF n \in RecoveryNames
    THEN [state |-> "good", steps |-> mem.steps, model |-> mem.model, opt |-> mem.opt,
          ret |-> 0]
    ELSE [state |-> "good", steps |-> best.policy.steps, model |-> best.policy,
          opt |-> NoPolicy, ret |-> best.ret]

Publish ==
    /\ todo # <<>>
    /\ disk' = [disk EXCEPT ![Head(todo)] = Content(Head(todo))]
    /\ todo' = Tail(todo)
    /\ committed' = IF Head(todo) \in NumberedNames THEN mem.steps ELSE committed
    /\ UNCHANGED <<complete, damaged, evaluator, pc, then, tried, runs, mem, best>>

(* The write raises: the rest of this save is given up.                    *)
PublishFails ==
    /\ todo # <<>> /\ Enter(then)
    /\ UNCHANGED <<files, evaluator, tried, runs, mem, best>>

BestDone ==
    /\ pc = "best" /\ todo = <<>> /\ Enter(then)
    /\ best' = [best EXCEPT !.pending = FALSE]
    /\ UNCHANGED <<files, evaluator, tried, runs, mem>>

(* The numbered files to rotate away: all but the last KeepLast by name.   *)
Rotated ==
    LET here == {n \in Steps: Present(Numbered(n))} IN
    IF KeepLast = 0 THEN {}
    ELSE {Numbered(n): n \in {k \in here: Cardinality({l \in here: l > k}) >= KeepLast}}

(* Any of the unlinks may fail.                                            *)
Rotate ==
    /\ pc = "checkpoint" /\ todo = <<>> /\ Enter("idle")
    /\ \E gone \in SUBSET Rotated:
         disk' = [n \in Names |-> IF n \in gone THEN Absent ELSE disk[n]]
    /\ complete' = mem.steps
    /\ UNCHANGED <<committed, damaged, evaluator, tried, runs, mem, best>>

-----------------------------------------------------------------------------
(* The evaluator, and what happens to the process.                         *)

LoopRuns == pc \in {"idle", "update"}

BeginEvaluationPolicy ==
    /\ LoopRuns /\ episode = NoPolicy /\ episode' = mem.infer
    /\ UNCHANGED <<files, pc, todo, then, tried, runs, mem, best, scored>>

\* A defect of RecordEpisode: the record names the policy published now.
RecordPublished(r) == [ret |-> r, policy |-> mem.infer, pending |-> TRUE]
RecordEpisode(r) == [ret |-> r, policy |-> episode, pending |-> TRUE]

RecordEvaluationResult(r) ==
    /\ LoopRuns /\ episode # NoPolicy /\ episode' = NoPolicy
    /\ Cardinality(scored) < MaxScored
    /\ scored' = scored \cup {[policy |-> episode, ret |-> r]}
    /\ best' = IF r > best.ret THEN RecordEpisode(r) ELSE best
    /\ UNCHANGED <<files, pc, todo, then, tried, runs, mem>>

(* A transport gap: the episode is excluded.                               *)
Incomplete ==
    /\ LoopRuns /\ episode # NoPolicy /\ episode' = NoPolicy
    /\ UNCHANGED <<files, pc, todo, then, tried, runs, mem, best, scored>>

Crash ==
    /\ pc \notin {"down", "refused"}
    /\ pc' = "down" /\ todo' = <<>> /\ then' = "idle" /\ tried' = {}
    /\ mem' = Fresh(0) /\ best' = NoBest /\ episode' = NoPolicy
    /\ UNCHANGED <<files, runs, scored>>

(* A recovery file is damaged between two runs: what the last complete     *)
(* save holds is all that its other copies still guarantee.                *)
Damage(n) ==
    /\ pc = "down" /\ damaged < MaxDamage /\ Present(n)
    /\ \E how \in {"corrupt", "unappliable"}: disk' = [disk EXCEPT ![n].state = how]
    /\ damaged' = damaged + 1 /\ committed' = complete
    /\ UNCHANGED <<complete, evaluator, pc, todo, then, tried, runs, mem, best>>

Learner == Get \/ Minibatch \/ UpdateDone \/ Publish \/ PublishFails \/ BestDone \/ Rotate
Evaluator ==
    \/ BeginEvaluationPolicy \/ Incomplete
    \/ \E r \in 1..MaxReturn: RecordEvaluationResult(r)
Process == Start \/ LoadNothing \/ Crash \/ \E n \in RecoveryNames: Load(n) \/ Damage(n)
Stopped == (pc = "refused" \/ (pc = "down" /\ runs = MaxRuns)) /\ UNCHANGED vars

Next == Learner \/ Evaluator \/ Process \/ Stopped

Spec == Init /\ [][Next]_vars

-----------------------------------------------------------------------------
(* Properties.                                                             *)

(* Types, and: a best-policy save is pending only with the policy it is to *)
(* write (checkpointing.py raises otherwise).                              *)
TypeOK ==
    /\ disk \in [Names -> Payload \cup {Absent}]
    /\ pc \in {"down", "loading", "refused", "idle", "update", "best", "checkpoint"}
    /\ todo \in Seq(Names) /\ then \in {"idle", "update", "checkpoint"}
    /\ tried \subseteq RecoveryNames /\ runs \in 0..MaxRuns
    /\ mem \in [steps: Steps, model: Policy, opt: Policy, infer: Policy]
    /\ best \in [ret: 0..MaxReturn, policy: Policy \cup {NoPolicy}, pending: BOOLEAN]
    /\ best.pending => best.policy # NoPolicy
    /\ episode \in Policy \cup {NoPolicy} /\ scored \subseteq [policy: Policy, ret: 1..MaxReturn]
    /\ committed \in Steps \cup {None} /\ complete \in Steps \cup {None}
    /\ damaged \in 0..MaxDamage

(* Model, optimizer, step count and the policy the actors use belong       *)
(* together, in memory whatever failed to load and in every recovery file  *)
(* that loads (only the update thread runs ahead of the actors).           *)
Coherent ==
    /\ mem.steps = mem.model.steps /\ mem.opt = mem.model
    /\ pc = "update" \/ mem.infer = mem.model
    /\ \A n \in RecoveryNames: Present(n) =>
         disk[n].steps = disk[n].model.steps /\ disk[n].opt = disk[n].model

(* A restart resumes at or after the newest numbered checkpoint, whatever  *)
(* of its save was left undone; up to two damaged files cost at most the   *)
(* progress since the last complete save.  It refuses to run only if there was none.*)
NothingLost ==
    /\ pc \notin {"down", "loading", "refused"} => mem.steps >= committed
    /\ pc = "refused" => committed = None

(* A best-policy file holds a policy with a return that the evaluator      *)
(* measured on exactly that policy, however the published policy has moved *)
(* since.                                                                  *)
Measured(n) == [policy |-> disk[n].model, ret |-> disk[n].ret] \in scored

(* Between any two publications and after any crash: the best-policy files *)
(* are truly measured, and best_evaluator.json never claims a return that  *)
(* they do not reach, and names their policy when it is the one it claims. *)
BestExact ==
    /\ \A n \in {BestArch, Best, Meta}: Present(n) => Measured(n)
    /\ Present(Meta) => \A n \in {BestArch, Best}:
         /\ Present(n) /\ disk[n].ret >= disk[Meta].ret
         /\ disk[n].ret = disk[Meta].ret => disk[n].model = disk[Meta].model

(* docs/ppo-reward-contract-v1.md: "Best-policy artifacts and              *)
(* best_evaluator.json retain the winning result": best.pt is never        *)
(* replaced by a policy with a lower return.                               *)
BestRetained == [][Present(Best) => disk'[Best].ret >= disk[Best].ret]_vars
=============================================================================
