# PyRL-trainer in TLA+

TLA+ models of the trainer in `src/pyrl_trainer/`, their TLC configurations and
machine-checked proofs of the safety properties of eight of its components.  File and
line references are to `src/pyrl_trainer/` unless they name another directory;
`PROJECT.json` maps every definition that models code to its lines, lists the hazards of the
code with the properties that watch them, and names for every property a
plausible mistake (an operator commented "A defect of ...") that it catches.

## 1. The system

The trainer is a Python process that talks to a native game server over
WebSockets.  One asyncio event loop runs the training actors (one connection
each), a frozen-policy evaluator and the learner; only the PPO update runs in a
thread beside it.  A second program, the distillation job, fetches teacher data
from a producer over HTTP, trains a student on it and hands candidates to the
native server.

| Component | Source | State it keeps | Operations | What is hard | Correct when |
|---|---|---|---|---|---|
| Collection barrier | `sync_ppo.py`, `agent.py`, `learner.py` | collection epoch, published version, experience queue, the learner's pending contributions; per actor: active and submitted epoch, control fence, rollout, issued and pending samples | observation, closure, send, put, disconnect, reclaim, refusal, replacement, assignment; learner get, update, publish | every `await` lets the others run: an epoch can end while an actor sits in `queue.put` or `ws.send` | data is on-policy, each actor contributes once per epoch, nothing is lost or counted twice, every epoch ends |
| Reward attribution | `agent.py` 480-556, 651-768 | issued and pending samples, credited end, rollout, bootstrap override | observation, closure, send, cutoff, gap | receipts are reported for whole intervals, late and coalesced | a step is paid once and to the sample in control of it; traces are cut where they are not continuous |
| Reward stream | `reward_contract.py` 88-322, `agent.py` 195-204, 370-437, 555-635 | life, sequence, step, control counts; rebase, observed, closed, integrity | accept, rebase, discard a closure; reset and truncate | reclaims, replaced worlds, unread closures, lost or repeated reports; every refusal ends the trainer | no interval is paid twice, an episode that counts as whole is whole, a coherent server is never refused |
| PPO update | `learner.py` 122-149, 385-637 | training and inference model, update steps | minibatches, KL stop, publish | runs in a thread while actors act, and cannot be cancelled | weights are published whole, and only behind the barrier |
| Asynchronous learner | `learner.py` 672-692, 801-870 | batches by policy version | get, drop, update | stale versions | not modelled |
| Checkpoints, best policy | `checkpointing.py`, `sync_ppo.py` 60-118, 250-290, `evaluation.py` | numbered and latest files, best policy and its metadata, leaderboard | save, rotate, load, roll back; evaluate, record, promote | three files published one by one; crashes and failed writes between them; damaged files | what is restored is whole, committed progress survives, files tell true returns |
| Task supervision | `__main__.py` 58-90, 210-270 | tasks, the owner's place in its `try` | gather, wait, cancel, settle, raise | several failures, repeated cancellation, a budget reached, all at once | no task outlives its owner, the error reported is a primary one, the end is always reached |
| Distillation client | `distillation_client.py`, `distillation_transport.py`, `distillation_storage.py` | cursor, manifest, storage policy, lease | policy, page, lease, download, release, propose, commit | the producer stores, drops and retires chunks between any two requests; lost replies | a chunk is skipped only if it is lost for good; leases do not leak |
| Teacher replay, sampler | `distillation_replay.py`, `distillation_sampling.py` | retained chunks, cursor, evictions, last proposal; stream index | admit, evict, restore; index, draw windows | exact retries, eviction, stale index, recurrent state across chunk boundaries | every sequence number is disposed of once; state is carried only where the stream carried it |
| Distillation job | `distillation_job.py`, `distillation_run.py`, `distillation_checkpoint.py`, `distillation_shadows.py` | updates, pending candidates, upload and shadow journal, snapshots | update, capture, stage, upload, activate, poll, save, load | crash anywhere, lost and late requests, a server that restarts or is used by others | a request is never sent unjournalled or changed, no candidate is lost, a snapshot can always be loaded |
| Canonical graph, sequence training | `canonical_graph.py`, `sequence_distillation.py` 65-351 | manifest; recurrent state of a row, compiled shape | admit, unroll, reset, pad, cut | interleaved strided views, short windows in one compiled shape, resets on padded or inactive rows | every float has one meaning; a prediction is made from exactly the deliveries since the last reset |
| Ablation studies | `tactical_ablation_gate.py`, `ablation_progress.py`, `ablation_matrix.py` 121-201 | progress and summary files, variant directories, a lock | start, resume, train a variant, conclude, publish | several processes, interrupts and deaths, files changed by others | completed work is kept, "measured" is true, a study can be finished |
| Artifacts, parity, configuration, sensors, capacity gates, scripts | `canonical_parity.py`, `brain_artifact.py`, `config.py`, `binary_sensors.py`, `sensor_contract.py`, `*_gate.py`, `src/scripts/` | none that lives on | numerics, parsing, measuring | – | not modelled |

How they interact: an actor turns reports into credited samples (reward stream,
then attribution) and puts rollouts in the queue; the learner takes one from
every actor, trains, publishes the new policy and opens the next epoch, which
every actor notices at its next message; between two rounds the learner saves
recovery files and a pending best policy that the evaluator recorded.  The
distillation job feeds its replay from the client, draws windows from it, and
every so many updates freezes a candidate, saves a snapshot and stages the
candidate with the server.  An update unrolls the windows through the canonical
graph; ablation studies do the same offline over a fixed corpus, one variant after
the other.  `main` owns the learner, the actors and the evaluator as tasks and
decides how the trainer ends.

## 2. Modules

| Module | Models | How |
|---|---|---|
| `SyncCollection` | the collection barrier | a step is the code between two suspension points of the event loop; the update thread is an action of its own |
| `BarrierRounds` | what the barrier promises | rounds without queue, sockets or fences; `SyncCollection!Rounds` is the refinement mapping |
| `ActorCredit` | reward attribution of one life, plain and synchronous actor (`Gates`) | the server is in the model: physics, application of commands, coalesced reports |
| `RewardStream` | admission of intervals over several lives | the server's reports and assignments, with losses and repetitions |
| `TrainerFiles` | checkpoints, best policy and its restart | one action per published file; a crash, a failed write and damage between any two |
| `TaskSupervision` | the end of the trainer: `main`'s tasks, their owner, the update thread | a step is the code between two awaits; a task runs, returns, fails or is cancelled |
| `TeacherIntake` | client and replay with the producer as environment | one action per request; extends `RecurrentWindows` |
| `RecurrentWindows` | stream index, boundaries, windows and what the loader demands of them | pure: operators of a history of the streams and of the sequence numbers retained |
| `DistillationJob` | the job's loop, snapshots and handoff | one action per step of `run()`; requests processed late or with their reply lost |
| `CandidateHandoff` | what the job promises of its candidates | captured, saved, admitted, activated and released, without steps of a run, requests, replies or files; `DistillationJob!Handoffs` is the refinement mapping |
| `GraphManifest` | admission of a canonical graph's manifest | pure: a predicate on manifests |
| `SequenceTraining` | reading a manifest and unrolling windows through its graph | a step is one delivery of one window; state elements are symbolic |
| `AblationStudy` | a resumable study and the processes that run it | one action per change of the disk or of the lock |
| `MCSyncCollection`, `MCSequenceTraining` | – | a symmetry set and graphs for TLC |
| `SyncCollection_proofs`, `TaskSupervision_proofs`, `ActorCredit_proofs`, `RewardStream_proofs`, `TrainerFiles_proofs`, `AblationStudy_proofs`, `DistillationJob_proofs`, `TeacherIntake_proofs` | – | the theorems of section 5, each module extending the one it is about |

### State and actions against the code

`SyncCollection`.  `act[a]` holds the fields of an actor (`life` stands for
`snake_id`, `_reward_has_observation`, `_episode_integrity`, `_episode_closed`),
`queue` is `experience_q`, `lpc` says where `synchronous_learner_loop` waits.
`Observe` is `_handle_sensors` up to its `await`, `SendDone` what follows
`ws.send`, `Close` is `_handle_transition`, `Disconnect`, `Reclaimed`,
`ReclaimRefused`, `StateReplaced` and `Assign` the paths of `run`, `_handshake`
and `_loop`.  `ResumePut` continues a put that found the queue full, wherever
it was called from (`cont`).  `LearnerGet`, `ThreadUpdate`, `LearnerPublish` are
the three parts of the learner's loop body.  Rewards and the arithmetic of PPO
are left out; an update is a number of optimizer steps, which may be none.

`ActorCredit`.  Physics decides which command controls a step (`ctl`); reports
carry interval, applied command, control source and selection; `CreditAction`
is `_credit_action` statement for statement.  A reward is the set of steps it
stands for, which is what the properties speak of.

`RewardStream`.  `Accepts`, `Rebases`, `Discards` are the conditions of the
three methods, `Parses` those of `parse_reward` that relate an interval's own
fields.  Identity of run, world, lease and snake is one life number.

`TrainerFiles`.  `disk` maps every file name to absent, good, corrupt (fails
when inspected) or unappliable (fails while applied); `todo` lists what is still
to be published.  `Preferred`, `RolledBack`, `Restored` are the choice of a
candidate, its rollback and the restoration of the leaderboard.

`TaskSupervision`.  `owner` is where `_supervise_tasks` waits: in `gather` or
`asyncio.wait` ("watch"), in the second `gather` over what is done ("judge"), in
`_cancel_and_wait` of the `except` clause ("settle") or of the `finally` ("drain").
`requested` holds the tasks that `cancel()` was called on and that have not
resumed.  `InterruptOwner` is a cancellation of `main` at each of those awaits;
`Cancelled` lets a task fail on its way out.  `thread` runs `Measure` and `Minibatch`
whether or not the learner still waits for it, and `LearnerResumes` is
`ppo_update_async` after `to_thread` with what the learner's loop does next.
Weights are the number of optimizer steps behind them; `whole` remembers the
numbers at which an update ended, which is what may be published or saved.

`TeacherIntake`.  `fetch` is the state of one `DistillationClient.fetch`,
`Proposal` its result, `Admit` is `TeacherReplay.admit`; a chunk is a sequence
number and a cost; a page is a beginning of what the producer lists.  Neither the fetch nor the replay looks at a chunk's stream,
so `RecurrentWindows` takes a *history* (slot, generation, life, ordinals, start
and end of every chunk) as an argument, and `WindowsSound` speaks of every history
for whatever the sampler's index may hold.  `DistillationJob` has the snapshots in
detail; here a snapshot is the newest one.

`GraphManifest`, `SequenceTraining`.  `ParameterViews`, `StateViews`, `Edges`,
`Incoming`, `Node`, `Outputs` are the functions of the same names; `Unshared` and
`Complete` are the two owner arrays, `Contiguous` the two cursors.  `Compiled` is what
the native compiler writes (interleaved affine views, recurrent gates in order),
`Alter` departs from it in one number, moves the state of a node or exchanges two
ranges.  `Recurrence` is `_evaluate` as far as state goes: a node reads state at its *declared* offsets and
`next_states` is concatenated in *node* order, so the two must agree.  A state
element records which block it was computed for, the deliveries it has seen since
it was last zeroed, and how many of them gradients reach.

`AblationStudy`.  `progress` and `summary` are the two reports, `dirs` the variant
and archive directories, a directory being its own inventory; a report is `torn` when
an interrupt left a variant in it without one.  `ReadProgress`,
`RestoreProgress` are the constructor without the lease, `TakeLease` to
`PublishSummary` are `run`, `_run` and the `finally`.

`DistillationJob`.  `job` is what a snapshot records, `owner` what it does not.
`server`, `mail` and `net` are the native server's slot, its diagnostic mailbox
and the requests on their way.  Two histories say what could be lost: `held` of a
snapshot is every candidate that it or a snapshot it descends from has held, and
`stored` is that of the newest snapshot of the run.  For `CandidateHandoff`, what waits
is the list in memory (after a crash, what it last was), `Saved` what the newest
snapshot lists, `Copies` what each of them does, and an activation is a receipt.

## 3. Runs

| Run | Module | Question | Bounds |
|---|---|---|---|
| `sync_two` | MCSyncCollection | do two actors and the learner keep the barrier's promises | 2 actors, horizon 1, 2 epochs, 2 samples per actor |
| `sync_rounds` | SyncCollection | does it implement `BarrierRounds`; does it stop on its budget; does every epoch end | 2 actors, a queue of one (puts block), 2 epochs, 1 sample per actor |
| `credit` | ActorCredit | who is paid for which step | 4 steps, 3 samples, 1 gap, 2 unread reports, both kinds of actor |
| `stream` | RewardStream | which intervals are paid, and is a coherent server ever refused | 2 lives, 2 commands, 4 reports each, 1 failing socket or replaced world, 1 lost or repeated report |
| `files` | TrainerFiles | what survives crashes, failed writes and damage | 2 starts, 1 optimizer step, 2 returns, 2 damaged files |
| `files_retained` | TrainerFiles | finding 1 | no damage, 3 returns |
| `supervision` | TaskSupervision | how the trainer ends | learner, actor, evaluator; 2 updates of 2 minibatches, 2 cancellations of `main`, with and without a budget |
| `intake` | TeacherIntake | is every chunk disposed of once, are leases released, does a transfer advance, do windows carry state where the stream did | 3 chunks, pages of up to 3, transfers and a replay of 2, 2 starts, 2 lost requests, expiries, deaths or policy changes; histories of 3 chunks of 1 or 2 rows in 2 slots with 4 transitions, burn-in 1, 2 trained steps |
| `sequence` | MCSequenceTraining | what a graph remembers | 3 graphs (two recurrent nodes; one beside an interleaved affine head; an MLP with a split), 2 alterations, windows of up to 3 deliveries with 3 boundaries, any activity, 2 batch sizes, both life rules |
| `study` | AblationStudy | is completed work kept, is "measured" true, can a study be finished | 2 processes, 2 variants, 3 attempts, 2 faults |
| `job` | DistillationJob | upload and shadow handoff over crashes; does it implement `CandidateHandoff` | 4 updates, 3 starts, a foreign activation or server restart |
| `job_retry` | DistillationJob | finding 2 | 3 updates, 3 starts |

Why the bounds are enough for the questions: each is the smallest in which the
hazard occurs together with what has to survive it.  Two actors and two epochs
give an actor that is late for the epoch another has left; four steps with two
unread reports give coalesced, empty and superseded intervals on both sides of a
gap; a queue of one makes puts block
that never do in the program (`main` gives it two places per actor); two starts
with two damaged files leave a single file to restore from.  Three players of the
supervisor give a failure, a task cancelled for it and one still running; two
cancellations of `main` reach it once while it watches and again while it cleans
up; two minibatches give an update that stops or fails half way.  Three chunks in
two slots give a stream interrupted by another one's chunk, three chunks of two
rows every kind of boundary inside a window.  Two alterations are what it takes to
hide a shifted view behind a second one.  Two processes and two faults give a
process that was admitted before another one's progress.  The mutations fail
within them, most in a dozen steps.  Wider bounds that were checked and
hold: `files` with three starts (13.8 million states), or two optimizer steps,
one return and three starts (10.9 million); `credit` with five steps; `stream`
with two failing sockets at three reports; the barrier's budget with three epochs, its
liveness with a queue of four.  `files` with three damaged files loses progress, as it must: every
candidate can then be unreadable.

`CHECK_DEADLOCK FALSE` is set where a behaviour really ends: a job or an intake that
has made its starts and is off, a stream whose lives are over or whose trainer an
error ended, a trainer that has ended, a manifest that is refused, a study whose
attempts are used up.

### What the properties say

* Barrier: `NoFatal` (none of the code's own consistency checks fires),
  `OnPolicy`, `AdmissionConserved`, `NoDecisionTwice`, `FenceProven`,
  `PublishBehindBarrier`, `BudgetExact`, the refinement `ImplementsRounds` (every
  actor joins a round once, the learner takes what all of them have contributed), and
  `BarrierAdvances`.
* Attribution: `NoStepTwice`, `CreditIsControl`, and `TraceExact`: traces join only
  observations that join, `done` is set exactly by death, the bootstrap belongs to
  the end of the last sample.
* Stream: `CoherentAccepted`, `AdmittedOnce`, `IntegrityExact`.
* Files: `Coherent` (what runs is one file's content or a fresh state),
  `NothingLost`, `BestExact` (files and metadata tell true returns).
* Ending: `NoOrphan`, `PrimaryReported`, `PublishedWhole`, `Settles`.
* Intake: `DisposedOnce`, `NothingSkipped`, `NeverRefused`, `PinsReleased`,
  `FetchAdvances` (a transfer whose next chunk or tail is settled moves the
  cursor), `WindowsSound` (the index is current, state is carried exactly where the
  stream carried it, and no window is one the snapshot loader refuses).
* Graph: `ManifestExact` (an admitted manifest fills the weights file with its logical
  weights and the state vector with its nodes' blocks, each one for one, and edges point
  backwards), `PredictionsExact`, `ContinuationExact`.  For the state the code says so
  more than once (fixed offsets, cursors, owners, totals), so no single check can be
  dropped to break that part; the mutant `AdmittedByTotals` drops all but the first and
  the last.
* Study: `CompletedKept`, `ArchiveFresh`, `MeasuredSound`, `Finishes`.
* Job: `SameRequest`, `HandoffConfirmed`, `NoCandidateLost` (what a snapshot ever held
  it still holds, or it was given to the server or counted as dropped),
  `Recoverable` (every snapshot can be loaded, costs no more than the cadence and
  holds no half update), and the refinement `ImplementsHandoff`: a candidate is
  activated at most once, only when the newest snapshot holds it and the server has its
  bytes, even if the request is processed long after its process has died; nobody lets
  go of an activated candidate to make room; a candidate evicted, released or lost with
  an unsaved update never comes back under its name.

`OneContribution` and `RolloutBound` of the barrier and the `TypeOK` of the eight modules with theorems are
proved (section 5) instead of run, except for the study's, whose types are a part of
its invariant.  The `TypeOK` of the other modules documents their types and holds
under the bounds of their runs.

### Findings

1. `files_retained`.  `docs/ppo-reward-contract-v1.md` 220-221 says that the best
   artifacts "retain the winning result".  The best policy and its metadata are
   two files; a death between them forgets the winner, and a worse policy
   replaces it later (`sync_ppo.py` 280, 68).
2. `job_retry`.  The repository's `README.md` 351-352 says that lost replies retry
   the same identity.  A metrics poll that comes before the retry finds the
   segment of the job's own unconfirmed activation and stops the run
   (`distillation_job.py` 589).

## 4. Fairness

`SyncCollection!Fairness`.  asyncio runs every ready task, so the learner, a
blocked put that has room and a return from `ws.send` happen (weak fairness of
each); `to_thread` finishes or raises.  Of the environment: a send returns or
raises, a join is answered or its socket fails, a life ends or its socket fails,
and a closed life is replaced on the connection or the socket fails.  Nothing
says that an actor ever receives a credit or that sockets stop failing: an epoch
ends with empty contributions then.  A failed update ends the run, and is an
outcome `BarrierAdvances` allows, as are the two ends of a bounded run.

`TaskSupervision!FairSpec`.  asyncio runs every task that is ready: a task with a
pending cancellation, the learner whose thread has returned, the owner whose wait
is over (weak fairness of each).  The update thread runs to its end, one minibatch
or its failure at a time.  No player is assumed to fail, to return or to make
progress, so `Settles` starts from something that went wrong, a cancellation or a
learner that is done.

`AblationStudy!FairSpec`.  A process takes its next step (weak fairness of `Work`),
a native tool that no longer is the admitted one raises, and somebody starts or
resumes the study whenever the code admits it, as the repository's `README.md`
tells the user to.  Faults are bounded, and `Excused` lists what may legitimately
leave a study unfinished: files or runners changed by others, attempts used up, a
death before the first publication, a death between the last two publications, and an
interrupt that tears the report.  The last two are gaps of the code, after which the
study has to be repeated.  After a death between the last two publications
`progress.json` is complete, `summary.json` is not, and a resume refuses complete
progress (158-160, 555-557 of `tactical_ablation_gate.py`).  A torn report lists a
variant without its inventory: an interrupt came between the two lines that add them
(540, 541), the `finally` publishes the report, and a resume refuses it (275-277).
Without the excuse for it `Finishes` is violated.

`TeacherIntake` needs no fairness: `FetchAdvances` says of every proposal that it
moves the cursor when it must, and requests that fail end the run.  The other
modules claim no liveness.

## 5. What is proved

Eight modules hold proofs; every theorem is about `Spec` for all values of the
constants that the named assumptions of its module admit.  The bounds of the runs
(steps, starts, faults, queue lengths) are constants there like any other, so a
theorem that needs no hypothesis beyond the assumptions says that no bound matters.
Three theorems have a hypothesis of their own, stated where they are: `NothingIsLost`
(at most two damaged files; three can lose progress), `OneRequestEach` and
`JobImplementsHandoff` (the operator resumes the newest snapshot of a shadow job; an
older one may stage a candidate again that the server has activated).

| Module | Theorems |
|---|---|
| `SyncCollection_proofs` | `TypeCorrect`, `NeverFatal`, `OnPolicyHolds`, `ContributesOnce`, `RolloutBounded`, `FenceHolds`, `PublishesBehindBarrier`, `AdmissionIsConserved`, `BudgetIsExact`, `CreditsOnce`, `BarrierImplementsRounds` |
| `TaskSupervision_proofs` | `TypeCorrect`, `NoOrphanLeft`, `PrimaryIsReported`, `WholeIsPublished` |
| `ActorCredit_proofs` | `TypeCorrect`, `CreditGoesToControl`, `PaidOnce`, `TraceIsExact` |
| `RewardStream_proofs` | `TypeCorrect`, `NeverRefusesCoherent`, `AdmitsOnce`, `IntegrityIsExact` |
| `TrainerFiles_proofs` | `TypeCorrect`, `StaysCoherent`, `NothingIsLost`, `BestIsExact` |
| `AblationStudy_proofs` | `ArchiveIsFresh`, `MeasuredIsSound`, `CompletedIsKept` |
| `DistillationJob_proofs` | `TypeCorrect`, `HandoffIsConfirmed`, `NoCandidateIsLost`, `StaysRecoverable`, `OneRequestEach`, `JobImplementsHandoff` |
| `TeacherIntake_proofs` | `TypeCorrect`, `DisposesExactlyOnce`, `NothingIsSkipped`, `IsNeverRefused`, `PinsAreReleased`, `FetchesAdvance`, `WindowsAreSound` |

Hardly any of these properties is inductive.  Each module starts with its inductive
invariant `IInv`, has a lemma for every helper and every action, and ends with the
theorems, which are short.  What `IInv` adds, and why it is needed:

**`SyncCollection_proofs`.**
`LearnerInv`: while the learner collects, `published = steps`; whenever it does
not (it trains, is about to publish, or has ended), every actor has submitted
to the epoch and neither queue nor pending holds anything.
`ActorsInv`: an actor that has submitted, or has not noticed the new epoch, holds no
experience at all; whatever another holds is of this epoch and version; behind a
fence there is no credit; identities grow along rollout, credited and issued
samples; and a sample inside `ws.send` is marked as tracked only if it belongs to the
open epoch.  The last is what makes the `await` harmless: the epoch cannot move under
a tracked sample because the actor has not contributed to it.
`QueueInv` and `PendingInv`: a contribution in the queue or with the learner is
of the current epoch, its actor has submitted, and no actor has two.
The barrier follows: the learner leaves `get` only with one contribution of
every actor, so every actor has submitted, holds nothing, and the epoch can
change without anything crossing it.  The count of decisions (`AdmissionConserved`)
and `DoneInv` (the run says "done" only on its budget) are inductive beside `IInv`.
`BarrierImplementsRounds` takes the initial states and every action to a step or a
stutter of `BarrierRounds` under the mapping `SyncCollection!Rounds`.

**`TaskSupervision_proofs`.**  `EndedInv`: every task that ended badly is in the
history, so that there is an exception to raise.  `TrainingInv`: while the learner
runs, the weights differ from the published ones by exactly the thread's steps; a
learner that returned has none in the air, a thread that ended well left whole
weights.  `OwnerInv`: each place of the owner implies what has become of the learner
and what is reported.  `ReportInv`: as long as `main` was not cancelled, no task has
been asked to cancel before the owner has chosen what to report, so that is primary.

**`ActorCredit_proofs`.**  `ServerInv`: the command in force is that which controlled
the step before.  `ChanInv`: unread reports follow each other without a hole, and
each proves control only of steps that its command controlled.  `ActorInv`: rollout
and pending sample were paid consecutive steps they controlled (`Paid`), each joins
the one before it or is cut there (`Joined`); the pending sample has been paid exactly
up to the step that the first unread report starts from (`PaidUpTo`), which is why
coalesced and empty reports neither pay twice nor leave a hole; identities grow from
what was given away, over what is held, to what is on its way (`IdInv`, `GivenInv`).

**`RewardStream_proofs`.**  `ServerInv`, `MessageInv`: what the server's commands and
messages may look like, lost and repeated ones included.  `ActorInv`: the stream is
that of the actor's snake or knows nothing yet, and an actor without a socket will
rebase.  `PaidInv`: what was paid is behind the actor's sequence, the server's, and,
if it is to rebase, behind everything on its way; an intact episode was paid
everything.  `ChainInv`: as long as the connection loses and repeats nothing, every
message in the channel is one the actor will accept when it has read those before it,
and after the last it knows what the server reported; "never refused" is the first
message of that chain.

**`TrainerFiles_proofs`.**  `SaveInv`: how far a save has come, and what the files
before the next one hold.  `CopiesInv`: the newest complete save has three copies less
one for each damage, and some file that loads is at or after what was committed; this
is the counting that makes two damages harmless.  `LeaderInv`: the leaderboard on
disk is never ahead of the one in memory; `LoadInv`, `ResumeInv`, `MemInv`, `DiskInv`:
a restart tries all the files before it refuses, and parts of two updates never meet.

**`AblationStudy_proofs`.**  `LockInv`: a process is in a locked step exactly when it
holds the lease.  `WaitInv`, `HoldInv`: what a process has read may be stale while it
waits, but what it holds when it has the lease continues what is published.
`ReceiptInv`: published receipts are those of finished variants that nobody has
touched, or were touched by others.  `ArchiveInv`: archive names belong to published
attempts, or to variants the attempt under way has come to.  `FinalInv`: a report that
claims to be measured passed the last check.

**`DistillationJob_proofs`.**  `JobInv`, `DiskInv`: what is in memory and every
snapshot passes the loader's conditions, and every candidate ever held is pending,
given or dropped.  `RequestInv`: identities count the requests, and the request in
hand is in the journal or will be its next; a receipt answers a request that was sent.
`GivenInv`, `SavedInv`: what was given was admitted; how far the newest snapshot is
behind.  For shadow jobs `ShadowInv`: a candidate that waits, in memory or in the
newest snapshot, has no request but the one in hand.
The refinement needs `HandInv` beside both: a request that was sent and not answered is
the one in hand *and* that of the newest snapshot, so whenever the server processes it,
its candidate is in both (`Activate`); the witness in memory speaks of the newest
snapshot; and what server, snapshots and history know was named by updates that are
done, so that a capture is new to all of them (`Capture`).  `Moves` says which
candidate makes room: with `ShadowInv` it is not an activated one.  `PublishIs`,
`RotateIs`, `ResumeIs`, `UploadIs`, `StagingIs`, `ReceivingIs`, `ActivatingIs` reduce each
action to what the two invariants and the mapping read of it.

**`TeacherIntake_proofs`.**  `ManifestOk`: what a manifest of the past calls resolved
is settled, for good.  `ReplayOk`: what is retained is in order and within both
bounds, every number up to the cursor has one disposition, and what is recorded as
gone is lost.  `ClientOk`: the client is where the replay is and saw no older manifest.
`FetchOk`: what a fetch leaves out, up to where it reaches, is lost, and with a
settled tail also what is behind; this is what survives the producer's steps between
two requests.  `IndexOk`, `DiskOk`: an index with the replay's signature indexes what
the replay retains, also in a snapshot; `LeaseInv`, `ControlInv` the rest.

`WindowsAreSound` joins `IndexOk` (the index is that of the retained chunks, whether
or not it was rebuilt) with what any history of the streams makes of them.
`Chronicle` says of a history that each chunk is the first of its slot and starts with
a capture, or follows the last one of its slot by a transition of the source;
`HistoriesOk` proves it of every history, and `AllOrdered` that then any two chunks of
a slot, however far apart, are in the order of their generations, lives and ordinals.
`RetainedDrawn` proves that what the replay retains is one of the sets the property
quantifies over.  `RowsOk` says of the rows laid out of such a set that ordinals grow
and that a row continues the one before it exactly when it is the next delivery of the
same life, whatever was evicted, skipped or lost between them (`StreamRowsOk`);
`WindowOk` then proves of every window cut out of such rows that it carries state
soundly and passes the loader's checks.

**Induction over data.**  Costs of a list and plans of evictions are recursive
functions.  The library's induction theorems cannot be used here (they have an operator
as parameter), so such a fact is proved by its least counterexample: `NatMin` (from
`WFMin`) gives the least index at which it would fail, and the function's equation
at that index contradicts it.

### Model-checked only

* Liveness under fairness (`BarrierAdvances`, `Settles`, `Finishes`) is beyond the
  proof system.  Of the barrier's epochs TLC checks the first one that can end within
  the bounds; that later ones end too is not shown.
* `ManifestExact`, `PredictionsExact`, `ContinuationExact` of `SequenceTraining` compare
  nested recursive functions over manifests and windows with their definitions.
* The two runs that show a finding.

## 6. Abstractions and what is left out

* Numbers that only flow through (rewards, losses, tensors, generator states) are
  left out; a policy is named by the run and step that made it, an artifact by
  the update that froze it, a chunk by its sequence number.
* The native server and the producer are environments built from how the code
  and its tests use them: sequence numbers, receipts and manifests are coherent,
  and whatever they may do between two messages they may do at any moment.
  A command reaches the server when it is sent, or never.
* `RewardStream` leaves out point accounting, float validation, starting length
  and receipt times; a terminal and a truncated closure are one kind.
* `TeacherIntake` leaves out the expected storage profile and decoding; a chunk is
  never larger than one transfer or the replay may own; a page is any beginning of what
  is listed, of at most the number asked for, and empty only if nothing is; `Save` and `Resume` are
  explored only where a later start can read the snapshot; the bound on faults
  counts lost requests, expiries, deaths and policy changes together.
* `RecurrentWindows` leaves out the rows' contents and the random choice of a window:
  every window that could be drawn is judged.
* `TaskSupervision` leaves out what tasks do while they run (`SyncCollection` has it):
  a player fails or does not.  A task may not suppress its cancellation, as none of
  the trainer's does.
* `SequenceTraining` follows one row of a batch, rows being computed elementwise; a
  value is what it was made from, so an error in the arithmetic of a node is not
  seen, one in its wiring is.  Manifests leave out digests, equations and ceilings.
* `AblationStudy`: the corpus and the trainer's sources do not change during a study;
  what a variant computes is three stages; the deadline is a failure that may come
  at any moment; processes are not given different arguments.
* `DistillationJob` leaves out the content of weights and optimizer: `dirty` says
  that a failed operation may have left them half changed.
* `TrainerFiles` leaves out the qualification baseline and the loading of a frozen
  evaluation checkpoint.
* Not modelled: the asynchronous learner (`main` never starts `learner_loop`; only
  `tests/system/test_learner_loop.py` does), artifacts and parity (byte layouts and
  numerics), the building of study inputs (`tactical_corpus.py`,
  `tactical_contract.py`, `experiment_source.py`: pure), configuration, sensors and
  wire decoding (pure), capacity and live gates, scripts, job export and archive
  migration (sequential tools without state of their own).

Defects that a property must catch are operators in the modules, each preceded by
a comment "A defect of ..."; nothing else uses them.

## 7. Plan

Done, in this order: `SyncCollection` with `BarrierRounds` and its proofs,
`ActorCredit`, `TrainerFiles`, `DistillationJob`, `TeacherIntake`, `RewardStream`,
`AblationStudy`, `GraphManifest` and `SequenceTraining`, `RecurrentWindows`,
`TaskSupervision`.

Then the theorems of section 5, `SyncCollection` with its refinement and
`TaskSupervision` first, the other six modules after them; `WindowsAreSound` and
`CandidateHandoff` with its refinement last.

Next, by importance:

1. An abstract exactly-once ledger that `TeacherIntake` implements, proved from its
   invariant.
2. Of `SequenceTraining`, `ContinuationExact`.
3. Advantage estimation (`learner.py` 640-667) as a recursive function checked
   against its definition.
4. The job's export and migration.
