--------------------------- MODULE DistillationJob ---------------------------
(***************************************************************************)
(* The distillation job: training updates that freeze a candidate every    *)
(* Cadence updates, its durable snapshots, and the handoff of candidates   *)
(* to the native server, either by plain upload or by activating a shadow. *)
(* (distillation_run.py, distillation_job.py, distillation_checkpoint.py.) *)
(*                                                                         *)
(* The process may die between any two steps and be resumed from a         *)
(* snapshot, online or offline.  A request may be processed although its   *)
(* reply is lost, or long after the process that sent it has gone.  The    *)
(* weights are not represented: `dirty' says that a failed operation may   *)
(* have left them half changed.                                            *)
(***************************************************************************)
EXTENDS Integers, Sequences, FiniteSets, SequencesExt, FiniteSetsExt

CONSTANTS
    Shadows,     \* values of shadow to consider: online_metrics is configured
    Cadence,     \* a candidate is frozen every Cadence updates (250)
    SaveEvery,   \* a snapshot is due after that many updates (1000)
    MaxPending,  \* candidates kept for a later handoff (4); one of them may be pending
    Retain,      \* valid snapshots kept (3)
    ResumeAny,   \* for which of them the operator may resume an older snapshot
    Lag,         \* the server's diagnostic mailbox trails its activations
    MaxForeign,  \* bound: activations and restarts of the server not ours
    MaxUpdates,  \* bound: attempted updates of the job
    MaxSerial,   \* bound: snapshots published
    MaxRuns      \* bound: starts of the process

ASSUME JobAssumption ==
    /\ Shadows \subseteq BOOLEAN /\ ResumeAny \subseteq Shadows /\ Lag \in BOOLEAN
    /\ Cadence \in Nat \ {0} /\ SaveEvery \in Nat \ {0}
    /\ MaxPending \in Nat \ {0, 1} /\ Retain \in Nat \ {0}
    /\ MaxForeign \in Nat /\ MaxUpdates \in Nat /\ MaxRuns \in Nat \ {0}
    /\ MaxSerial \in Nat

VARIABLES
    pc,        \* what the runner is doing
    then,      \* what follows the save in progress
    runs,      \* starts so far
    offline,   \* this run was resumed with --offline
    job,       \* the part of the job that a snapshot records
    owner,     \* the part it does not: serial, last_save_update, the witness, checkpoint_allowed
    disk,      \* the published snapshots
    server,    \* the native server: process epoch, slot, receipts, admitted candidates
    mail,      \* what its diagnostic mailbox shows of the slot
    net,       \* activation requests sent and not processed yet
    journal,   \* history: the requests that some snapshot recorded
    sent,      \* history: the requests ever sent
    given,     \* history: the candidates released as handed over
    stored,    \* history: the candidates held by the snapshots that this run descends from
    ourfault   \* history: a poll blamed a segment that this job activated

vars == <<pc, then, runs, offline, job, owner, disk, server, mail, net, journal, sent,
          given, stored, ourfault>>

-----------------------------------------------------------------------------
None == [id |-> 0]
Zero == 0    \* the activation sequence of an empty slot

(* An artifact is named by the update that froze it and the run that did:  *)
(* its bytes record the metrics and the environment of that moment.        *)
Artifacts == [update: 0..MaxUpdates, run: 1..MaxRuns]
Requests == [id: Nat \ {0}, artifact: Artifacts, epoch: Nat, expected: Nat]
Receipts == [id: Nat, artifact: Artifacts, epoch: Nat, sequence: Nat, previous: Nat]
Segments == [id: Nat \ {0}, sequence: Nat]     \* id: the request that made it; foreign above

\* shadow: candidates are activated as shadows, not only uploaded
NewJob(shadow) ==
    [shadow |-> shadow, updates |-> 0, attempted |-> 0, status |-> "running",
     pending_candidates |-> <<>>, candidate_due |-> FALSE, dropped |-> {}, pending |-> None,
     receipt |-> None, snapshot |-> FALSE, dirty |-> FALSE]
NewOwner == [serial |-> 0, last_save_update |-> 0, witness |-> None, allowed |-> TRUE]

Init ==
    /\ pc = "save" /\ then = "first" /\ runs = 1 /\ offline = FALSE
    /\ job \in {NewJob(shadow): shadow \in Shadows} /\ owner = NewOwner /\ disk = {}
    /\ server = [epoch |-> 1, commands |-> 0, slot |-> None, receipts |-> {}, admitted |-> {},
                 foreign |-> 0]
    /\ mail = None /\ net = {} /\ journal = {} /\ sent = {} /\ given = {}
    /\ stored = {} /\ ourfault = FALSE

history == <<journal, sent, given, stored>>
outside == <<server, mail, net>>

-----------------------------------------------------------------------------
(* Saving a snapshot: save_job_checkpoint.                                 *)

Serials == {f.serial: f \in disk}
Newest == CHOOSE f \in disk: \A g \in disk: g.serial <= f.serial

AfterFirst(t) == IF t = "first" THEN "fetch" ELSE t

SaveThen(next) == pc' = "save" /\ then' = next

(* The complete file appears at once (os.link), whatever happens next.     *)
Publish ==
    /\ pc = "save" /\ owner.allowed
    /\ LET n == Max(Serials \cup {owner.serial}) + 1
       IN /\ n <= MaxSerial
          /\ disk' = disk \cup {[serial |-> n, job |-> job,
                                  held |-> stored \cup Range(job.pending_candidates)]}
          /\ owner' = [owner EXCEPT !.serial = n, !.last_save_update = job.updates]
    /\ journal' = journal \cup ({job.pending} \ {None})
    /\ stored' = stored \cup Range(job.pending_candidates)
    /\ pc' = "rotate"
    /\ UNCHANGED <<then, runs, offline, job, outside, sent, given, ourfault>>

\* A defect of Kept: the newest go instead of the oldest.
KeptOldest(files) == {f \in files: Cardinality({g \in files: g.serial < f.serial}) < Retain}

(* The newest valid snapshots are kept and, last, the pending request is   *)
(* witnessed as saved.                                                     *)
Kept(files) == {f \in files: Cardinality({g \in files: g.serial > f.serial}) < Retain}
Rotate ==
    /\ pc = "rotate"
    /\ disk' = Kept(disk)
    /\ owner' = [owner EXCEPT !.witness = job.pending]
    /\ pc' = AfterFirst(then)
    /\ UNCHANGED <<then, runs, offline, job, outside, history, ourfault>>

(* Disk or byte admission refused before anything is published: inside the *)
(* loop the error is saved once more and re-raised.                        *)
Raise == IF owner.allowed THEN SaveThen("off") ELSE pc' = "off" /\ UNCHANGED then
SaveRefused ==
    /\ pc = "save"
    /\ IF then \in {"first", "off"} THEN pc' = "off" /\ UNCHANGED then ELSE SaveThen("off")
    /\ UNCHANGED <<runs, offline, job, owner, disk, outside, history, ourfault>>

-----------------------------------------------------------------------------
(* One turn of the loop of run(): intake and metrics, an update, the       *)
(* handoff, a snapshot when due.                                           *)

Stop ==    \* the update target or the wall limit
    /\ pc = "fetch" /\ SaveThen("stop")
    /\ UNCHANGED <<runs, offline, job, owner, disk, outside, history, ourfault>>

FetchNotDue ==
    /\ pc = "fetch" /\ pc' = "update"
    /\ UNCHANGED <<then, runs, offline, job, owner, disk, outside, history, ourfault>>

FetchFails ==    \* the source is not available, or its data is refused
    /\ pc = "fetch" /\ ~offline /\ Raise
    /\ UNCHANGED <<runs, offline, job, owner, disk, outside, history, ourfault>>

Observed == IF Lag THEN mail ELSE server.slot
ObservedSequence == IF Observed = None THEN Zero ELSE Observed.sequence

(* Only the exact prior activation may be shown instead of the recorded    *)
(* one, and only until that has been seen.                                 *)
MailboxTrails ==
    /\ server.epoch = job.receipt.epoch /\ ~job.snapshot
    /\ ObservedSequence = job.receipt.previous
SegmentIsOurs ==
    /\ server.epoch = job.receipt.epoch /\ Observed # None
    /\ Observed.sequence = job.receipt.sequence /\ Observed.id = job.receipt.id

Poll ==
    /\ pc = "fetch" /\ ~offline
    /\ \/ /\ job.receipt # None => MailboxTrails
          /\ pc' = "update" /\ UNCHANGED <<job, then, ourfault>>
       \/ /\ job.receipt # None /\ ~MailboxTrails /\ SegmentIsOurs
          /\ job' = [job EXCEPT !.snapshot = TRUE]
          /\ pc' = "update" /\ UNCHANGED <<then, ourfault>>
       \/ /\ job.receipt # None /\ ~MailboxTrails /\ ~SegmentIsOurs
          /\ ourfault' = (ourfault \/ (/\ server.epoch = job.receipt.epoch
                                       /\ Observed \in Segments
                                       /\ \E r \in sent: r.id = Observed.id))
          /\ Raise /\ UNCHANGED job
    /\ UNCHANGED <<runs, offline, owner, disk, outside, history>>

\* A defect of Evicted: the oldest goes, pending or not.
EvictedOldest(cs, pending) == IF Len(cs) < MaxPending THEN cs ELSE Tail(cs)

(* With MaxPending candidates waiting, the oldest one that the pending     *)
(* request does not need makes room.                                       *)
Evicted(cs, pending) ==
    IF Len(cs) < MaxPending THEN cs
    ELSE LET i == Min({k \in 1..Len(cs): pending = None \/ cs[k] # pending.artifact})
         IN RemoveAt(cs, i)

\* A defect of Captured: an evicted candidate is not counted.
CapturedUncounted(j) ==
    [j EXCEPT !.pending_candidates =
        Append(Evicted(@, j.pending), [update |-> j.updates, run |-> runs])]

Captured(j) ==
    LET kept == Evicted(j.pending_candidates, j.pending)
    IN [j EXCEPT !.pending_candidates = Append(kept, [update |-> j.updates, run |-> runs]),
                 !.dropped = @ \cup (Range(j.pending_candidates) \ Range(kept))]
CaptureIfDue(j) == IF j.updates % Cadence = 0 THEN Captured(j) ELSE j
CandidateDue(j) == [j EXCEPT !.candidate_due = j.pending_candidates # <<>>]

Stepped == [job EXCEPT !.updates = @ + 1, !.attempted = @ + 1]

Update ==
    /\ pc = "update" /\ job.status = "running" /\ job.attempted < MaxUpdates
    /\ job' = CandidateDue(CaptureIfDue(Stepped)) /\ pc' = "handoff"
    /\ UNCHANGED <<then, runs, offline, owner, disk, outside, history, ourfault>>

(* An operation failed between the parts of the update, or in a validation *)
(* after it: what the job holds may not be published any more.             *)
UpdateFails ==
    /\ pc = "update" /\ job.status = "running" /\ job.attempted < MaxUpdates
    /\ job' \in {[job EXCEPT !.dirty = TRUE, !.status = "paused"],
                 [Stepped EXCEPT !.dirty = TRUE, !.status = "paused"],
                 [CandidateDue(CaptureIfDue(Stepped)) EXCEPT !.dirty = TRUE,
                                                             !.status = "paused"]}
    /\ owner' = [owner EXCEPT !.allowed = FALSE]
    /\ pc' = "raise"
    /\ UNCHANGED <<then, runs, offline, disk, outside, history, ourfault>>

UpdateWaits ==    \* no retained window; offline, or once the capture ended, none will come
    /\ pc = "update" /\ job.status = "running"
    /\ \/ SaveThen("stop")
       \/ ~offline /\ pc' = "handoff" /\ UNCHANGED then
    /\ UNCHANGED <<runs, offline, job, owner, disk, outside, history, ourfault>>

UpdateTrainsNothing ==    \* the graph has no trainable output
    /\ pc = "update" /\ job.status = "running" /\ job.attempted < MaxUpdates
    /\ job' = CandidateDue([job EXCEPT !.attempted = @ + 1, !.status = "paused"])
    /\ SaveThen("stop")
    /\ UNCHANGED <<runs, offline, owner, disk, outside, history, ourfault>>

UpdatePaused ==    \* a paused job was resumed
    /\ pc = "update" /\ job.status = "paused" /\ pc' = "raise"
    /\ UNCHANGED <<then, runs, offline, job, owner, disk, outside, history, ourfault>>

Raised ==
    /\ pc = "raise" /\ Raise
    /\ UNCHANGED <<runs, offline, job, owner, disk, outside, history, ourfault>>

Handoff ==
    /\ pc = "handoff"
    /\ IF job.pending_candidates = <<>> \/ offline
       THEN pc' = "due" /\ UNCHANGED then
       ELSE IF job.shadow THEN pc' = "stage" /\ UNCHANGED then ELSE SaveThen("upload")
    /\ UNCHANGED <<runs, offline, job, owner, disk, outside, history, ourfault>>

SaveDue == job.updates - owner.last_save_update >= SaveEvery
CheckpointDue ==    \* by updates, or by the clock at any time
    /\ pc = "due"
    /\ \/ SaveThen("fetch")
       \/ ~SaveDue /\ pc' = "fetch" /\ UNCHANGED then
    /\ UNCHANGED <<runs, offline, job, owner, disk, outside, history, ourfault>>

-----------------------------------------------------------------------------
(* Plain upload: the candidates one by one, each released by its receipt.  *)

Acknowledged(j, a) ==
    IF a \in Range(j.pending_candidates)
    THEN LET i == CHOOSE k \in 1..Len(j.pending_candidates): j.pending_candidates[k] = a
         IN CandidateDue([j EXCEPT !.pending_candidates = RemoveAt(@, i)])
    ELSE j

Upload ==
    /\ pc = "upload" /\ job.pending_candidates # <<>>
    /\ LET a == Head(job.pending_candidates)
       IN /\ server' = [server EXCEPT !.admitted = @ \cup {a}]
          /\ job' = Acknowledged(job, a) /\ given' = given \cup {a}
    /\ UNCHANGED <<pc, then, runs, offline, owner, disk, mail, net, journal, sent, stored,
                   ourfault>>

UploadFails ==    \* not delivered, or its receipt is lost
    /\ pc \in {"upload", "stage"} /\ job.pending_candidates # <<>> /\ job.pending = None
    /\ server' \in {server, [server EXCEPT !.admitted = @ \cup {Head(job.pending_candidates)}]}
    /\ Raise
    /\ UNCHANGED <<runs, offline, job, owner, disk, mail, net, history, ourfault>>

Uploaded ==
    /\ pc = "upload" /\ job.pending_candidates = <<>> /\ pc' = "due"
    /\ UNCHANGED <<then, runs, offline, job, owner, disk, outside, history, ourfault>>

-----------------------------------------------------------------------------
(* Shadow handoff: freeze a request, save it, activate, save the receipt.  *)

FreshId == 1 + Cardinality(sent \cup journal)
Staged ==
    LET a == Head(job.pending_candidates)
    IN [job EXCEPT !.pending = [id |-> FreshId, artifact |-> a, epoch |-> server.epoch,
                                expected |-> ObservedSequence]]

\* A defect of StagePending: the activation is issued before the snapshot.
StageAndSend ==
    /\ pc = "stage"
    /\ job' = IF job.pending # None THEN job ELSE Staged
    /\ server' = [server EXCEPT !.admitted = @ \cup {Head(job.pending_candidates)}]
    /\ net' = net \cup {job'.pending} /\ sent' = sent \cup {job'.pending}
    /\ pc' = "await"
    /\ UNCHANGED <<then, runs, offline, owner, disk, mail, journal, given, stored, ourfault>>

StagePending ==
    /\ pc = "stage"
    /\ \/ /\ job.pending # None /\ UNCHANGED <<job, server, owner>>
       \/ /\ job.pending = None /\ job' = Staged
          /\ server' = [server EXCEPT !.admitted = @ \cup {Head(job.pending_candidates)}]
          /\ owner' = [owner EXCEPT !.witness = None]
    /\ SaveThen("activate")
    /\ UNCHANGED <<runs, offline, disk, mail, net, history, ourfault>>

ActivateSend ==
    /\ pc = "activate"
    /\ IF owner.witness = job.pending
       THEN /\ net' = net \cup {job.pending} /\ sent' = sent \cup {job.pending}
            /\ pc' = "await"
       ELSE pc' = "raise" /\ UNCHANGED <<net, sent>>
    /\ UNCHANGED <<then, runs, offline, job, owner, disk, server, mail, journal, given,
                   stored, ourfault>>

Confirmed(r) == Acknowledged([job EXCEPT !.receipt = r, !.snapshot = FALSE, !.pending = None],
                             job.pending.artifact)
ActivateReceipt ==
    /\ pc = "await"
    /\ \E r \in server.receipts:
         /\ r.id = job.pending.id /\ job' = Confirmed(r)
         /\ given' = given \cup {job.pending.artifact}
    /\ SaveThen("due")
    /\ UNCHANGED <<runs, offline, owner, disk, outside, journal, sent, stored, ourfault>>

\* A defect of ActivateFails: the candidate is released whatever the answer.
ActivateGivesUp ==
    /\ pc = "await" /\ pc' = "raise"
    /\ job' = Acknowledged([job EXCEPT !.pending = None], job.pending.artifact)
    /\ given' = given \cup {job.pending.artifact}
    /\ UNCHANGED <<then, runs, offline, owner, disk, outside, journal, sent, stored, ourfault>>

ActivateFails ==    \* refused, not delivered, or the reply is lost
    /\ pc = "await" /\ pc' = "raise"
    /\ UNCHANGED <<then, runs, offline, job, owner, disk, outside, history, ourfault>>

-----------------------------------------------------------------------------
(* The process ends, or dies, and is resumed: load_job_checkpoint.         *)

Finished ==
    /\ pc = "stop" /\ pc' = "off"
    /\ UNCHANGED <<then, runs, offline, job, owner, disk, outside, history, ourfault>>

Die ==
    /\ pc # "off" /\ pc' = "off"
    /\ UNCHANGED <<then, runs, offline, job, owner, disk, outside, history, ourfault>>

(* What the loader demands of a snapshot.                                  *)
CandidatesAdmitted(j) ==
    LET cs == j.pending_candidates
    IN /\ Len(cs) <= MaxPending /\ IsInjective(cs)
       /\ \A c \in Range(cs): c.update \in 1..j.updates /\ c.update % Cadence = 0
       /\ j.candidate_due = (cs # <<>>)
ShadowAdmitted(j) ==
    /\ j.pending # None => j.pending.artifact \in Range(j.pending_candidates)
    /\ j.snapshot => j.receipt # None
Loadable(j) == j.updates <= j.attempted /\ CandidatesAdmitted(j) /\ ShadowAdmitted(j)

Resume ==
    /\ pc = "off" /\ runs < MaxRuns
    /\ \E f \in disk:
         /\ f = Newest \/ f.job.shadow \in ResumeAny
         /\ Loadable(f.job)
         /\ job' = f.job
         /\ owner' = [serial |-> f.serial, last_save_update |-> f.job.updates,
                      witness |-> f.job.pending, allowed |-> TRUE]
         /\ stored' = f.held
    /\ runs' = runs + 1 /\ offline' \in BOOLEAN
    /\ SaveThen("first")
    /\ UNCHANGED <<disk, outside, journal, sent, given, ourfault>>

-----------------------------------------------------------------------------
(* The native server, as the client and the tests assume it: a request is  *)
(* answered with its recorded receipt, or activates its candidate if the   *)
(* process and the slot are the expected ones, or is refused.              *)

SlotSequence == IF server.slot = None THEN Zero ELSE server.slot.sequence
Segment(id) == [id |-> id, sequence |-> server.commands + 1]

ServerActivates ==
    \E r \in net:
      /\ net' = net \ {r}
      /\ IF /\ \A x \in server.receipts: x.id # r.id
            /\ r.epoch = server.epoch /\ r.expected = SlotSequence
            /\ r.artifact \in server.admitted
         THEN server' = [server EXCEPT
                !.commands = @ + 1, !.slot = Segment(r.id),
                !.receipts = @ \cup {[id |-> r.id, artifact |-> r.artifact, epoch |-> r.epoch,
                                      sequence |-> server.commands + 1,
                                      previous |-> SlotSequence]}]
         ELSE UNCHANGED server
      /\ UNCHANGED <<pc, then, runs, offline, job, owner, disk, mail, history, ourfault>>

MailboxShows ==
    /\ Lag /\ mail # server.slot /\ mail' = server.slot
    /\ UNCHANGED <<pc, then, runs, offline, job, owner, disk, server, net, history, ourfault>>

ForeignId == 1000
OthersActivate ==
    /\ server.foreign < MaxForeign
    /\ server' = [server EXCEPT !.foreign = @ + 1, !.commands = @ + 1,
                                !.slot = Segment(ForeignId)]
    /\ UNCHANGED <<pc, then, runs, offline, job, owner, disk, mail, net, history, ourfault>>

ServerRestarts ==
    /\ server.foreign < MaxForeign
    /\ server' = [server EXCEPT !.foreign = @ + 1, !.epoch = @ + 1, !.slot = None]
    /\ mail' = None
    /\ UNCHANGED <<pc, then, runs, offline, job, owner, disk, net, history, ourfault>>

-----------------------------------------------------------------------------
Next ==
    \/ Publish \/ Rotate \/ SaveRefused
    \/ Stop \/ FetchNotDue \/ FetchFails \/ Poll
    \/ Update \/ UpdateFails \/ UpdateWaits \/ UpdateTrainsNothing \/ UpdatePaused \/ Raised
    \/ Handoff \/ CheckpointDue
    \/ Upload \/ UploadFails \/ Uploaded
    \/ StagePending \/ ActivateSend \/ ActivateReceipt \/ ActivateFails
    \/ Finished \/ Die \/ Resume
    \/ ServerActivates \/ MailboxShows \/ OthersActivate \/ ServerRestarts

Spec == Init /\ [][Next]_vars

-----------------------------------------------------------------------------
Steps == {"save", "rotate", "fetch", "update", "raise", "handoff", "due", "upload", "stage",
          "activate", "await", "stop", "off"}
JobRecords == [shadow: Shadows, updates: 0..MaxUpdates, attempted: 0..MaxUpdates,
               status: {"running", "paused"},
               pending_candidates: Seq(Artifacts), candidate_due: BOOLEAN,
               dropped: SUBSET Artifacts, pending: Requests \cup {None},
               receipt: Receipts \cup {None}, snapshot: BOOLEAN, dirty: BOOLEAN]

(* Every variable has its type; serials name snapshots uniquely, a receipt *)
(* is awaited only for a request that was sent, and only a saved request   *)
(* is witnessed.                                                           *)
TypeOK ==
    /\ pc \in Steps /\ then \in {"first", "fetch", "upload", "activate", "due", "stop", "off"}
    /\ runs \in 1..MaxRuns /\ offline \in BOOLEAN
    /\ job \in JobRecords
    /\ owner \in [serial: Nat, last_save_update: 0..MaxUpdates,
                  witness: Requests \cup {None}, allowed: BOOLEAN]
    /\ \A f \in disk: f.serial \in Nat \ {0} /\ f.job \in JobRecords /\ f.held \subseteq Artifacts
    /\ \A f, g \in disk: f.serial = g.serial => f = g
    /\ server.receipts \subseteq Receipts /\ server.admitted \subseteq Artifacts
    /\ server.slot \in Segments \cup {None} /\ mail \in Segments \cup {None}
    /\ net \subseteq sent /\ sent \subseteq Requests /\ journal \subseteq Requests
    /\ pc = "await" => job.pending \in sent
    /\ owner.witness \in journal \cup {None}

(* "Lost replies retry the same process/request/observed-slot identity":   *)
(* however often the job dies between staging, saving, sending and         *)
(* confirming, all the requests it ever sends for a candidate are one.     *)
(* That takes a snapshot of the request before it is first sent            *)
(* (distillation_run.py:203-209).                                          *)
SameRequest == \A r, s \in sent: r.artifact = s.artifact => r = s

(* A candidate's bytes are given up as handed over only when the server    *)
(* has admitted them and, for a shadow, has activated them.                *)
HandoffConfirmed ==
    \A a \in given:
      /\ a \in server.admitted
      /\ job.shadow => \E r \in server.receipts: r.artifact = a

(* This run has published its first snapshot.                              *)
Established == pc # "off" /\ (pc \in {"save", "rotate"} => then # "first")

(* A candidate that a snapshot or one that it descends from ever held is   *)
(* still in it, was handed over, or is counted as dropped, and the newest  *)
(* snapshot descends from the run that goes on: no crash, eviction or      *)
(* acknowledgement loses its bytes, unless the operator goes back to an    *)
(* older snapshot.                                                         *)
NoCandidateLost ==
    /\ \A f \in disk: f.held \subseteq Range(f.job.pending_candidates) \cup given \cup f.job.dropped
    /\ Established => Newest.held = stored

(* Whenever the process dies, the run can be resumed without losing more   *)
(* than the checkpoint cadence: every published snapshot passes the many   *)
(* conditions that the loader imposes, in particular the bytes of a        *)
(* pending request are in it; none holds what a failed operation left half *)
(* done; and the newest is at most SaveEvery updates old, whatever was     *)
(* resumed.                                                                *)
Recoverable ==
    /\ \A f \in disk: Loadable(f.job) /\ ~f.job.dirty
    /\ Established => job.updates - Newest.job.updates <= SaveEvery

(* "A changed process or replaced segment fails explicitly": the job does  *)
(* not report as an interruption a segment that its own request activated. *)
OwnSegmentAccepted == ~ourfault

(* What of the job is the state of a handoff: it holds the candidates that *)
(* wait in memory, and the receipts name the activations.                  *)
Waiting == Range(job.pending_candidates)
Saved == IF disk = {} THEN {} ELSE Range(Newest.job.pending_candidates)
Copies == {Range(f.job.pending_candidates): f \in disk}
Activations == {<<r.id, r.artifact>>: r \in server.receipts}

Handoffs == INSTANCE CandidateHandoff WITH
    Capacity <- MaxPending, shadow <- job.shadow, waiting <- Waiting, saved <- Saved,
    copies <- Copies, admitted <- server.admitted, activations <- Activations,
    released <- given

(* Whatever is lost, repeated or resumed, a run of the job is one in which *)
(* a candidate is captured, saved, activated at most once and released     *)
(* because the server has it, as CandidateHandoff says.                    *)
ImplementsHandoff == Handoffs!Spec
==============================================================================
