--------------------------- MODULE AblationStudy ---------------------------
(* A resumable ablation study: one directory, and processes that start it, *)
(* resume it, fail, are interrupted or die between any two changes of the  *)
(* disk (tactical_ablation_gate.py, ablation_progress.py, and read_study   *)
(* of ablation_matrix.py).                                                 *)
(*                                                                         *)
(* A variant directory is the record of who wrote it and how far; its      *)
(* inventory, a digest of every file, is that record.  The corpus and the  *)
(* sources are immutable inputs; a native runner may be replaced.          *)
EXTENDS Integers, Sequences, FiniteSets

CONSTANTS
  Owners,       \* processes that may be given the same directory
  Variants,     \* number of variants, trained in the order 1, 2, ...
  MaxAttempt,   \* attempts the study admits (32 in the code)
  MaxFaults     \* failures, interrupts, failed publications, deaths, and
                \* foreign changes of finished outputs or of a runner

ASSUME StudyAssumption ==
  /\ Variants \in Nat \ {0} /\ MaxAttempt \in Nat \ {0}
  /\ MaxFaults \in Nat /\ "nobody" \notin Owners

VARIABLES
  made,         \* the study directory exists
  progress,     \* progress.json
  summary,      \* summary.json
  dirs,         \* variant and archive directories: name -> contents
  runner,       \* the native runners as they are now
  lease,        \* holder of the lock on .study.lock
  proc,         \* the processes
  faults

disk == <<made, progress, summary, dirs>>
vars == <<made, progress, summary, dirs, runner, lease, proc, faults>>

None == [status |-> "none"]
Nobody == "nobody"

(* What variant() leaves behind, in order: the initial artifact and its    *)
(* native trials, the training, and the parity and native trials of the    *)
(* trained one; all but the training run a native tool.                    *)
Stages == <<"native-before", "trained", "native-after">>
Native == {1, 3}
Done == Len(Stages)

(* The directory of a variant, and the name its interrupted files get; its *)
(* contents are [by: attempt, stage, runner: of the last stage, tampered:  *)
(* "no", "early" (before the last check) or "late"].                       *)
Active(v) == <<"active", v>>
Interrupted(attempt, v) == <<"interrupted", attempt, v>>

(* A report is torn when it lists a variant without its inventory.         *)
NewReport == [status |-> "running", complete |-> FALSE, attempt |-> 1, runner |-> runner,
              files |-> <<>>, torn |-> FALSE]
Idle == [pc |-> "idle", saved |-> None, report |-> None]

Init ==
  /\ made = FALSE
  /\ progress = None
  /\ summary = None
  /\ dirs = [name \in {} |-> None]
  /\ runner = 0
  /\ lease = Nobody
  /\ proc = [o \in Owners |-> Idle]
  /\ faults = 0

Exit(o) == proc' = [proc EXCEPT ![o] = Idle]
Goto(o, pc) == proc' = [proc EXCEPT ![o].pc = pc]
Becomes(o, pc, report) == proc' = [proc EXCEPT ![o].pc = pc, ![o].report = report]
Release(o) == lease' = IF lease = o THEN Nobody ELSE lease

-----------------------------------------------------------------------------
(* Construction: no lease is held.                                         *)

NewStudy(o) ==
  /\ proc[o].pc = "idle" /\ ~made
  /\ made' = TRUE
  /\ Becomes(o, "built", NewReport)
  /\ UNCHANGED <<progress, summary, dirs, runner, lease, faults>>

(* A defect of Unfinished: only a study that was killed can be resumed.    *)
UnfinishedRunning(report) ==
  /\ report # None
  /\ ~report.complete
  /\ report.status = "running"

Unfinished(report) ==
  /\ report # None
  /\ ~report.complete
  /\ report.status \in {"running", "failed"}

ReadProgress(o) ==
  /\ proc[o].pc = "idle" /\ made
  /\ Unfinished(progress)
  /\ proc' = [proc EXCEPT ![o] = [pc |-> "read", saved |-> progress, report |-> NewReport]]
  /\ UNCHANGED <<disk, runner, lease, faults>>

Intact(report) ==
  \A v \in 1..Len(report.files) :
    /\ Active(v) \in DOMAIN dirs
    /\ dirs[Active(v)] = report.files[v]

Admissible(saved, now) ==
  /\ saved.runner = now /\ ~saved.torn
  /\ saved.attempt < MaxAttempt
  /\ Intact(saved)

(* A defect of Restored: the attempt of the interrupted process is kept.   *)
RestoredSameAttempt(report, saved) ==
  [report EXCEPT !.files = saved.files, !.attempt = saved.attempt]

Restored(report, saved) ==
  [report EXCEPT !.files = saved.files, !.attempt = saved.attempt + 1]

RestoreProgress(o) ==
  /\ proc[o].pc = "read"
  /\ \/ /\ Admissible(proc[o].saved, proc[o].report.runner)
        /\ Becomes(o, "built", Restored(proc[o].report, proc[o].saved))
     \/ /\ ~Admissible(proc[o].saved, proc[o].report.runner)
        /\ Exit(o)
  /\ UNCHANGED <<disk, runner, lease, faults>>

-----------------------------------------------------------------------------
(* run(): the lease, and under it every change of the directory.           *)

(* A defect of SameAsAdmitted: progress is not read again under the lease. *)
AdmittedIsEnough(o) == TRUE

SameAsAdmitted(o) == proc[o].saved # None => progress = proc[o].saved

TakeLease(o) ==
  /\ proc[o].pc = "built" /\ lease = Nobody
  /\ IF SameAsAdmitted(o)
       THEN /\ lease' = o
            /\ proc' = [proc EXCEPT ![o].pc = "begin", ![o].saved = None]
       ELSE UNCHANGED lease /\ Exit(o)
  /\ UNCHANGED <<disk, runner, faults>>

LeaseRefused(o) ==
  /\ proc[o].pc = "built" /\ lease # Nobody
  /\ Exit(o)
  /\ UNCHANGED <<disk, runner, lease, faults>>

Begin(o) ==
  /\ proc[o].pc = "begin"
  /\ progress' = proc[o].report
  /\ Goto(o, "loop")
  /\ UNCHANGED <<made, summary, dirs, runner, lease, faults>>

Current(o) == Len(proc[o].report.files) + 1
Remaining(o) == Current(o) <= Variants

Archive(o) == Interrupted(proc[o].report.attempt, Current(o))

Without(f, x) == [y \in DOMAIN f \ {x} |-> f[y]]
With(f, x, value) == [y \in DOMAIN f \cup {x} |-> IF y = x THEN value ELSE f[y]]

(* The variants completed by earlier attempts are passed over; what an     *)
(* interrupted one left behind is kept under another name.                 *)
SetAside(o) ==
  /\ proc[o].pc = "loop" /\ Remaining(o)
  /\ Active(Current(o)) \in DOMAIN dirs
  /\ Archive(o) \notin DOMAIN dirs
  /\ dirs' = With(Without(dirs, Active(Current(o))), Archive(o), dirs[Active(Current(o))])
  /\ UNCHANGED <<made, progress, summary, runner, lease, proc, faults>>

StartVariant(o) ==
  /\ proc[o].pc = "loop" /\ Remaining(o)
  /\ Active(Current(o)) \notin DOMAIN dirs
  /\ dirs' = With(dirs, Active(Current(o)),
                  [by |-> proc[o].report.attempt, stage |-> 0,
                   runner |-> proc[o].report.runner, tampered |-> "no"])
  /\ Goto(o, "variant")
  /\ UNCHANGED <<made, progress, summary, runner, lease, faults>>

RunnerChanged(o) ==
  /\ proc[o].pc = "variant"
  /\ dirs[Active(Current(o))].stage + 1 \in Native
  /\ runner # proc[o].report.runner

Stage(o) ==
  /\ proc[o].pc = "variant"
  /\ dirs[Active(Current(o))].stage < Done
  /\ ~RunnerChanged(o)
  /\ dirs' = [dirs EXCEPT ![Active(Current(o))].stage = @ + 1,
                          ![Active(Current(o))].runner = runner]
  /\ UNCHANGED <<made, progress, summary, runner, lease, proc, faults>>

Commit(o) ==
  /\ proc[o].pc = "variant"
  /\ dirs[Active(Current(o))].stage = Done
  /\ LET report == [proc[o].report EXCEPT !.files = Append(@, dirs[Active(Current(o))])]
     IN /\ progress' = report
        /\ Becomes(o, "loop", report)
  /\ UNCHANGED <<made, summary, dirs, runner, lease, faults>>

(* A defect of Checked: completed outputs are not read again at the end.   *)
Unchecked(report) == TRUE

Checked(report) == Intact(report)

Measured(report) == [report EXCEPT !.status = "measured", !.complete = TRUE]
Failed(report) == [report EXCEPT !.status = "failed"]

Conclude(o) ==
  /\ proc[o].pc = "loop" /\ ~Remaining(o)
  /\ Becomes(o, "ended", IF Checked(proc[o].report) THEN Measured(proc[o].report)
                                                    ELSE Failed(proc[o].report))
  /\ UNCHANGED <<disk, runner, lease, faults>>

(* Any exception of the try block: a native tool, the deadline, a          *)
(* publication, the runner that is no longer the admitted one.             *)
Fails(o) ==
  /\ proc[o].pc \in {"begin", "loop", "variant"}
  /\ \/ proc[o].pc = "variant" /\ RunnerChanged(o) /\ UNCHANGED faults
     \/ faults < MaxFaults /\ faults' = faults + 1
  /\ Becomes(o, "ended", Failed(proc[o].report))
  /\ UNCHANGED <<disk, runner, lease>>

(* KeyboardInterrupt is no Exception: the report keeps saying "running".   *)
(* It may come between the two lines that add a variant to the report.     *)
TornReport(o) ==
  /\ proc[o].pc = "variant" /\ dirs[Active(Current(o))].stage = Done
  /\ Becomes(o, "ended", [proc[o].report EXCEPT !.torn = TRUE])

Interrupt(o) ==
  /\ proc[o].pc \in {"begin", "loop", "variant"}
  /\ faults < MaxFaults /\ faults' = faults + 1
  /\ Goto(o, "ended") \/ TornReport(o)
  /\ UNCHANGED <<disk, runner, lease>>

(* The finally block: two publications, each atomic.                       *)
PublishProgress(o) ==
  /\ proc[o].pc = "ended"
  /\ progress' = proc[o].report
  /\ Goto(o, "published")
  /\ UNCHANGED <<made, summary, dirs, runner, lease, faults>>

PublishSummary(o) ==
  /\ proc[o].pc = "published"
  /\ summary' = proc[o].report
  /\ Exit(o) /\ Release(o)
  /\ UNCHANGED <<made, progress, dirs, runner, faults>>

(* A failed replacement leaves the prior file; a dead process its lock.    *)
DieOrFailToPublish(o) ==
  /\ proc[o].pc # "idle"
  /\ faults < MaxFaults /\ faults' = faults + 1
  /\ Exit(o) /\ Release(o)
  /\ UNCHANGED <<disk, runner>>

-----------------------------------------------------------------------------
(* What others do to the files of the study.                               *)

FinalCheckPassed == progress.status = "measured" \/ \E o \in Owners :
  proc[o].pc \in {"ended", "published"} /\ proc[o].report.status = "measured"

Tamper ==
  /\ faults < MaxFaults /\ faults' = faults + 1
  /\ progress # None
  /\ \E v \in 1..Len(progress.files) :
       dirs' = [dirs EXCEPT ![Active(v)].tampered = IF FinalCheckPassed THEN "late" ELSE "early"]
  /\ UNCHANGED <<made, progress, summary, runner, lease, proc>>

ReplaceRunner ==
  /\ faults < MaxFaults /\ faults' = faults + 1
  /\ runner' = runner + 1
  /\ UNCHANGED <<disk, lease, proc>>

Work(o) ==
  \/ RestoreProgress(o) \/ TakeLease(o) \/ LeaseRefused(o) \/ Begin(o)
  \/ SetAside(o) \/ StartVariant(o) \/ Stage(o) \/ Commit(o) \/ Conclude(o)
  \/ PublishProgress(o) \/ PublishSummary(o)

Next ==
  \/ \E o \in Owners :
       NewStudy(o) \/ ReadProgress(o) \/ Work(o)
         \/ Fails(o) \/ Interrupt(o) \/ DieOrFailToPublish(o)
  \/ Tamper \/ ReplaceRunner

Spec == Init /\ [][Next]_vars

(* A process keeps running, and the study is started and resumed for as    *)
(* long as the code admits it, as README.md tells the user to.             *)
Fairness ==
  \A o \in Owners :
    /\ WF_vars(Work(o))
    /\ WF_vars(Fails(o) /\ RunnerChanged(o))
    /\ WF_vars(NewStudy(o) \/ ReadProgress(o))

FairSpec == Spec /\ Fairness

-----------------------------------------------------------------------------
(* ablation_matrix.read_study.                                             *)
ReadStudy ==
  /\ summary # None
  /\ summary.complete /\ summary.status = "measured"
  /\ Len(summary.files) = Variants
  /\ Intact(summary)

Tampered == \E name \in DOMAIN dirs : dirs[name].tampered # "no"

(* No step takes a completed variant out of progress.json or changes its   *)
(* receipt, whichever of several processes publishes: a process admitted   *)
(* before another one's progress must not publish over it                  *)
(* (tactical_ablation_gate.py 506-512).                                    *)
CompletedKept ==
  [][progress # None => /\ progress' # None
                        /\ Len(progress.files) <= Len(progress'.files)
                        /\ \A v \in 1..Len(progress.files) :
                             progress'.files[v] = progress.files[v]]_progress

(* An interrupted directory never meets another one under the name it is   *)
(* to be kept by, for an attempt is published before it touches anything;  *)
(* otherwise the rename would fail and with it every attempt after.        *)
ArchiveFresh ==
  \A o \in Owners :
    (proc[o].pc = "loop" /\ Remaining(o) /\ Active(Current(o)) \in DOMAIN dirs)
      => Archive(o) \notin DOMAIN dirs

(* A study that claims to be measured has every variant, each finished by  *)
(* the runners the report names, and the outputs on disk are the ones      *)
(* measured; what was changed before the last check, in this attempt or an *)
(* earlier one, is never part of it.                                       *)
MeasuredSound ==
  (summary # None /\ summary.status = "measured") =>
    /\ summary = progress
    /\ Len(summary.files) = Variants
    /\ \A v \in 1..Variants :
         /\ summary.files[v].stage = Done
         /\ summary.files[v].runner = summary.runner
         /\ summary.files[v].tampered = "no"
         /\ dirs[Active(v)].tampered # "early"
         /\ dirs[Active(v)].tampered = "no" => dirs[Active(v)] = summary.files[v]

(* Resumed as often as the code admits it, a study ends readable, unless   *)
(* its files were changed by others, its attempts are used up, it died     *)
(* before its first publication or between its last two (progress.json is  *)
(* complete then, summary.json is not, and resume refuses), or an          *)
(* interrupt tore its report, which resume refuses as well.                *)
Excused ==
  \/ Tampered \/ runner # 0
  \/ made /\ progress = None
  \/ progress # None /\ progress.attempt = MaxAttempt
  \/ progress # None /\ progress.complete /\ summary # progress
  \/ progress # None /\ progress.torn
Finishes == <>[](ReadStudy \/ Excused)
=============================================================================
