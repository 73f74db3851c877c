------------------------ MODULE AblationStudy_proofs ------------------------
(* What a resumed study keeps, for any processes, variants, attempts and   *)
(* faults.                                                                 *)
EXTENDS AblationStudy, SequenceTheorems, TLAPS

(* A receipt of a variant, and a report.                                   *)
Entry == [by: Nat, stage: 0..Done, runner: Nat, tampered: {"no", "early", "late"}]
Report ==
  [status: {"running", "failed", "measured"}, complete: BOOLEAN, attempt: 1..MaxAttempt,
   runner: Nat, files: Seq(Entry), torn: BOOLEAN]

(* The places at which a process holds the lease.                          *)
Locked == {"begin", "loop", "variant", "ended", "published"}
Places == {"idle", "read", "built"} \cup Locked
Process == [pc: Places, saved: Report \cup {None}, report: Report \cup {None}]

TypeInv ==
  /\ made \in BOOLEAN
  /\ progress \in Report \cup {None} /\ summary \in Report \cup {None}
  /\ dirs \in [DOMAIN dirs -> Entry]
  /\ runner \in Nat /\ faults \in Nat
  /\ lease \in Owners \cup {Nobody}
  /\ proc \in [Owners -> Process]
  /\ \A o \in Owners : proc[o].pc # "idle" => proc[o].report \in Report

LockInv == \A o \in Owners : proc[o].pc \in Locked <=> lease = o

(* Until the first publication there is nothing on disk, and one process   *)
(* at most.                                                                *)
BirthInv ==
  /\ ~made => progress = None /\ \A o \in Owners : proc[o].pc = "idle"
  /\ progress = None =>
       /\ DOMAIN dirs = {} /\ summary = None
       /\ \A o, q \in Owners : proc[o].pc # "idle" /\ proc[q].pc # "idle" => o = q

(* A report that claims nothing, and one made from an interrupted one.     *)
Open(report) == report.status # "measured" /\ ~report.complete
Continues(report, saved) ==
  /\ report.files = saved.files /\ report.attempt = saved.attempt + 1
  /\ report.runner = saved.runner

(* A process without the lease.                                            *)
WaitInv ==
  \A o \in Owners : LET p == proc[o] IN
    /\ p.pc = "idle" => p.saved = None
    /\ p.pc = "read" => progress # None /\ p.saved # None /\ Open(p.saved) /\ Open(p.report)
    /\ p.pc = "built" => Open(p.report)
    /\ p.pc = "built" /\ p.saved = None => progress = None /\ p.report.files = <<>>
    /\ p.pc = "built" /\ p.saved # None =>
         progress # None /\ Open(p.saved) /\ Continues(p.report, p.saved)

(* The process with the lease: what its report has to do with the          *)
(* published one.                                                          *)
HoldInv ==
  \A o \in Owners : LET p == proc[o]  r == proc[o].report IN
    /\ p.pc \in Locked => p.saved = None
    /\ p.pc \in {"begin", "loop", "variant"} => Open(r)
    /\ p.pc \in {"begin", "ended"} /\ progress = None => r.files = <<>>
    /\ p.pc = "begin" /\ progress # None => Open(progress) /\ Continues(r, progress)
    /\ p.pc \in {"loop", "variant", "published"} => progress = r
    /\ p.pc = "ended" /\ progress # None =>
         /\ Open(progress) /\ r.files = progress.files /\ r.runner = progress.runner
         /\ progress.attempt <= r.attempt
    /\ p.pc = "variant" =>
         /\ Remaining(o) /\ Active(Current(o)) \in DOMAIN dirs
         /\ LET d == dirs[Active(Current(o))] IN d.stage = Done => d.runner = r.runner

(* The published receipts are those of finished variants, and whatever was *)
(* not tampered with is as it was.                                         *)
ReceiptInv ==
  progress # None =>
    /\ Len(progress.files) <= Variants
    /\ \A v \in 1..Len(progress.files) :
         /\ Active(v) \in DOMAIN dirs
         /\ progress.files[v].stage = Done
         /\ progress.files[v].runner = progress.runner
         /\ progress.files[v].tampered = "no"
         /\ dirs[Active(v)].tampered = "no" => dirs[Active(v)] = progress.files[v]
    /\ \A v \in 1..Variants :
         v > Len(progress.files) /\ Active(v) \in DOMAIN dirs => dirs[Active(v)].tampered = "no"

(* Archives are named by published attempts, and the attempt under way has *)
(* put aside at most what it found under the names it has come to.         *)
ArchiveInv ==
  /\ progress # None =>
       \A a \in 1..MaxAttempt, v \in 1..Variants :
         Interrupted(a, v) \in DOMAIN dirs => a <= progress.attempt
  /\ \A o \in Owners : proc[o].pc \in {"loop", "variant"} =>
       \A v \in 1..Variants : Interrupted(proc[o].report.attempt, v) \in DOMAIN dirs =>
         /\ v <= Current(o)
         /\ proc[o].pc = "loop" /\ v = Current(o) => Active(v) \notin DOMAIN dirs

(* A report that claims to be measured passed the last check.              *)
Final(report) ==
  /\ report.status = "measured" /\ report.complete /\ Len(report.files) = Variants
  /\ \A v \in 1..Variants : dirs[Active(v)].tampered # "early"

FinalInv ==
  /\ \A o \in Owners : proc[o].pc \in {"ended", "published"} =>
       Open(proc[o].report) \/ Final(proc[o].report)
  /\ progress # None => Open(progress) \/ Final(progress)
  /\ summary # None => Open(summary) \/ summary = progress

IInv ==
  TypeInv /\ LockInv /\ BirthInv /\ WaitInv /\ HoldInv /\ ReceiptInv /\ ArchiveInv /\ FinalInv

-----------------------------------------------------------------------------
LEMMA Sentinels ==
  /\ Nobody \notin Owners
  /\ None \notin Report
  /\ 1 \in 1..MaxAttempt /\ MaxAttempt \in Nat
BY StudyAssumption DEF Nobody, None, Report

(* Process o comes to pc with what it saved and its report, the others     *)
(* stay.                                                                   *)
Moves(o, pc, saved, report) ==
  /\ proc' \in [Owners -> Process]
  /\ proc'[o].pc = pc /\ proc'[o].saved = saved /\ proc'[o].report = report
  /\ \A q \in Owners \ {o} : proc'[q] = proc[q]

LEMMA GotoMoves ==
  ASSUME TypeInv, NEW o \in Owners, NEW pc \in Places, Goto(o, pc)
  PROVE  Moves(o, pc, proc[o].saved, proc[o].report)
BY DEF Goto, Moves, TypeInv, Process

LEMMA BecomesMoves ==
  ASSUME TypeInv, NEW o \in Owners, NEW pc \in Places, NEW report \in Report,
         Becomes(o, pc, report)
  PROVE  Moves(o, pc, proc[o].saved, report)
<1> DEFINE p == [proc[o] EXCEPT !.pc = pc, !.report = report]
<1>1. proc[o] \in Process
  BY DEF TypeInv
<1>2. p \in Process /\ p.pc = pc /\ p.saved = proc[o].saved /\ p.report = report
  <2> DEFINE s == proc[o]  t == p
  <2>1. s \in Process /\ t = [s EXCEPT !.pc = pc, !.report = report]
    BY <1>1
  <2> HIDE DEF s, t
  <2>2. t \in Process /\ t.pc = pc /\ t.saved = s.saved /\ t.report = report
    BY <2>1 DEF Process
  <2> QED BY <2>2 DEF s, t
<1>3. proc' = [proc EXCEPT ![o] = p]
  BY DEF Becomes, TypeInv
<1> HIDE DEF p
<1> QED BY <1>2, <1>3 DEF Moves, TypeInv

LEMMA ExitMoves ==
  ASSUME TypeInv, NEW o \in Owners, Exit(o)
  PROVE  Moves(o, "idle", None, None)
<1>1. Idle \in Process /\ Idle.pc = "idle" /\ Idle.saved = None /\ Idle.report = None
  BY DEF Idle, Process, Places
<1> HIDE DEF Idle
<1> QED BY <1>1 DEF Exit, Moves, TypeInv

(* Names of directories.                                                   *)
LEMMA NamesDiffer ==
  ASSUME NEW a, NEW b, NEW v, NEW w
  PROVE  /\ Active(v) = Active(w) => v = w
         /\ Interrupted(a, v) = Interrupted(b, w) => a = b /\ v = w
         /\ Active(v) # Interrupted(a, w)
BY DEF Active, Interrupted

-----------------------------------------------------------------------------
LEMMA InitIInv == Init => IInv
<1> SUFFICES ASSUME Init PROVE IInv
  OBVIOUS
<1>1. Idle \in Process /\ Idle.pc = "idle" /\ Idle.saved = None
  BY DEF Idle, Process, Places
<1>2. TypeInv /\ BirthInv /\ WaitInv
  BY <1>1 DEF Init, TypeInv, BirthInv, WaitInv
<1>3. LockInv /\ HoldInv /\ ReceiptInv /\ ArchiveInv /\ FinalInv
  BY <1>1, Sentinels DEF Init, LockInv, HoldInv, Locked, ReceiptInv, ArchiveInv, FinalInv
<1> QED BY <1>2, <1>3 DEF IInv

(* Leaving keeps the disk; the lease goes with its holder.                 *)
LEMMA LeaveIInv ==
  ASSUME IInv, NEW o \in Owners, Moves(o, "idle", None, None), Release(o),
         UNCHANGED <<made, progress, dirs, runner>>, faults' \in Nat, made,
         \/ UNCHANGED summary
         \/ summary' = progress /\ progress # None
  PROVE  IInv'
<1>1. proc'[o].pc = "idle" /\ proc'[o].saved = None
  BY DEF Moves
<1>2. /\ proc' \in [Owners -> Process]
      /\ \A q \in Owners \ {o} : proc'[q] = proc[q]
  BY DEF Moves
<1>3. TypeInv'
  BY <1>1, <1>2 DEF IInv, TypeInv, Release
<1>4. LockInv'
  BY <1>1, <1>2, Sentinels DEF IInv, LockInv, TypeInv, Release, Locked
<1>5. BirthInv'
  BY <1>1, <1>2 DEF IInv, BirthInv
<1>6. WaitInv'
  BY <1>1, <1>2 DEF IInv, WaitInv
<1>7. HoldInv'
  BY <1>1, <1>2 DEF IInv, HoldInv, Locked, Remaining, Current
<1>8. ReceiptInv'
  BY DEF IInv, ReceiptInv
<1>9. ArchiveInv'
  BY <1>1, <1>2 DEF IInv, ArchiveInv, Current
<1>10. FinalInv'
  BY <1>1, <1>2 DEF IInv, FinalInv, Final
<1> QED BY <1>3, <1>4, <1>5, <1>6, <1>7, <1>8, <1>9, <1>10 DEF IInv

(* A process comes to wait for the lease, with a report that claims         *)
(* nothing.                                                                *)
LEMMA WaitsIInv ==
  ASSUME IInv, NEW o \in Owners, NEW pc \in {"read", "built"}, NEW saved \in Report \cup {None},
         NEW report \in Report, Moves(o, pc, saved, report), proc[o].pc \notin Locked,
         UNCHANGED <<progress, summary, dirs, runner, lease, faults>>, made',
         progress = None => ~made \/ proc[o].pc # "idle",
         Open(report), pc = "read" => saved # None,
         saved = None => progress = None /\ report.files = <<>>,
         saved # None => progress # None /\ Open(saved),
         pc = "built" /\ saved # None => Continues(report, saved)
  PROVE  IInv'
<1>1. proc'[o].pc = pc /\ proc'[o].saved = saved /\ proc'[o].report = report
  BY DEF Moves
<1>2. /\ proc' \in [Owners -> Process]
      /\ \A q \in Owners \ {o} : proc'[q] = proc[q]
  BY DEF Moves
<1>3. TypeInv'
  BY <1>1, <1>2 DEF IInv, TypeInv
<1>4. LockInv'
  BY <1>1, <1>2 DEF IInv, LockInv, Locked
<1>5. BirthInv'
  BY <1>1, <1>2 DEF IInv, BirthInv
<1>6. WaitInv'
  BY <1>1, <1>2 DEF IInv, WaitInv
<1>7. HoldInv'
  BY <1>1, <1>2 DEF IInv, HoldInv, Locked, Remaining, Current
<1>8. ReceiptInv'
  BY DEF IInv, ReceiptInv
<1>9. ArchiveInv'
  BY <1>1, <1>2 DEF IInv, ArchiveInv, Current
<1>10. FinalInv'
  BY <1>1, <1>2 DEF IInv, FinalInv, Final
<1> QED BY <1>3, <1>4, <1>5, <1>6, <1>7, <1>8, <1>9, <1>10 DEF IInv

LEMMA NewReportOpen ==
  ASSUME TypeInv
  PROVE  NewReport \in Report /\ Open(NewReport) /\ NewReport.files = <<>>
BY Sentinels DEF TypeInv, NewReport, Report, Open

LEMMA NewStudyIInv ==
  ASSUME IInv, NEW o \in Owners, NewStudy(o)
  PROVE  IInv'
<1>1. NewReport \in Report /\ Open(NewReport) /\ NewReport.files = <<>>
  BY NewReportOpen DEF IInv
<1>2. Moves(o, "built", proc[o].saved, NewReport)
  BY <1>1, BecomesMoves DEF NewStudy, IInv, Places
<1>3. proc[o].saved = None /\ proc[o].pc \notin Locked /\ ~made /\ progress = None
  BY DEF NewStudy, IInv, WaitInv, BirthInv, Locked
<1>4. made' /\ UNCHANGED <<progress, summary, dirs, runner, lease, faults>>
  BY DEF NewStudy
<1> QED BY <1>1, <1>2, <1>3, <1>4, WaitsIInv

LEMMA ReadProgressIInv ==
  ASSUME IInv, NEW o \in Owners, ReadProgress(o)
  PROVE  IInv'
<1>1. NewReport \in Report /\ Open(NewReport)
  BY NewReportOpen DEF IInv
<1>2. progress \in Report /\ Open(progress) /\ progress # None
  BY DEF ReadProgress, Unfinished, IInv, TypeInv, Open
<1> DEFINE p == [pc |-> "read", saved |-> progress, report |-> NewReport]
<1>3. p \in Process /\ p.pc = "read" /\ p.saved = progress /\ p.report = NewReport
  BY <1>1, <1>2 DEF Process, Places
<1>4. proc' = [proc EXCEPT ![o] = p]
  BY DEF ReadProgress
<1> HIDE DEF p
<1>5. Moves(o, "read", progress, NewReport)
  BY <1>3, <1>4 DEF Moves, IInv, TypeInv
<1>6. /\ proc[o].pc \notin Locked /\ made /\ made'
      /\ UNCHANGED <<progress, summary, dirs, runner, lease, faults>>
  BY DEF ReadProgress, disk, Locked
<1> QED BY <1>1, <1>2, <1>5, <1>6, WaitsIInv

LEMMA StartedIsMade ==
  ASSUME IInv, NEW o \in Owners, proc[o].pc # "idle"
  PROVE  made
BY DEF IInv, BirthInv

LEMMA RestoreProgressIInv ==
  ASSUME IInv, NEW o \in Owners, RestoreProgress(o)
  PROVE  IInv'
<1> DEFINE saved == proc[o].saved  now == proc[o].report  r == Restored(now, saved)
<1>1. /\ proc[o].pc = "read" /\ made /\ UNCHANGED <<disk, runner, lease, faults>>
  BY StartedIsMade DEF RestoreProgress
<1>2. /\ saved \in Report /\ Open(saved) /\ now \in Report /\ Open(now)
      /\ progress # None /\ saved # None
  BY <1>1 DEF IInv, WaitInv, TypeInv, Process
<1>3. CASE Admissible(saved, now.runner) /\ Becomes(o, "built", r)
  <2>1. saved.attempt + 1 \in 1..MaxAttempt /\ saved.runner = now.runner
    BY <1>2, <1>3, Sentinels DEF Admissible, Report
  <2>2. r = [now EXCEPT !.files = saved.files, !.attempt = saved.attempt + 1]
    BY DEF Restored
  <2> HIDE DEF r, now, saved
  <2>3. /\ r \in Report /\ r.files = saved.files /\ r.attempt = saved.attempt + 1
        /\ r.runner = now.runner /\ r.status = now.status /\ r.complete = now.complete
    BY <1>2, <2>1, <2>2 DEF Report
  <2>4. Open(r) /\ Continues(r, saved)
    BY <1>2, <2>1, <2>3 DEF Open, Continues
  <2>5. Moves(o, "built", saved, r)
    BY <1>3, <2>3, BecomesMoves DEF IInv, Places, saved
  <2> QED BY <1>1, <1>2, <2>3, <2>4, <2>5, WaitsIInv DEF disk, Locked
<1>4. CASE Exit(o)
  <2>1. Release(o)
    BY <1>1 DEF Release, IInv, LockInv, Locked
  <2> QED BY <1>1, <1>4, <2>1, ExitMoves, LeaveIInv DEF IInv, TypeInv, disk
<1> QED BY <1>3, <1>4, Zenon DEF RestoreProgress

(* The lease is taken by one whose report goes on from the published one.  *)
LEMMA TakeLeaseIInv ==
  ASSUME IInv, NEW o \in Owners, TakeLease(o)
  PROVE  IInv'
<1> DEFINE r == proc[o].report
<1>1. /\ proc[o].pc = "built" /\ lease = Nobody /\ made
      /\ UNCHANGED <<made, progress, summary, dirs, runner, faults>>
  BY StartedIsMade DEF TakeLease, disk
<1>2. CASE /\ SameAsAdmitted(o) /\ lease' = o
           /\ proc' = [proc EXCEPT ![o].pc = "begin", ![o].saved = None]
  <2>1. Moves(o, "begin", None, r)
    <3> DEFINE p == [proc[o] EXCEPT !.pc = "begin", !.saved = None]
    <3>1. proc' = [proc EXCEPT ![o] = p]
      BY <1>2 DEF IInv, TypeInv
    <3>2. p \in Process /\ p.pc = "begin" /\ p.saved = None /\ p.report = r
      <4> DEFINE s == proc[o]  t == p
      <4>1. s \in Process /\ t = [s EXCEPT !.pc = "begin", !.saved = None]
        BY DEF IInv, TypeInv
      <4> HIDE DEF s, t
      <4>2. t \in Process /\ t.pc = "begin" /\ t.saved = None /\ t.report = s.report
        BY <4>1 DEF Process, Places, Locked
      <4> QED BY <4>2 DEF s, t
    <3> HIDE DEF p
    <3> QED BY <3>1, <3>2 DEF Moves, IInv, TypeInv
  <2>2. proc'[o].pc = "begin" /\ proc'[o].saved = None /\ proc'[o].report = r
    BY <2>1 DEF Moves
  <2>3. /\ proc' \in [Owners -> Process]
        /\ \A q \in Owners \ {o} : proc'[q] = proc[q]
    BY <2>1 DEF Moves
  <2>4. r \in Report /\ Open(r)
    BY <1>1 DEF IInv, WaitInv, TypeInv
  <2>5. /\ progress = None => r.files = <<>>
        /\ progress # None => Open(progress) /\ Continues(r, progress)
    BY <1>1, <1>2 DEF IInv, WaitInv, SameAsAdmitted
  <2> HIDE DEF r
  <2>6. TypeInv'
    BY <1>1, <1>2, <2>2, <2>3, <2>4 DEF IInv, TypeInv
  <2>7. LockInv'
    BY <1>1, <1>2, <2>2, <2>3, Sentinels DEF IInv, LockInv, Locked
  <2>8. BirthInv' /\ WaitInv'
    BY <1>1, <2>2, <2>3 DEF IInv, BirthInv, WaitInv
  <2>9. HoldInv'
    BY <1>1, <2>2, <2>3, <2>4, <2>5 DEF IInv, HoldInv, Remaining, Current
  <2>10. ReceiptInv' /\ ArchiveInv' /\ FinalInv'
    BY <1>1, <2>2, <2>3 DEF IInv, ReceiptInv, ArchiveInv, Current, FinalInv, Final
  <2> QED BY <2>6, <2>7, <2>8, <2>9, <2>10 DEF IInv
<1>3. CASE UNCHANGED lease /\ Exit(o)
  <2>1. Release(o)
    BY <1>1, <1>3 DEF Release, IInv, LockInv, Locked
  <2> QED BY <1>1, <1>3, <2>1, ExitMoves, LeaveIInv DEF IInv, TypeInv
<1> QED BY <1>2, <1>3, Zenon DEF TakeLease

-----------------------------------------------------------------------------
(* The steps of the process that holds the lease.                          *)

LEMMA OneHolder ==
  ASSUME IInv, NEW o \in Owners, proc[o].pc \in Locked
  PROVE  /\ lease = o /\ made /\ proc[o].report \in Report /\ proc[o].saved = None
         /\ \A q \in Owners \ {o} : proc[q].pc \notin Locked
<1>1. lease = o /\ proc[o].pc # "idle" /\ proc[o].saved = None
  BY DEF IInv, LockInv, HoldInv, Locked
<1>2. \A q \in Owners \ {o} : proc[q].pc \notin Locked
  BY <1>1 DEF IInv, LockInv
<1>3. made /\ proc[o].report \in Report
  BY <1>1, StartedIsMade DEF IInv, TypeInv
<1> QED BY <1>1, <1>2, <1>3

(* The holder publishes its report: whoever waits, waits for another one.   *)
LEMMA WaitKept ==
  ASSUME IInv, NEW o \in Owners, proc[o].pc \in Locked,
         NEW pc \in Locked, NEW report, Moves(o, pc, None, report), progress' # None
  PROVE  WaitInv'
<1>1. proc'[o].pc \in Locked /\ \A q \in Owners \ {o} : proc'[q] = proc[q]
  BY DEF Moves
<1>2. progress = None => \A q \in Owners \ {o} : proc[q].pc = "idle"
  BY DEF IInv, BirthInv, Locked
<1>3. \A q \in Owners \ {o} : proc[q].pc = "built" => proc[q].saved # None
  BY <1>2 DEF IInv, WaitInv
<1> QED BY <1>1, <1>2, <1>3 DEF IInv, WaitInv, Locked

LEMMA BeginIInv ==
  ASSUME IInv, NEW o \in Owners, Begin(o)
  PROVE  IInv'
<1> DEFINE r == proc[o].report
<1>1. /\ proc[o].pc = "begin" /\ progress' = r
      /\ UNCHANGED <<made, summary, dirs, runner, lease, faults>>
  BY DEF Begin
<1>2. /\ lease = o /\ made /\ r \in Report /\ proc[o].saved = None /\ Open(r)
      /\ \A q \in Owners \ {o} : proc[q].pc \notin Locked
  <2>1. Open(r)
    BY <1>1 DEF IInv, HoldInv
  <2> QED BY <1>1, <2>1, OneHolder DEF Locked
<1>3. /\ progress = None => r.files = <<>>
      /\ progress # None => Open(progress) /\ Continues(r, progress)
  BY <1>1 DEF IInv, HoldInv
<1>4. Moves(o, "loop", None, r)
  BY <1>2, GotoMoves DEF Begin, IInv, Places, Locked
<1>5. proc'[o].pc = "loop" /\ proc'[o].saved = None /\ proc'[o].report = r
  BY <1>4 DEF Moves
<1>6. /\ proc' \in [Owners -> Process]
      /\ \A q \in Owners \ {o} : proc'[q] = proc[q]
  BY <1>4 DEF Moves
<1>7. progress' # None /\ r # None
  BY <1>1, <1>2, Sentinels
<1> HIDE DEF r
<1>8. TypeInv' /\ LockInv' /\ BirthInv'
  BY <1>1, <1>2, <1>5, <1>6, <1>7 DEF IInv, TypeInv, LockInv, BirthInv, Locked
<1>9. WaitInv'
  BY <1>1, <1>4, <1>7, WaitKept DEF Locked
<1>10. HoldInv'
  BY <1>1, <1>2, <1>5, <1>6 DEF HoldInv, Locked
<1>11. ReceiptInv'
  <2>1. CASE progress = None
    BY <1>1, <1>3, <2>1, StudyAssumption DEF ReceiptInv, IInv, BirthInv
  <2>2. CASE progress # None
    BY <1>1, <1>3, <2>2 DEF ReceiptInv, IInv, Continues
  <2> QED BY <2>1, <2>2
<1>12. ArchiveInv'
  <2>1. \A a \in 1..MaxAttempt, v \in 1..Variants :
          Interrupted(a, v) \in DOMAIN dirs => a < r.attempt
    <3>1. CASE progress = None
      BY <3>1 DEF IInv, BirthInv
    <3>2. CASE progress # None
      <4>1. progress \in Report /\ progress.attempt \in Nat /\ r.attempt = progress.attempt + 1
        BY <1>3, <3>2, Sentinels DEF IInv, TypeInv, Report, Continues
      <4> QED BY <3>2, <4>1 DEF IInv, ArchiveInv
    <3> QED BY <3>1, <3>2
  <2>2. r.attempt \in 1..MaxAttempt
    BY <1>2 DEF Report
  <2> QED BY <1>1, <1>2, <1>5, <1>6, <2>1, <2>2, Sentinels DEF ArchiveInv, Locked
<1>13. FinalInv'
  <2>1. summary # None => Open(summary)
    BY <1>3 DEF IInv, FinalInv, BirthInv
  <2>2. \A q \in Owners : proc'[q].pc \notin {"ended", "published"}
    BY <1>2, <1>5, <1>6 DEF Locked
  <2> QED BY <1>1, <1>2, <2>1, <2>2 DEF FinalInv
<1> QED BY <1>8, <1>9, <1>10, <1>11, <1>12, <1>13 DEF IInv

(* In the loop and within a variant the published report is one's own, and *)
(* nothing of the study is final.                                          *)
LEMMA Working ==
  ASSUME IInv, NEW o \in Owners, proc[o].pc \in {"loop", "variant"}
  PROVE  /\ proc[o].report \in Report /\ proc[o].report # None
         /\ progress = proc[o].report /\ Open(progress)
         /\ lease = o /\ made /\ proc[o].saved = None
         /\ Len(progress.files) \in Nat /\ Current(o) = Len(progress.files) + 1
         /\ summary # None => Open(summary)
         /\ \A q \in Owners \ {o} : proc[q].pc \notin Locked
<1>1. proc[o].pc \in Locked
  BY DEF Locked
<1>2. progress = proc[o].report /\ Open(progress)
  BY DEF IInv, HoldInv
<1>3. proc[o].report \in Report
  BY <1>1, OneHolder
<1>4. Len(progress.files) \in Nat
  BY <1>2, <1>3 DEF Report
<1>5. summary # None => Open(summary)
  BY <1>2 DEF IInv, FinalInv
<1> QED BY <1>1, <1>2, <1>3, <1>4, <1>5, OneHolder, Sentinels DEF Current

Entries(f) == f \in [DOMAIN f -> Entry]

(* A step within a variant or between two changes the directories only.    *)
LEMMA DirsOnly ==
  ASSUME IInv, NEW o \in Owners, proc[o].pc \in {"loop", "variant"},
         NEW pc \in {"loop", "variant"}, Moves(o, pc, None, proc[o].report), Entries(dirs'),
         UNCHANGED <<made, progress, summary, runner, lease, faults>>
  PROVE  /\ TypeInv' /\ LockInv' /\ BirthInv' /\ WaitInv' /\ FinalInv'
         /\ (HoldInv' <=> (pc = "variant" =>
               /\ Remaining(o) /\ Active(Current(o)) \in DOMAIN dirs'
               /\ LET d == dirs'[Active(Current(o))]
                  IN d.stage = Done => d.runner = proc[o].report.runner))
<1>1. /\ proc' \in [Owners -> Process] /\ proc'[o].pc = pc
      /\ proc'[o].saved = None /\ proc'[o].report = proc[o].report
      /\ \A q \in Owners \ {o} : proc'[q] = proc[q]
  BY DEF Moves
<1>2. /\ proc[o].report \in Report /\ progress = proc[o].report /\ Open(progress)
      /\ progress # None /\ made
      /\ summary # None => Open(summary)
      /\ lease = o /\ \A q \in Owners \ {o} : proc[q].pc \notin Locked
  BY Working
<1>3. TypeInv'
  BY <1>1, <1>2 DEF IInv, TypeInv, Entries
<1>4. LockInv' /\ BirthInv'
  <2>1. pc \in Locked /\ proc[o].pc \in Locked /\ proc'[o].pc \in Locked
    BY <1>1 DEF Locked
  <2> QED BY <1>1, <1>2, <2>1 DEF IInv, LockInv, BirthInv
<1>5. WaitInv'
  <2>1. proc[o].pc \in Locked /\ pc \in Locked
    BY DEF Locked
  <2> QED BY <1>2, <2>1, WaitKept
<1>6. FinalInv'
  <2>1. \A q \in Owners : proc'[q].pc \notin {"ended", "published"}
    BY <1>1, <1>2 DEF Locked
  <2>2. Open(progress)' /\ (summary' # None => Open(summary)')
    BY <1>2 DEF Open
  <2> QED BY <2>1, <2>2 DEF FinalInv
<1>7. Remaining(o)' = Remaining(o) /\ Current(o)' = Current(o)
  BY <1>1 DEF Remaining, Current
<1>8. HoldInv' <=> (pc = "variant" =>
               /\ Remaining(o) /\ Active(Current(o)) \in DOMAIN dirs'
               /\ LET d == dirs'[Active(Current(o))]
                  IN d.stage = Done => d.runner = proc[o].report.runner)
  BY <1>1, <1>2, <1>7 DEF HoldInv, Locked
<1> QED BY <1>3, <1>4, <1>5, <1>6, <1>8

(* What the directories hold next is a question of what they are called.   *)
LEMMA SetAsideIInv ==
  ASSUME IInv, NEW o \in Owners, SetAside(o)
  PROVE  IInv'
<1> DEFINE n == Current(o)  old == Active(n)  kept == Archive(o)  r == proc[o].report
<1>1. /\ proc[o].pc = "loop" /\ Remaining(o) /\ old \in DOMAIN dirs /\ kept \notin DOMAIN dirs
      /\ UNCHANGED <<made, progress, summary, runner, lease, proc, faults>>
  BY DEF SetAside
<1>2. /\ DOMAIN dirs' = (DOMAIN dirs \ {old}) \cup {kept} /\ dirs'[kept] = dirs[old]
      /\ \A y \in DOMAIN dirs \ {old} : dirs'[y] = dirs[y]
      /\ Entries(dirs')
  <2> HIDE DEF n, old, kept
  <2>1. dirs' = [y \in (DOMAIN dirs \ {old}) \cup {kept} |->
                   IF y = kept THEN dirs[old] ELSE Without(dirs, old)[y]]
    BY DEF SetAside, With, Without, n, old, kept
  <2>2. \A y \in DOMAIN dirs \ {old} : dirs'[y] = dirs[y]
    BY <1>1, <2>1 DEF Without
  <2>3. dirs'[kept] = dirs[old] /\ DOMAIN dirs' = (DOMAIN dirs \ {old}) \cup {kept}
    BY <2>1
  <2>4. \A y \in DOMAIN dirs' : dirs'[y] \in Entry
    BY <1>1, <2>2, <2>3 DEF IInv, TypeInv
  <2> QED BY <2>1, <2>2, <2>3, <2>4 DEF Entries
<1>3. Moves(o, "loop", None, r)
  BY <1>1, Working DEF IInv, TypeInv, Moves
<1>4. TypeInv' /\ LockInv' /\ BirthInv' /\ WaitInv' /\ FinalInv' /\ HoldInv'
  BY <1>1, <1>2, <1>3, DirsOnly
<1>5. /\ progress = r /\ n = Len(progress.files) + 1 /\ Len(progress.files) \in Nat
      /\ r \in Report /\ kept = Interrupted(r.attempt, n) /\ n <= Variants
      /\ \A q \in Owners \ {o} : proc[q].pc \notin {"loop", "variant"}
  BY <1>1, Working DEF Archive, Remaining, Locked
<1> HIDE DEF r
<1>6. \A v : /\ Active(v) # kept
             /\ Active(v) \in DOMAIN dirs' => v # n /\ Active(v) \in DOMAIN dirs
             /\ Active(v) \in DOMAIN dirs /\ v # n =>
                  Active(v) \in DOMAIN dirs' /\ dirs'[Active(v)] = dirs[Active(v)]
  BY <1>2, <1>5, NamesDiffer
<1>7. ReceiptInv'
  BY <1>1, <1>5, <1>6 DEF IInv, ReceiptInv
<1>8. \A a, v : Interrupted(a, v) \in DOMAIN dirs' =>
        Interrupted(a, v) \in DOMAIN dirs \/ (a = r.attempt /\ v = n)
  BY <1>2, <1>5, NamesDiffer
<1>9. ArchiveInv'
  <2>1. \A a \in 1..MaxAttempt, v \in 1..Variants :
          Interrupted(a, v) \in DOMAIN dirs' => a <= progress.attempt
    BY <1>1, <1>5, <1>8, Sentinels DEF IInv, ArchiveInv, Report
  <2>2. \A v \in 1..Variants : Interrupted(r.attempt, v) \in DOMAIN dirs' =>
          v <= n /\ (v = n => Active(v) \notin DOMAIN dirs')
    BY <1>1, <1>5, <1>6, <1>8 DEF IInv, ArchiveInv, r
  <2>3. Current(o)' = n
    BY <1>1 DEF Current
  <2> HIDE DEF n, old, kept
  <2> QED BY <1>1, <1>5, <2>1, <2>2, <2>3 DEF ArchiveInv, r
<1> QED BY <1>4, <1>7, <1>9 DEF IInv

LEMMA StartVariantIInv ==
  ASSUME IInv, NEW o \in Owners, StartVariant(o)
  PROVE  IInv'
<1> DEFINE n == Current(o)  new == Active(n)  r == proc[o].report
           d == [by |-> r.attempt, stage |-> 0, runner |-> r.runner, tampered |-> "no"]
<1>1. /\ proc[o].pc = "loop" /\ Remaining(o) /\ new \notin DOMAIN dirs
      /\ UNCHANGED <<made, progress, summary, runner, lease, faults>>
  BY DEF StartVariant
<1>2. /\ progress = r /\ n = Len(progress.files) + 1 /\ Len(progress.files) \in Nat
      /\ r \in Report /\ n <= Variants /\ proc[o].saved = None
      /\ \A q \in Owners \ {o} : proc[q].pc \notin Locked
  BY <1>1, Working DEF Remaining
<1>3. d \in Entry /\ d.stage = 0 /\ d.tampered = "no"
  BY <1>2, StudyAssumption DEF Entry, Report, Done, Stages
<1>4. Moves(o, "variant", None, r)
  BY <1>2, GotoMoves DEF StartVariant, IInv, Places, Locked
<1> HIDE DEF d
<1>5. /\ DOMAIN dirs' = DOMAIN dirs \cup {new} /\ dirs'[new] = d
      /\ \A y \in DOMAIN dirs : dirs'[y] = dirs[y]
      /\ Entries(dirs')
  <2> HIDE DEF n, new, r
  <2>1. dirs' = [y \in DOMAIN dirs \cup {new} |-> IF y = new THEN d ELSE dirs[y]]
    BY DEF StartVariant, With, n, new, r, d
  <2>2. \A y \in DOMAIN dirs' : dirs'[y] \in Entry
    BY <1>3, <2>1 DEF IInv, TypeInv
  <2> QED BY <1>1, <2>1, <2>2 DEF Entries
<1>6. TypeInv' /\ LockInv' /\ BirthInv' /\ WaitInv' /\ FinalInv' /\ HoldInv'
  <2>1. 0 # Done
    BY DEF Done, Stages
  <2>2. Active(Current(o)) \in DOMAIN dirs' /\ dirs'[Active(Current(o))].stage # Done
    BY <1>3, <1>5, <2>1
  <2> QED BY <1>1, <1>4, <1>5, <2>2, DirsOnly
<1>7. proc'[o].pc = "variant" /\ proc'[o].report = r
      /\ \A q \in Owners \ {o} : proc'[q] = proc[q]
  BY <1>4 DEF Moves
<1> HIDE DEF r
<1>8. \A v : Active(v) \in DOMAIN dirs' =>
        (v = n /\ dirs'[Active(v)] = d)
          \/ (Active(v) \in DOMAIN dirs /\ dirs'[Active(v)] = dirs[Active(v)])
  BY <1>5, NamesDiffer
<1>9. ReceiptInv'
  BY <1>1, <1>2, <1>3, <1>5, <1>8 DEF IInv, ReceiptInv
<1>10. \A a, v : Interrupted(a, v) \in DOMAIN dirs' => Interrupted(a, v) \in DOMAIN dirs
  BY <1>5, NamesDiffer
<1>11. ArchiveInv'
  <2>1. Current(o)' = n
    BY <1>7 DEF Current, r
  <2>2. \A v \in 1..Variants : Interrupted(r.attempt, v) \in DOMAIN dirs' => v <= n
    BY <1>1, <1>10 DEF IInv, ArchiveInv, r
  <2> HIDE DEF n, new
  <2> QED BY <1>1, <1>2, <1>7, <1>10, <2>1, <2>2 DEF IInv, ArchiveInv, Locked
<1> QED BY <1>6, <1>9, <1>11 DEF IInv

(* A finished stage of the current variant changes no receipt; the last    *)
(* one is run by the runner the report names.                              *)
LEMMA StageIInv ==
  ASSUME IInv, NEW o \in Owners, Stage(o)
  PROVE  IInv'
<1> DEFINE n == Current(o)  new == Active(n)  r == proc[o].report
<1>1. /\ proc[o].pc = "variant" /\ dirs[new].stage < Done /\ ~RunnerChanged(o)
      /\ dirs' = [dirs EXCEPT ![new].stage = @ + 1, ![new].runner = runner]
      /\ UNCHANGED <<made, progress, summary, runner, lease, proc, faults>>
  BY DEF Stage
<1>2. /\ progress = r /\ n = Len(progress.files) + 1 /\ Len(progress.files) \in Nat
      /\ r \in Report /\ proc[o].saved = None
      /\ \A q \in Owners \ {o} : proc[q].pc \notin Locked
  BY <1>1, Working
<1>3. /\ n <= Variants /\ new \in DOMAIN dirs /\ dirs[new] \in Entry
  BY <1>1 DEF IInv, HoldInv, TypeInv, Remaining
<1> DEFINE e == dirs[new]  d == [e EXCEPT !.stage = e.stage + 1, !.runner = runner]
<1>4. dirs' = [dirs EXCEPT ![new] = d]
  BY <1>1, <1>3 DEF IInv, TypeInv
<1>5. /\ d \in Entry /\ d.tampered = e.tampered /\ d.stage = e.stage + 1 /\ d.runner = runner
  <2> DEFINE t == d
  <2>1. e \in Entry /\ t = [e EXCEPT !.stage = e.stage + 1, !.runner = runner]
        /\ e.stage < Done
    BY <1>1, <1>3
  <2>2. runner \in Nat /\ Done \in Nat
    BY DEF IInv, TypeInv, Done, Stages
  <2> HIDE DEF e, t
  <2>3. e.stage + 1 \in 0..Done
    BY <2>1, <2>2 DEF Entry
  <2>4. /\ t \in Entry /\ t.tampered = e.tampered /\ t.stage = e.stage + 1 /\ t.runner = runner
    BY <2>1, <2>2, <2>3 DEF Entry
  <2> QED BY <2>4 DEF t
<1> HIDE DEF d
<1>6. /\ DOMAIN dirs' = DOMAIN dirs /\ dirs'[new] = d
      /\ \A y \in DOMAIN dirs \ {new} : dirs'[y] = dirs[y]
      /\ Entries(dirs')
  BY <1>3, <1>4, <1>5 DEF IInv, TypeInv, Entries
<1>7. d.stage = Done => d.runner = r.runner
  <2>1. Done = 3 /\ Native = {1, 3}
    BY DEF Done, Stages, Native
  <2> QED BY <1>1, <1>5, <2>1 DEF RunnerChanged
<1>8. Moves(o, "variant", None, r)
  BY <1>1, <1>2 DEF IInv, TypeInv, Moves
<1>9. TypeInv' /\ LockInv' /\ BirthInv' /\ WaitInv' /\ FinalInv' /\ HoldInv'
  <2>1. Remaining(o)
    BY <1>1 DEF IInv, HoldInv
  <2> HIDE DEF e
  <2> QED BY <1>1, <1>3, <1>6, <1>7, <1>8, <2>1, DirsOnly
<1> HIDE DEF r
<1>10. \A v : Active(v) \in DOMAIN dirs /\ v # n => dirs'[Active(v)] = dirs[Active(v)]
  BY <1>6, NamesDiffer
<1>11. ReceiptInv'
  <2>1. n > Len(progress.files) /\ \A v \in 1..Len(progress.files) : v # n
    BY <1>2
  <2>2. progress # None => dirs'[Active(n)].tampered = "no"
    <3>1. progress # None => dirs[Active(n)].tampered = "no"
      BY <1>2, <1>3, <2>1 DEF IInv, ReceiptInv
    <3> QED BY <1>5, <1>6, <3>1
  <2> HIDE DEF n
  <2> QED BY <1>1, <1>6, <1>10, <2>1, <2>2 DEF IInv, ReceiptInv
<1>12. ArchiveInv'
  <2>1. \A q \in Owners : Current(q)' = Current(q)
    BY <1>1 DEF Current
  <2> QED BY <1>1, <1>6, <2>1 DEF IInv, ArchiveInv
<1> QED BY <1>9, <1>11, <1>12 DEF IInv

(* A commit appends the receipt of a finished variant to those published.  *)
LEMMA CommitEffect ==
  ASSUME IInv, NEW o \in Owners, Commit(o)
  PROVE  LET n == Len(progress.files) + 1  d == dirs[Active(n)] IN
         /\ proc[o].pc = "variant" /\ Moves(o, "loop", None, progress')
         /\ UNCHANGED <<made, summary, dirs, runner, lease, faults>>
         /\ n \in Nat /\ n <= Variants /\ n = Current(o) /\ Active(n) \in DOMAIN dirs
         /\ d.stage = Done /\ d.runner = progress.runner /\ d.tampered = "no"
         /\ progress' \in Report /\ Open(progress')
         /\ progress'.runner = progress.runner /\ progress'.attempt = progress.attempt
         /\ Len(progress'.files) = n /\ progress'.files[n] = d
         /\ \A v \in 1..Len(progress.files) : progress'.files[v] = progress.files[v]
<1> DEFINE n == Len(progress.files) + 1  d == dirs[Active(n)]  r == proc[o].report
           t == [r EXCEPT !.files = Append(r.files, d)]
<1>1. /\ proc[o].pc = "variant" /\ UNCHANGED <<made, summary, dirs, runner, lease, faults>>
  BY DEF Commit
<1>2. /\ progress = r /\ Open(progress) /\ n = Current(o) /\ r \in Report /\ n \in Nat
      /\ r # None /\ proc[o].saved = None
  BY <1>1, Working
<1>3. /\ Remaining(o) /\ n <= Variants /\ Active(n) \in DOMAIN dirs /\ d \in Entry
      /\ d.stage = Done /\ d.runner = progress.runner
  <2>1. Remaining(o) /\ Active(n) \in DOMAIN dirs
    BY <1>1, <1>2 DEF IInv, HoldInv
  <2>2. d.stage = Done
    BY <1>2 DEF Commit
  <2>3. d.runner = r.runner
    BY <1>1, <1>2, <2>2 DEF IInv, HoldInv
  <2> QED BY <1>2, <2>1, <2>2, <2>3 DEF IInv, TypeInv, Remaining
<1>4. d.tampered = "no"
  <2>1. n \in 1..Variants /\ n > Len(progress.files)
    BY <1>2, <1>3 DEF Report
  <2> QED BY <1>2, <1>3, <2>1 DEF IInv, ReceiptInv
<1>5. progress' = t /\ Becomes(o, "loop", t)
  BY <1>2, Zenon DEF Commit
<1> HIDE DEF d, r
<1>6. /\ r.files \in Seq(Entry) /\ Append(r.files, d) \in Seq(Entry)
      /\ Len(Append(r.files, d)) = n /\ Append(r.files, d)[n] = d
      /\ \A v \in 1..Len(progress.files) : Append(r.files, d)[v] = progress.files[v]
  <2>1. r.files \in Seq(Entry)
    BY <1>2 DEF Report
  <2> QED BY <1>2, <1>3, <2>1, AppendProperties
<1>7. /\ t \in Report /\ t.files = Append(r.files, d) /\ t.runner = r.runner
      /\ t.attempt = r.attempt /\ t.status = r.status /\ t.complete = r.complete
  <2> DEFINE fs == Append(r.files, d)
  <2> HIDE DEF fs
  <2>1. fs \in Seq(Entry)
    BY <1>6 DEF fs
  <2>2. LET u == [r EXCEPT !.files = fs] IN
        /\ u \in Report /\ u.files = fs /\ u.runner = r.runner
        /\ u.attempt = r.attempt /\ u.status = r.status /\ u.complete = r.complete
    BY <1>2, <2>1 DEF Report
  <2> QED BY <2>2 DEF fs
<1> HIDE DEF t
<1>8. Moves(o, "loop", None, t)
  BY <1>2, <1>5, <1>7, BecomesMoves DEF IInv, Places, Locked
<1>9. Open(t)
  BY <1>2, <1>7 DEF Open
<1> HIDE DEF n
<1> QED BY <1>1, <1>2, <1>3, <1>4, <1>5, <1>6, <1>7, <1>8, <1>9 DEF n, d

LEMMA CommitIInv ==
  ASSUME IInv, NEW o \in Owners, Commit(o)
  PROVE  IInv'
<1> DEFINE n == Len(progress.files) + 1  d == dirs[Active(n)]  t == progress'
<1>1. /\ proc[o].pc = "variant" /\ Moves(o, "loop", None, t)
      /\ UNCHANGED <<made, summary, dirs, runner, lease, faults>>
      /\ n \in Nat /\ n <= Variants /\ n = Current(o) /\ Active(n) \in DOMAIN dirs
      /\ d.stage = Done /\ d.runner = progress.runner /\ d.tampered = "no"
      /\ t \in Report /\ Open(t)
      /\ t.runner = progress.runner /\ t.attempt = progress.attempt
      /\ Len(t.files) = n /\ t.files[n] = d
      /\ \A v \in 1..Len(progress.files) : t.files[v] = progress.files[v]
  BY CommitEffect
<1>2. /\ progress = proc[o].report /\ progress # None /\ made /\ lease = o
      /\ Len(progress.files) \in Nat
      /\ summary # None => Open(summary)
      /\ \A q \in Owners \ {o} : proc[q].pc \notin Locked
  BY <1>1, Working
<1>3. /\ proc' \in [Owners -> Process] /\ proc'[o].pc = "loop"
      /\ proc'[o].saved = None /\ proc'[o].report = t
      /\ \A q \in Owners \ {o} : proc'[q] = proc[q]
  BY <1>1 DEF Moves
<1>4. t # None
  BY <1>1, Sentinels
<1>5. TypeInv' /\ LockInv' /\ BirthInv'
  BY <1>1, <1>2, <1>3, <1>4 DEF IInv, TypeInv, LockInv, BirthInv, Locked
<1>6. WaitInv'
  BY <1>1, <1>4, WaitKept DEF Locked
<1>7. HoldInv'
  BY <1>1, <1>2, <1>3, <1>4 DEF HoldInv, Locked
<1>8. ReceiptInv'
  <2>1. \A v \in 1..Len(t.files) :
          /\ Active(v) \in DOMAIN dirs /\ t.files[v].stage = Done
          /\ t.files[v].runner = t.runner /\ t.files[v].tampered = "no"
          /\ dirs[Active(v)].tampered = "no" => dirs[Active(v)] = t.files[v]
    <3> TAKE v \in 1..Len(t.files)
    <3>1. CASE v = n
      BY <1>1, <3>1
    <3>2. CASE v \in 1..Len(progress.files)
      <4>1. /\ Active(v) \in DOMAIN dirs /\ progress.files[v].stage = Done
            /\ progress.files[v].runner = progress.runner
            /\ progress.files[v].tampered = "no"
            /\ dirs[Active(v)].tampered = "no" => dirs[Active(v)] = progress.files[v]
        BY <1>2, <3>2 DEF IInv, ReceiptInv
      <4>2. t.files[v] = progress.files[v] /\ t.runner = progress.runner
        BY <1>1, <3>2
      <4> QED BY <4>1, <4>2
    <3>3. v = n \/ v \in 1..Len(progress.files)
      BY <1>1, <1>2
    <3> HIDE DEF n
    <3> QED BY <3>1, <3>2, <3>3
  <2>2. \A v \in 1..Variants : v > n /\ Active(v) \in DOMAIN dirs =>
          dirs[Active(v)].tampered = "no"
    BY <1>2 DEF IInv, ReceiptInv
  <2> HIDE DEF n
  <2> QED BY <1>1, <2>1, <2>2 DEF ReceiptInv
<1>9. ArchiveInv'
  <2>1. \A v \in 1..Variants : Interrupted(progress.attempt, v) \in DOMAIN dirs => v <= n
    BY <1>1, <1>2 DEF IInv, ArchiveInv
  <2>2. Current(o)' = n + 1
    BY <1>1, <1>3 DEF Current
  <2>3. \A v \in 1..Variants : v <= n => v <= n + 1 /\ v # n + 1
    BY <1>1
  <2> HIDE DEF n
  <2> QED BY <1>1, <1>2, <1>3, <2>1, <2>2, <2>3 DEF IInv, ArchiveInv, Locked
<1>10. FinalInv'
  <2>1. \A q \in Owners : proc'[q].pc \notin {"ended", "published"}
    BY <1>2, <1>3 DEF Locked
  <2>2. Open(progress') /\ (summary' # None => Open(summary'))
    BY <1>1, <1>2
  <2> QED BY <2>1, <2>2 DEF FinalInv
<1> QED BY <1>5, <1>6, <1>7, <1>8, <1>9, <1>10 DEF IInv

(* The try block is left, with a report that claims nothing or a final one. *)
LEMMA EndIInv ==
  ASSUME IInv, NEW o \in Owners, proc[o].pc \in {"begin", "loop", "variant"}, NEW report \in Report,
         Moves(o, "ended", None, report), UNCHANGED <<disk, runner, lease>>, faults' \in Nat,
         report.files = proc[o].report.files, report.runner = proc[o].report.runner,
         report.attempt = proc[o].report.attempt, Open(report) \/ Final(report)
  PROVE  IInv'
<1> DEFINE r == proc[o].report
<1>1. /\ proc' \in [Owners -> Process] /\ proc'[o].pc = "ended"
      /\ proc'[o].saved = None /\ proc'[o].report = report
      /\ \A q \in Owners \ {o} : proc'[q] = proc[q]
  BY DEF Moves
<1>2. /\ lease = o /\ made /\ r \in Report /\ proc[o].saved = None
      /\ \A q \in Owners \ {o} : proc[q].pc \notin Locked
  BY OneHolder DEF Locked
<1>3. UNCHANGED <<made, progress, summary, dirs, runner, lease>>
  BY DEF disk
<1>4. TypeInv' /\ LockInv' /\ BirthInv'
  BY <1>1, <1>2, <1>3 DEF IInv, TypeInv, LockInv, BirthInv, Locked
<1>5. WaitInv'
  BY <1>1, <1>3 DEF IInv, WaitInv
<1>6. HoldInv'
  <2>1. progress = None => report.files = <<>>
    BY Working DEF IInv, HoldInv
  <2>2. progress # None =>
          /\ Open(progress) /\ report.files = progress.files
          /\ report.runner = progress.runner /\ progress.attempt <= report.attempt
    <3>1. CASE proc[o].pc = "begin" /\ progress # None
      BY <3>1 DEF IInv, HoldInv, Continues, TypeInv, Report
    <3>2. CASE proc[o].pc \in {"loop", "variant"}
      BY <3>2, Working DEF Report
    <3> QED BY <3>1, <3>2
  <2> QED BY <1>1, <1>2, <1>3, <2>1, <2>2 DEF HoldInv, Locked
<1>7. ReceiptInv' /\ ArchiveInv'
  BY <1>1, <1>2, <1>3 DEF IInv, ReceiptInv, ArchiveInv, Current, Locked
<1>8. FinalInv'
  BY <1>1, <1>2, <1>3 DEF IInv, FinalInv, Final, Locked
<1> QED BY <1>4, <1>5, <1>6, <1>7, <1>8 DEF IInv

LEMMA ConcludeIInv ==
  ASSUME IInv, NEW o \in Owners, Conclude(o)
  PROVE  IInv'
<1> DEFINE r == proc[o].report
<1>1. /\ proc[o].pc = "loop" /\ ~Remaining(o) /\ UNCHANGED <<disk, runner, lease, faults>>
  BY DEF Conclude
<1>2. /\ r \in Report /\ progress = r /\ progress # None /\ proc[o].saved = None
      /\ Len(r.files) \in Nat /\ Current(o) = Len(r.files) + 1
  BY <1>1, Working
<1>3. PICK report \in {Measured(r), Failed(r)} :
        Becomes(o, "ended", report) /\ (report = Measured(r) => Intact(r))
  <2>1. CASE Intact(r)
    BY <2>1, Zenon DEF Conclude, Checked
  <2>2. CASE ~Intact(r)
    <3>1. Becomes(o, "ended", Failed(r))
      BY <2>2, Zenon DEF Conclude, Checked
    <3>2. Measured(r) # Failed(r)
      BY <1>2 DEF Measured, Failed, Report
    <3> QED BY <3>1, <3>2
  <2> QED BY <2>1, <2>2
<1>4. /\ report \in Report /\ report.files = r.files /\ report.runner = r.runner
      /\ report.attempt = r.attempt
      /\ report = Measured(r) => report.status = "measured" /\ report.complete
      /\ report = Failed(r) => report.status = "failed" /\ report.complete = r.complete
  <2>1. /\ Measured(r) \in Report /\ Measured(r).files = r.files /\ Measured(r).runner = r.runner
        /\ Measured(r).attempt = r.attempt /\ Measured(r).status = "measured"
        /\ Measured(r).complete
    BY <1>2 DEF Measured, Report
  <2>2. /\ Failed(r) \in Report /\ Failed(r).files = r.files /\ Failed(r).runner = r.runner
        /\ Failed(r).attempt = r.attempt /\ Failed(r).status = "failed"
        /\ Failed(r).complete = r.complete
    BY <1>2 DEF Failed, Report
  <2> QED BY <2>1, <2>2
<1>5. Moves(o, "ended", None, report)
  BY <1>2, <1>3, <1>4, BecomesMoves DEF IInv, Places, Locked
<1>6. Open(report) \/ Final(report)
  <2>1. CASE report = Measured(r)
    <3>1. Len(r.files) = Variants
      BY <1>1, <1>2, StudyAssumption DEF Remaining, IInv, ReceiptInv
    <3>2. \A v \in 1..Len(r.files) : dirs[Active(v)].tampered = "no"
      BY <1>2, <1>3, <2>1 DEF Intact, IInv, ReceiptInv
    <3> QED BY <1>4, <2>1, <3>1, <3>2 DEF Final
  <2>2. CASE report = Failed(r)
    BY <1>1, <1>4, <2>2, Working DEF Open
  <2> QED BY <1>3, <2>1, <2>2
<1>7. faults' \in Nat
  BY <1>1 DEF IInv, TypeInv
<1> QED BY <1>1, <1>4, <1>5, <1>6, <1>7, EndIInv

LEMMA FailsIInv ==
  ASSUME IInv, NEW o \in Owners, Fails(o) \/ Interrupt(o)
  PROVE  IInv'
<1> DEFINE r == proc[o].report
<1>1. /\ proc[o].pc \in {"begin", "loop", "variant"} /\ faults' \in Nat
      /\ UNCHANGED <<disk, runner, lease>>
  BY DEF Fails, Interrupt, IInv, TypeInv
<1>2. r \in Report /\ proc[o].saved = None /\ Open(r)
  <2>1. Open(r)
    BY <1>1 DEF IInv, HoldInv
  <2> QED BY <1>1, <2>1, OneHolder DEF Locked
<1>3. CASE Fails(o)
  <2>1. /\ Failed(r) \in Report /\ Failed(r).files = r.files /\ Failed(r).runner = r.runner
        /\ Failed(r).attempt = r.attempt /\ Open(Failed(r))
    BY <1>2 DEF Failed, Report, Open
  <2>2. Moves(o, "ended", None, Failed(r))
    BY <1>2, <1>3, <2>1, BecomesMoves DEF Fails, IInv, Places, Locked
  <2> QED BY <1>1, <2>1, <2>2, EndIInv
<1>4. CASE Interrupt(o)
  <2>1. CASE Goto(o, "ended")
    <3>1. Moves(o, "ended", None, r)
      BY <1>2, <2>1, GotoMoves DEF IInv, Places, Locked
    <3> QED BY <1>1, <1>2, <3>1, EndIInv
  <2>2. CASE TornReport(o)
    <3> DEFINE torn == [r EXCEPT !.torn = TRUE]
    <3>1. /\ torn \in Report /\ torn.files = r.files /\ torn.runner = r.runner
          /\ torn.attempt = r.attempt /\ Open(torn)
      BY <1>2 DEF Report, Open
    <3>2. Becomes(o, "ended", torn)
      BY <2>2 DEF TornReport
    <3> HIDE DEF torn
    <3>3. Moves(o, "ended", None, torn)
      BY <1>2, <3>1, <3>2, BecomesMoves DEF IInv, Places, Locked
    <3> QED BY <1>1, <3>1, <3>3, EndIInv
  <2> QED BY <1>4, <2>1, <2>2 DEF Interrupt
<1> QED BY <1>3, <1>4

LEMMA PublishProgressEffect ==
  ASSUME IInv, NEW o \in Owners, PublishProgress(o)
  PROVE  LET r == proc[o].report IN
         /\ proc[o].pc = "ended" /\ progress' = r /\ Moves(o, "published", None, r)
         /\ UNCHANGED <<made, summary, dirs, runner, lease, faults>>
         /\ progress = None => r.files = <<>>
         /\ progress # None =>
              /\ Open(progress) /\ r.files = progress.files /\ r.runner = progress.runner
              /\ progress.attempt <= r.attempt
<1>1. proc[o].pc = "ended"
  BY DEF PublishProgress
<1>2. Moves(o, "published", None, proc[o].report)
  BY <1>1, OneHolder, GotoMoves DEF PublishProgress, IInv, Places, Locked
<1> QED BY <1>1, <1>2 DEF PublishProgress, IInv, HoldInv

LEMMA PublishProgressIInv ==
  ASSUME IInv, NEW o \in Owners, PublishProgress(o)
  PROVE  IInv'
<1> DEFINE r == proc[o].report
<1>1. /\ proc[o].pc = "ended" /\ progress' = r /\ Moves(o, "published", None, r)
      /\ UNCHANGED <<made, summary, dirs, runner, lease, faults>>
      /\ progress = None => r.files = <<>>
      /\ progress # None =>
           /\ Open(progress) /\ r.files = progress.files /\ r.runner = progress.runner
           /\ progress.attempt <= r.attempt
  BY PublishProgressEffect
<1>2. /\ lease = o /\ made /\ r \in Report /\ r # None
      /\ \A q \in Owners \ {o} : proc[q].pc \notin Locked
  BY <1>1, OneHolder, Sentinels DEF Locked
<1>3. Open(r) \/ Final(r)
  BY <1>1 DEF IInv, FinalInv
<1>4. /\ proc' \in [Owners -> Process] /\ proc'[o].pc = "published"
      /\ proc'[o].saved = None /\ proc'[o].report = r
      /\ \A q \in Owners \ {o} : proc'[q] = proc[q]
  BY <1>1 DEF Moves
<1> HIDE DEF r
<1>5. TypeInv' /\ LockInv' /\ BirthInv'
  BY <1>1, <1>2, <1>4 DEF IInv, TypeInv, LockInv, BirthInv, Locked
<1>6. WaitInv'
  BY <1>1, <1>2, WaitKept DEF Locked
<1>7. HoldInv'
  BY <1>1, <1>2, <1>4 DEF HoldInv, Locked
<1>8. ReceiptInv'
  <2>1. CASE progress = None
    BY <1>1, <2>1, StudyAssumption DEF ReceiptInv, IInv, BirthInv
  <2>2. CASE progress # None
    BY <1>1, <2>2 DEF ReceiptInv, IInv
  <2> QED BY <2>1, <2>2
<1>9. ArchiveInv'
  <2>1. \A a \in 1..MaxAttempt, v \in 1..Variants :
          Interrupted(a, v) \in DOMAIN dirs => a <= r.attempt
    <3>1. CASE progress = None
      BY <3>1 DEF IInv, BirthInv
    <3>2. CASE progress # None
      <4>1. progress.attempt \in Nat /\ r.attempt \in Nat
        BY <1>2, <3>2 DEF IInv, TypeInv, Report
      <4> QED BY <1>1, <3>2, <4>1 DEF IInv, ArchiveInv
    <3> QED BY <3>1, <3>2
  <2> QED BY <1>1, <1>2, <1>4, <2>1 DEF ArchiveInv, Locked
<1>10. FinalInv'
  <2>1. summary # None => Open(summary)
    BY <1>1 DEF IInv, FinalInv, BirthInv
  <2>2. \A q \in Owners : proc'[q].pc \in {"ended", "published"} => q = o
    BY <1>2, <1>4 DEF Locked
  <2> QED BY <1>1, <1>3, <1>4, <2>1, <2>2 DEF FinalInv, Final
<1> QED BY <1>5, <1>6, <1>7, <1>8, <1>9, <1>10 DEF IInv

LEMMA ExitsIInv ==
  ASSUME IInv, NEW o \in Owners,
         LeaseRefused(o) \/ PublishSummary(o) \/ DieOrFailToPublish(o)
  PROVE  IInv'
<1>1. Moves(o, "idle", None, None)
  BY ExitMoves DEF IInv, LeaseRefused, PublishSummary, DieOrFailToPublish
<1>2. Release(o)
  BY DEF LeaseRefused, PublishSummary, DieOrFailToPublish, Release, IInv, LockInv, Locked
<1>3. made
  BY StartedIsMade DEF LeaseRefused, PublishSummary, DieOrFailToPublish
<1>4. UNCHANGED <<made, progress, dirs, runner>> /\ faults' \in Nat
  BY DEF LeaseRefused, PublishSummary, DieOrFailToPublish, disk, IInv, TypeInv
<1>5. UNCHANGED summary \/ (summary' = progress /\ progress # None)
  <2>1. CASE PublishSummary(o)
    BY <2>1, OneHolder, Sentinels DEF PublishSummary, IInv, HoldInv, Locked
  <2>2. CASE LeaseRefused(o) \/ DieOrFailToPublish(o)
    BY <2>2 DEF LeaseRefused, DieOrFailToPublish, disk
  <2> QED BY <2>1, <2>2
<1> QED BY <1>1, <1>2, <1>3, <1>4, <1>5, LeaveIInv

-----------------------------------------------------------------------------
(* What others do to the files.                                            *)

LEMMA TamperIInv ==
  ASSUME IInv, Tamper
  PROVE  IInv'
<1> DEFINE how == IF FinalCheckPassed THEN "late" ELSE "early"
<1>1. /\ progress # None /\ faults' \in Nat
      /\ UNCHANGED <<made, progress, summary, runner, lease, proc>>
  BY DEF Tamper, IInv, TypeInv
<1>2. PICK w \in 1..Len(progress.files) :
        dirs' = [dirs EXCEPT ![Active(w)].tampered = how]
  BY DEF Tamper
<1>3. progress \in Report /\ Len(progress.files) \in Nat /\ Active(w) \in DOMAIN dirs
      /\ dirs[Active(w)] \in Entry
  <2>1. progress \in Report
    BY <1>1 DEF IInv, TypeInv
  <2>2. Active(w) \in DOMAIN dirs
    BY <1>1 DEF IInv, ReceiptInv
  <2> QED BY <2>1, <2>2 DEF Report, IInv, TypeInv
<1> DEFINE e == dirs[Active(w)]  d == [e EXCEPT !.tampered = how]
<1>4. how \in {"early", "late"}
  OBVIOUS
<1>5. d \in Entry /\ d.tampered = how /\ d.stage = e.stage /\ d.runner = e.runner
  <2> HIDE DEF e, how
  <2> QED BY <1>3, <1>4 DEF Entry, e
<1>6. dirs' = [dirs EXCEPT ![Active(w)] = d]
  BY <1>2
<1> HIDE DEF d, how
<1>7. /\ DOMAIN dirs' = DOMAIN dirs /\ dirs'[Active(w)] = d
      /\ \A y \in DOMAIN dirs \ {Active(w)} : dirs'[y] = dirs[y]
      /\ dirs' \in [DOMAIN dirs' -> Entry]
  BY <1>3, <1>5, <1>6 DEF IInv, TypeInv
<1>8. \A y \in DOMAIN dirs : dirs'[y].stage = dirs[y].stage /\ dirs'[y].runner = dirs[y].runner
  BY <1>5, <1>7
<1>9. TypeInv' /\ LockInv' /\ BirthInv' /\ WaitInv'
  <2>1. TypeInv'
    BY <1>1, <1>7 DEF IInv, TypeInv
  <2> QED BY <1>1, <2>1 DEF IInv, LockInv, BirthInv, WaitInv
<1>10. HoldInv'
  <2>1. \A o \in Owners : Current(o)' = Current(o) /\ Remaining(o)' = Remaining(o)
    BY <1>1 DEF Current, Remaining
  <2>2. \A o \in Owners : proc[o].pc = "variant" =>
          LET a == Active(Current(o)) IN
          /\ Remaining(o) /\ a \in DOMAIN dirs'
          /\ dirs'[a].stage = Done => dirs'[a].runner = proc[o].report.runner
    BY <1>7, <1>8 DEF IInv, HoldInv
  <2> QED BY <1>1, <2>1, <2>2 DEF IInv, HoldInv
<1>11. ReceiptInv'
  <2>1. \A v : Active(v) \in DOMAIN dirs /\ v # w => dirs'[Active(v)] = dirs[Active(v)]
    BY <1>7, NamesDiffer
  <2>2. dirs'[Active(w)].tampered # "no"
    BY <1>4, <1>5, <1>7
  <2>3. ~(w > Len(progress.files))
    BY <1>3
  <2> HIDE DEF e
  <2> QED BY <1>1, <1>7, <2>1, <2>2, <2>3 DEF IInv, ReceiptInv
<1>12. ArchiveInv'
  BY <1>1, <1>7 DEF IInv, ArchiveInv, Current
<1>13. FinalInv'
  <2>1. ASSUME FinalCheckPassed
        PROVE  \A v \in 1..Variants :
                 /\ Active(v) \in DOMAIN dirs /\ dirs[Active(v)].tampered # "early"
                 => dirs'[Active(v)].tampered # "early"
    BY <1>5, <1>7, <2>1 DEF how
  <2>2. \A r \in Report : Final(r) /\ r.status = "measured" /\ r.files = progress.files
          /\ FinalCheckPassed => Final(r)'
    BY <1>1, <2>1 DEF Final, IInv, ReceiptInv
  <2>3. \A o \in Owners : proc[o].pc \in {"ended", "published"} /\ Final(proc[o].report) =>
          /\ FinalCheckPassed /\ proc[o].report \in Report
          /\ proc[o].report.files = progress.files
    <3> SUFFICES ASSUME NEW o \in Owners, proc[o].pc \in {"ended", "published"},
                        Final(proc[o].report)
                 PROVE  /\ FinalCheckPassed /\ proc[o].report \in Report
                        /\ proc[o].report.files = progress.files
      OBVIOUS
    <3>1. proc[o].report \in Report
      BY OneHolder DEF Locked
    <3>2. FinalCheckPassed
      BY DEF FinalCheckPassed, Final
    <3>3. proc[o].report.files = progress.files
      BY <1>1 DEF IInv, HoldInv
    <3> QED BY <3>1, <3>2, <3>3
  <2>4. Final(progress) => FinalCheckPassed
    BY DEF FinalCheckPassed, Final
  <2>5. \A o \in Owners : proc[o].pc \in {"ended", "published"} /\ Final(proc[o].report) =>
          Final(proc[o].report)'
    <3> SUFFICES ASSUME NEW o \in Owners, proc[o].pc \in {"ended", "published"},
                        Final(proc[o].report)
                 PROVE  Final(proc[o].report)'
      OBVIOUS
    <3>1. PICK r \in Report : r = proc[o].report
      BY <2>3
    <3>2. Final(r)'
      BY <2>2, <2>3, <3>1 DEF Final
    <3> QED BY <1>1, <3>1, <3>2 DEF Final
  <2>6. Final(progress) => Final(progress)'
    BY <1>1, <1>3, <2>2, <2>4 DEF Final
  <2> QED BY <1>1, <2>5, <2>6 DEF IInv, FinalInv, Open
<1> QED BY <1>9, <1>10, <1>11, <1>12, <1>13 DEF IInv

LEMMA ReplaceRunnerIInv ==
  ASSUME IInv, ReplaceRunner
  PROVE  IInv'
<1>1. /\ faults' \in Nat /\ runner' \in Nat
      /\ UNCHANGED <<made, progress, summary, dirs, lease, proc>>
  BY DEF ReplaceRunner, disk, IInv, TypeInv
<1>2. TypeInv'
  BY <1>1 DEF IInv, TypeInv
<1>3. LockInv' /\ BirthInv' /\ WaitInv' /\ ReceiptInv'
  BY <1>1 DEF IInv, LockInv, BirthInv, WaitInv, ReceiptInv
<1>4. HoldInv' /\ ArchiveInv' /\ FinalInv'
  BY <1>1 DEF IInv, HoldInv, ArchiveInv, FinalInv, Final, Current, Remaining
<1> QED BY <1>2, <1>3, <1>4 DEF IInv

-----------------------------------------------------------------------------
LEMMA NextIInv == IInv /\ [Next]_vars => IInv'
<1> SUFFICES ASSUME IInv, [Next]_vars PROVE IInv'
  OBVIOUS
<1>1. CASE UNCHANGED vars
  BY <1>1 DEF vars, IInv, TypeInv, LockInv, BirthInv, WaitInv, HoldInv, ReceiptInv,
              ArchiveInv, FinalInv, Final, Current, Remaining
<1>2. ASSUME NEW o \in Owners, Work(o) PROVE IInv'
  BY <1>2, RestoreProgressIInv, TakeLeaseIInv, BeginIInv, SetAsideIInv, StartVariantIInv,
     StageIInv, CommitIInv, ConcludeIInv, PublishProgressIInv, ExitsIInv, Zenon DEF Work
<1>3. ASSUME NEW o \in Owners,
             NewStudy(o) \/ ReadProgress(o) \/ Fails(o) \/ Interrupt(o) \/ DieOrFailToPublish(o)
      PROVE  IInv'
  BY <1>3, NewStudyIInv, ReadProgressIInv, FailsIInv, ExitsIInv, Zenon
<1> QED BY <1>1, <1>2, <1>3, TamperIInv, ReplaceRunnerIInv, Zenon DEF Next

LEMMA Invariance == Spec => []IInv
BY InitIInv, NextIInv, PTL DEF Spec

-----------------------------------------------------------------------------
(* The theorems.                                                           *)

(* An interrupted directory always finds its archive name free.            *)
THEOREM ArchiveIsFresh == Spec => []ArchiveFresh
<1>1. IInv => ArchiveFresh
  <2> SUFFICES ASSUME IInv, NEW o \in Owners, proc[o].pc = "loop", Remaining(o),
                      Active(Current(o)) \in DOMAIN dirs
               PROVE  Archive(o) \notin DOMAIN dirs
    BY DEF ArchiveFresh
  <2>1. Current(o) \in 1..Variants
    BY Working, StudyAssumption DEF Remaining
  <2> QED BY <2>1 DEF IInv, ArchiveInv, Archive
<1> QED BY <1>1, Invariance, PTL

(* A study that claims to be measured has all its variants, each finished  *)
(* by the admitted runners, and the measured outputs on disk.              *)
THEOREM MeasuredIsSound == Spec => []MeasuredSound
<1>1. IInv => MeasuredSound
  <2> SUFFICES ASSUME IInv, summary # None, summary.status = "measured"
               PROVE  /\ summary = progress
                      /\ Len(summary.files) = Variants
                      /\ \A v \in 1..Variants :
                           /\ summary.files[v].stage = Done
                           /\ summary.files[v].runner = summary.runner
                           /\ summary.files[v].tampered = "no"
                           /\ dirs[Active(v)].tampered # "early"
                           /\ dirs[Active(v)].tampered = "no" =>
                                dirs[Active(v)] = summary.files[v]
    BY DEF MeasuredSound
  <2>1. summary = progress /\ Final(progress)
    BY DEF IInv, FinalInv, Open
  <2> QED BY <2>1 DEF IInv, ReceiptInv, Final
<1> QED BY <1>1, Invariance, PTL

(* No publication, by whichever of several processes, loses a completed    *)
(* variant or changes its receipt.                                         *)
THEOREM CompletedIsKept == Spec => CompletedKept
<1> DEFINE Kept == progress # None => /\ progress' # None
                                      /\ Len(progress.files) <= Len(progress'.files)
                                      /\ \A v \in 1..Len(progress.files) :
                                           progress'.files[v] = progress.files[v]
<1>1. ASSUME IInv, Next, progress # None PROVE Kept
  <2>1. Len(progress.files) \in Nat
    BY <1>1 DEF IInv, TypeInv, Report
  <2>2. CASE UNCHANGED progress
    BY <1>1, <2>1, <2>2
  <2>3. ASSUME NEW o \in Owners, Begin(o) PROVE Kept
    BY <1>1, <2>1, <2>3, OneHolder, Sentinels DEF Begin, IInv, HoldInv, Continues, Locked
  <2>4. ASSUME NEW o \in Owners, Commit(o) PROVE Kept
    BY <1>1, <2>1, <2>4, CommitEffect, Sentinels
  <2>5. ASSUME NEW o \in Owners, PublishProgress(o) PROVE Kept
    BY <1>1, <2>1, <2>5, PublishProgressEffect, OneHolder, Sentinels DEF Locked
  <2>6. \/ UNCHANGED progress
        \/ \E o \in Owners : Begin(o) \/ Commit(o) \/ PublishProgress(o)
    BY <1>1, Zenon DEF Next, Work, disk, NewStudy, ReadProgress, RestoreProgress, TakeLease,
       LeaseRefused, SetAside, StartVariant, Stage, Conclude, PublishSummary, Fails, Interrupt,
       DieOrFailToPublish, Tamper, ReplaceRunner
  <2> HIDE DEF Kept
  <2> QED BY <2>2, <2>3, <2>4, <2>5, <2>6
<1>2. IInv /\ [Next]_vars => [Kept]_progress
  BY <1>1 DEF vars
<1> QED BY <1>2, Invariance, PTL DEF Spec, CompletedKept
=============================================================================
