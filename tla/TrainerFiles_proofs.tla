------------------------- MODULE TrainerFiles_proofs -------------------------
(***************************************************************************)
(* What the trainer's files guarantee, for any number of updates, saves,   *)
(* evaluations, crashes and restarts, and any rotation window.             *)
(***************************************************************************)
EXTENDS TrainerFiles, FiniteSetTheorems, SequenceTheorems, TLAPS

-----------------------------------------------------------------------------
(* The inductive invariant.                                                *)

(* The trainer runs: what it resumed from is in memory.                    *)
Up == pc \notin {"down", "loading", "refused"}

TypeInv ==
    /\ disk \in [Names -> Payload \cup {Absent}]
    /\ pc \in {"down", "loading", "refused", "idle", "update", "best", "checkpoint"}
    /\ todo \in Seq(Names) /\ then \in {"idle", "update", "checkpoint"}
    /\ tried \subseteq RecoveryNames /\ runs \in 0..MaxRuns
    /\ mem \in [steps: Steps, model: Policy, opt: Policy, infer: Policy]
    /\ best \in [ret: 0..MaxReturn, policy: Policy \cup {NoPolicy}, pending: BOOLEAN]
    /\ episode \in Policy \cup {NoPolicy} /\ scored \subseteq [policy: Policy, ret: 1..MaxReturn]
    /\ committed \in Steps \cup {None} /\ complete \in Steps \cup {None}
    /\ damaged \in 0..MaxDamage

(* How far a save has come: the files before todo hold what is being saved. *)
Saved(n) == disk[n] = Content(n)
CheckpointInv ==
    pc = "checkpoint" =>
      \/ todo = CheckpointFiles
      \/ /\ Saved(Numbered(mem.steps)) /\ committed = mem.steps
         /\ \/ todo = <<LatestArch, Latest>>
            \/ todo = <<Latest>> /\ Saved(LatestArch)
            \/ todo = <<>> /\ Saved(LatestArch) /\ Saved(Latest)
BestSaveInv ==
    pc = "best" =>
      /\ best.pending
      /\ \/ todo = BestFiles
         \/ todo = <<Best, Meta>> /\ Saved(BestArch)
         \/ todo = <<Meta>> /\ Saved(BestArch) /\ Saved(Best)
         \/ todo = <<>>
SaveInv ==
    /\ pc \notin {"best", "checkpoint"} => todo = <<>>
    /\ CheckpointInv /\ BestSaveInv

(* What is pending was measured, and the leaderboard on disk is not ahead  *)
(* of the one in memory.                                                   *)
LeaderInv ==
    /\ best.policy # NoPolicy => [policy |-> best.policy, ret |-> best.ret] \in scored
    /\ best.pending => best.policy # NoPolicy
    /\ Up /\ Present(Meta) =>
         /\ best.ret >= disk[Meta].ret
         /\ (best.ret = disk[Meta].ret /\ best.pending) => best.policy = disk[Meta].model

LoadInv ==
    pc = "loading" => /\ \A n \in tried: disk[n].state = "unappliable"
                      /\ mem = Fresh(runs)

(* The files alone: every damage costs one copy at most, and there is      *)
(* always a file to resume from at or after what was committed.            *)
Good(n, k) == disk[n].state = "good" /\ disk[n].steps >= k
Copies == {n \in RecoveryNames: Good(n, complete)}
NumberInv == \A k \in Steps: Present(Numbered(k)) => disk[Numbered(k)].steps = k
UndamagedInv ==
    damaged = 0 =>
      /\ \A n \in RecoveryNames: Present(n) => disk[n].state = "good"
      /\ \A k \in Steps: Present(Numbered(k)) => k <= committed
CopiesInv ==
    damaged <= 2 =>
      /\ complete <= committed
      /\ complete # None => Cardinality(Copies) >= 3 - damaged
      /\ committed # None => \E n \in RecoveryNames: Good(n, committed)
ResumeInv ==
    damaged <= 2 => /\ pc = "refused" => committed = None
                    /\ Up => mem.steps >= committed

(* The two halves of Coherent.                                             *)
MemInv ==
    /\ mem.steps = mem.model.steps /\ mem.opt = mem.model
    /\ pc = "update" \/ mem.infer = mem.model
DiskInv ==
    \A n \in RecoveryNames: Present(n) =>
      disk[n].steps = disk[n].model.steps /\ disk[n].opt = disk[n].model

FilesInv == NumberInv /\ UndamagedInv /\ CopiesInv /\ DiskInv

IInv ==
    /\ TypeInv /\ SaveInv /\ LeaderInv /\ LoadInv /\ FilesInv /\ ResumeInv /\ MemInv
    /\ BestExact

-----------------------------------------------------------------------------
(* The names and contents of the files.                                    *)

LEMMA NamesDiffer ==
    /\ LatestArch # Latest /\ BestArch # Best /\ BestArch # Meta /\ Best # Meta
    /\ LatestArch \in RecoveryNames /\ Latest \in RecoveryNames
    /\ \A k \in Steps: /\ Numbered(k) \in RecoveryNames /\ Numbered(k) \in NumberedNames
                       /\ Numbered(k) # LatestArch /\ Numbered(k) # Latest
    /\ \A k, l: Numbered(k) = Numbered(l) => k = l
    /\ LatestArch \notin NumberedNames /\ Latest \notin NumberedNames
    /\ \A n \in {BestArch, Best, Meta}: n \in Names /\ n \notin RecoveryNames
    /\ RecoveryNames \subseteq Names /\ RecoveryNames \subseteq PolicyNames
    /\ NumberedNames \subseteq RecoveryNames
BY DEF LatestArch, Latest, BestArch, Best, Meta, Numbered, NumberedNames, RecoveryNames,
       PolicyNames, Names

LEMMA Constants ==
    /\ 0 \in Steps /\ 0 \in 0..MaxReturn /\ 0 \in 0..MaxRuns /\ 0 \in 0..MaxDamage
    /\ Steps \subseteq Nat /\ None \notin Steps
    /\ \A k \in Steps \cup {None}: k \in Int /\ k >= None
    /\ NoPolicy \notin Policy /\ Absent \notin Payload
    /\ \A f \in Payload: f.state # "absent" /\ f.steps \in Steps /\ f.ret \in 0..MaxReturn
    /\ Absent.state = "absent"
BY FilesAssumption DEF Steps, None, NoPolicy, Policy, Absent, Payload

LEMMA RecoveryFinite == IsFiniteSet(RecoveryNames)
<1> DEFINE f == [k \in Steps |-> Numbered(k)]
<1>1. IsFiniteSet(Steps)
  BY FS_Interval, FilesAssumption DEF Steps
<1>2. f \in Surjection(Steps, NumberedNames)
  BY DEF Surjection, NumberedNames
<1>3. IsFiniteSet(NumberedNames)
  BY <1>1, <1>2, FS_Surjection
<1>4. IsFiniteSet(NumberedNames \cup {LatestArch})
  BY <1>3, FS_AddElement
<1>5. IsFiniteSet((NumberedNames \cup {LatestArch}) \cup {Latest})
  BY <1>4, FS_AddElement
<1>6. RecoveryNames = (NumberedNames \cup {LatestArch}) \cup {Latest}
  BY DEF RecoveryNames
<1> QED BY <1>5, <1>6

(* At least as many copies as distinct files one can name.                 *)
LEMMA TwoCopies ==
    ASSUME NEW S, IsFiniteSet(S), NEW x \in S, NEW y \in S, x # y
    PROVE  Cardinality(S) >= 2 /\ \A z \in S: z # x /\ z # y => Cardinality(S) >= 3
<1>1. IsFiniteSet({x}) /\ Cardinality({x}) = 1
  BY FS_Singleton
<1>2. IsFiniteSet({x} \cup {y}) /\ Cardinality({x} \cup {y}) = 2
  BY <1>1, FS_AddElement
<1>3. Cardinality({x} \cup {y}) <= Cardinality(S)
  BY <1>2, FS_Subset
<1>4. Cardinality(S) \in Nat
  BY FS_CardinalityType
<1>5. ASSUME NEW z \in S, z # x, z # y PROVE Cardinality(S) >= 3
  <2> DEFINE P == {x} \cup {y}
  <2>1. IsFiniteSet(P \cup {z}) /\ Cardinality(P \cup {z}) = 3
    <3>1. z \notin P /\ IsFiniteSet(P) /\ Cardinality(P) = 2
      BY <1>2, <1>5
    <3> HIDE DEF P
    <3> QED BY <3>1, FS_AddElement
  <2>2. P \cup {z} \in SUBSET S
    OBVIOUS
  <2> HIDE DEF P
  <2>3. Cardinality(P \cup {z}) <= Cardinality(S)
    BY <2>2, FS_Subset
  <2> QED BY <1>4, <2>1, <2>3
<1> QED BY <1>2, <1>3, <1>4, <1>5

LEMMA ContentOf ==
    ASSUME TypeInv, NEW n
    PROVE  /\ n \in RecoveryNames =>
                /\ Content(n) \in Payload /\ Content(n).state = "good"
                /\ Content(n).steps = mem.steps /\ Content(n).model = mem.model
                /\ Content(n).opt = mem.opt
           /\ n \notin RecoveryNames /\ best.policy \in Policy =>
                /\ Content(n) \in Payload /\ Content(n).state = "good"
                /\ Content(n).model = best.policy /\ Content(n).ret = best.ret
<1>1. /\ mem.steps \in Steps /\ mem.model \in Policy /\ mem.opt \in Policy
      /\ best.ret \in 0..MaxReturn
  BY DEF TypeInv
<1>2. CASE n \in RecoveryNames
  <2> DEFINE c == [state |-> "good", steps |-> mem.steps, model |-> mem.model,
                   opt |-> mem.opt, ret |-> 0]
  <2>1. Content(n) = c
    BY <1>2 DEF Content
  <2>2. c \in Payload
    BY <1>1, Constants DEF Payload
  <2> QED BY <1>2, <2>1, <2>2
<1>3. CASE n \notin RecoveryNames /\ best.policy \in Policy
  <2> DEFINE c == [state |-> "good", steps |-> best.policy.steps, model |-> best.policy,
                   opt |-> NoPolicy, ret |-> best.ret]
  <2>1. Content(n) = c
    BY <1>3 DEF Content
  <2>2. best.policy.steps \in Steps
    BY <1>3 DEF Policy
  <2>3. c \in Payload
    BY <1>1, <1>3, <2>2 DEF Payload
  <2> QED BY <1>3, <2>1, <2>3
<1> QED BY <1>2, <1>3

(* A file that is present is a payload.                                    *)
LEMMA PresentFile ==
    ASSUME TypeInv, NEW n \in Names
    PROVE  /\ Present(n) <=> disk[n] \in Payload
           /\ disk[n].state \in {"good", "corrupt", "unappliable"} => Present(n)
           /\ Present(n) => disk[n].steps \in Steps /\ disk[n].ret \in 0..MaxReturn
<1>1. disk[n] \in Payload \cup {Absent}
  BY DEF TypeInv
<1> QED BY <1>1, Constants DEF Present

-----------------------------------------------------------------------------
(* Where a handler leaves the learner.                                     *)

LEMMA FileLists ==
    ASSUME TypeInv
    PROVE  /\ CheckpointFiles \in Seq(Names) /\ BestFiles \in Seq(Names)
           /\ <<>> \in Seq(Names)
BY NamesDiffer DEF TypeInv, CheckpointFiles, BestFiles

LEMMA EnterGoes ==
    ASSUME TypeInv, NEW next \in {"idle", "update", "checkpoint"}, Enter(next),
           mem'.steps = mem.steps
    PROVE  /\ SaveInv' /\ Up' /\ pc' = next
           /\ todo' \in Seq(Names) /\ then' = "idle"
<1>1. pc' = next /\ then' = "idle"
      /\ todo' = IF next = "checkpoint" THEN CheckpointFiles ELSE <<>>
  BY DEF Enter
<1>2. todo' \in Seq(Names)
  BY <1>1, FileLists
<1>3. CheckpointFiles' = CheckpointFiles
  BY DEF CheckpointFiles
<1> QED BY <1>1, <1>2, <1>3 DEF SaveInv, CheckpointInv, BestSaveInv, Up

LEMMA SaveBestGoes ==
    ASSUME TypeInv, NEW next \in {"idle", "update", "checkpoint"}, SaveBestThen(next),
           mem'.steps = mem.steps, best' = best
    PROVE  /\ SaveInv' /\ Up' /\ pc' \in {next, "best"}
           /\ todo' \in Seq(Names) /\ then' \in {"idle", "update", "checkpoint"}
<1>1. CASE best.pending
  <2>1. pc' = "best" /\ todo' = BestFiles /\ then' = next
    BY <1>1 DEF SaveBestThen
  <2>2. BestFiles' = BestFiles
    BY DEF BestFiles
  <2> QED BY <1>1, <2>1, <2>2, FileLists DEF SaveInv, CheckpointInv, BestSaveInv, Up
<1>2. CASE ~best.pending
  BY <1>2, EnterGoes DEF SaveBestThen
<1> QED BY <1>1, <1>2

(* What the files keep when nothing touches them.                          *)
LEMMA FilesSame ==
    ASSUME FilesInv, UNCHANGED files
    PROVE  FilesInv'
BY DEF files, FilesInv, NumberInv, UndamagedInv, CopiesInv, DiskInv, Copies, Good, Present

LEMMA BestFilesSame ==
    ASSUME BestExact, UNCHANGED disk, scored \subseteq scored'
    PROVE  BestExact'
BY DEF BestExact, Measured, Present

-----------------------------------------------------------------------------
(* Starting.                                                               *)

LEMMA InitIInv == Init => IInv
<1> SUFFICES ASSUME Init PROVE IInv
  OBVIOUS
<1>1. \A n: ~Present(n) \/ n \notin Names
  BY Constants DEF Init, Present
<1>2. TypeInv
  <2>1. Fresh(0) \in [steps: Steps, model: Policy, opt: Policy, infer: Policy]
    BY Constants DEF Fresh, Policy
  <2>2. NoBest \in [ret: 0..MaxReturn, policy: Policy \cup {NoPolicy}, pending: BOOLEAN]
    BY Constants DEF NoBest
  <2>3. disk \in [Names -> Payload \cup {Absent}] /\ todo \in Seq(Names)
    BY DEF Init
  <2> QED BY <2>1, <2>2, <2>3, Constants DEF Init, TypeInv
<1>3. SaveInv /\ LeaderInv /\ LoadInv /\ ResumeInv
  BY DEF Init, SaveInv, CheckpointInv, BestSaveInv, LeaderInv, LoadInv, ResumeInv, Up, NoBest
<1>4. FilesInv
  <2>1. complete <= committed /\ complete = None /\ committed = None
    BY DEF Init, None
  <2> QED BY <1>1, <2>1, NamesDiffer
          DEF FilesInv, NumberInv, UndamagedInv, CopiesInv, DiskInv
<1>5. MemInv
  BY DEF Init, MemInv, Fresh
<1>6. BestExact
  BY <1>1, NamesDiffer DEF BestExact
<1> QED BY <1>2, <1>3, <1>4, <1>5, <1>6 DEF IInv

LEMMA FreshMem ==
    ASSUME NEW r \in 0..MaxRuns
    PROVE  /\ Fresh(r) \in [steps: Steps, model: Policy, opt: Policy, infer: Policy]
           /\ Fresh(r).steps = 0 /\ Fresh(r).model.steps = 0
           /\ Fresh(r).opt = Fresh(r).model /\ Fresh(r).infer = Fresh(r).model
BY Constants DEF Fresh, Policy

LEMMA NoBestType ==
    NoBest \in [ret: 0..MaxReturn, policy: Policy \cup {NoPolicy}, pending: BOOLEAN]
BY Constants DEF NoBest

LEMMA StartIInv ==
    ASSUME IInv, Start
    PROVE  IInv'
<1>1. runs' = runs + 1 /\ runs' \in 0..MaxRuns
  BY FilesAssumption DEF Start, IInv, TypeInv
<1>2. /\ mem' = Fresh(runs') /\ best' = NoBest /\ pc' = "loading" /\ tried' = {}
      /\ UNCHANGED <<files, evaluator, todo, then>> /\ pc = "down"
  BY <1>1 DEF Start
<1>3. TypeInv'
  BY <1>1, <1>2, FreshMem, NoBestType DEF IInv, TypeInv, files, evaluator
<1>4. SaveInv' /\ LeaderInv' /\ LoadInv' /\ ResumeInv'
  BY <1>2 DEF IInv, SaveInv, CheckpointInv, BestSaveInv, LeaderInv, LoadInv, ResumeInv, Up,
              NoBest
<1>5. FilesInv' /\ BestExact'
  BY <1>2, FilesSame, BestFilesSame DEF IInv, files, evaluator
<1>6. MemInv'
  BY <1>1, <1>2, FreshMem DEF MemInv
<1> QED BY <1>3, <1>4, <1>5, <1>6 DEF IInv

(* What best_evaluator.json restores is not ahead of it.                   *)
LEMMA RestoredBest ==
    ASSUME TypeInv
    PROVE  /\ Restored \in [ret: 0..MaxReturn, policy: Policy \cup {NoPolicy},
                            pending: BOOLEAN]
           /\ Restored.policy = NoPolicy /\ ~Restored.pending
           /\ Present(Meta) => Restored.ret = disk[Meta].ret
<1>1. NoBest \in [ret: 0..MaxReturn, policy: Policy \cup {NoPolicy}, pending: BOOLEAN]
      /\ NoBest.policy = NoPolicy /\ NoBest.pending = FALSE
  BY NoBestType DEF NoBest
<1>2. CASE Present(Meta)
  <2>1. Restored = [NoBest EXCEPT !.ret = disk[Meta].ret]
    BY <1>2 DEF Restored
  <2>2. disk[Meta].ret \in 0..MaxReturn
    BY <1>2, NamesDiffer, PresentFile
  <2> HIDE DEF NoBest
  <2> QED BY <1>1, <2>1, <2>2
<1>3. CASE ~Present(Meta)
  BY <1>1, <1>3 DEF Restored
<1> QED BY <1>2, <1>3

(* Some candidate is at or after what was committed.                       *)
LEMMA CandidateKept ==
    ASSUME IInv, pc = "loading", damaged <= 2, committed # None
    PROVE  \E n \in Candidates: disk[n].steps >= committed
<1>1. PICK n \in RecoveryNames: Good(n, committed)
  BY DEF IInv, FilesInv, CopiesInv
<1>2. n \notin tried
  BY <1>1 DEF IInv, LoadInv, Good
<1> QED BY <1>1, <1>2 DEF Candidates, Good

LEMMA LoadIInv ==
    ASSUME IInv, NEW n \in RecoveryNames, Load(n)
    PROVE  IInv'
<1>0. /\ pc = "loading" /\ n \in Candidates /\ \A m \in Candidates: Preferred(n, m)
      /\ UNCHANGED <<files, evaluator, todo, then, runs>>
  BY DEF Load
<1>1. n \in Names /\ Present(n) /\ disk[n] \in Payload
  BY <1>0, NamesDiffer, PresentFile DEF Candidates, IInv
<1>2. FilesInv' /\ BestExact'
  BY <1>0, FilesSame, BestFilesSame DEF IInv, files, evaluator
<1>3. CASE disk[n].state = "good" /\ mem' = Applied(disk[n]) /\ best' = Restored
           /\ pc' = "idle" /\ UNCHANGED tried
  <2> DEFINE f == disk[n]
  <2>1. f.steps = f.model.steps /\ f.opt = f.model
    BY <1>1 DEF IInv, FilesInv, DiskInv
  <2>2. f \in Payload
    BY <1>1
  <2> HIDE DEF f
  <2>3. /\ mem' \in [steps: Steps, model: Policy, opt: Policy, infer: Policy]
        /\ mem'.steps = f.steps /\ mem'.model = f.model /\ mem'.opt = f.opt
        /\ mem'.infer = f.model
    BY <1>3, <2>1, <2>2 DEF Applied, Payload, f
  <2>4. TypeInv'
    BY <1>0, <1>3, <2>3, RestoredBest DEF IInv, TypeInv, files, evaluator
  <2>5. SaveInv' /\ LoadInv'
    BY <1>0, <1>3 DEF IInv, SaveInv, CheckpointInv, BestSaveInv, LoadInv
  <2>6. LeaderInv'
    <3>1. UNCHANGED disk
      BY <1>0 DEF files
    <3>2. Present(Meta) => disk[Meta].ret \in 0..MaxReturn
      BY NamesDiffer, PresentFile DEF IInv
    <3> QED BY <1>3, <3>1, <3>2, RestoredBest DEF IInv, LeaderInv, Present
  <2>7. ResumeInv'
    <3> SUFFICES ASSUME damaged <= 2 PROVE mem'.steps >= committed
      BY <1>0, <1>3 DEF ResumeInv, files
    <3>1. CASE committed = None
      BY <2>3, <3>1, Constants DEF None
    <3>2. CASE committed # None
      <4>1. PICK m \in Candidates: disk[m].steps >= committed
        BY <1>0, <3>2, CandidateKept
      <4>2. f.steps >= disk[m].steps
        <5>1. f.steps \in Nat /\ disk[m].steps \in Nat
          BY <2>2, Constants, NamesDiffer, PresentFile DEF Candidates, IInv
        <5>2. f.steps > disk[m].steps \/ f.steps = disk[m].steps
          BY <1>0, Zenon DEF Preferred, f
        <5> QED BY <5>1, <5>2
      <4>3. f.steps \in Int /\ disk[m].steps \in Int /\ committed \in Int
        BY <2>2, Constants, NamesDiffer, PresentFile DEF Candidates, IInv, TypeInv
      <4> QED BY <2>3, <4>1, <4>2, <4>3
    <3> QED BY <3>1, <3>2
  <2>8. MemInv'
    BY <1>3, <2>1, <2>3 DEF MemInv
  <2> QED BY <1>2, <2>4, <2>5, <2>6, <2>7, <2>8 DEF IInv
<1>4. CASE disk[n].state = "unappliable" /\ mem' = RolledBack(disk[n])
           /\ tried' = tried \cup {n} /\ UNCHANGED <<best, pc>>
  <2>1. mem' = Fresh(runs) /\ mem = Fresh(runs)
    BY <1>0, <1>4 DEF RolledBack, IInv, LoadInv
  <2>2. TypeInv'
    BY <1>0, <1>4, <2>1 DEF IInv, TypeInv, files, evaluator
  <2>3. SaveInv' /\ LoadInv' /\ LeaderInv' /\ ResumeInv' /\ MemInv'
    BY <1>0, <1>4, <2>1 DEF IInv, SaveInv, CheckpointInv, BestSaveInv, LoadInv, LeaderInv,
       ResumeInv, MemInv, Up, files, evaluator
  <2> QED BY <1>2, <2>2, <2>3 DEF IInv
<1> QED BY <1>3, <1>4 DEF Load

LEMMA LoadNothingIInv ==
    ASSUME IInv, LoadNothing
    PROVE  IInv'
<1>0. /\ pc = "loading" /\ Candidates = {}
      /\ UNCHANGED <<files, evaluator, todo, then, tried, runs, mem>>
      /\ pc' \in {"refused", "idle"}
      /\ pc' = "refused" => best' = best
      /\ pc' = "idle" => best' = Restored
  BY DEF LoadNothing
<1>1. FilesInv' /\ BestExact'
  BY <1>0, FilesSame, BestFilesSame DEF IInv, files, evaluator
<1>2. TypeInv'
  BY <1>0, RestoredBest DEF IInv, TypeInv, files, evaluator
<1>3. SaveInv' /\ LoadInv'
  BY <1>0 DEF IInv, SaveInv, CheckpointInv, BestSaveInv, LoadInv
<1>4. LeaderInv'
  <2>1. UNCHANGED <<disk, scored>>
    BY <1>0 DEF files, evaluator
  <2>2. Present(Meta) => disk[Meta].ret \in 0..MaxReturn
    BY NamesDiffer, PresentFile DEF IInv
  <2>3. CASE pc' = "refused"
    BY <1>0, <2>1, <2>3 DEF IInv, LeaderInv, Up
  <2>4. CASE pc' = "idle"
    BY <1>0, <2>1, <2>2, <2>4, RestoredBest DEF IInv, LeaderInv, Present
  <2> QED BY <1>0, <2>3, <2>4
<1>5. damaged <= 2 => committed = None
  BY <1>0, CandidateKept
<1>6. mem.steps = 0
  BY <1>0, FreshMem DEF IInv, LoadInv, TypeInv
<1>7. ResumeInv'
  BY <1>0, <1>5, <1>6 DEF ResumeInv, files, None
<1>8. MemInv'
  BY <1>0 DEF IInv, MemInv
<1> QED BY <1>1, <1>2, <1>3, <1>4, <1>7, <1>8 DEF IInv

-----------------------------------------------------------------------------
(* The learner.                                                            *)

(* The learner goes on to a save or to its next step, and the evaluator's  *)
(* results and the files stay as they are.                                 *)
LEMMA HandlerIInv ==
    ASSUME IInv, Up, UNCHANGED <<files, scored, tried, runs, best>>,
           episode' \in Policy \cup {NoPolicy}, SaveInv', Up',
           pc' \in {"idle", "update", "best", "checkpoint"},
           todo' \in Seq(Names), then' \in {"idle", "update", "checkpoint"},
           mem' \in [steps: Steps, model: Policy, opt: Policy, infer: Policy],
           mem'.steps >= mem.steps, MemInv'
    PROVE  IInv'
<1>1. TypeInv'
  BY DEF IInv, TypeInv, files
<1>2. LeaderInv'
  BY DEF IInv, LeaderInv, files, Present
<1>3. LoadInv'
  BY DEF LoadInv
<1>4. ResumeInv'
  <2>1. /\ mem.steps \in Int /\ mem'.steps \in Int /\ committed \in Int
    BY Constants DEF IInv, TypeInv
  <2>2. damaged' <= 2 => mem.steps >= committed
    BY DEF IInv, ResumeInv, files
  <2>3. committed' = committed /\ pc' # "refused"
    BY DEF files
  <2> QED BY <2>1, <2>2, <2>3 DEF ResumeInv
<1>5. FilesInv' /\ BestExact'
  BY FilesSame, BestFilesSame DEF IInv, files
<1> QED BY <1>1, <1>2, <1>3, <1>4, <1>5 DEF IInv

LEMMA MemTypes ==
    ASSUME TypeInv
    PROVE  /\ mem \in [steps: Steps, model: Policy, opt: Policy, infer: Policy]
           /\ mem.steps \in Steps /\ mem.steps \in Nat /\ mem.steps >= mem.steps
<1>1. mem \in [steps: Steps, model: Policy, opt: Policy, infer: Policy]
  BY DEF TypeInv
<1>2. mem.steps \in Steps /\ mem.steps \in Nat
  BY <1>1, Constants
<1> QED BY <1>1, <1>2

LEMMA GetIInv ==
    ASSUME IInv, Get
    PROVE  IInv'
<1>1. PICK next \in {"idle", "update"}: SaveBestThen(next)
  BY DEF Get
<1>2. pc = "idle" /\ UNCHANGED <<files, evaluator, tried, runs, mem, best>>
  BY DEF Get
<1>3. /\ SaveInv' /\ Up' /\ pc' \in {"idle", "update", "best"}
      /\ todo' \in Seq(Names) /\ then' \in {"idle", "update", "checkpoint"}
  BY <1>1, <1>2, SaveBestGoes DEF IInv
<1>4. MemInv'
  BY <1>2 DEF IInv, MemInv
<1>5. Up /\ scored' = scored /\ episode' \in Policy \cup {NoPolicy}
  BY <1>2 DEF Up, evaluator, IInv, TypeInv
<1> QED BY <1>2, <1>3, <1>4, <1>5, MemTypes, HandlerIInv DEF IInv

LEMMA MinibatchIInv ==
    ASSUME IInv, Minibatch
    PROVE  IInv'
<1> DEFINE p == [run |-> runs, steps |-> mem.steps + 1]
           m == [mem EXCEPT !.steps = mem.steps + 1, !.model = p, !.opt = p]
<1>0. pc = "update" /\ mem.steps < MaxSteps /\ mem' = m
      /\ UNCHANGED <<files, evaluator, pc, todo, then, tried, runs, best>>
  BY DEF Minibatch
<1>1. mem.steps + 1 \in Steps /\ p \in Policy /\ p.steps = mem.steps + 1
  <2>1. mem.steps \in 0..MaxSteps /\ runs \in 0..MaxRuns
    BY FilesAssumption DEF IInv, TypeInv, Steps
  <2>2. mem.steps + 1 \in Steps
    BY <1>0, <2>1, FilesAssumption DEF Steps
  <2> QED BY <2>1, <2>2 DEF Policy
<1> HIDE DEF p
<1>2. /\ m \in [steps: Steps, model: Policy, opt: Policy, infer: Policy]
      /\ m.steps = mem.steps + 1 /\ m.model = p /\ m.opt = p
  BY <1>1 DEF IInv, TypeInv
<1> HIDE DEF m
<1>3. SaveInv'
  BY <1>0 DEF IInv, SaveInv, CheckpointInv, BestSaveInv
<1>4. MemInv'
  BY <1>0, <1>1, <1>2 DEF MemInv
<1>5. Up /\ Up' /\ scored' = scored /\ episode' \in Policy \cup {NoPolicy}
      /\ todo' \in Seq(Names) /\ then' \in {"idle", "update", "checkpoint"}
  BY <1>0 DEF Up, evaluator, IInv, TypeInv
<1>6. mem'.steps >= mem.steps
  BY <1>0, <1>2, MemTypes DEF IInv
<1> QED BY <1>0, <1>2, <1>3, <1>4, <1>5, <1>6, HandlerIInv

LEMMA UpdateDoneIInv ==
    ASSUME IInv, UpdateDone
    PROVE  IInv'
<1>1. PICK next \in {"idle", "checkpoint"}: SaveBestThen(next)
  BY DEF UpdateDone
<1>2. pc = "update" /\ mem' = [mem EXCEPT !.infer = mem.model]
      /\ UNCHANGED <<files, evaluator, tried, runs, best>>
  BY DEF UpdateDone
<1>3. /\ mem' \in [steps: Steps, model: Policy, opt: Policy, infer: Policy]
      /\ mem'.steps = mem.steps /\ mem'.model = mem.model /\ mem'.opt = mem.opt
      /\ mem'.infer = mem.model
  BY <1>2 DEF IInv, TypeInv
<1>4. /\ SaveInv' /\ Up' /\ pc' \in {"idle", "checkpoint", "best"}
      /\ todo' \in Seq(Names) /\ then' \in {"idle", "update", "checkpoint"}
  BY <1>1, <1>2, <1>3, SaveBestGoes DEF IInv
<1>5. MemInv'
  BY <1>3 DEF IInv, MemInv
<1>6. Up /\ scored' = scored /\ episode' \in Policy \cup {NoPolicy}
  BY <1>2 DEF Up, evaluator, IInv, TypeInv
<1> QED BY <1>2, <1>3, <1>4, <1>5, <1>6, MemTypes, HandlerIInv DEF IInv

LEMMA PublishFailsIInv ==
    ASSUME IInv, PublishFails
    PROVE  IInv'
<1>1. Enter(then) /\ UNCHANGED <<files, evaluator, tried, runs, mem, best>>
      /\ todo # <<>>
  BY DEF PublishFails
<1>2. pc \in {"best", "checkpoint"} /\ then \in {"idle", "update", "checkpoint"}
  BY <1>1 DEF IInv, SaveInv, TypeInv
<1>3. /\ SaveInv' /\ Up' /\ pc' \in {"idle", "update", "checkpoint"}
      /\ todo' \in Seq(Names) /\ then' = "idle"
  BY <1>1, <1>2, EnterGoes DEF IInv
<1>4. MemInv'
  BY <1>1, <1>2 DEF IInv, MemInv
<1>5. Up /\ scored' = scored /\ episode' \in Policy \cup {NoPolicy}
  BY <1>1, <1>2 DEF Up, evaluator, IInv, TypeInv
<1> QED BY <1>1, <1>3, <1>4, <1>5, MemTypes, HandlerIInv DEF IInv

LEMMA BestDoneIInv ==
    ASSUME IInv, BestDone
    PROVE  IInv'
<1>1. /\ pc = "best" /\ Enter(then) /\ best' = [best EXCEPT !.pending = FALSE]
      /\ UNCHANGED <<files, evaluator, tried, runs, mem>>
  BY DEF BestDone
<1>2. then \in {"idle", "update", "checkpoint"}
  BY DEF IInv, TypeInv
<1>3. /\ SaveInv' /\ Up' /\ pc' = then
      /\ todo' \in Seq(Names) /\ then' = "idle"
  BY <1>1, <1>2, EnterGoes DEF IInv
<1>4. /\ best' \in [ret: 0..MaxReturn, policy: Policy \cup {NoPolicy}, pending: BOOLEAN]
      /\ best'.ret = best.ret /\ best'.policy = best.policy /\ ~best'.pending
  BY <1>1 DEF IInv, TypeInv
<1>5. TypeInv'
  BY <1>1, <1>2, <1>3, <1>4 DEF IInv, TypeInv, files, evaluator
<1>6. LeaderInv'
  BY <1>1, <1>4 DEF IInv, LeaderInv, files, evaluator, Present, Up
<1>7. LoadInv' /\ ResumeInv' /\ MemInv'
  BY <1>1, <1>2, <1>3 DEF LoadInv, IInv, ResumeInv, MemInv, Up, files
<1>8. FilesInv' /\ BestExact'
  BY <1>1, FilesSame, BestFilesSame DEF IInv, files, evaluator
<1> QED BY <1>3, <1>5, <1>6, <1>7, <1>8 DEF IInv

-----------------------------------------------------------------------------
(* The evaluator, and the end of the process.                              *)

LEMMA EvaluatorIInv ==
    ASSUME IInv, BeginEvaluationPolicy \/ Incomplete
    PROVE  IInv'
<1>1. /\ pc \in {"idle", "update"} /\ episode' \in {mem.infer, NoPolicy}
      /\ UNCHANGED <<files, pc, todo, then, tried, runs, mem, best, scored>>
  BY DEF BeginEvaluationPolicy, Incomplete, LoopRuns
<1>2. episode' \in Policy \cup {NoPolicy}
  BY <1>1, MemTypes DEF IInv
<1>3. SaveInv' /\ MemInv' /\ Up /\ Up'
  BY <1>1 DEF IInv, SaveInv, CheckpointInv, BestSaveInv, MemInv, Up
<1>4. todo' \in Seq(Names) /\ then' \in {"idle", "update", "checkpoint"}
  BY <1>1 DEF IInv, TypeInv
<1> QED BY <1>1, <1>2, <1>3, <1>4, MemTypes, HandlerIInv DEF IInv

LEMMA ResultIInv ==
    ASSUME IInv, NEW r \in 1..MaxReturn, RecordEvaluationResult(r)
    PROVE  IInv'
<1>1. /\ pc \in {"idle", "update"} /\ episode # NoPolicy /\ episode' = NoPolicy
      /\ scored' = scored \cup {[policy |-> episode, ret |-> r]}
      /\ UNCHANGED <<files, pc, todo, then, tried, runs, mem>>
  BY DEF RecordEvaluationResult, LoopRuns
<1>2. episode \in Policy /\ r \in 0..MaxReturn
  BY <1>1 DEF IInv, TypeInv
<1>3. \/ best' = best
      \/ r > best.ret /\ best' = [ret |-> r, policy |-> episode, pending |-> TRUE]
  BY DEF RecordEvaluationResult, RecordEpisode
<1>4. TypeInv'
  <2>1. best' \in [ret: 0..MaxReturn, policy: Policy \cup {NoPolicy}, pending: BOOLEAN]
    <3>1. CASE best' = best
      BY <3>1 DEF IInv, TypeInv
    <3>2. CASE best' = [ret |-> r, policy |-> episode, pending |-> TRUE]
      BY <1>2, <3>2
    <3> QED BY <1>3, <3>1, <3>2
  <2>2. scored' \subseteq [policy: Policy, ret: 1..MaxReturn]
    BY <1>1, <1>2 DEF IInv, TypeInv
  <2> QED BY <1>1, <2>1, <2>2 DEF IInv, TypeInv, files
<1>5. SaveInv' /\ LoadInv' /\ ResumeInv' /\ MemInv'
  BY <1>1 DEF IInv, SaveInv, CheckpointInv, BestSaveInv, LoadInv, ResumeInv, MemInv, Up, files
<1>6. LeaderInv'
  <2>1. UNCHANGED disk /\ Up
    BY <1>1 DEF files, Up
  <2>2. CASE best' = best
    BY <1>1, <2>1, <2>2 DEF IInv, LeaderInv, Up, Present
  <2>3. CASE r > best.ret /\ best' = [ret |-> r, policy |-> episode, pending |-> TRUE]
    <3>1. Present(Meta) => disk[Meta].ret \in 0..MaxReturn /\ best.ret >= disk[Meta].ret
      BY <2>1, NamesDiffer, PresentFile DEF IInv, LeaderInv
    <3>2. best.ret \in 0..MaxReturn
      BY DEF IInv, TypeInv
    <3>3. Present(Meta) => r > disk[Meta].ret
      BY <2>3, <3>1, <3>2
    <3> QED BY <1>1, <1>2, <2>1, <2>3, <3>1, <3>3 DEF LeaderInv, Present
  <2> QED BY <1>3, <2>2, <2>3
<1>7. FilesInv' /\ BestExact'
  BY <1>1, FilesSame, BestFilesSame DEF IInv, files
<1> QED BY <1>4, <1>5, <1>6, <1>7 DEF IInv

LEMMA CrashIInv ==
    ASSUME IInv, Crash
    PROVE  IInv'
<1>1. /\ pc' = "down" /\ todo' = <<>> /\ then' = "idle" /\ tried' = {}
      /\ mem' = Fresh(0) /\ best' = NoBest /\ episode' = NoPolicy
      /\ UNCHANGED <<files, runs, scored>>
  BY DEF Crash
<1>2. TypeInv'
  BY <1>1, FreshMem, NoBestType, FileLists, Constants DEF IInv, TypeInv, files
<1>3. SaveInv' /\ LeaderInv' /\ LoadInv' /\ ResumeInv'
  BY <1>1 DEF SaveInv, CheckpointInv, BestSaveInv, LeaderInv, LoadInv, ResumeInv, Up, NoBest
<1>4. MemInv'
  BY <1>1, FreshMem, Constants DEF MemInv
<1>5. FilesInv' /\ BestExact'
  BY <1>1, FilesSame, BestFilesSame DEF IInv, files
<1> QED BY <1>2, <1>3, <1>4, <1>5 DEF IInv

-----------------------------------------------------------------------------
(* Publishing a file.                                                      *)

(* n is the next file of the save, and the rest follows.                   *)
NextFile(n) ==
    \/ /\ pc = "checkpoint"
       /\ \/ /\ n = Numbered(mem.steps) /\ todo' = <<LatestArch, Latest>>
          \/ /\ n = LatestArch /\ todo' = <<Latest>>
             /\ Saved(Numbered(mem.steps)) /\ committed = mem.steps
          \/ /\ n = Latest /\ todo' = <<>>
             /\ Saved(Numbered(mem.steps)) /\ committed = mem.steps /\ Saved(LatestArch)
    \/ /\ pc = "best" /\ best.pending
       /\ \/ n = BestArch /\ todo' = <<Best, Meta>>
          \/ n = Best /\ todo' = <<Meta>> /\ Saved(BestArch)
          \/ n = Meta /\ todo' = <<>> /\ Saved(BestArch) /\ Saved(Best)

LEMMA PublishesNext ==
    ASSUME TypeInv, SaveInv, Publish
    PROVE  \E n: /\ NextFile(n) /\ disk' = [disk EXCEPT ![n] = Content(n)]
                 /\ committed' = IF n \in NumberedNames THEN mem.steps ELSE committed
                 /\ UNCHANGED <<complete, damaged, evaluator, pc, then, tried, runs, mem, best>>
<1> DEFINE n == Head(todo)
<1>1. /\ todo # <<>> /\ todo' = Tail(todo)
      /\ disk' = [disk EXCEPT ![n] = Content(n)]
      /\ committed' = IF n \in NumberedNames THEN mem.steps ELSE committed
      /\ UNCHANGED <<complete, damaged, evaluator, pc, then, tried, runs, mem, best>>
  BY Zenon DEF Publish
<1>2. ASSUME NEW x, NEW y, NEW z, todo = <<x, y, z>> PROVE n = x /\ todo' = <<y, z>>
  BY <1>1, <1>2
<1>3. ASSUME NEW x, NEW y, todo = <<x, y>> PROVE n = x /\ todo' = <<y>>
  BY <1>1, <1>3
<1>4. ASSUME NEW x, todo = <<x>> PROVE n = x /\ todo' = <<>>
  BY <1>1, <1>4
<1> HIDE DEF n
<1>5. NextFile(n)
  <2>1. CASE pc = "checkpoint"
    <3>1. CASE todo = CheckpointFiles
      BY <1>2, <2>1, <3>1 DEF NextFile, CheckpointFiles
    <3>2. CASE todo # CheckpointFiles
      BY <1>1, <1>3, <1>4, <2>1, <3>2 DEF SaveInv, CheckpointInv, NextFile
    <3> QED BY <3>1, <3>2
  <2>2. CASE pc = "best"
    <3>1. CASE todo = BestFiles
      BY <1>2, <2>2, <3>1 DEF NextFile, BestFiles, SaveInv, BestSaveInv
    <3>2. CASE todo # BestFiles
      BY <1>1, <1>3, <1>4, <2>2, <3>2 DEF SaveInv, BestSaveInv, NextFile
    <3> QED BY <3>1, <3>2
  <2> QED BY <1>1, <2>1, <2>2 DEF SaveInv
<1> QED BY <1>1, <1>5, Zenon

(* What a publication of n changes and what it leaves.                     *)
LEMMA Published ==
    ASSUME TypeInv, NEW n \in Names, disk' = [disk EXCEPT ![n] = Content(n)],
           UNCHANGED <<mem, best>>
    PROVE  /\ disk'[n] = Content(n) /\ Saved(n)'
           /\ \A m \in Names \ {n}: disk'[m] = disk[m] /\ (Saved(m) => Saved(m)')
           /\ \A m \in Names \ {n}: Present(m)' <=> Present(m)
<1>1. disk'[n] = Content(n) /\ \A m \in Names \ {n}: disk'[m] = disk[m]
  BY DEF TypeInv
<1>2. \A m: Content(m)' = Content(m)
  BY DEF Content
<1> QED BY <1>1, <1>2 DEF Saved, Present

(* A file of a checkpoint is a good copy of the newest state.              *)
LEMMA RecoveryPublished ==
    ASSUME IInv, pc = "checkpoint", NEW n \in RecoveryNames,
           disk' = [disk EXCEPT ![n] = Content(n)],
           UNCHANGED <<mem, best, complete, damaged>>,
           committed' = IF n \in NumberedNames THEN mem.steps ELSE committed,
           n \in NumberedNames => n = Numbered(mem.steps)
    PROVE  FilesInv'
<1>1. n \in Names /\ TypeInv
  BY NamesDiffer DEF IInv
<1>2. /\ disk'[n] = Content(n) /\ Content(n) \in Payload /\ Content(n).state = "good"
      /\ Content(n).steps = mem.steps /\ Content(n).model = mem.model
      /\ Content(n).opt = mem.opt
      /\ \A m \in Names \ {n}: disk'[m] = disk[m] /\ (Present(m)' <=> Present(m))
  BY <1>1, ContentOf, Published
<1>3. /\ mem.steps \in Steps /\ mem.steps \in Nat /\ committed \in Int /\ committed' \in Int
      /\ complete \in Int /\ damaged \in Int
  BY <1>1, MemTypes, Constants, FilesAssumption DEF TypeInv
<1>4. damaged <= 2 => /\ mem.steps >= committed /\ committed' >= committed
                      /\ mem.steps >= committed' /\ complete <= committed
  BY <1>3 DEF IInv, ResumeInv, Up, FilesInv, CopiesInv
<1>5. NumberInv'
  <2> SUFFICES ASSUME NEW k \in Steps, Present(Numbered(k))' PROVE disk'[Numbered(k)].steps = k
    BY DEF NumberInv
  <2>1. CASE Numbered(k) = n
    BY <1>2, <2>1, NamesDiffer
  <2>2. CASE Numbered(k) # n
    BY <1>2, <2>2, NamesDiffer DEF IInv, FilesInv, NumberInv
  <2> QED BY <2>1, <2>2
<1>6. UndamagedInv'
  <2> SUFFICES ASSUME damaged = 0
               PROVE  /\ \A m \in RecoveryNames: Present(m)' => disk'[m].state = "good"
                      /\ \A k \in Steps: Present(Numbered(k))' => k <= committed'
    BY DEF UndamagedInv
  <2>1. ASSUME NEW m \in RecoveryNames, Present(m)' PROVE disk'[m].state = "good"
    BY <1>2, <2>1, NamesDiffer DEF IInv, FilesInv, UndamagedInv
  <2>2. ASSUME NEW k \in Steps, Present(Numbered(k))' PROVE k <= committed'
    <3>1. k \in Int
      BY Constants
    <3>2. CASE Numbered(k) = n
      BY <3>1, <3>2, NamesDiffer, <1>3
    <3>3. CASE Numbered(k) # n
      <4>1. k <= committed
        BY <1>2, <2>2, <3>3, NamesDiffer DEF IInv, FilesInv, UndamagedInv
      <4> QED BY <1>3, <1>4, <3>1, <4>1
    <3> QED BY <3>2, <3>3
  <2> QED BY <2>1, <2>2
<1>7. CopiesInv'
  <2> SUFFICES ASSUME damaged <= 2
               PROVE  /\ complete <= committed'
                      /\ complete # None => Cardinality(Copies') >= 3 - damaged
                      /\ committed' # None => \E m \in RecoveryNames: Good(m, committed)'
    BY DEF CopiesInv
  <2>1. complete <= committed'
    BY <1>3, <1>4
  <2>2. Good(n, complete)' /\ Good(n, committed)'
    BY <1>2, <1>3, <1>4 DEF Good
  <2>3. Copies \in SUBSET Copies'
    <3> SUFFICES ASSUME NEW m \in Copies PROVE m \in Copies'
      OBVIOUS
    <3>1. CASE m = n
      BY <2>2, <3>1 DEF Copies
    <3>2. CASE m # n
      BY <1>2, <3>2, NamesDiffer DEF Copies, Good
    <3> QED BY <3>1, <3>2
  <2>4. IsFiniteSet(Copies') /\ IsFiniteSet(Copies)
    BY RecoveryFinite, FS_Subset DEF Copies
  <2>5. /\ Cardinality(Copies) <= Cardinality(Copies')
        /\ Cardinality(Copies) \in Nat /\ Cardinality(Copies') \in Nat
    BY <2>3, <2>4, FS_Subset, FS_CardinalityType
  <2>6. complete # None => Cardinality(Copies) >= 3 - damaged
    BY DEF IInv, FilesInv, CopiesInv
  <2> QED BY <1>3, <2>1, <2>2, <2>5, <2>6
<1>8. DiskInv'
  <2> SUFFICES ASSUME NEW m \in RecoveryNames, Present(m)'
               PROVE  disk'[m].steps = disk'[m].model.steps /\ disk'[m].opt = disk'[m].model
    BY DEF DiskInv
  <2>1. CASE m = n
    BY <1>2, <2>1 DEF IInv, MemInv
  <2>2. CASE m # n
    BY <1>2, <2>2, NamesDiffer DEF IInv, FilesInv, DiskInv
  <2> QED BY <2>1, <2>2
<1> QED BY <1>5, <1>6, <1>7, <1>8 DEF FilesInv

(* A publication leaves the save where todo says it is.                    *)
LEMMA PublishedSave ==
    ASSUME IInv, NEW n, NextFile(n), disk' = [disk EXCEPT ![n] = Content(n)],
           committed' = IF n \in NumberedNames THEN mem.steps ELSE committed,
           UNCHANGED <<pc, mem, best>>
    PROVE  SaveInv' /\ todo' \in Seq(Names) /\ n \in Names
<1>0. TypeInv /\ mem.steps \in Steps
  BY MemTypes DEF IInv
<1>1. n \in Names /\ todo' \in Seq(Names)
  <2>1. /\ <<LatestArch, Latest>> \in Seq(Names) /\ <<Latest>> \in Seq(Names)
        /\ <<Best, Meta>> \in Seq(Names) /\ <<Meta>> \in Seq(Names) /\ <<>> \in Seq(Names)
    BY NamesDiffer
  <2>2. /\ n \in Names
        /\ todo' \in {<<LatestArch, Latest>>, <<Latest>>, <<Best, Meta>>, <<Meta>>, <<>>}
    BY <1>0, NamesDiffer, Zenon DEF NextFile
  <2> QED BY <2>1, <2>2, Zenon
<1>2. /\ Saved(n)'
      /\ \A m \in Names \ {n}: Saved(m) => Saved(m)'
  BY <1>0, <1>1, Published
<1>3. CASE pc = "checkpoint"
  <2>1. /\ Numbered(mem.steps) \in Names /\ LatestArch \in Names /\ Latest \in Names
        /\ Numbered(mem.steps) # LatestArch /\ Numbered(mem.steps) # Latest
        /\ LatestArch # Latest
    BY <1>0, NamesDiffer
  <2>2. Numbered(mem'.steps) = Numbered(mem.steps)
    OBVIOUS
  <2>3. /\ n = Numbered(mem.steps) => committed' = mem.steps
        /\ n # Numbered(mem.steps) => committed' = committed
    BY <1>0, <1>3, NamesDiffer DEF NextFile
  <2>4. CheckpointInv'
    BY <1>2, <1>3, <2>1, <2>2, <2>3 DEF NextFile, CheckpointInv
  <2> QED BY <1>1, <1>3, <2>4 DEF SaveInv, BestSaveInv
<1>4. CASE pc = "best"
  <2>1. /\ BestArch \in Names /\ Best \in Names /\ Meta \in Names
        /\ BestArch # Best /\ BestArch # Meta /\ Best # Meta
    BY NamesDiffer
  <2>2. BestSaveInv'
    BY <1>2, <1>4, <2>1 DEF NextFile, BestSaveInv
  <2> QED BY <1>1, <1>4, <2>2 DEF SaveInv, CheckpointInv
<1> QED BY <1>1, <1>3, <1>4 DEF NextFile

(* A best-policy file: the recovery files are not touched.                 *)
LEMMA BestPublished ==
    ASSUME IInv, pc = "best", NEW n, NextFile(n), disk' = [disk EXCEPT ![n] = Content(n)],
           UNCHANGED <<mem, best, complete, committed, damaged, pc, scored>>
    PROVE  FilesInv' /\ BestExact' /\ LeaderInv'
<1>0. TypeInv /\ n \in {BestArch, Best, Meta} /\ best.pending
  BY DEF IInv, NextFile
<1>1. n \in Names /\ n \notin RecoveryNames /\ best.policy \in Policy
  BY <1>0, NamesDiffer DEF IInv, LeaderInv, TypeInv
<1>2. /\ disk'[n] = Content(n) /\ Content(n) \in Payload
      /\ Content(n).state = "good" /\ Content(n).model = best.policy
      /\ Content(n).ret = best.ret
      /\ \A m \in Names \ {n}: disk'[m] = disk[m] /\ (Present(m)' <=> Present(m))
  BY <1>0, <1>1, ContentOf, Published
<1>3. \A m \in RecoveryNames: disk'[m] = disk[m] /\ (Present(m)' <=> Present(m))
  BY <1>1, <1>2, NamesDiffer
<1>4. FilesInv'
  <2>1. NumberInv' /\ UndamagedInv' /\ DiskInv'
    BY <1>3, NamesDiffer DEF IInv, FilesInv, NumberInv, UndamagedInv, DiskInv
  <2>2. Copies' = Copies
    BY <1>3 DEF Copies, Good
  <2>3. CopiesInv'
    BY <1>3, <2>2 DEF IInv, FilesInv, CopiesInv, Good
  <2> QED BY <2>1, <2>3 DEF FilesInv
<1>5. [policy |-> best.policy, ret |-> best.ret] \in scored
  BY <1>0 DEF IInv, LeaderInv
<1>6. Present(n)' /\ disk'[n].ret = best.ret /\ disk'[n].model = best.policy
  BY <1>2 DEF Present
<1>7. /\ BestArch \in Names /\ Best \in Names /\ Meta \in Names
      /\ BestArch # Best /\ BestArch # Meta /\ Best # Meta
  BY NamesDiffer
<1>8. Up /\ best.ret \in Int
  BY <1>0 DEF Up, TypeInv
<1>9. LeaderInv'
  <2>1. Present(Meta)' => /\ best.ret >= disk'[Meta].ret
                          /\ (best.ret = disk'[Meta].ret /\ best.pending)
                               => best.policy = disk'[Meta].model
    <3>1. CASE n = Meta
      BY <1>6, <1>8, <3>1
    <3>2. CASE n # Meta
      BY <1>2, <1>7, <1>8, <3>2 DEF IInv, LeaderInv
    <3> QED BY <3>1, <3>2
  <2> QED BY <1>8, <2>1 DEF IInv, LeaderInv
<1>10. ASSUME NEW m \in {BestArch, Best, Meta}, Present(m)' PROVE Measured(m)'
  <2>1. CASE m = n
    BY <1>5, <1>6, <2>1 DEF Measured
  <2>2. CASE m # n
    BY <1>2, <1>7, <1>10, <2>2 DEF IInv, BestExact, Measured
  <2> QED BY <2>1, <2>2
<1>11. ASSUME Present(Meta)', NEW m \in {BestArch, Best}
       PROVE  /\ Present(m)' /\ disk'[m].ret >= disk'[Meta].ret
              /\ disk'[m].ret = disk'[Meta].ret => disk'[m].model = disk'[Meta].model
  <2>1. CASE n = Meta
    <3>1. disk[m] = Content(m) /\ m # n /\ m \in Names /\ m \notin RecoveryNames
      BY <1>7, <2>1, NamesDiffer DEF NextFile, Saved
    <3>2. Content(m).state = "good" /\ Content(m).ret = best.ret /\ Content(m).model = best.policy
      BY <1>0, <1>1, <3>1, ContentOf
    <3>3. Present(m)' /\ disk'[m] = disk[m]
      BY <1>2, <3>1, <3>2 DEF Present
    <3> QED BY <1>6, <1>8, <2>1, <3>1, <3>2, <3>3
  <2>2. CASE n # Meta
    <3>1. Present(Meta) /\ disk'[Meta] = disk[Meta]
      BY <1>2, <1>7, <1>11, <2>2
    <3>2. CASE m = n
      BY <1>0, <1>6, <1>8, <3>1, <3>2 DEF IInv, LeaderInv
    <3>3. CASE m # n
      BY <1>2, <1>7, <3>1, <3>3 DEF IInv, BestExact
    <3> QED BY <3>2, <3>3
  <2> QED BY <2>1, <2>2
<1>12. BestExact'
  BY <1>10, <1>11 DEF BestExact
<1> QED BY <1>4, <1>9, <1>12

(* A checkpoint leaves the best-policy files alone.                        *)
LEMMA RecoveryLeavesBest ==
    ASSUME IInv, UNCHANGED <<best, scored>>, Up' => Up,
           \A m \in {BestArch, Best, Meta}: disk'[m] = disk[m]
    PROVE  BestExact' /\ LeaderInv'
<1>1. \A m \in {BestArch, Best, Meta}: /\ disk'[m] = disk[m]
                                       /\ Present(m)' <=> Present(m)
                                       /\ Measured(m)' <=> Measured(m)
  BY DEF Present, Measured
<1>2. BestExact'
  BY <1>1 DEF IInv, BestExact
<1>3. LeaderInv'
  BY <1>1 DEF IInv, LeaderInv
<1> QED BY <1>2, <1>3

LEMMA PublishIInv ==
    ASSUME IInv, Publish
    PROVE  IInv'
<1>1. PICK n: /\ NextFile(n) /\ disk' = [disk EXCEPT ![n] = Content(n)]
              /\ committed' = IF n \in NumberedNames THEN mem.steps ELSE committed
              /\ UNCHANGED <<complete, damaged, evaluator, pc, then, tried, runs, mem, best>>
  BY PublishesNext DEF IInv
<1>2. UNCHANGED <<complete, damaged, episode, scored, pc, then, tried, runs, mem, best>>
  BY <1>1 DEF evaluator
<1>3. SaveInv' /\ todo' \in Seq(Names) /\ n \in Names
  BY <1>1, <1>2, PublishedSave
<1>4. pc \in {"best", "checkpoint"} /\ TypeInv /\ mem.steps \in Steps
  BY <1>1, MemTypes DEF NextFile, IInv
<1>5. LoadInv' /\ MemInv'
  BY <1>2, <1>4 DEF IInv, LoadInv, MemInv
<1>6. ASSUME Content(n) \in Payload, committed' \in Steps \cup {None} PROVE TypeInv'
  <2>1. disk' \in [Names -> Payload \cup {Absent}]
    BY <1>1, <1>6 DEF IInv, TypeInv
  <2> QED BY <1>2, <1>3, <1>6, <2>1 DEF IInv, TypeInv
<1>7. CASE pc = "checkpoint"
  <2>1. n \in RecoveryNames /\ (n \in NumberedNames => n = Numbered(mem.steps))
    BY <1>1, <1>4, <1>7, NamesDiffer DEF NextFile
  <2>2. FilesInv'
    BY <1>1, <1>2, <1>7, <2>1, RecoveryPublished
  <2>3. \A m \in {BestArch, Best, Meta}: disk'[m] = disk[m]
    BY <1>1, <2>1, NamesDiffer DEF IInv, TypeInv
  <2>4. BestExact' /\ LeaderInv'
    BY <1>2, <2>3, RecoveryLeavesBest DEF Up
  <2>5. ResumeInv'
    <3>1. damaged <= 2 => mem.steps >= committed
      BY <1>7 DEF IInv, ResumeInv, Up
    <3>2. mem.steps >= mem.steps
      BY <1>4, MemTypes
    <3> QED BY <1>1, <1>2, <1>7, <3>1, <3>2 DEF ResumeInv
  <2>6. TypeInv'
    BY <1>1, <1>4, <1>6, <2>1, ContentOf DEF TypeInv
  <2> QED BY <1>3, <1>5, <2>2, <2>4, <2>5, <2>6 DEF IInv
<1>8. CASE pc = "best"
  <2>1. n \in {BestArch, Best, Meta} /\ n \notin RecoveryNames /\ committed' = committed
    BY <1>1, <1>8, NamesDiffer DEF NextFile
  <2>2. FilesInv' /\ BestExact' /\ LeaderInv'
    BY <1>1, <1>2, <1>8, <2>1, BestPublished
  <2>3. ResumeInv'
    BY <1>2, <2>1 DEF IInv, ResumeInv, Up
  <2>4. best.policy \in Policy
    BY <1>1, <1>8 DEF NextFile, IInv, LeaderInv, TypeInv
  <2>5. TypeInv'
    BY <1>4, <1>6, <2>1, <2>4, ContentOf DEF TypeInv
  <2> QED BY <1>3, <1>5, <2>2, <2>3, <2>5 DEF IInv
<1> QED BY <1>4, <1>7, <1>8

-----------------------------------------------------------------------------
(* Rotation and damage.                                                    *)

(* What rotation removes lies behind another numbered file.                *)
LEMMA RotatedHasNewer ==
    ASSUME NEW k \in Steps, Numbered(k) \in Rotated
    PROVE  \E l \in Steps: l > k /\ Present(Numbered(l))
<1> DEFINE here == {n \in Steps: Present(Numbered(n))}
           newer == {l \in here: l > k}
<1>1. KeepLast # 0 /\ Cardinality(newer) >= KeepLast
  <2>1. Rotated = IF KeepLast = 0 THEN {}
                  ELSE {Numbered(n): n \in
                          {m \in here: Cardinality({l \in here: l > m}) >= KeepLast}}
    BY DEF Rotated
  <2>2. KeepLast # 0
    BY <2>1
  <2>3. PICK m \in here: Numbered(k) = Numbered(m) /\ Cardinality({l \in here: l > m}) >= KeepLast
    BY <2>1, <2>2
  <2>4. m = k
    BY <2>3, NamesDiffer
  <2> QED BY <2>2, <2>3, <2>4
<1>2. newer # {}
  <2>1. Cardinality({}) = 0
    BY FS_EmptySet
  <2> QED BY <1>1, <2>1, FilesAssumption
<1> QED BY <1>2

LEMMA RotateIInv ==
    ASSUME IInv, Rotate
    PROVE  IInv'
<1>1. PICK gone \in SUBSET Rotated:
        disk' = [n \in Names |-> IF n \in gone THEN Absent ELSE disk[n]]
  BY DEF Rotate
<1>2. /\ pc = "checkpoint" /\ todo = <<>> /\ Enter("idle") /\ complete' = mem.steps
      /\ UNCHANGED <<committed, damaged, episode, scored, tried, runs, mem, best>>
  BY DEF Rotate, evaluator
<1>3. TypeInv /\ mem.steps \in Steps /\ mem.steps \in Nat
  BY MemTypes DEF IInv
<1>4. /\ SaveInv' /\ Up' /\ pc' = "idle" /\ Up
      /\ todo' \in Seq(Names) /\ then' = "idle"
  BY <1>2, <1>3, EnterGoes DEF Up
<1>5. Rotated \subseteq NumberedNames
  BY DEF Rotated, NumberedNames
<1>6. \A n \in Names: disk'[n] = IF n \in gone THEN Absent ELSE disk[n]
  BY <1>1
<1>7. \A n \in Names: /\ n \in gone => ~Present(n)'
                      /\ n \notin gone => disk'[n] = disk[n] /\ (Present(n)' <=> Present(n))
  BY <1>6, Constants DEF Present
<1>8. /\ Saved(Numbered(mem.steps)) /\ committed = mem.steps
      /\ Saved(LatestArch) /\ Saved(Latest)
  <2>1. todo # CheckpointFiles
    BY <1>2 DEF CheckpointFiles
  <2> QED BY <1>2, <2>1 DEF IInv, SaveInv, CheckpointInv
<1>9. /\ Good(Numbered(mem.steps), mem.steps) /\ Good(LatestArch, mem.steps)
      /\ Good(Latest, mem.steps)
  <2>1. mem.steps >= mem.steps
    BY <1>3
  <2> QED BY <1>3, <1>8, <2>1, ContentOf, NamesDiffer DEF Saved, Good
<1>10. LatestArch \notin gone /\ Latest \notin gone
  BY <1>5, NamesDiffer
<1>11. TypeInv'
  <2>1. disk' \in [Names -> Payload \cup {Absent}]
    BY <1>1 DEF IInv, TypeInv
  <2> QED BY <1>2, <1>3, <1>4, <2>1 DEF TypeInv
<1>12. LoadInv' /\ MemInv'
  BY <1>2, <1>4 DEF IInv, LoadInv, MemInv
<1>13. ResumeInv'
  BY <1>2, <1>3, <1>4, <1>8 DEF ResumeInv
<1>14. BestExact' /\ LeaderInv'
  <2>1. \A m \in {BestArch, Best, Meta}: disk'[m] = disk[m]
    BY <1>5, <1>7, NamesDiffer
  <2> QED BY <1>2, <1>4, <2>1, RecoveryLeavesBest
<1>15. NumberInv' /\ DiskInv'
  BY <1>7, NamesDiffer DEF IInv, FilesInv, NumberInv, DiskInv
<1>16. UndamagedInv'
  BY <1>2, <1>7, NamesDiffer DEF IInv, FilesInv, UndamagedInv
<1>17. CopiesInv'
  <2> SUFFICES ASSUME damaged <= 2
               PROVE  /\ mem.steps <= mem.steps
                      /\ Cardinality(Copies') >= 3 - damaged
                      /\ \E m \in RecoveryNames: Good(m, committed)'
    BY <1>2, <1>8 DEF CopiesInv
  <2>1. Good(LatestArch, mem.steps)' /\ Good(Latest, mem.steps)'
    BY <1>2, <1>7, <1>9, <1>10, NamesDiffer DEF Good
  <2>2. LatestArch \in Copies' /\ Latest \in Copies' /\ LatestArch # Latest
    BY <1>2, <2>1, NamesDiffer DEF Copies, Good
  <2>3. IsFiniteSet(Copies')
    BY RecoveryFinite, FS_Subset DEF Copies
  <2>4. Cardinality(Copies') >= 2 /\ Cardinality(Copies') \in Nat
    BY <2>2, <2>3, TwoCopies, FS_CardinalityType
  <2>5. damaged = 0 => Cardinality(Copies') >= 3
    <3> SUFFICES ASSUME damaged = 0 PROVE Cardinality(Copies') >= 3
      OBVIOUS
    <3>1. Numbered(mem.steps) \notin gone
      <4> SUFFICES ASSUME Numbered(mem.steps) \in gone PROVE FALSE
        OBVIOUS
      <4>1. PICK l \in Steps: l > mem.steps /\ Present(Numbered(l))
        BY <1>1, <1>3, RotatedHasNewer
      <4>2. l <= mem.steps /\ l \in Nat
        BY <1>8, <4>1, Constants DEF IInv, FilesInv, UndamagedInv
      <4> QED BY <1>3, <4>1, <4>2
    <3>2. Numbered(mem.steps) \in Copies'
      BY <1>2, <1>3, <1>7, <1>9, <3>1, NamesDiffer DEF Copies, Good
    <3>3. Numbered(mem.steps) # LatestArch /\ Numbered(mem.steps) # Latest
      BY <1>3, NamesDiffer
    <3> QED BY <2>2, <2>3, <3>2, <3>3, TwoCopies
  <2>6. damaged \in Nat
    BY <1>3 DEF TypeInv
  <2>7. Good(LatestArch, committed)'
    BY <1>2, <1>8, <2>1 DEF Good
  <2> QED BY <1>3, <2>4, <2>5, <2>6, <2>7, NamesDiffer
<1> QED BY <1>4, <1>11, <1>12, <1>13, <1>14, <1>15, <1>16, <1>17 DEF IInv, FilesInv

LEMMA DamageIInv ==
    ASSUME IInv, NEW n \in RecoveryNames, Damage(n)
    PROVE  IInv'
<1>1. PICK how \in {"corrupt", "unappliable"}: disk' = [disk EXCEPT ![n].state = how]
  BY DEF Damage
<1>2. /\ pc = "down" /\ damaged < MaxDamage /\ Present(n)
      /\ damaged' = damaged + 1 /\ committed' = complete
      /\ UNCHANGED <<complete, episode, scored, pc, todo, then, tried, runs, mem, best>>
  BY DEF Damage, evaluator
<1>3. n \in Names /\ TypeInv /\ disk[n] \in Payload
  BY <1>2, NamesDiffer, PresentFile DEF IInv
<1>4. /\ disk'[n] \in Payload /\ disk'[n].state = how /\ disk'[n].steps = disk[n].steps
      /\ disk'[n].model = disk[n].model /\ disk'[n].opt = disk[n].opt
      /\ \A m \in Names \ {n}: disk'[m] = disk[m]
  <2> DEFINE f == [disk[n] EXCEPT !.state = how]
  <2>1. disk'[n] = f /\ \A m \in Names \ {n}: disk'[m] = disk[m]
    BY <1>1, <1>3 DEF TypeInv
  <2>2. f \in Payload /\ f.state = how /\ f.steps = disk[n].steps
        /\ f.model = disk[n].model /\ f.opt = disk[n].opt
    BY <1>3 DEF Payload
  <2> HIDE DEF f
  <2> QED BY <2>1, <2>2
<1>5. Present(n)' /\ \A m \in Names: Present(m)' <=> Present(m)
  BY <1>2, <1>4 DEF Present
<1>6. TypeInv'
  <2>1. disk' \in [Names -> Payload \cup {Absent}]
    <3>1. disk' = [disk EXCEPT ![n] = [disk[n] EXCEPT !.state = how]]
      BY <1>1
    <3>2. disk'[n] = [disk[n] EXCEPT !.state = how]
      BY <1>3, <3>1 DEF TypeInv
    <3> DEFINE f == [disk[n] EXCEPT !.state = how]
    <3>3. f \in Payload /\ disk' = [disk EXCEPT ![n] = f]
      BY <1>4, <3>1, <3>2
    <3> HIDE DEF f
    <3> QED BY <3>3 DEF IInv, TypeInv
  <2>2. damaged' \in 0..MaxDamage
    BY <1>2, FilesAssumption DEF IInv, TypeInv
  <2> QED BY <1>2, <2>1, <2>2 DEF IInv, TypeInv
<1>7. SaveInv' /\ LoadInv' /\ ResumeInv' /\ MemInv'
  BY <1>2 DEF IInv, SaveInv, CheckpointInv, BestSaveInv, LoadInv, ResumeInv, MemInv, Up
<1>8. BestExact' /\ LeaderInv'
  <2>1. \A m \in {BestArch, Best, Meta}: disk'[m] = disk[m]
    BY <1>4, NamesDiffer
  <2> QED BY <1>2, <2>1, RecoveryLeavesBest DEF Up
<1>9. NumberInv' /\ DiskInv'
  BY <1>3, <1>4, <1>5, NamesDiffer DEF IInv, FilesInv, NumberInv, DiskInv
<1>10. damaged \in Nat /\ complete \in Int /\ committed \in Int
  BY <1>3, Constants DEF TypeInv
<1>11. UndamagedInv'
  BY <1>2, <1>10 DEF UndamagedInv
<1>12. CopiesInv'
  <2> SUFFICES ASSUME damaged + 1 <= 2
               PROVE  /\ complete <= complete
                      /\ complete # None =>
                           /\ Cardinality(Copies') >= 3 - (damaged + 1)
                           /\ \E m \in RecoveryNames: Good(m, complete)'
    BY <1>2 DEF CopiesInv
  <2>1. complete <= complete
    BY <1>10
  <2>2. ASSUME complete # None
        PROVE  Cardinality(Copies') >= 3 - (damaged + 1)
    <3>1. Cardinality(Copies) >= 3 - damaged
      BY <1>10, <2>2 DEF IInv, FilesInv, CopiesInv
    <3>2. Copies \ {n} \in SUBSET Copies'
      BY <1>2, <1>4, NamesDiffer DEF Copies, Good
    <3>3. IsFiniteSet(Copies) /\ IsFiniteSet(Copies')
      BY RecoveryFinite, FS_Subset DEF Copies
    <3>4. /\ IsFiniteSet(Copies \ {n})
          /\ Cardinality(Copies \ {n}) >= Cardinality(Copies) - 1
          /\ Cardinality(Copies) \in Nat
      <4>1. Cardinality(Copies) \in Nat
        BY <3>3, FS_CardinalityType
      <4>2. /\ IsFiniteSet(Copies \ {n})
            /\ Cardinality(Copies \ {n}) \in {Cardinality(Copies), Cardinality(Copies) - 1}
        BY <3>3, FS_RemoveElement
      <4> QED BY <4>1, <4>2
    <3>5. /\ Cardinality(Copies \ {n}) <= Cardinality(Copies')
          /\ Cardinality(Copies') \in Nat /\ Cardinality(Copies \ {n}) \in Nat
      BY <3>2, <3>3, <3>4, FS_Subset, FS_CardinalityType
    <3> QED BY <1>10, <3>1, <3>4, <3>5
  <2>3. ASSUME complete # None PROVE \E m \in RecoveryNames: Good(m, complete)'
    <3>1. Cardinality(Copies') >= 3 - (damaged + 1)
      BY <2>2, <2>3
    <3>2. Copies' # {}
      BY <1>10, <3>1, FS_EmptySet
    <3> QED BY <1>2, <3>2 DEF Copies, Good
  <2> QED BY <2>1, <2>2, <2>3
<1> QED BY <1>6, <1>7, <1>8, <1>9, <1>11, <1>12 DEF IInv, FilesInv

-----------------------------------------------------------------------------
(* The theorems.                                                           *)

LEMMA NextIInv == IInv /\ [Next]_vars => IInv'
<1> SUFFICES ASSUME IInv, [Next]_vars PROVE IInv'
  OBVIOUS
<1>1. CASE Learner
  BY <1>1, GetIInv, MinibatchIInv, UpdateDoneIInv, PublishIInv, PublishFailsIInv, BestDoneIInv,
     RotateIInv DEF Learner
<1>2. CASE Evaluator
  BY <1>2, EvaluatorIInv, ResultIInv DEF Evaluator
<1>3. CASE Process
  BY <1>3, StartIInv, LoadNothingIInv, CrashIInv, LoadIInv, DamageIInv DEF Process
<1>4. CASE UNCHANGED vars
  <2>1. UNCHANGED <<disk, pc, todo, then, tried, runs, mem, best, episode, scored, committed,
                    complete, damaged>>
    BY <1>4 DEF vars
  <2>2. FilesInv' /\ BestExact'
    BY <2>1, FilesSame, BestFilesSame DEF IInv, files
  <2>3. TypeInv' /\ LeaderInv' /\ LoadInv' /\ ResumeInv' /\ MemInv'
    BY <2>1 DEF IInv, TypeInv, LeaderInv, LoadInv, ResumeInv, MemInv, Up, Present
  <2>4. \A n: Saved(n)' <=> Saved(n)
    BY <2>1 DEF Saved, Content
  <2>5. SaveInv'
    BY <2>1, <2>4 DEF IInv, SaveInv, CheckpointInv, BestSaveInv, CheckpointFiles
  <2> QED BY <2>2, <2>3, <2>5 DEF IInv
<1> QED BY <1>1, <1>2, <1>3, <1>4 DEF Next, Stopped

LEMMA Invariance == Spec => []IInv
BY InitIInv, NextIInv, PTL DEF Spec

(* Every variable keeps its type, and a best-policy save is pending only   *)
(* with the policy it is to write.                                         *)
THEOREM TypeCorrect == Spec => []TypeOK
<1>1. IInv => TypeOK
  BY DEF IInv, TypeInv, LeaderInv, TypeOK
<1> QED BY <1>1, Invariance, PTL

(* Whatever fails to load, in memory and in every recovery file the model, *)
(* the optimizer and the step count are those of the same update.          *)
THEOREM StaysCoherent == Spec => []Coherent
<1>1. IInv => Coherent
  BY DEF IInv, MemInv, FilesInv, DiskInv, Coherent
<1> QED BY <1>1, Invariance, PTL

(* With at most two damaged recovery files, a restart resumes at or after  *)
(* what was committed, wherever a save or the process was cut off, and is  *)
(* refused only if nothing was.                                            *)
THEOREM NothingIsLost ==
    ASSUME MaxDamage <= 2
    PROVE  Spec => []NothingLost
<1>1. IInv => NothingLost
  <2> SUFFICES ASSUME IInv PROVE NothingLost
    OBVIOUS
  <2>1. damaged <= 2
    BY FilesAssumption DEF IInv, TypeInv
  <2> QED BY <2>1 DEF IInv, ResumeInv, Up, NothingLost
<1> QED BY <1>1, Invariance, PTL

(* After any publication, failure or crash: what the best-policy files     *)
(* hold was measured on that policy, and best_evaluator.json never claims  *)
(* more than they do.                                                      *)
THEOREM BestIsExact == Spec => []BestExact
<1>1. IInv => BestExact
  BY DEF IInv
<1> QED BY <1>1, Invariance, PTL
=============================================================================
