------------------------ MODULE DistillationJob_proofs ------------------------
(***************************************************************************)
(* Theorems about DistillationJob, for any number of updates, snapshots,   *)
(* starts and foreign activations.  The invariant says of the job in       *)
(* memory and of every snapshot on disk that it can be loaded and accounts *)
(* for its candidates, and that requests are identified by the order in    *)
(* which snapshots first recorded them.                                    *)
(***************************************************************************)
EXTENDS DistillationJob, SequenceTheorems, FiniteSetTheorems, TLAPS

-----------------------------------------------------------------------------
(* The invariant.                                                          *)

Files == [serial: Nat \ {0}, job: JobRecords, held: SUBSET Artifacts]
Owners == [serial: Nat, last_save_update: 0..MaxUpdates, witness: Requests \cup {None},
           allowed: BOOLEAN]
Servers == [epoch: Nat, commands: Nat, slot: Segments \cup {None}, receipts: SUBSET Receipts,
            admitted: SUBSET Artifacts, foreign: Nat]

TypeInv ==
    /\ pc \in Steps /\ then \in {"first", "fetch", "upload", "activate", "due", "stop", "off"}
    /\ runs \in 1..MaxRuns /\ offline \in BOOLEAN
    /\ job \in JobRecords /\ owner \in Owners /\ disk \subseteq Files
    /\ server \in Servers /\ mail \in Segments \cup {None} /\ net \subseteq sent
    /\ sent \subseteq journal /\ journal \subseteq Requests /\ IsFiniteSet(journal)
    /\ given \subseteq Artifacts /\ stored \subseteq Artifacts

(* What a run goes on to do, once its snapshot is on disk.                 *)
Doing(step) == pc = step \/ (pc \in {"save", "rotate"} /\ then = step)
Recorded(j) == j.pending = None \/ j.pending \in journal

ControlInv ==
    /\ Doing("upload") => ~job.shadow
    /\ pc = "stage" => job.shadow /\ job.pending_candidates # <<>>
    /\ Doing("activate") => job.pending # None
    /\ pc = "await" => job.pending \in sent
    /\ pc = "rotate" => Recorded(job)
    /\ owner.witness = None \/ owner.witness \in journal

(* A job that may be published is one that can be loaded again.            *)
JobInv ==
    /\ Loadable(job) /\ (owner.allowed => ~job.dirty)
    /\ ~job.shadow => job.pending = None /\ journal = {}
    /\ \A c \in Range(job.pending_candidates): c.run <= runs
    /\ stored \subseteq Range(job.pending_candidates) \cup given \cup job.dropped

(* Newer snapshots have higher serials, and there is a newest one.         *)
IsNewest(f) == f \in disk /\ \A g \in disk: g.serial <= f.serial
DiskInv ==
    /\ \A f, g \in disk: f.serial = g.serial => f = g
    /\ disk # {} => \E f \in disk: IsNewest(f)
    /\ \A f \in disk:
         /\ Loadable(f.job) /\ ~f.job.dirty /\ f.job.shadow = job.shadow /\ Recorded(f.job)
         /\ \A c \in Range(f.job.pending_candidates): c.run <= runs
         /\ f.held \subseteq Range(f.job.pending_candidates) \cup given \cup f.job.dropped

(* Identities of requests count them, and the request in hand is recorded  *)
(* or will be the next.                                                    *)
RequestInv ==
    /\ \A r \in journal: r.id <= Cardinality(journal)
    /\ \A r, s \in journal: r.id = s.id => r = s
    /\ Recorded(job) \/ job.pending.id = Cardinality(journal) + 1
    /\ \A x \in server.receipts:
         /\ x.artifact \in server.admitted
         /\ \E r \in sent: r.id = x.id /\ r.artifact = x.artifact

GivenInv ==
    \A a \in given:
      /\ a \in server.admitted
      /\ job.shadow => \E x \in server.receipts: x.artifact = a

(* How far the newest snapshot is behind.                                  *)
SavedInv ==
    /\ Established \/ pc = "rotate" =>
         \A f \in disk: IsNewest(f) => f.job.updates = owner.last_save_update /\ f.held = stored
    /\ Established \/ pc = "rotate" =>
         disk # {} /\ job.updates - owner.last_save_update <= SaveEvery
    /\ pc \in {"fetch", "update"} => job.updates - owner.last_save_update < SaveEvery
    /\ pc = "rotate" => job.updates = owner.last_save_update

IInv == TypeInv /\ ControlInv /\ JobInv /\ DiskInv /\ RequestInv /\ GivenInv /\ SavedInv

-----------------------------------------------------------------------------
(* As long as only the newest snapshot of a shadow job is resumed, it has  *)
(* one request for each candidate.                                         *)

OneRequest == \A r, s \in journal: r.artifact = s.artifact => r = s

(* A candidate that waits has no request but the one in hand.              *)
Unsent(j) ==
    \A r \in journal: r.artifact \in Range(j.pending_candidates) => j.pending = r
Earlier ==
    \A r \in journal:
      /\ r.artifact.run <= runs
      /\ r.artifact.run = runs => r.artifact.update <= job.updates

ShadowInv ==
    /\ OneRequest /\ Earlier /\ Unsent(job)
    /\ \A f \in disk: IsNewest(f) => Unsent(f.job)

-----------------------------------------------------------------------------
(* Types, field by field.                                                  *)

LEMMA JobFields ==
    ASSUME NEW j \in JobRecords
    PROVE  /\ j.shadow \in BOOLEAN /\ j.updates \in Nat /\ j.updates <= MaxUpdates
           /\ j.attempted \in Nat /\ j.attempted <= MaxUpdates
           /\ j.status \in {"running", "paused"}
           /\ j.pending_candidates \in Seq(Artifacts) /\ j.candidate_due \in BOOLEAN
           /\ j.dropped \subseteq Artifacts /\ j.pending \in Requests \cup {None}
           /\ j.receipt \in Receipts \cup {None} /\ j.snapshot \in BOOLEAN /\ j.dirty \in BOOLEAN
BY JobAssumption DEF JobRecords

LEMMA OwnerFields ==
    ASSUME NEW o \in Owners
    PROVE  /\ o.serial \in Nat /\ o.last_save_update \in Nat /\ o.last_save_update <= MaxUpdates
           /\ o.witness \in Requests \cup {None} /\ o.allowed \in BOOLEAN
BY JobAssumption DEF Owners

LEMMA ServerFields ==
    ASSUME NEW s \in Servers
    PROVE  /\ s.epoch \in Nat /\ s.commands \in Nat /\ s.slot \in Segments \cup {None}
           /\ s.receipts \subseteq Receipts /\ s.admitted \subseteq Artifacts /\ s.foreign \in Nat
BY DEF Servers

LEMMA FileFields ==
    ASSUME NEW f \in Files
    PROVE  /\ f.serial \in Nat /\ f.serial # 0 /\ f.job \in JobRecords /\ f.held \subseteq Artifacts
BY DEF Files

LEMMA RequestFields ==
    ASSUME NEW r \in Requests
    PROVE  /\ r.id \in Nat /\ r.id # 0 /\ r.artifact \in Artifacts /\ r.epoch \in Nat
           /\ r.expected \in Nat /\ r # None
BY DEF Requests, None

LEMMA ArtifactFields ==
    ASSUME NEW a \in Artifacts
    PROVE  /\ a.update \in Nat /\ a.update <= MaxUpdates
           /\ a.run \in Nat /\ a.run >= 1 /\ a.run <= MaxRuns
BY JobAssumption DEF Artifacts

-----------------------------------------------------------------------------
(* Sequences of distinct candidates.                                       *)

LEMMA SeqIs ==
    ASSUME NEW S, NEW s \in Seq(S)
    PROVE  /\ Len(s) \in Nat /\ DOMAIN s = 1..Len(s)
           /\ \A k \in 1..Len(s): s[k] \in S /\ s[k] \in Range(s)
           /\ Range(s) \subseteq S
           /\ \A c \in Range(s): \E k \in 1..Len(s): s[k] = c
           /\ s = <<>> <=> Len(s) = 0
           /\ s # <<>> => Head(s) = s[1]
<1>1. Len(s) \in Nat /\ DOMAIN s = 1..Len(s) /\ \A k \in 1..Len(s): s[k] \in S
  BY ElementOfSeq
<1>2. s = <<>> <=> Len(s) = 0
  BY EmptySeq
<1>3. s # <<>> => Head(s) = s[1]
  OBVIOUS
<1> QED BY <1>1, <1>2, <1>3 DEF Range

LEMMA RemovedIs ==
    ASSUME NEW S, NEW s \in Seq(S), IsInjective(s), NEW i \in 1..Len(s)
    PROVE  /\ RemoveAt(s, i) \in Seq(S) /\ Len(RemoveAt(s, i)) = Len(s) - 1
           /\ IsInjective(RemoveAt(s, i)) /\ Range(RemoveAt(s, i)) = Range(s) \ {s[i]}
<1>1. Len(s) \in Nat /\ i \in 1..Len(s) /\ \A k \in 1..Len(s): s[k] \in S
  BY ElementOfSeq
<1> DEFINE p == SubSeq(s, 1, i - 1)
           q == SubSeq(s, i + 1, Len(s))
<1>2. p \in Seq(S) /\ Len(p) = i - 1 /\ \A k \in 1..(i - 1): p[k] = s[k]
  <2>1. PICK upto \in Int: upto = i - 1
    BY <1>1
  <2>2. \A k \in 1..upto: s[k] \in S
    BY <1>1, <2>1
  <2>3. /\ p \in Seq(S) /\ Len(p) = (IF 1 <= upto THEN upto - 1 + 1 ELSE 0)
        /\ \A k \in 1..(upto - 1 + 1): p[k] = s[1 + k - 1]
    BY <2>1, <2>2, SubSeqProperties
  <2> QED BY <1>1, <2>1, <2>3
<1>3. q \in Seq(S) /\ Len(q) = Len(s) - i /\ \A k \in 1..(Len(s) - i): q[k] = s[i + k]
  <2>1. PICK from \in Int: from = i + 1
    BY <1>1
  <2>2. \A k \in from..Len(s): s[k] \in S
    BY <1>1, <2>1
  <2>3. /\ q \in Seq(S) /\ Len(q) = (IF from <= Len(s) THEN Len(s) - from + 1 ELSE 0)
        /\ \A k \in 1..(Len(s) - from + 1): q[k] = s[from + k - 1]
    BY <1>1, <2>1, <2>2, SubSeqProperties
  <2>4. Len(q) = Len(s) - i /\ Len(s) - from + 1 = Len(s) - i
    BY <1>1, <2>1, <2>3
  <2>5. \A k \in 1..(Len(s) - i): from + k - 1 = i + k
    BY <1>1, <2>1
  <2> QED BY <2>3, <2>4, <2>5
<1> HIDE DEF p, q
<1>4. /\ p \o q \in Seq(S) /\ Len(p \o q) = Len(p) + Len(q)
      /\ \A k \in 1..(Len(p) + Len(q)):
           (p \o q)[k] = IF k <= Len(p) THEN p[k] ELSE q[k - Len(p)]
  BY <1>2, <1>3, ConcatProperties
<1> DEFINE r == p \o q
<1>5. RemoveAt(s, i) = r
  BY DEF RemoveAt, p, q
<1>6. r \in Seq(S) /\ Len(r) = Len(s) - 1 /\ DOMAIN r = 1..(Len(s) - 1)
  BY <1>1, <1>2, <1>3, <1>4
<1>7. ASSUME NEW k \in 1..(Len(s) - 1)
      PROVE  r[k] = IF k < i THEN s[k] ELSE s[k + 1]
  <2>1. r[k] = IF k <= i - 1 THEN p[k] ELSE q[k - (i - 1)]
    BY <1>1, <1>2, <1>3, <1>4
  <2>2. CASE k < i
    <3>1. k \in 1..(i - 1) /\ k <= i - 1
      BY <1>1, <2>2
    <3> QED BY <1>2, <2>1, <2>2, <3>1
  <2>3. CASE ~(k < i)
    <3>1. k - (i - 1) \in 1..(Len(s) - i) /\ i + (k - (i - 1)) = k + 1 /\ ~(k <= i - 1)
      BY <1>1, <2>3
    <3> QED BY <1>3, <2>1, <2>3, <3>1
  <2> QED BY <2>2, <2>3
<1> HIDE DEF r
<1>8. \A a, b \in 1..Len(s): s[a] = s[b] => a = b
  BY DEF IsInjective
<1>9. ASSUME NEW a \in 1..(Len(s) - 1), NEW b \in 1..(Len(s) - 1), r[a] = r[b] PROVE a = b
  <2>1. PICK m, n: m = (IF a < i THEN a ELSE a + 1) /\ n = (IF b < i THEN b ELSE b + 1)
    OBVIOUS
  <2>2. m \in 1..Len(s) /\ n \in 1..Len(s) /\ r[a] = s[m] /\ r[b] = s[n]
    BY <1>1, <1>7, <2>1
  <2>3. m = n
    BY <1>8, <1>9, <2>2
  <2> QED BY <1>1, <2>1, <2>3
<1>10. ASSUME NEW c, c \in Range(r) PROVE c \in Range(s) \ {s[i]}
  <2>1. PICK a \in 1..(Len(s) - 1): r[a] = c
    BY <1>6, <1>10 DEF Range
  <2>2. PICK m: m = IF a < i THEN a ELSE a + 1
    OBVIOUS
  <2>3. m \in 1..Len(s) /\ m # i /\ s[m] = c
    BY <1>1, <1>7, <2>1, <2>2
  <2>4. s[m] # s[i]
    BY <1>1, <1>8, <2>3
  <2> QED BY <2>3, <2>4 DEF Range
<1>11. ASSUME NEW c, c \in Range(s), c # s[i] PROVE c \in Range(r)
  <2>1. PICK m \in 1..Len(s): s[m] = c
    BY <1>11 DEF Range
  <2>2. m # i
    BY <1>11, <2>1
  <2>3. PICK a: a = IF m < i THEN m ELSE m - 1
    OBVIOUS
  <2>4. a \in 1..(Len(s) - 1) /\ r[a] = s[m]
    <3>1. CASE m < i
      <4>1. a = m /\ a \in 1..(Len(s) - 1) /\ a < i
        BY <1>1, <2>1, <2>3, <3>1
      <4> QED BY <1>7, <4>1
    <3>2. CASE ~(m < i)
      <4>1. a + 1 = m /\ a \in 1..(Len(s) - 1) /\ ~(a < i)
        BY <1>1, <2>1, <2>2, <2>3, <3>2
      <4> QED BY <1>7, <4>1
    <3> QED BY <3>1, <3>2
  <2> QED BY <1>6, <2>1, <2>4 DEF Range
<1>12. IsInjective(r)
  BY <1>6, <1>9 DEF IsInjective
<1>13. Range(r) = Range(s) \ {s[i]}
  BY <1>10, <1>11
<1> QED BY <1>5, <1>6, <1>12, <1>13

LEMMA AddedIs ==
    ASSUME NEW S, NEW s \in Seq(S), IsInjective(s), NEW e \in S, e \notin Range(s)
    PROVE  /\ Append(s, e) \in Seq(S) /\ Len(Append(s, e)) = Len(s) + 1
           /\ IsInjective(Append(s, e)) /\ Range(Append(s, e)) = Range(s) \cup {e}
           /\ Append(s, e) # <<>>
<1>1. Len(s) \in Nat /\ DOMAIN s = 1..Len(s) /\ \A k \in 1..Len(s): s[k] # e
  BY SeqIs
<1>2. PICK t: t = Append(s, e)
  OBVIOUS
<1>3. /\ t \in Seq(S) /\ Len(t) = Len(s) + 1 /\ t[Len(s) + 1] = e
      /\ \A k \in 1..Len(s): t[k] = s[k]
  BY <1>2, AppendProperties
<1>4. DOMAIN t = 1..(Len(s) + 1) /\ t # <<>>
  BY <1>1, <1>3, EmptySeq
<1>5. IsInjective(t)
  BY <1>1, <1>3, <1>4 DEF IsInjective
<1>6. Range(t) = Range(s) \cup {e}
  <2>1. ASSUME NEW c \in Range(t) PROVE c \in Range(s) \cup {e}
    BY <1>1, <1>3, <1>4, <2>1 DEF Range
  <2>2. ASSUME NEW c \in Range(s) PROVE c \in Range(t)
    <3>1. PICK k \in 1..Len(s): s[k] = c
      BY <1>1 DEF Range
    <3>2. k \in DOMAIN t /\ t[k] = c
      BY <1>1, <1>3, <1>4, <3>1
    <3> QED BY <3>2 DEF Range
  <2>3. e \in Range(t)
    <3>1. Len(s) + 1 \in DOMAIN t /\ t[Len(s) + 1] = e
      BY <1>1, <1>3, <1>4
    <3> QED BY <3>1 DEF Range
  <2> QED BY <2>1, <2>2, <2>3
<1> QED BY <1>2, <1>3, <1>4, <1>5, <1>6

LEMMA SizeIs ==
    ASSUME NEW S, NEW s \in Seq(S), IsInjective(s)
    PROVE  Cardinality(Range(s)) = Len(s)
<1>1. Len(s) \in Nat /\ DOMAIN s = 1..Len(s) /\ s \in [1..Len(s) -> Range(s)]
  <2>1. Len(s) \in Nat /\ s \in [1..Len(s) -> S]
    BY LenProperties
  <2> QED BY <2>1, SeqIs
<1>2. s \in Surjection(1..Len(s), Range(s)) /\ s \in Injection(1..Len(s), Range(s))
  BY <1>1, SeqIs DEF Surjection, Injection, IsInjective
<1>3. IsFiniteSet(1..Len(s)) /\ Cardinality(1..Len(s)) = Len(s)
  BY <1>1, FS_Interval
<1> QED BY <1>2, <1>3, FS_Surjection

(* A full queue of candidates loses its oldest, but not the pending one.   *)
Spares(S, T, p) ==
    \/ T = S
    \/ /\ Cardinality(S) >= MaxPending
       /\ \E d \in S: (p = None \/ d # p.artifact) /\ T = S \ {d}

LEMMA EvictedIs ==
    ASSUME NEW cs \in Seq(Artifacts), IsInjective(cs), Len(cs) <= MaxPending,
           NEW p \in Requests \cup {None}
    PROVE  /\ Evicted(cs, p) \in Seq(Artifacts) /\ Len(Evicted(cs, p)) < MaxPending
           /\ IsInjective(Evicted(cs, p)) /\ Range(Evicted(cs, p)) \subseteq Range(cs)
           /\ p # None /\ p.artifact \in Range(cs) => p.artifact \in Range(Evicted(cs, p))
           /\ Spares(Range(cs), Range(Evicted(cs, p)), p)
<1>1. Len(cs) \in Nat /\ MaxPending \in Nat /\ MaxPending >= 2
  BY JobAssumption
<1>2. CASE Len(cs) < MaxPending
  BY <1>2 DEF Evicted, Spares
<1>3. CASE ~(Len(cs) < MaxPending)
  <2>1. Len(cs) >= 2 /\ 1 \in 1..Len(cs) /\ 2 \in 1..Len(cs)
    BY <1>1, <1>3
  <2> DEFINE free == {k \in 1..Len(cs): p = None \/ cs[k] # p.artifact}
  <2>2. PICK i \in free: \A k \in free: i <= k
    <3>1. CASE 1 \in free
      BY <3>1
    <3>2. CASE 1 \notin free
      <4>1. p # None /\ cs[1] = p.artifact
        BY <2>1, <3>2
      <4>2. cs[2] # cs[1]
        <5>1. 1 \in DOMAIN cs /\ 2 \in DOMAIN cs /\ 1 # 2
          BY <2>1
        <5> QED BY <5>1 DEF IsInjective
      <4>3. 2 \in free /\ \A k \in free: k # 1
        BY <2>1, <3>2, <4>1, <4>2
      <4> QED BY <4>3
    <3> QED BY <3>1, <3>2
  <2>3. Min(free) \in free /\ Min(free) \in 1..Len(cs)
    BY <2>2 DEF Min
  <2>4. PICK k \in 1..Len(cs): k = Min(free) /\ (p = None \/ cs[k] # p.artifact)
    BY <2>3
  <2>5. Evicted(cs, p) = RemoveAt(cs, k)
    BY <1>3, <2>4 DEF Evicted
  <2>6. /\ RemoveAt(cs, k) \in Seq(Artifacts) /\ Len(RemoveAt(cs, k)) = Len(cs) - 1
        /\ IsInjective(RemoveAt(cs, k)) /\ Range(RemoveAt(cs, k)) = Range(cs) \ {cs[k]}
    BY RemovedIs
  <2>7. Len(cs) - 1 < MaxPending
    BY <1>1
  <2>8. p # None /\ p.artifact \in Range(cs) => p.artifact \in Range(cs) \ {cs[k]}
    BY <2>4
  <2>9. PICK e: e = Evicted(cs, p)
    OBVIOUS
  <2>10. /\ e \in Seq(Artifacts) /\ Len(e) < MaxPending /\ IsInjective(e)
         /\ Range(e) = Range(cs) \ {cs[k]}
    BY <2>5, <2>6, <2>7, <2>9
  <2>11. Spares(Range(cs), Range(e), p)
    <3>1. Cardinality(Range(cs)) >= MaxPending
      BY <1>1, <1>3, SizeIs
    <3>2. cs[k] \in Range(cs) /\ (p = None \/ cs[k] # p.artifact)
      BY <2>4, SeqIs
    <3> QED BY <2>10, <3>1, <3>2 DEF Spares
  <2> QED BY <2>8, <2>9, <2>10, <2>11
<1> QED BY <1>2, <1>3

-----------------------------------------------------------------------------
(* What updates and acknowledgements make of a job.                        *)

(* k goes on from j: it has the same request, may have a new candidate of  *)
(* the update that it completed, for which one may make room, and accounts *)
(* for those of j.                                                         *)
Moves(j, k) ==
    /\ k.shadow = j.shadow /\ k.pending = j.pending
    /\ k.updates \in {j.updates, j.updates + 1}
    /\ Range(j.pending_candidates) \subseteq Range(k.pending_candidates) \cup k.dropped
    /\ j.dropped \subseteq k.dropped
    /\ \A c \in Range(k.pending_candidates):
         \/ c \in Range(j.pending_candidates)
         \/ c.run = runs /\ c.update = k.updates /\ k.updates = j.updates + 1
    /\ \/ Range(k.pending_candidates) = Range(j.pending_candidates)
       \/ \E c \in Range(k.pending_candidates) \ Range(j.pending_candidates):
            Spares(Range(j.pending_candidates), Range(k.pending_candidates) \ {c}, j.pending)

LEMMA LoadableIs ==
    ASSUME NEW j \in JobRecords, Loadable(j)
    PROVE  /\ j.updates <= j.attempted /\ Len(j.pending_candidates) <= MaxPending
           /\ IsInjective(j.pending_candidates)
           /\ \A c \in Range(j.pending_candidates):
                c.update \in 1..j.updates /\ c.update % Cadence = 0
           /\ j.candidate_due = (j.pending_candidates # <<>>)
           /\ j.pending # None => j.pending.artifact \in Range(j.pending_candidates)
           /\ j.snapshot => j.receipt # None
BY DEF Loadable, CandidatesAdmitted, ShadowAdmitted

(* An update that is only counted.                                         *)
LEMMA SteppedIs ==
    ASSUME job \in JobRecords, Loadable(job), job.attempted < MaxUpdates,
           NEW s, s = Stepped
    PROVE  /\ s \in JobRecords /\ Loadable(s) /\ Moves(job, s)
           /\ s.updates = job.updates + 1 /\ s.pending_candidates = job.pending_candidates
           /\ s.dropped = job.dropped /\ s.dirty = job.dirty
<1>1. /\ job.updates \in Nat /\ job.attempted \in Nat /\ job.updates <= job.attempted
      /\ MaxUpdates \in Nat /\ job.pending_candidates \in Seq(Artifacts)
  BY JobFields, LoadableIs, JobAssumption
<1>2. PICK u, n: u = job.updates + 1 /\ n = job.attempted + 1
  OBVIOUS
<1>3. u \in 0..MaxUpdates /\ n \in 0..MaxUpdates /\ u <= n
  BY <1>1, <1>2
<1>4. s = [job EXCEPT !.updates = u, !.attempted = n]
  BY <1>2 DEF Stepped
<1>5. /\ s \in JobRecords /\ s.updates = u /\ s.attempted = n
      /\ s.pending_candidates = job.pending_candidates /\ s.dropped = job.dropped
      /\ s.dirty = job.dirty /\ s.shadow = job.shadow /\ s.pending = job.pending
      /\ s.receipt = job.receipt /\ s.snapshot = job.snapshot
      /\ s.candidate_due = job.candidate_due
  BY <1>3, <1>4 DEF JobRecords
<1>6. \A c \in Range(job.pending_candidates): c.update \in 1..u /\ c.update % Cadence = 0
  BY <1>1, <1>2, LoadableIs
<1>7. Loadable(s)
  BY <1>3, <1>5, <1>6 DEF Loadable, CandidatesAdmitted, ShadowAdmitted
<1>8. Moves(job, s)
  BY <1>2, <1>5 DEF Moves
<1> QED BY <1>2, <1>5, <1>7, <1>8

(* A whole update, with a candidate when one is due.                       *)
LEMMA CaptureMoves ==
    ASSUME job \in JobRecords, Loadable(job), job.attempted < MaxUpdates, runs \in 1..MaxRuns,
           NEW k, k = CandidateDue(CaptureIfDue(Stepped))
    PROVE  /\ k \in JobRecords /\ Loadable(k) /\ Moves(job, k) /\ k.dirty = job.dirty
<1>1. PICK s: s = Stepped
  OBVIOUS
<1>2. /\ s \in JobRecords /\ Loadable(s) /\ Moves(job, s)
      /\ s.updates = job.updates + 1 /\ s.pending_candidates = job.pending_candidates
      /\ s.dropped = job.dropped /\ s.dirty = job.dirty
  BY <1>1, SteppedIs
<1>3. PICK cs \in Seq(Artifacts), u \in Nat: cs = job.pending_candidates /\ u = job.updates
  BY JobFields
<1>4. /\ s.updates = u + 1 /\ s.updates \in Nat /\ s.updates <= MaxUpdates
      /\ s.pending_candidates = cs /\ s.pending \in Requests \cup {None}
      /\ IsInjective(cs) /\ Len(cs) <= MaxPending /\ s.dropped \subseteq Artifacts
      /\ s.shadow = job.shadow /\ s.pending = job.pending
  BY <1>2, <1>3, JobFields, LoadableIs DEF Moves
<1>5. CASE s.updates % Cadence = 0
  <2>1. PICK kept: kept = Evicted(cs, s.pending)
    OBVIOUS
  <2>2. /\ kept \in Seq(Artifacts) /\ Len(kept) < MaxPending /\ IsInjective(kept)
        /\ Range(kept) \subseteq Range(cs)
        /\ s.pending # None /\ s.pending.artifact \in Range(cs)
             => s.pending.artifact \in Range(kept)
        /\ Spares(Range(cs), Range(kept), s.pending)
    BY <1>4, <2>1, EvictedIs
  <2>3. PICK a: a = [update |-> s.updates, run |-> runs]
    OBVIOUS
  <2>4. a \in Artifacts /\ a.update = u + 1 /\ a.run = runs
    <3>1. s.updates \in 0..MaxUpdates
      BY <1>2 DEF JobRecords
    <3> QED BY <1>4, <2>3, <3>1 DEF Artifacts
  <2>5. a \notin Range(kept)
    <3>1. \A c \in Range(cs): c.update \in 1..u
      BY <1>3, LoadableIs
    <3> QED BY <1>3, <2>2, <2>4, <3>1
  <2>6. PICK new: new = Append(kept, a)
    OBVIOUS
  <2>7. /\ new \in Seq(Artifacts) /\ Len(new) = Len(kept) + 1 /\ IsInjective(new)
        /\ Range(new) = Range(kept) \cup {a} /\ new # <<>>
    BY <2>2, <2>4, <2>5, <2>6, AddedIs
  <2>8. PICK d: d = s.dropped \cup (Range(cs) \ Range(kept))
    OBVIOUS
  <2>9. d \in SUBSET Artifacts
    BY <1>4, <2>8, SeqIs
  <2>10. k = [s EXCEPT !.pending_candidates = new, !.dropped = d, !.candidate_due = TRUE]
    <3>1. CaptureIfDue(s) = [s EXCEPT !.pending_candidates = new, !.dropped = d]
      BY <1>4, <1>5, <2>1, <2>3, <2>6, <2>8 DEF CaptureIfDue, Captured
    <3>2. PICK c: c = [s EXCEPT !.pending_candidates = new, !.dropped = d]
      OBVIOUS
    <3>3. c.pending_candidates = new
      BY <1>2, <3>2 DEF JobRecords
    <3>4. k = [c EXCEPT !.candidate_due = new # <<>>]
      BY <1>1, <3>1, <3>2, <3>3 DEF CandidateDue
    <3>5. (new # <<>>) = TRUE
      BY <2>7
    <3> QED BY <3>2, <3>4, <3>5
  <2>11. /\ k \in JobRecords /\ k.pending_candidates = new /\ k.dropped = d
         /\ k.candidate_due = TRUE /\ k.updates = s.updates /\ k.attempted = s.attempted
         /\ k.shadow = s.shadow /\ k.pending = s.pending /\ k.receipt = s.receipt
         /\ k.snapshot = s.snapshot /\ k.dirty = s.dirty
    BY <1>2, <2>7, <2>9, <2>10 DEF JobRecords
  <2>12. Loadable(k)
    <3>1. k.updates <= k.attempted /\ (k.snapshot => k.receipt # None)
      BY <1>2, <2>11, LoadableIs
    <3>2. Len(new) <= MaxPending
      BY <2>2, <2>7, JobAssumption
    <3>3. \A c \in Range(new): c.update \in 1..s.updates /\ c.update % Cadence = 0
      <4>1. \A c \in Range(cs): c.update \in 1..s.updates /\ c.update % Cadence = 0
        BY <1>2, <1>4, LoadableIs
      <4>2. a.update \in 1..s.updates /\ a.update % Cadence = 0
        BY <1>4, <1>5, <2>4
      <4>3. \A c \in Range(new): c \in Range(cs) \/ c = a
        BY <2>2, <2>7
      <4> QED BY <4>1, <4>2, <4>3
    <3>4. k.pending # None => k.pending.artifact \in Range(new)
      <4>1. s.pending # None => s.pending.artifact \in Range(cs)
        BY <1>2, <1>4, LoadableIs
      <4> QED BY <2>2, <2>7, <2>11, <4>1
    <3>5. k.candidate_due = (new # <<>>)
      BY <2>7, <2>11
    <3> QED BY <2>7, <2>11, <3>1, <3>2, <3>3, <3>4, <3>5
         DEF Loadable, CandidatesAdmitted, ShadowAdmitted
  <2>13. Moves(job, k)
    <3>1. Range(cs) \subseteq Range(new) \cup d
      BY <2>7, <2>8
    <3>2. \A c \in Range(new): c \in Range(cs) \/ (c.run = runs /\ c.update = u + 1)
      <4>1. ASSUME NEW c \in Range(new)
            PROVE  c \in Range(cs) \/ (c.run = runs /\ c.update = u + 1)
        <5>1. CASE c \in Range(cs)
          BY <5>1
        <5>2. CASE c = a
          BY <2>4, <5>2
        <5> QED BY <2>2, <2>7, <5>1, <5>2
      <4> QED BY <4>1
    <3>3. d \in SUBSET Artifacts /\ s.dropped \subseteq d
      BY <2>8, <2>9
    <3>4. a \in Range(new) \ Range(cs) /\ Spares(Range(cs), Range(new) \ {a}, job.pending)
      <4>1. \A c \in Range(cs): c.update \in 1..u
        BY <1>3, LoadableIs
      <4>2. a \notin Range(cs)
        BY <1>3, <2>4, <4>1
      <4>3. Range(new) \ {a} = Range(kept)
        BY <2>5, <2>7
      <4> QED BY <1>4, <2>2, <2>7, <4>2, <4>3
    <3> QED BY <1>2, <1>3, <1>4, <2>11, <3>1, <3>2, <3>3, <3>4 DEF Moves
  <2> QED BY <1>2, <2>11, <2>12, <2>13
<1>6. CASE ~(s.updates % Cadence = 0)
  <2>1. k = [s EXCEPT !.candidate_due = cs # <<>>]
    BY <1>1, <1>4, <1>6 DEF CandidateDue, CaptureIfDue
  <2>2. PICK due \in BOOLEAN: due = (cs # <<>>)
    <3>1. (cs # <<>>) \in BOOLEAN
      OBVIOUS
    <3> QED BY <3>1, Zenon
  <2>3. k = [s EXCEPT !.candidate_due = due]
    BY <2>1, <2>2
  <2>4. /\ k \in JobRecords /\ k.pending_candidates = cs /\ k.dropped = s.dropped
        /\ k.candidate_due = due /\ k.updates = s.updates /\ k.attempted = s.attempted
        /\ k.shadow = s.shadow /\ k.pending = s.pending /\ k.receipt = s.receipt
        /\ k.snapshot = s.snapshot /\ k.dirty = s.dirty
    BY <1>2, <1>4, <2>2, <2>3 DEF JobRecords
  <2>5. Loadable(k)
    BY <1>2, <1>4, <2>2, <2>4 DEF Loadable, CandidatesAdmitted, ShadowAdmitted
  <2>6. Moves(job, k)
    BY <1>2, <1>3, <1>4, <2>4 DEF Moves
  <2> QED BY <1>2, <2>4, <2>5, <2>6
<1> QED BY <1>5, <1>6

(* A candidate is released.                                                *)
LEMMA AcknowledgedIs ==
    ASSUME NEW j \in JobRecords, j.pending = None, j.updates <= j.attempted,
           CandidatesAdmitted(j), j.snapshot => j.receipt # None,
           NEW a \in Range(j.pending_candidates), NEW k, k = Acknowledged(j, a)
    PROVE  /\ k \in JobRecords /\ Loadable(k)
           /\ Range(k.pending_candidates) = Range(j.pending_candidates) \ {a}
           /\ k.shadow = j.shadow /\ k.pending = None /\ k.updates = j.updates
           /\ k.dropped = j.dropped /\ k.dirty = j.dirty
<1>1. PICK cs \in Seq(Artifacts): cs = j.pending_candidates
  BY JobFields
<1>2. IsInjective(cs) /\ Len(cs) <= MaxPending /\ a \in Range(cs)
  BY <1>1 DEF CandidatesAdmitted
<1>3. PICK i: i = CHOOSE n \in 1..Len(cs): cs[n] = a
  OBVIOUS
<1>4. i \in 1..Len(cs) /\ cs[i] = a
  BY <1>1, <1>2, <1>3, SeqIs
<1>5. PICK left: left = RemoveAt(cs, i)
  OBVIOUS
<1>6. /\ left \in Seq(Artifacts) /\ Len(left) = Len(cs) - 1 /\ IsInjective(left)
      /\ Range(left) = Range(cs) \ {a}
  BY <1>1, <1>2, <1>4, <1>5, RemovedIs
<1>7. PICK due \in BOOLEAN: due = (left # <<>>)
  <2>1. (left # <<>>) \in BOOLEAN
    OBVIOUS
  <2> QED BY <2>1, Zenon
<1>8. k = [j EXCEPT !.pending_candidates = left, !.candidate_due = due]
  <2>1. PICK c: c = [j EXCEPT !.pending_candidates = left]
    OBVIOUS
  <2>2. c.pending_candidates = left
    BY <2>1 DEF JobRecords
  <2>3. k = CandidateDue(c)
    BY <1>1, <1>2, <1>3, <1>5, <2>1 DEF Acknowledged
  <2>4. k = [c EXCEPT !.candidate_due = left # <<>>]
    BY <2>2, <2>3 DEF CandidateDue
  <2> QED BY <1>7, <2>1, <2>4
<1>9. /\ k \in JobRecords /\ k.pending_candidates = left /\ k.candidate_due = due
      /\ k.updates = j.updates /\ k.attempted = j.attempted
      /\ k.shadow = j.shadow /\ k.pending = j.pending /\ k.receipt = j.receipt
      /\ k.snapshot = j.snapshot /\ k.dirty = j.dirty /\ k.dropped = j.dropped
  BY <1>6, <1>7, <1>8 DEF JobRecords
<1>10. Len(left) <= MaxPending
  BY <1>1, <1>2, <1>6, JobAssumption, SeqIs
<1>11. Loadable(k)
  BY <1>1, <1>6, <1>7, <1>9, <1>10 DEF Loadable, CandidatesAdmitted, ShadowAdmitted
<1> QED BY <1>1, <1>6, <1>9, <1>11

-----------------------------------------------------------------------------
(* What steps elsewhere leave alone.                                       *)

LEMMA DiskKept ==
    ASSUME TypeInv, DiskInv, UNCHANGED disk, journal \subseteq journal', given \subseteq given',
           runs' \in Nat, runs <= runs', job'.shadow = job.shadow
    PROVE  DiskInv'
<1>1. ASSUME NEW f \in disk, NEW c \in Range(f.job.pending_candidates) PROVE c.run <= runs'
  <2>1. f.job.pending_candidates \in Seq(Artifacts)
    BY FileFields, JobFields DEF TypeInv
  <2>2. c \in Artifacts
    BY <2>1, SeqIs
  <2>3. c.run \in Nat /\ runs \in Nat /\ c.run <= runs
    BY <2>2, ArtifactFields, JobAssumption DEF DiskInv, TypeInv
  <2> QED BY <2>3
<1> QED BY <1>1 DEF DiskInv, IsNewest, Recorded

LEMMA RequestKept ==
    ASSUME TypeInv, RequestInv, UNCHANGED journal, sent \subseteq sent',
           server'.receipts = server.receipts, server.admitted \subseteq server'.admitted,
           job'.pending = job.pending \/ job'.pending = None
    PROVE  RequestInv'
<1>1. Recorded(job)' \/ job'.pending.id = Cardinality(journal) + 1
  BY DEF RequestInv, Recorded
<1>2. \A x \in server'.receipts:
        /\ x.artifact \in server'.admitted
        /\ \E r \in sent': r.id = x.id /\ r.artifact = x.artifact
  BY DEF RequestInv
<1> QED BY <1>1, <1>2 DEF RequestInv

LEMMA GivenKept ==
    ASSUME GivenInv, UNCHANGED given, server.receipts \subseteq server'.receipts,
           server.admitted \subseteq server'.admitted, job'.shadow = job.shadow
    PROVE  GivenInv'
BY DEF GivenInv

LEMMA JobKept ==
    ASSUME JobInv, UNCHANGED <<job, journal, runs, stored>>, given \subseteq given',
           owner'.allowed => ~job.dirty
    PROVE  JobInv'
BY DEF JobInv

(* The runner only goes on to its next step.                               *)
GoesOn ==
    /\ UNCHANGED <<runs, offline, job, owner, disk, mail, net, journal, sent, given, stored>>
    /\ \/ UNCHANGED server
       \/ /\ server' \in Servers /\ server'.receipts = server.receipts
          /\ server.admitted \subseteq server'.admitted
Thens == {"first", "fetch", "upload", "activate", "due", "stop", "off"}

LEMMA GoesOnKeeps ==
    ASSUME IInv, GoesOn, pc' \in Steps, then' \in Thens, ControlInv', SavedInv'
    PROVE  IInv'
<1>1. /\ TypeInv /\ UNCHANGED <<runs, offline, job, owner, disk, mail>>
      /\ UNCHANGED <<net, journal, sent, given, stored>>
      /\ server' \in Servers /\ server'.receipts = server.receipts
      /\ server.admitted \subseteq server'.admitted
  BY DEF IInv, GoesOn, TypeInv
<1>2. TypeInv'
  BY <1>1 DEF TypeInv, Thens
<1>3. JobInv'
  BY <1>1, JobKept DEF IInv, JobInv
<1>4. DiskInv'
  <2>1. runs' \in Nat /\ runs <= runs'
    BY <1>1 DEF TypeInv
  <2> QED BY <1>1, <2>1, DiskKept DEF IInv
<1>5. RequestInv' /\ GivenInv'
  BY <1>1, RequestKept, GivenKept DEF IInv
<1> QED BY <1>2, <1>3, <1>4, <1>5 DEF IInv

(* It ends.                                                                *)
LEMMA GoesOff ==
    ASSUME IInv, GoesOn, pc' = "off", then' \in Thens
    PROVE  IInv'
<1>1. UNCHANGED <<owner, journal>>
  BY DEF GoesOn
<1>2. ControlInv'
  BY <1>1 DEF IInv, ControlInv, Doing
<1>3. SavedInv'
  BY DEF SavedInv, Established
<1> QED BY <1>2, <1>3, GoesOnKeeps DEF Steps

(* It saves what it has.                                                   *)
LEMMA GoesSaving ==
    ASSUME IInv, GoesOn, Established, pc' = "save", then' \in {"fetch", "due", "stop", "off"}
    PROVE  IInv'
<1>1. UNCHANGED <<job, owner, disk, journal, stored>>
  BY DEF GoesOn
<1>2. ControlInv'
  BY <1>1 DEF IInv, ControlInv, Doing
<1>3. SavedInv'
  BY <1>1 DEF IInv, SavedInv, Established, IsNewest
<1> QED BY <1>2, <1>3, GoesOnKeeps DEF Steps, Thens

(* It goes on without a save.                                              *)
LEMMA Proceeds ==
    ASSUME IInv, GoesOn, Established, pc' \in {"update", "handoff", "due", "fetch", "raise"},
           UNCHANGED then,
           pc' \in {"fetch", "update"} => job.updates - owner.last_save_update < SaveEvery
    PROVE  IInv'
<1>1. UNCHANGED <<job, owner, disk, journal, stored>>
  BY DEF GoesOn
<1>2. ControlInv'
  BY <1>1 DEF IInv, ControlInv, Doing
<1>3. SavedInv'
  BY <1>1 DEF IInv, SavedInv, Established, IsNewest
<1>4. then' \in Thens
  BY DEF IInv, TypeInv, Thens
<1> QED BY <1>2, <1>3, <1>4, GoesOnKeeps DEF Steps

LEMMA Raises ==
    ASSUME IInv, GoesOn, Established, Raise
    PROVE  IInv'
<1>1. CASE owner.allowed
  BY <1>1, GoesSaving DEF Raise, SaveThen
<1>2. CASE ~owner.allowed
  <2>1. pc' = "off" /\ then' \in Thens
    BY <1>2 DEF Raise, IInv, TypeInv, Thens
  <2> QED BY <2>1, GoesOff
<1> QED BY <1>1, <1>2

-----------------------------------------------------------------------------
(* The steps of the loop that only read.                                   *)

LEMMA ReadingKeeps ==
    ASSUME IInv, SaveRefused \/ Stop \/ FetchNotDue \/ FetchFails \/ UpdateWaits \/ UpdatePaused
    PROVE  IInv'
<1>1. GoesOn
  BY DEF SaveRefused, Stop, FetchNotDue, FetchFails, UpdateWaits, UpdatePaused, GoesOn,
         outside, history
<1>2. /\ then \in Thens
      /\ pc \in {"fetch", "update"} => job.updates - owner.last_save_update < SaveEvery
  BY DEF IInv, TypeInv, Thens, SavedInv
<1>3. CASE SaveRefused
  <2>1. CASE then \in {"first", "off"}
    <3>1. pc' = "off" /\ then' \in Thens
      BY <1>2, <1>3, <2>1 DEF SaveRefused
    <3> QED BY <1>1, <3>1, GoesOff
  <2>2. CASE then \notin {"first", "off"}
    <3>1. pc' = "save" /\ then' = "off" /\ Established
      BY <1>3, <2>2 DEF SaveRefused, SaveThen, Established
    <3> QED BY <1>1, <3>1, GoesSaving
  <2> QED BY <2>1, <2>2
<1>4. CASE Stop
  <2>1. pc' = "save" /\ then' = "stop" /\ Established
    BY <1>4 DEF Stop, SaveThen, Established
  <2> QED BY <1>1, <2>1, GoesSaving
<1>5. CASE FetchNotDue
  <2>1. pc' = "update" /\ UNCHANGED then /\ Established /\ pc = "fetch"
    BY <1>5 DEF FetchNotDue, Established
  <2> QED BY <1>1, <1>2, <2>1, Proceeds
<1>6. CASE FetchFails
  <2>1. Raise /\ Established
    BY <1>6 DEF FetchFails, Established
  <2> QED BY <1>1, <2>1, Raises
<1>7. CASE UpdateWaits
  <2>1. Established
    BY <1>7 DEF UpdateWaits, Established
  <2>2. \/ pc' = "save" /\ then' = "stop"
        \/ pc' = "handoff" /\ UNCHANGED then
    BY <1>7 DEF UpdateWaits, SaveThen
  <2> QED BY <1>1, <2>1, <2>2, GoesSaving, Proceeds
<1>8. CASE UpdatePaused
  <2>1. pc' = "raise" /\ UNCHANGED then /\ Established
    BY <1>8 DEF UpdatePaused, Established
  <2> QED BY <1>1, <2>1, Proceeds
<1> QED BY <1>3, <1>4, <1>5, <1>6, <1>7, <1>8

LEMMA PassingKeeps ==
    ASSUME IInv, Raised \/ CheckpointDue \/ Uploaded \/ ActivateFails \/ Finished \/ Die
    PROVE  IInv'
<1>1. GoesOn
  BY DEF Raised, CheckpointDue, Uploaded, ActivateFails, Finished, Die, GoesOn, outside, history
<1>2. then \in Thens /\ job.updates \in Nat /\ owner.last_save_update \in Nat /\ SaveEvery \in Nat
  <2>1. job \in JobRecords /\ owner \in Owners
    BY DEF IInv, TypeInv
  <2> QED BY <2>1, JobFields, OwnerFields, JobAssumption DEF IInv, TypeInv, Thens
<1>3. CASE Raised
  <2>1. Raise /\ Established
    BY <1>3 DEF Raised, Established
  <2> QED BY <1>1, <2>1, Raises
<1>4. CASE CheckpointDue
  <2>1. Established
    BY <1>4 DEF CheckpointDue, Established
  <2>2. \/ pc' = "save" /\ then' = "fetch"
        \/ ~SaveDue /\ pc' = "fetch" /\ UNCHANGED then
    BY <1>4 DEF CheckpointDue, SaveThen
  <2>3. ~SaveDue => job.updates - owner.last_save_update < SaveEvery
    BY <1>2 DEF SaveDue
  <2> QED BY <1>1, <2>1, <2>2, <2>3, GoesSaving, Proceeds
<1>5. CASE Uploaded
  <2>1. pc' = "due" /\ UNCHANGED then /\ Established
    BY <1>5 DEF Uploaded, Established
  <2> QED BY <1>1, <2>1, Proceeds
<1>6. CASE ActivateFails
  <2>1. pc' = "raise" /\ UNCHANGED then /\ Established
    BY <1>6 DEF ActivateFails, Established
  <2> QED BY <1>1, <2>1, Proceeds
<1>7. CASE Finished \/ Die
  <2>1. pc' = "off" /\ UNCHANGED then
    BY <1>7 DEF Finished, Die
  <2> QED BY <1>1, <1>2, <2>1, GoesOff
<1> QED BY <1>3, <1>4, <1>5, <1>6, <1>7

-----------------------------------------------------------------------------
(* The steps of the loop that change the job.                              *)

LEMMA MovesKeep ==
    ASSUME IInv, job' \in JobRecords, Loadable(job'), Moves(job, job'),
           UNCHANGED <<runs, offline, disk, server, mail, net, journal, sent, given, stored>>,
           owner' \in Owners, owner'.allowed => ~job'.dirty, pc' \in Steps, then' \in Thens
    PROVE  TypeInv' /\ JobInv' /\ DiskInv' /\ RequestInv' /\ GivenInv'
<1>1. /\ job'.shadow = job.shadow /\ job'.pending = job.pending
      /\ UNCHANGED <<runs, disk, server, journal, sent, given, stored>>
  BY DEF Moves
<1>2. TypeInv'
  BY DEF IInv, TypeInv, Thens
<1>3. JobInv'
  <2>1. Loadable(job)' /\ (owner'.allowed => ~job'.dirty)
    BY DEF Loadable, CandidatesAdmitted, ShadowAdmitted
  <2>2. ~job'.shadow => job'.pending = None /\ journal' = {}
    BY <1>1 DEF IInv, JobInv
  <2>3. ASSUME NEW c \in Range(job'.pending_candidates) PROVE c.run <= runs
    <3>1. CASE c \in Range(job.pending_candidates)
      BY <3>1 DEF IInv, JobInv
    <3>2. CASE c.run = runs
      BY <3>2 DEF IInv, TypeInv
    <3> QED BY <3>1, <3>2 DEF Moves
  <2>4. stored \subseteq Range(job'.pending_candidates) \cup given \cup job'.dropped
    BY DEF Moves, IInv, JobInv
  <2> QED BY <1>1, <2>1, <2>2, <2>3, <2>4 DEF JobInv
<1>4. DiskInv'
  <2>1. runs' \in Nat /\ runs <= runs'
    BY <1>1 DEF IInv, TypeInv
  <2> QED BY <1>1, <2>1, DiskKept DEF IInv
<1>5. RequestInv' /\ GivenInv'
  BY <1>1, RequestKept, GivenKept DEF IInv
<1> QED BY <1>2, <1>3, <1>4, <1>5

LEMMA Advances ==
    ASSUME IInv, pc = "update", Moves(job, job'), UNCHANGED <<disk, stored, journal>>,
           owner'.last_save_update = owner.last_save_update, owner'.witness = owner.witness,
           pc' \in {"handoff", "raise"} \/ (pc' = "save" /\ then' = "stop")
    PROVE  ControlInv' /\ SavedInv'
<1>1. ControlInv'
  BY DEF IInv, ControlInv, Doing
<1>2. Established /\ Established' /\ pc' \notin {"fetch", "update", "rotate"}
  BY DEF Established
<1>3. /\ job.updates \in Nat /\ owner.last_save_update \in Nat /\ SaveEvery \in Nat
      /\ job.updates - owner.last_save_update < SaveEvery
      /\ job'.updates \in {job.updates, job.updates + 1}
  <2>1. job \in JobRecords /\ owner \in Owners
    BY DEF IInv, TypeInv
  <2> QED BY <2>1, JobFields, OwnerFields, JobAssumption DEF IInv, SavedInv, Moves
<1>4. job'.updates - owner'.last_save_update <= SaveEvery
  BY <1>3
<1>5. SavedInv'
  BY <1>2, <1>4 DEF IInv, SavedInv, IsNewest
<1> QED BY <1>1, <1>5

LEMMA Stays ==
    ASSUME NEW j \in JobRecords
    PROVE  Moves(j, j)
BY DEF Moves

(* The snapshot of a segment is noted, once.                               *)
LEMMA PollKeeps ==
    ASSUME IInv, Poll
    PROVE  IInv'
<1>1. /\ Established /\ pc = "fetch" /\ then \in Thens
      /\ job.updates - owner.last_save_update < SaveEvery /\ job \in JobRecords
      /\ UNCHANGED <<runs, offline, owner, disk, server, mail, net, journal, sent, given, stored>>
  BY DEF Poll, Established, IInv, TypeInv, Thens, SavedInv, outside, history
<1>2. CASE UNCHANGED job /\ pc' = "update" /\ UNCHANGED then
  <2>1. GoesOn
    BY <1>1, <1>2 DEF GoesOn
  <2> QED BY <1>1, <1>2, <2>1, Proceeds
<1>3. CASE /\ job.receipt # None /\ job' = [job EXCEPT !.snapshot = TRUE]
           /\ pc' = "update" /\ UNCHANGED then
  <2>1. /\ job' \in JobRecords /\ job'.shadow = job.shadow /\ job'.updates = job.updates
        /\ job'.attempted = job.attempted /\ job'.pending_candidates = job.pending_candidates
        /\ job'.candidate_due = job.candidate_due /\ job'.dropped = job.dropped
        /\ job'.pending = job.pending /\ job'.receipt = job.receipt /\ job'.dirty = job.dirty
    BY <1>1, <1>3 DEF JobRecords
  <2>2. Loadable(job') /\ Moves(job, job')
    <3>1. Loadable(job) /\ Moves(job, job)
      BY <1>1, Stays DEF IInv, JobInv
    <3> QED BY <1>3, <2>1, <3>1 DEF Loadable, CandidatesAdmitted, ShadowAdmitted, Moves
  <2>3. /\ owner' \in Owners /\ (owner'.allowed => ~job'.dirty) /\ pc' \in Steps
        /\ then' \in Thens
    BY <1>1, <1>3, <2>1 DEF IInv, TypeInv, JobInv, Steps
  <2>4. TypeInv' /\ JobInv' /\ DiskInv' /\ RequestInv' /\ GivenInv'
    BY <1>1, <2>1, <2>2, <2>3, MovesKeep
  <2>5. ControlInv'
    BY <1>1, <1>3 DEF IInv, ControlInv, Doing
  <2>6. SavedInv'
    BY <1>1, <1>3, <2>1 DEF IInv, SavedInv, Established, IsNewest
  <2> QED BY <2>4, <2>5, <2>6 DEF IInv
<1>4. CASE UNCHANGED job /\ Raise
  <2>1. GoesOn
    BY <1>1, <1>4 DEF GoesOn
  <2> QED BY <1>1, <1>4, <2>1, Raises
<1> QED BY <1>2, <1>3, <1>4, Zenon DEF Poll

LEMMA HandoffKeeps ==
    ASSUME IInv, Handoff
    PROVE  IInv'
<1>1. GoesOn
  BY DEF Handoff, GoesOn, outside, history
<1>2. Established /\ then \in Thens
  BY DEF Handoff, Established, IInv, TypeInv, Thens
<1>3. CASE pc' = "due" /\ UNCHANGED then
  BY <1>1, <1>2, <1>3, Proceeds
<1>4. CASE \/ job.pending_candidates # <<>> /\ job.shadow /\ pc' = "stage" /\ UNCHANGED then
           \/ ~job.shadow /\ pc' = "save" /\ then' = "upload"
  <2>1. UNCHANGED <<job, owner, disk, journal, stored>>
    BY <1>1 DEF GoesOn
  <2>2. ControlInv'
    BY <1>4, <2>1 DEF IInv, ControlInv, Doing
  <2>3. SavedInv'
    BY <1>2, <1>4, <2>1 DEF IInv, SavedInv, Established, IsNewest
  <2> QED BY <1>1, <1>2, <1>4, <2>2, <2>3, GoesOnKeeps DEF Steps, Thens
<1> QED BY <1>3, <1>4, Zenon DEF Handoff, SaveThen

LEMMA UpdateKeeps ==
    ASSUME IInv, Update
    PROVE  IInv'
<1>1. /\ pc = "update" /\ pc' = "handoff" /\ job.attempted < MaxUpdates
      /\ job' = CandidateDue(CaptureIfDue(Stepped))
      /\ UNCHANGED <<runs, offline, owner, disk, server, mail, net, journal, sent, given, stored>>
      /\ UNCHANGED then
  BY DEF Update, outside, history
<1>2. /\ job \in JobRecords /\ Loadable(job) /\ runs \in 1..MaxRuns /\ owner \in Owners
      /\ then \in Thens /\ (owner.allowed => ~job.dirty)
  BY DEF IInv, TypeInv, JobInv, Thens
<1>3. job' \in JobRecords /\ Loadable(job') /\ Moves(job, job') /\ job'.dirty = job.dirty
  BY <1>1, <1>2, CaptureMoves
<1>4. TypeInv' /\ JobInv' /\ DiskInv' /\ RequestInv' /\ GivenInv'
  <2>1. owner' \in Owners /\ (owner'.allowed => ~job'.dirty) /\ pc' \in Steps /\ then' \in Thens
    BY <1>1, <1>2, <1>3 DEF Steps
  <2> QED BY <1>1, <1>3, <2>1, MovesKeep
<1>5. ControlInv' /\ SavedInv'
  BY <1>1, <1>3, Advances
<1> QED BY <1>4, <1>5 DEF IInv

LEMMA SpoiledIs ==
    ASSUME NEW i \in JobRecords, NEW j \in JobRecords, Loadable(j), Moves(i, j),
           NEW k, k = [j EXCEPT !.dirty = TRUE, !.status = "paused"]
    PROVE  k \in JobRecords /\ Loadable(k) /\ Moves(i, k)
<1>1. /\ k \in JobRecords /\ k.pending_candidates = j.pending_candidates
      /\ k.candidate_due = j.candidate_due /\ k.dropped = j.dropped
      /\ k.updates = j.updates /\ k.attempted = j.attempted
      /\ k.shadow = j.shadow /\ k.pending = j.pending /\ k.receipt = j.receipt
      /\ k.snapshot = j.snapshot
  BY DEF JobRecords
<1>2. Loadable(k)
  BY <1>1 DEF Loadable, CandidatesAdmitted, ShadowAdmitted
<1>3. Moves(i, k)
  BY <1>1 DEF Moves
<1> QED BY <1>1, <1>2, <1>3

LEMMA UpdateFailsKeeps ==
    ASSUME IInv, UpdateFails
    PROVE  IInv'
<1>1. /\ pc = "update" /\ pc' = "raise" /\ job.attempted < MaxUpdates
      /\ UNCHANGED <<runs, offline, disk, server, mail, net, journal, sent, given, stored>>
      /\ UNCHANGED then /\ owner' = [owner EXCEPT !.allowed = FALSE]
  BY DEF UpdateFails, outside, history
<1>2. /\ job \in JobRecords /\ Loadable(job) /\ runs \in 1..MaxRuns /\ owner \in Owners
      /\ then \in Thens
  BY DEF IInv, TypeInv, JobInv, Thens
<1>3. PICK j \in {job, Stepped, CandidateDue(CaptureIfDue(Stepped))}:
        job' = [j EXCEPT !.dirty = TRUE, !.status = "paused"]
  BY DEF UpdateFails
<1>4. j \in JobRecords /\ Loadable(j) /\ Moves(job, j)
  <2>1. CASE j = job
    BY <1>2, <2>1, Stays
  <2>2. CASE j = Stepped
    BY <1>1, <1>2, <2>2, SteppedIs
  <2>3. CASE j = CandidateDue(CaptureIfDue(Stepped))
    BY <1>1, <1>2, <2>3, CaptureMoves
  <2> QED BY <1>3, <2>1, <2>2, <2>3
<1>5. job' \in JobRecords /\ Loadable(job') /\ Moves(job, job')
  BY <1>2, <1>3, <1>4, SpoiledIs
<1>6. /\ owner' \in Owners /\ owner'.allowed = FALSE
      /\ owner'.last_save_update = owner.last_save_update /\ owner'.witness = owner.witness
  BY <1>1, <1>2 DEF Owners
<1>7. TypeInv' /\ JobInv' /\ DiskInv' /\ RequestInv' /\ GivenInv'
  <2>1. pc' \in Steps /\ then' \in Thens
    BY <1>1, <1>2 DEF Steps
  <2> QED BY <1>1, <1>5, <1>6, <2>1, MovesKeep
<1>8. ControlInv' /\ SavedInv'
  BY <1>1, <1>5, <1>6, Advances
<1> QED BY <1>7, <1>8 DEF IInv

LEMMA UpdateTrainsNothingKeeps ==
    ASSUME IInv, UpdateTrainsNothing
    PROVE  IInv'
<1>1. /\ pc = "update" /\ pc' = "save" /\ then' = "stop" /\ job.attempted < MaxUpdates
      /\ UNCHANGED <<runs, offline, owner, disk, server, mail, net, journal, sent, given, stored>>
      /\ job' = CandidateDue([job EXCEPT !.attempted = @ + 1, !.status = "paused"])
  BY DEF UpdateTrainsNothing, SaveThen, outside, history
<1>2. /\ job \in JobRecords /\ Loadable(job) /\ owner \in Owners /\ (owner.allowed => ~job.dirty)
  BY DEF IInv, TypeInv, JobInv
<1>3. /\ job.attempted \in Nat /\ MaxUpdates \in Nat /\ job.updates \in Nat
      /\ job.updates <= job.attempted
  BY <1>2, JobFields, LoadableIs, JobAssumption
<1>4. PICK n \in 0..MaxUpdates: n = job.attempted + 1
  BY <1>1, <1>3
<1>5. PICK due \in BOOLEAN: due = (job.pending_candidates # <<>>)
  <2>1. (job.pending_candidates # <<>>) \in BOOLEAN
    OBVIOUS
  <2> QED BY <2>1, Zenon
<1>6. job' = [job EXCEPT !.attempted = n, !.status = "paused", !.candidate_due = due]
  <2>1. PICK c: c = [job EXCEPT !.attempted = n, !.status = "paused"]
    OBVIOUS
  <2>2. c.pending_candidates = job.pending_candidates
    BY <1>2, <2>1 DEF JobRecords
  <2>3. job' = CandidateDue(c)
    BY <1>1, <1>4, <2>1
  <2>4. job' = [c EXCEPT !.candidate_due = job.pending_candidates # <<>>]
    BY <2>2, <2>3 DEF CandidateDue
  <2> QED BY <1>5, <2>1, <2>4
<1>7. /\ job' \in JobRecords /\ job'.shadow = job.shadow /\ job'.updates = job.updates
      /\ job'.attempted = n /\ job'.pending_candidates = job.pending_candidates
      /\ job'.candidate_due = due /\ job'.dropped = job.dropped /\ job'.snapshot = job.snapshot
      /\ job'.pending = job.pending /\ job'.receipt = job.receipt /\ job'.dirty = job.dirty
  BY <1>2, <1>4, <1>5, <1>6 DEF JobRecords
<1>8. Loadable(job') /\ Moves(job, job')
  <2>1. Moves(job, job) /\ job.updates <= n
    BY <1>2, <1>3, <1>4, Stays
  <2> QED BY <1>2, <1>5, <1>7, <2>1 DEF Loadable, CandidatesAdmitted, ShadowAdmitted, Moves
<1>9. TypeInv' /\ JobInv' /\ DiskInv' /\ RequestInv' /\ GivenInv'
  <2>1. owner' \in Owners /\ (owner'.allowed => ~job'.dirty) /\ pc' \in Steps /\ then' \in Thens
    BY <1>1, <1>2, <1>7 DEF Steps, Thens
  <2> QED BY <1>1, <1>7, <1>8, <2>1, MovesKeep
<1>10. ControlInv' /\ SavedInv'
  BY <1>1, <1>8, Advances
<1> QED BY <1>9, <1>10 DEF IInv

-----------------------------------------------------------------------------
(* Snapshots.                                                              *)

LEMMA NextSerial ==
    ASSUME TypeInv, DiskInv, NEW n, n = Max(Serials \cup {owner.serial}) + 1
    PROVE  n \in Nat \ {0} /\ \A f \in disk: f.serial < n
<1>1. owner.serial \in Nat /\ \A f \in disk: f.serial \in Nat
  BY OwnerFields, FileFields DEF TypeInv
<1> DEFINE all == Serials \cup {owner.serial}
<1>2. all \subseteq Nat /\ owner.serial \in all /\ \A f \in disk: f.serial \in all
  BY <1>1 DEF Serials
<1>3. \E m \in all: \A y \in all: m >= y
  <2>1. CASE disk = {}
    BY <1>1, <2>1 DEF Serials
  <2>2. CASE disk # {}
    <3>1. PICK f \in disk: \A g \in disk: g.serial <= f.serial
      BY <2>2 DEF DiskInv, IsNewest
    <3>2. \A y \in all: y = owner.serial \/ y <= f.serial
      BY <3>1 DEF Serials
    <3>3. CASE owner.serial >= f.serial
      BY <1>1, <1>2, <3>2, <3>3
    <3>4. CASE ~(owner.serial >= f.serial)
      BY <1>1, <1>2, <3>2, <3>4
    <3> QED BY <3>3, <3>4
  <2> QED BY <2>1, <2>2
<1>4. Max(all) \in all /\ \A y \in all: Max(all) >= y
  BY <1>3 DEF Max
<1> QED BY <1>2, <1>4

LEMMA PublishKeeps ==
    ASSUME IInv, Publish
    PROVE  IInv'
<1>1. /\ UNCHANGED <<then, runs, offline, job, server, mail, net, sent, given>>
      /\ pc = "save" /\ pc' = "rotate" /\ owner.allowed
      /\ journal' = journal \cup ({job.pending} \ {None})
      /\ stored' = stored \cup Range(job.pending_candidates)
  BY DEF Publish, outside
<1>2. PICK n: /\ n = Max(Serials \cup {owner.serial}) + 1
              /\ disk' = disk \cup {[serial |-> n, job |-> job,
                                     held |-> stored \cup Range(job.pending_candidates)]}
              /\ owner' = [owner EXCEPT !.serial = n, !.last_save_update = job.updates]
  BY DEF Publish
<1>3. PICK new: new = [serial |-> n, job |-> job,
                       held |-> stored \cup Range(job.pending_candidates)]
  OBVIOUS
<1>4. new.serial = n /\ new.job = job /\ new.held = stored' /\ disk' = disk \cup {new}
  BY <1>1, <1>2, <1>3
<1>5. /\ job \in JobRecords /\ owner \in Owners /\ disk \subseteq Files
      /\ stored \subseteq Artifacts
      /\ journal \subseteq Requests /\ IsFiniteSet(journal) /\ runs \in Nat
  BY DEF IInv, TypeInv
<1>6. n \in Nat \ {0} /\ \A f \in disk: f.serial < n
  BY <1>2, NextSerial DEF IInv
<1>7. /\ owner' \in Owners /\ owner'.allowed = owner.allowed /\ owner'.serial = n
      /\ owner'.last_save_update = job.updates /\ owner'.witness = owner.witness
  <2>1. job.updates \in 0..MaxUpdates /\ n \in Nat
    BY <1>5, <1>6 DEF JobRecords
  <2> QED BY <1>2, <1>5, <2>1 DEF Owners
<1>8. stored' \subseteq Artifacts /\ new \in Files
  <2>1. Range(job.pending_candidates) \subseteq Artifacts
    BY <1>5, JobFields, SeqIs
  <2> QED BY <1>1, <1>3, <1>5, <1>6, <2>1 DEF Files
<1>9. /\ journal \subseteq journal' /\ journal' \subseteq Requests /\ IsFiniteSet(journal')
      /\ Recorded(job)'
      /\ \A r \in journal': r.id <= Cardinality(journal')
      /\ \A r, s \in journal': r.id = s.id => r = s
  <2>1. job.pending \in Requests \cup {None}
    BY <1>5, JobFields
  <2>2. PICK size \in Nat: size = Cardinality(journal)
    BY <1>5, FS_CardinalityType
  <2>3. Recorded(job)' /\ journal' \subseteq Requests
    BY <1>1, <1>5, <2>1 DEF Recorded
  <2>4. CASE Recorded(job)
    <3>1. journal' = journal
      BY <1>1, <2>4 DEF Recorded
    <3> QED BY <1>5, <2>3, <3>1 DEF IInv, RequestInv
  <2>5. CASE ~Recorded(job)
    <3>1. PICK r \in Requests: r = job.pending /\ r \notin journal /\ journal' = journal \cup {r}
      BY <1>1, <2>1, <2>5 DEF Recorded
    <3>2. r.id = size + 1
      BY <2>2, <2>5, <3>1 DEF IInv, RequestInv
    <3>3. IsFiniteSet(journal') /\ Cardinality(journal') = size + 1
      BY <1>5, <2>2, <3>1, FS_AddElement
    <3>4. \A s \in journal: s.id \in Nat /\ s.id <= size
      BY <1>5, <2>2, RequestFields DEF IInv, RequestInv
    <3>5. \A s \in journal': s.id <= size + 1
      BY <3>1, <3>2, <3>4
    <3>6. \A s, t \in journal': s.id = t.id => s = t
      BY <3>1, <3>2, <3>4 DEF IInv, RequestInv
    <3> QED BY <1>1, <2>3, <3>3, <3>5, <3>6
  <2> QED BY <2>4, <2>5
<1>10. TypeInv'
  <2>1. disk' \subseteq Files /\ sent' \subseteq journal'
    BY <1>1, <1>4, <1>5, <1>8, <1>9 DEF IInv, TypeInv
  <2> QED BY <1>1, <1>7, <1>8, <1>9, <2>1 DEF IInv, TypeInv, Steps
<1>11. ControlInv'
  BY <1>1, <1>7, <1>9 DEF IInv, ControlInv, Doing, Recorded
<1>12. JobInv'
  <2>1. Loadable(job)' /\ ~job.dirty
    BY <1>1 DEF IInv, JobInv, Loadable, CandidatesAdmitted, ShadowAdmitted
  <2>2. ~job.shadow => job.pending = None /\ journal' = {}
    BY <1>1 DEF IInv, JobInv
  <2> QED BY <1>1, <2>1, <2>2 DEF IInv, JobInv
<1>13. DiskInv'
  <2>1. \A f, g \in disk': f.serial = g.serial => f = g
    BY <1>4, <1>6 DEF IInv, DiskInv
  <2>2. IsNewest(new)'
    <3>1. \A g \in disk': g.serial <= n
      <4>1. \A g \in disk: g.serial \in Nat /\ g.serial <= n
        BY <1>5, <1>6, FileFields
      <4> QED BY <1>4, <1>6, <4>1
    <3> QED BY <1>4, <3>1 DEF IsNewest
  <2>3. ASSUME NEW f \in disk'
        PROVE  /\ Loadable(f.job) /\ ~f.job.dirty /\ f.job.shadow = job.shadow
               /\ f.job.pending = None \/ f.job.pending \in journal'
               /\ \A c \in Range(f.job.pending_candidates): c.run <= runs
               /\ f.held \subseteq Range(f.job.pending_candidates) \cup given \cup f.job.dropped
    <3>1. CASE f = new
      <4>1. Loadable(job) /\ ~job.dirty /\ \A c \in Range(job.pending_candidates): c.run <= runs
        BY <1>1 DEF IInv, JobInv
      <4>2. stored' \subseteq Range(job.pending_candidates) \cup given \cup job.dropped
        BY <1>1 DEF IInv, JobInv
      <4>3. job.pending = None \/ job.pending \in journal'
        BY <1>1, <1>9 DEF Recorded
      <4> QED BY <1>4, <3>1, <4>1, <4>2, <4>3
    <3>2. CASE f \in disk
      BY <1>9, <3>2 DEF IInv, DiskInv, Recorded
    <3> QED BY <1>4, <3>1, <3>2
  <2>4. \A f \in disk': Loadable(f.job)'
    BY <2>3 DEF Loadable, CandidatesAdmitted, ShadowAdmitted
  <2> QED BY <1>1, <1>4, <2>1, <2>2, <2>3, <2>4 DEF DiskInv, Recorded
<1>14. RequestInv'
  BY <1>1, <1>9 DEF IInv, RequestInv
<1>15. GivenInv'
  BY <1>1 DEF IInv, GivenInv
<1>16. SavedInv'
  <2>1. \A f \in disk': IsNewest(f)' => f = new
    <3>1. \A f \in disk: f.serial \in Nat /\ ~(n <= f.serial)
      BY <1>5, <1>6, FileFields
    <3>2. \A f \in disk': IsNewest(f)' => n <= f.serial
      BY <1>4 DEF IsNewest
    <3> QED BY <1>4, <3>1, <3>2
  <2>2. disk' # {} /\ job'.updates - owner'.last_save_update <= SaveEvery
    <3>1. job.updates \in Nat /\ SaveEvery \in Nat
      BY <1>5, JobFields, JobAssumption
    <3> QED BY <1>1, <1>4, <1>7, <3>1
  <2> QED BY <1>1, <1>4, <1>7, <2>1, <2>2 DEF SavedInv
<1> QED BY <1>10, <1>11, <1>12, <1>13, <1>14, <1>15, <1>16 DEF IInv

(* The newest snapshot stays.                                              *)
LEMMA KeptIs ==
    ASSUME TypeInv, DiskInv, disk # {}, disk' = Kept(disk)
    PROVE  /\ disk' \subseteq disk /\ disk' # {}
           /\ \A f \in disk: IsNewest(f) => f \in disk'
           /\ \A f \in disk': IsNewest(f)' => IsNewest(f)
<1>1. \A f \in disk: f.serial \in Nat
  BY FileFields DEF TypeInv
<1>2. disk' \subseteq disk
  BY DEF Kept
<1>3. ASSUME NEW f \in disk, IsNewest(f) PROVE f \in disk'
  <2>1. {g \in disk: g.serial > f.serial} = {}
    BY <1>1, <1>3 DEF IsNewest
  <2>2. Cardinality({g \in disk: g.serial > f.serial}) = 0
    BY <2>1, FS_EmptySet
  <2>3. 0 < Retain
    BY JobAssumption
  <2> QED BY <2>2, <2>3 DEF Kept
<1>4. PICK new \in disk: IsNewest(new)
  BY DEF DiskInv, IsNewest
<1>5. new \in disk'
  BY <1>3, <1>4
<1>6. ASSUME NEW f \in disk', IsNewest(f)' PROVE IsNewest(f)
  <2>1. f \in disk /\ new.serial <= f.serial
    BY <1>2, <1>5, <1>6 DEF IsNewest
  <2> QED BY <1>1, <1>4, <2>1 DEF IsNewest
<1> QED BY <1>2, <1>3, <1>5, <1>6

LEMMA RotateKeeps ==
    ASSUME IInv, Rotate
    PROVE  IInv'
<1>1. /\ UNCHANGED <<then, runs, offline, job, server, mail, net, sent, given, stored, journal>>
      /\ pc = "rotate" /\ disk' = Kept(disk) /\ owner' = [owner EXCEPT !.witness = job.pending]
      /\ pc' = AfterFirst(then)
  BY DEF Rotate, outside, history
<1>2. /\ then \in Thens /\ job \in JobRecords /\ owner \in Owners /\ runs \in Nat
      /\ disk # {} /\ disk \subseteq Files
  BY <1>1 DEF IInv, TypeInv, Thens, SavedInv
<1>3. /\ pc' \in {"fetch", "upload", "activate", "due", "stop", "off"}
      /\ pc' = "upload" => then = "upload"
      /\ pc' = "activate" => then = "activate"
  BY <1>1, <1>2 DEF AfterFirst, Thens
<1>4. /\ owner' \in Owners /\ owner'.witness = job.pending /\ owner'.allowed = owner.allowed
      /\ owner'.last_save_update = owner.last_save_update
  <2>1. job.pending \in Requests \cup {None}
    BY <1>2, JobFields
  <2> QED BY <1>1, <1>2, <2>1 DEF Owners
<1>5. /\ disk' \subseteq disk /\ disk' # {}
      /\ \A f \in disk: IsNewest(f) => f \in disk'
      /\ \A f \in disk': IsNewest(f)' => IsNewest(f)
  BY <1>1, <1>2, KeptIs DEF IInv
<1>6. TypeInv'
  <2>1. disk' \subseteq Files /\ pc' \in Steps
    BY <1>2, <1>3, <1>5 DEF Steps
  <2> QED BY <1>1, <1>4, <2>1 DEF IInv, TypeInv
<1>7. ControlInv'
  <2>1. /\ Recorded(job) /\ (then = "upload" => ~job.shadow)
        /\ then = "activate" => job.pending # None
    BY <1>1 DEF IInv, ControlInv, Doing
  <2> QED BY <1>1, <1>3, <1>4, <2>1 DEF ControlInv, Doing, Recorded
<1>8. JobInv'
  BY <1>1, <1>4, JobKept DEF IInv, JobInv
<1>9. DiskInv'
  <2>1. PICK new \in disk: IsNewest(new)
    BY <1>2 DEF IInv, DiskInv, IsNewest
  <2>2. IsNewest(new)'
    BY <1>5, <2>1 DEF IsNewest
  <2>3. \A f \in disk': Loadable(f.job)'
    BY <1>5 DEF IInv, DiskInv, Loadable, CandidatesAdmitted, ShadowAdmitted
  <2>4. ASSUME NEW f \in disk'
        PROVE  /\ ~f.job.dirty /\ f.job.shadow = job.shadow /\ Recorded(f.job)
               /\ \A c \in Range(f.job.pending_candidates): c.run <= runs
               /\ f.held \subseteq Range(f.job.pending_candidates) \cup given \cup f.job.dropped
    BY <1>5 DEF IInv, DiskInv
  <2>5. \A f, g \in disk': f.serial = g.serial => f = g
    BY <1>5 DEF IInv, DiskInv
  <2>6. \A f \in disk': Recorded(f.job)'
    BY <1>1, <2>4 DEF Recorded
  <2>7. \E f \in disk': IsNewest(f)'
    BY <2>2 DEF IsNewest
  <2> QED BY <1>1, <2>3, <2>4, <2>5, <2>6, <2>7 DEF DiskInv
<1>10. RequestInv' /\ GivenInv'
  BY <1>1, RequestKept, GivenKept DEF IInv
<1>11. SavedInv'
  <2>1. /\ job.updates = owner.last_save_update
        /\ \A f \in disk: IsNewest(f) => f.job.updates = owner.last_save_update /\ f.held = stored
    BY <1>1 DEF IInv, SavedInv
  <2>2. /\ job'.updates - owner'.last_save_update <= SaveEvery
        /\ job'.updates - owner'.last_save_update < SaveEvery
    <3>1. job.updates \in Nat /\ SaveEvery \in Nat \ {0}
      BY <1>2, JobFields, JobAssumption
    <3> QED BY <1>1, <1>4, <2>1, <3>1
  <2> QED BY <1>1, <1>3, <1>4, <1>5, <2>1, <2>2 DEF SavedInv
<1> QED BY <1>6, <1>7, <1>8, <1>9, <1>10, <1>11 DEF IInv

-----------------------------------------------------------------------------
(* The handoff.                                                            *)

LEMMA HeadIs ==
    ASSUME NEW j \in JobRecords, j.pending_candidates # <<>>
    PROVE  Head(j.pending_candidates) \in Range(j.pending_candidates) \cap Artifacts
<1>1. PICK cs \in Seq(Artifacts): cs = j.pending_candidates
  BY JobFields
<1>2. Len(cs) \in Nat /\ Len(cs) # 0 /\ Head(cs) = cs[1]
  BY <1>1, SeqIs
<1>3. 1 \in 1..Len(cs)
  BY <1>2
<1> QED BY <1>1, <1>2, <1>3, SeqIs

LEMMA Admitting ==
    ASSUME NEW s \in Servers, NEW a \in Artifacts, NEW t, t = [s EXCEPT !.admitted = @ \cup {a}]
    PROVE  t \in Servers /\ t.receipts = s.receipts /\ t.admitted = s.admitted \cup {a}
BY DEF Servers

LEMMA UploadKeeps ==
    ASSUME IInv, Upload
    PROVE  IInv'
<1>1. PICK a: /\ a = Head(job.pending_candidates)
              /\ server' = [server EXCEPT !.admitted = @ \cup {a}]
              /\ job' = Acknowledged(job, a) /\ given' = given \cup {a}
  BY DEF Upload
<1>2. /\ pc = "upload" /\ job.pending_candidates # <<>>
      /\ UNCHANGED <<pc, then, runs, offline, owner, disk, mail, net, journal, sent, stored>>
  BY DEF Upload
<1>3. /\ job \in JobRecords /\ server \in Servers /\ Loadable(job) /\ runs \in Nat
      /\ ~job.shadow /\ job.pending = None
  BY <1>2 DEF IInv, TypeInv, ControlInv, Doing, JobInv
<1>4. a \in Range(job.pending_candidates) /\ a \in Artifacts
  BY <1>1, <1>2, <1>3, HeadIs
<1>5. /\ server' \in Servers /\ server'.receipts = server.receipts
      /\ server'.admitted = server.admitted \cup {a}
  BY <1>1, <1>3, <1>4, Admitting
<1>6. /\ job' \in JobRecords /\ Loadable(job')
      /\ Range(job'.pending_candidates) = Range(job.pending_candidates) \ {a}
      /\ job'.shadow = job.shadow /\ job'.pending = None /\ job'.updates = job.updates
      /\ job'.dropped = job.dropped /\ job'.dirty = job.dirty
  <2>1. /\ job.updates <= job.attempted /\ CandidatesAdmitted(job)
        /\ job.snapshot => job.receipt # None
    BY <1>3 DEF Loadable, ShadowAdmitted
  <2> QED BY <1>1, <1>3, <1>4, <2>1, AcknowledgedIs
<1>7. TypeInv'
  BY <1>1, <1>2, <1>4, <1>5, <1>6 DEF IInv, TypeInv
<1>8. ControlInv'
  BY <1>2, <1>6 DEF IInv, ControlInv, Doing
<1>9. JobInv'
  <2>1. Loadable(job)' /\ (owner'.allowed => ~job'.dirty)
    BY <1>2, <1>6 DEF IInv, JobInv, Loadable, CandidatesAdmitted, ShadowAdmitted
  <2>2. stored' \subseteq Range(job'.pending_candidates) \cup given' \cup job'.dropped
    BY <1>1, <1>2, <1>6 DEF IInv, JobInv
  <2> QED BY <1>2, <1>6, <2>1, <2>2 DEF IInv, JobInv
<1>10. DiskInv'
  <2>1. runs' \in Nat /\ runs <= runs'
    BY <1>2, <1>3
  <2> QED BY <1>1, <1>2, <1>6, <2>1, DiskKept DEF IInv
<1>11. RequestInv'
  BY <1>2, <1>5, <1>6, RequestKept DEF IInv
<1>12. GivenInv'
  BY <1>1, <1>3, <1>5, <1>6 DEF IInv, GivenInv
<1>13. SavedInv'
  BY <1>2, <1>6 DEF IInv, SavedInv, Established, IsNewest
<1> QED BY <1>7, <1>8, <1>9, <1>10, <1>11, <1>12, <1>13 DEF IInv

LEMMA UploadFailsKeeps ==
    ASSUME IInv, UploadFails
    PROVE  IInv'
<1>1. /\ Established /\ Raise /\ job.pending_candidates # <<>>
      /\ UNCHANGED <<runs, offline, job, owner, disk, mail, net, journal, sent, given, stored>>
      /\ server' \in {server, [server EXCEPT !.admitted = @ \cup {Head(job.pending_candidates)}]}
  BY DEF UploadFails, Established, history
<1>2. GoesOn
  <2>1. job \in JobRecords /\ server \in Servers
    BY DEF IInv, TypeInv
  <2>2. Head(job.pending_candidates) \in Artifacts
    BY <1>1, <2>1, HeadIs
  <2>3. UNCHANGED server \/ (/\ server' \in Servers /\ server'.receipts = server.receipts
                             /\ server.admitted \subseteq server'.admitted)
    BY <1>1, <2>1, <2>2, Admitting
  <2> QED BY <1>1, <2>3 DEF GoesOn
<1> QED BY <1>1, <1>2, Raises

LEMMA StagePendingKeeps ==
    ASSUME IInv, StagePending
    PROVE  IInv'
<1>1. /\ pc = "stage" /\ pc' = "save" /\ then' = "activate"
      /\ UNCHANGED <<runs, offline, disk, mail, net, journal, sent, given, stored>>
  BY DEF StagePending, SaveThen, history
<1>2. /\ job \in JobRecords /\ server \in Servers /\ owner \in Owners /\ Loadable(job)
      /\ job.shadow /\ job.pending_candidates # <<>> /\ runs \in Nat
  BY <1>1 DEF IInv, TypeInv, ControlInv, JobInv
<1>3. Established /\ Established' /\ pc' \notin {"fetch", "update", "rotate"}
  BY <1>1 DEF Established
<1>4. CASE job.pending # None /\ UNCHANGED <<job, server, owner>>
  <2>1. GoesOn
    BY <1>1, <1>4 DEF GoesOn
  <2>2. ControlInv'
    BY <1>1, <1>4 DEF IInv, ControlInv, Doing
  <2>3. SavedInv'
    BY <1>1, <1>3, <1>4 DEF IInv, SavedInv, IsNewest
  <2> QED BY <1>1, <2>1, <2>2, <2>3, GoesOnKeeps DEF Steps, Thens
<1>5. CASE /\ job.pending = None /\ job' = Staged
           /\ server' = [server EXCEPT !.admitted = @ \cup {Head(job.pending_candidates)}]
           /\ owner' = [owner EXCEPT !.witness = None]
  <2>1. PICK a \in Artifacts: /\ a = Head(job.pending_candidates)
                              /\ a \in Range(job.pending_candidates)
    BY <1>2, HeadIs
  <2>2. PICK size \in Nat: size = Cardinality(journal)
    BY FS_CardinalityType DEF IInv, TypeInv
  <2>3. FreshId = size + 1
    <3>1. sent \cup journal = journal
      BY DEF IInv, TypeInv
    <3>2. Cardinality(sent \cup journal) = size
      BY <2>2, <3>1
    <3> QED BY <3>2 DEF FreshId
  <2>4. ObservedSequence \in Nat /\ server.epoch \in Nat
    <3>1. mail \in Segments \cup {None} /\ server.slot \in Segments \cup {None}
      BY <1>2, ServerFields DEF IInv, TypeInv
    <3>2. Observed \in Segments \cup {None}
      BY <3>1 DEF Observed
    <3>3. Observed # None => Observed.sequence \in Nat
      BY <3>2 DEF Segments
    <3> QED BY <1>2, <3>3, ServerFields DEF ObservedSequence, Zero
  <2>5. PICK r: r = [id |-> FreshId, artifact |-> a, epoch |-> server.epoch,
                     expected |-> ObservedSequence]
    OBVIOUS
  <2>6. r \in Requests /\ r.id = size + 1 /\ r.artifact = a /\ r # None
    <3>1. r \in Requests /\ r.id = size + 1 /\ r.artifact = a
      BY <2>3, <2>4, <2>5 DEF Requests
    <3> QED BY <3>1, RequestFields
  <2>7. job' = [job EXCEPT !.pending = r]
    BY <1>5, <2>1, <2>5 DEF Staged
  <2>8. /\ job' \in JobRecords /\ job'.pending = r /\ job'.shadow = job.shadow
        /\ job'.updates = job.updates /\ job'.attempted = job.attempted
        /\ job'.pending_candidates = job.pending_candidates
        /\ job'.candidate_due = job.candidate_due /\ job'.dropped = job.dropped
        /\ job'.receipt = job.receipt /\ job'.snapshot = job.snapshot /\ job'.dirty = job.dirty
    BY <1>2, <2>6, <2>7 DEF JobRecords
  <2>9. /\ server' \in Servers /\ server'.receipts = server.receipts
        /\ server.admitted \subseteq server'.admitted
    BY <1>2, <1>5, <2>1, Admitting
  <2>10. /\ owner' \in Owners /\ owner'.witness = None /\ owner'.allowed = owner.allowed
         /\ owner'.last_save_update = owner.last_save_update
    BY <1>2, <1>5 DEF Owners
  <2>11. TypeInv'
    BY <1>1, <2>8, <2>9, <2>10 DEF IInv, TypeInv, Steps
  <2>12. ControlInv'
    BY <1>1, <2>6, <2>8, <2>10 DEF ControlInv, Doing
  <2>13. JobInv'
    <3>1. Loadable(job)'
      BY <1>2, <2>1, <2>6, <2>8 DEF Loadable, CandidatesAdmitted, ShadowAdmitted
    <3> QED BY <1>1, <1>2, <2>8, <2>10, <3>1 DEF IInv, JobInv
  <2>14. DiskInv'
    <3>1. runs' \in Nat /\ runs <= runs'
      BY <1>1, <1>2
    <3> QED BY <1>1, <2>8, <3>1, DiskKept DEF IInv
  <2>15. RequestInv'
    BY <1>1, <2>2, <2>6, <2>8, <2>9 DEF IInv, RequestInv
  <2>16. GivenInv'
    BY <1>1, <2>8, <2>9, GivenKept DEF IInv
  <2>17. SavedInv'
    BY <1>1, <1>3, <2>8, <2>10 DEF IInv, SavedInv, IsNewest
  <2> QED BY <2>11, <2>12, <2>13, <2>14, <2>15, <2>16, <2>17 DEF IInv
<1> QED BY <1>4, <1>5, Zenon DEF StagePending

LEMMA ActivateSendKeeps ==
    ASSUME IInv, ActivateSend
    PROVE  IInv'
<1>1. /\ pc = "activate" /\ Established /\ job.pending # None
      /\ UNCHANGED <<then, runs, offline, job, owner, disk, server, mail, journal, given, stored>>
  BY DEF ActivateSend, Established, IInv, ControlInv, Doing
<1>2. CASE /\ owner.witness = job.pending /\ net' = net \cup {job.pending}
           /\ sent' = sent \cup {job.pending} /\ pc' = "await"
  <2>1. job.pending \in journal
    BY <1>1, <1>2 DEF IInv, ControlInv
  <2>2. TypeInv'
    BY <1>1, <1>2, <2>1 DEF IInv, TypeInv, Steps
  <2>3. ControlInv'
    BY <1>1, <1>2 DEF IInv, ControlInv, Doing
  <2>4. JobInv'
    BY <1>1, JobKept DEF IInv, JobInv
  <2>5. DiskInv'
    <3>1. runs' \in Nat /\ runs <= runs'
      BY <1>1 DEF IInv, TypeInv
    <3> QED BY <1>1, <3>1, DiskKept DEF IInv
  <2>6. RequestInv' /\ GivenInv'
    BY <1>1, <1>2, RequestKept, GivenKept DEF IInv
  <2>7. SavedInv'
    BY <1>1, <1>2 DEF IInv, SavedInv, Established, IsNewest
  <2> QED BY <2>2, <2>3, <2>4, <2>5, <2>6, <2>7 DEF IInv
<1>3. CASE pc' = "raise" /\ UNCHANGED <<net, sent>>
  <2>1. GoesOn
    BY <1>1, <1>3 DEF GoesOn
  <2> QED BY <1>1, <1>3, <2>1, Proceeds
<1> QED BY <1>2, <1>3, Zenon DEF ActivateSend

LEMMA ActivateReceiptKeeps ==
    ASSUME IInv, ActivateReceipt
    PROVE  IInv'
<1>1. /\ pc = "await" /\ pc' = "save" /\ then' = "due"
      /\ UNCHANGED <<runs, offline, owner, disk, server, mail, net, journal, sent, stored>>
  BY DEF ActivateReceipt, SaveThen, outside
<1>2. PICK x \in server.receipts:
        /\ x.id = job.pending.id /\ job' = Confirmed(x)
        /\ given' = given \cup {job.pending.artifact}
  BY DEF ActivateReceipt
<1>3. /\ job \in JobRecords /\ server \in Servers /\ Loadable(job) /\ runs \in Nat
      /\ job.pending \in sent /\ sent \subseteq journal /\ journal \subseteq Requests
  BY <1>1 DEF IInv, TypeInv, ControlInv, JobInv
<1>4. PICK a \in Artifacts: a = job.pending.artifact /\ a \in Range(job.pending_candidates)
  <2>1. job.pending \in Requests /\ job.pending # None
    BY <1>3, RequestFields
  <2> QED BY <1>3, <2>1, RequestFields, LoadableIs
<1>5. x.artifact = a /\ a \in server.admitted
  <2>1. PICK r \in sent: r.id = x.id /\ r.artifact = x.artifact
    BY DEF IInv, RequestInv
  <2>2. r = job.pending
    BY <1>2, <1>3, <2>1 DEF IInv, RequestInv
  <2> QED BY <1>4, <2>1, <2>2 DEF IInv, RequestInv
<1>6. x \in Receipts
  BY <1>3, ServerFields
<1>7. PICK j: j = [job EXCEPT !.receipt = x, !.snapshot = FALSE, !.pending = None]
  OBVIOUS
<1>8. /\ j \in JobRecords /\ j.pending = None /\ j.shadow = job.shadow
      /\ j.updates = job.updates /\ j.attempted = job.attempted
      /\ j.pending_candidates = job.pending_candidates
      /\ j.candidate_due = job.candidate_due /\ j.dropped = job.dropped
      /\ j.snapshot = FALSE /\ j.dirty = job.dirty
  BY <1>3, <1>6, <1>7 DEF JobRecords
<1>9. j.updates <= j.attempted /\ CandidatesAdmitted(j)
  BY <1>3, <1>8 DEF Loadable, CandidatesAdmitted
<1>10. job' = Acknowledged(j, a)
  BY <1>2, <1>4, <1>7 DEF Confirmed
<1>11. /\ job' \in JobRecords /\ Loadable(job')
       /\ Range(job'.pending_candidates) = Range(job.pending_candidates) \ {a}
       /\ job'.shadow = job.shadow /\ job'.pending = None /\ job'.updates = job.updates
       /\ job'.dropped = job.dropped /\ job'.dirty = job.dirty
  <2>1. a \in Range(j.pending_candidates)
    BY <1>4, <1>8
  <2> QED BY <1>8, <1>9, <1>10, <2>1, AcknowledgedIs
<1>12. TypeInv'
  BY <1>1, <1>2, <1>4, <1>11 DEF IInv, TypeInv, Steps
<1>13. ControlInv'
  BY <1>1 DEF IInv, ControlInv, Doing
<1>14. JobInv'
  <2>1. Loadable(job)' /\ (owner'.allowed => ~job'.dirty)
    BY <1>1, <1>11 DEF IInv, JobInv, Loadable, CandidatesAdmitted, ShadowAdmitted
  <2>2. stored' \subseteq Range(job'.pending_candidates) \cup given' \cup job'.dropped
    BY <1>1, <1>2, <1>4, <1>11 DEF IInv, JobInv
  <2> QED BY <1>1, <1>11, <2>1, <2>2 DEF IInv, JobInv
<1>15. DiskInv'
  <2>1. runs' \in Nat /\ runs <= runs'
    BY <1>1, <1>3
  <2> QED BY <1>1, <1>2, <1>11, <2>1, DiskKept DEF IInv
<1>16. RequestInv'
  BY <1>1, <1>11, RequestKept DEF IInv
<1>17. GivenInv'
  BY <1>1, <1>2, <1>4, <1>5, <1>11 DEF IInv, GivenInv
<1>18. SavedInv'
  BY <1>1, <1>11 DEF IInv, SavedInv, Established, IsNewest
<1> QED BY <1>12, <1>13, <1>14, <1>15, <1>16, <1>17, <1>18 DEF IInv

LEMMA ResumeKeeps ==
    ASSUME IInv, Resume
    PROVE  IInv'
<1>1. /\ runs < MaxRuns /\ runs' = runs + 1 /\ offline' \in BOOLEAN
      /\ pc' = "save" /\ then' = "first"
      /\ UNCHANGED <<disk, server, mail, net, journal, sent, given>>
  BY DEF Resume, SaveThen, outside
<1>2. PICK f \in disk: /\ job' = f.job
                       /\ owner' = [serial |-> f.serial, last_save_update |-> f.job.updates,
                                    witness |-> f.job.pending, allowed |-> TRUE]
                       /\ stored' = f.held
  BY DEF Resume
<1>3. /\ f.serial \in Nat /\ f.job \in JobRecords /\ f.held \subseteq Artifacts
      /\ runs \in 1..MaxRuns
  BY FileFields DEF IInv, TypeInv
<1>4. /\ Loadable(f.job) /\ ~f.job.dirty /\ f.job.shadow = job.shadow /\ Recorded(f.job)
      /\ \A c \in Range(f.job.pending_candidates): c.run <= runs
      /\ f.held \subseteq Range(f.job.pending_candidates) \cup given \cup f.job.dropped
  BY DEF IInv, DiskInv
<1>5. runs' \in Nat /\ runs <= runs' /\ runs' \in 1..MaxRuns
  BY <1>1, <1>3, JobAssumption
<1>6. owner' \in Owners /\ owner'.witness = f.job.pending
  <2>1. f.job.updates \in 0..MaxUpdates /\ f.job.pending \in Requests \cup {None}
    BY <1>3 DEF JobRecords
  <2> QED BY <1>2, <1>3, <2>1 DEF Owners
<1>7. TypeInv'
  BY <1>1, <1>2, <1>3, <1>5, <1>6 DEF IInv, TypeInv, Steps
<1>8. ControlInv'
  BY <1>1, <1>4, <1>6 DEF ControlInv, Doing, Recorded
<1>9. JobInv'
  <2>1. Loadable(job)'
    BY <1>2, <1>4 DEF Loadable, CandidatesAdmitted, ShadowAdmitted
  <2>2. ~job'.shadow => job'.pending = None /\ journal' = {}
    BY <1>1, <1>2, <1>4 DEF IInv, JobInv, Recorded
  <2>3. ASSUME NEW c \in Range(job'.pending_candidates) PROVE c.run <= runs'
    <3>1. PICK cs \in Seq(Artifacts): cs = f.job.pending_candidates
      BY <1>3, JobFields
    <3>2. c \in Artifacts /\ c.run <= runs
      BY <1>2, <1>4, <2>3, <3>1, SeqIs
    <3> QED BY <1>1, <1>3, <3>2, ArtifactFields, JobAssumption
  <2> QED BY <1>1, <1>2, <1>4, <2>1, <2>2, <2>3 DEF JobInv
<1>10. DiskInv'
  BY <1>1, <1>2, <1>4, <1>5, DiskKept DEF IInv
<1>11. RequestInv'
  BY <1>1, <1>2, <1>4 DEF IInv, RequestInv, Recorded
<1>12. GivenInv'
  BY <1>1, <1>2, <1>4, GivenKept DEF IInv
<1>13. SavedInv'
  BY <1>1 DEF SavedInv, Established
<1> QED BY <1>7, <1>8, <1>9, <1>10, <1>11, <1>12, <1>13 DEF IInv

-----------------------------------------------------------------------------
(* The server.                                                             *)

LEMMA ServerKeeps ==
    ASSUME IInv, UNCHANGED <<pc, then, runs, offline, job, owner, disk>>,
           UNCHANGED <<journal, sent, given, stored>>,
           server' \in Servers, mail' \in Segments \cup {None}, net' \subseteq sent,
           server.receipts \subseteq server'.receipts, server'.admitted = server.admitted,
           \A x \in server'.receipts \ server.receipts:
             /\ x.artifact \in server.admitted
             /\ \E r \in sent: r.id = x.id /\ r.artifact = x.artifact
    PROVE  IInv'
<1>1. TypeInv'
  BY DEF IInv, TypeInv
<1>2. ControlInv'
  BY DEF IInv, ControlInv, Doing, Recorded
<1>3. JobInv'
  BY JobKept DEF IInv, JobInv
<1>4. DiskInv'
  <2>1. runs' \in Nat /\ runs <= runs'
    BY DEF IInv, TypeInv
  <2> QED BY <2>1, DiskKept DEF IInv
<1>5. RequestInv'
  BY DEF IInv, RequestInv, Recorded
<1>6. GivenInv'
  BY GivenKept DEF IInv
<1>7. SavedInv'
  BY DEF IInv, SavedInv, Established, IsNewest
<1> QED BY <1>1, <1>2, <1>3, <1>4, <1>5, <1>6, <1>7 DEF IInv

LEMMA ServerActivatesKeeps ==
    ASSUME IInv, ServerActivates
    PROVE  IInv'
<1>1. PICK r \in net:
        /\ net' = net \ {r}
        /\ IF /\ \A x \in server.receipts: x.id # r.id
              /\ r.epoch = server.epoch /\ r.expected = SlotSequence
              /\ r.artifact \in server.admitted
           THEN server' = [server EXCEPT
                  !.commands = @ + 1, !.slot = Segment(r.id),
                  !.receipts = @ \cup {[id |-> r.id, artifact |-> r.artifact, epoch |-> r.epoch,
                                        sequence |-> server.commands + 1,
                                        previous |-> SlotSequence]}]
           ELSE UNCHANGED server
        /\ UNCHANGED <<pc, then, runs, offline, job, owner, disk, mail, history>>
  BY DEF ServerActivates
<1>2. /\ server \in Servers /\ mail \in Segments \cup {None} /\ net \subseteq sent
      /\ sent \subseteq Requests
      /\ UNCHANGED <<pc, then, runs, offline, job, owner, disk, journal, sent, given, stored, mail>>
  BY <1>1 DEF IInv, TypeInv, history
<1>3. net' \subseteq sent /\ mail' \in Segments \cup {None}
  BY <1>1, <1>2
<1>4. CASE UNCHANGED server
  BY <1>2, <1>3, <1>4, ServerKeeps
<1>5. CASE /\ r.artifact \in server.admitted
           /\ server' = [server EXCEPT
                !.commands = @ + 1, !.slot = Segment(r.id),
                !.receipts = @ \cup {[id |-> r.id, artifact |-> r.artifact, epoch |-> r.epoch,
                                      sequence |-> server.commands + 1,
                                      previous |-> SlotSequence]}]
  <2>1. r \in Requests /\ r.id \in Nat \ {0} /\ r.artifact \in Artifacts /\ r.epoch \in Nat
    BY <1>2, RequestFields
  <2>2. PICK n \in Nat: n = server.commands + 1
    BY <1>2, ServerFields
  <2>3. SlotSequence \in Nat
    <3>1. server.slot # None => server.slot.sequence \in Nat
      BY <1>2, ServerFields DEF Segments
    <3> QED BY <3>1 DEF SlotSequence, Zero
  <2>4. PICK x: x = [id |-> r.id, artifact |-> r.artifact, epoch |-> r.epoch, sequence |-> n,
                     previous |-> SlotSequence]
    OBVIOUS
  <2>5. x \in Receipts /\ x.id = r.id /\ x.artifact = r.artifact
    BY <2>1, <2>2, <2>3, <2>4 DEF Receipts
  <2>6. PICK now: now = Segment(r.id)
    OBVIOUS
  <2>7. now \in Segments
    BY <2>1, <2>2, <2>6 DEF Segment, Segments
  <2>8. server' = [server EXCEPT !.commands = n, !.slot = now, !.receipts = @ \cup {x}]
    BY <1>5, <2>2, <2>4, <2>6
  <2>9. /\ server' \in Servers /\ server'.receipts = server.receipts \cup {x}
        /\ server'.admitted = server.admitted
    BY <1>2, <2>2, <2>5, <2>7, <2>8 DEF Servers
  <2>10. r \in sent
    BY <1>2
  <2> QED BY <1>2, <1>3, <1>5, <2>5, <2>9, <2>10, ServerKeeps
<1> QED BY <1>1, <1>4, <1>5, Zenon

LEMMA OutsideKeeps ==
    ASSUME IInv, MailboxShows \/ OthersActivate \/ ServerRestarts \/ UNCHANGED vars
    PROVE  IInv'
<1>1. /\ server \in Servers /\ mail \in Segments \cup {None} /\ net \subseteq sent
      /\ UNCHANGED <<pc, then, runs, offline, job, owner, disk, journal, sent, given, stored, net>>
  BY DEF IInv, TypeInv, MailboxShows, OthersActivate, ServerRestarts, vars, history
<1>2. PICK n, k, e: n = server.commands + 1 /\ k = server.foreign + 1 /\ e = server.epoch + 1
  OBVIOUS
<1>3. n \in Nat /\ k \in Nat /\ e \in Nat /\ server.slot \in Segments \cup {None}
  BY <1>1, <1>2, ServerFields
<1>4. CASE MailboxShows
  BY <1>1, <1>3, <1>4, ServerKeeps DEF MailboxShows
<1>5. CASE OthersActivate
  <2>1. PICK now: now = Segment(ForeignId)
    OBVIOUS
  <2>2. now = [id |-> 1000, sequence |-> n]
    BY <1>2, <2>1 DEF Segment, ForeignId
  <2>3. now \in Segments
    BY <1>3, <2>2 DEF Segments
  <2>4. server' = [server EXCEPT !.foreign = k, !.commands = n, !.slot = now]
    BY <1>2, <1>5, <2>1 DEF OthersActivate
  <2>5. /\ server' \in Servers /\ server'.receipts = server.receipts
        /\ server'.admitted = server.admitted /\ UNCHANGED mail
    BY <1>1, <1>3, <1>5, <2>3, <2>4 DEF Servers, OthersActivate
  <2> QED BY <1>1, <2>5, ServerKeeps
<1>6. CASE ServerRestarts
  <2>1. server' = [server EXCEPT !.foreign = k, !.epoch = e, !.slot = None] /\ mail' = None
    BY <1>2, <1>6 DEF ServerRestarts
  <2>2. /\ server' \in Servers /\ server'.receipts = server.receipts
        /\ server'.admitted = server.admitted
    BY <1>1, <1>3, <2>1 DEF Servers
  <2> QED BY <1>1, <2>1, <2>2, ServerKeeps
<1>7. CASE UNCHANGED vars
  BY <1>1, <1>7, ServerKeeps DEF vars
<1> QED BY <1>4, <1>5, <1>6, <1>7

-----------------------------------------------------------------------------
(* Every step keeps the invariant.                                         *)

LEMMA InitEstablishes ==
    ASSUME Init
    PROVE  IInv
<1>1. /\ pc = "save" /\ then = "first" /\ runs = 1 /\ offline = FALSE /\ owner = NewOwner
      /\ disk = {} /\ mail = None /\ net = {} /\ journal = {} /\ sent = {} /\ given = {}
      /\ stored = {}
      /\ server = [epoch |-> 1, commands |-> 0, slot |-> None, receipts |-> {}, admitted |-> {},
                   foreign |-> 0]
  BY DEF Init
<1>2. PICK shadow \in Shadows: job = NewJob(shadow)
  BY DEF Init
<1>3. 0 \in 0..MaxUpdates /\ 1 \in 1..MaxRuns
  BY JobAssumption
<1>4. /\ job.pending_candidates = <<>> /\ job.pending = None /\ job.updates = 0
      /\ job.attempted = 0 /\ job.candidate_due = FALSE /\ job.snapshot = FALSE
      /\ job.dirty = FALSE /\ job.dropped = {} /\ job.receipt = None
  BY <1>2 DEF NewJob
<1>5. <<>> \in Seq(Artifacts) /\ Len(<<>>) = 0 /\ Range(<<>>) = {} /\ IsInjective(<<>>)
  <2>1. <<>> \in Seq(Artifacts) /\ Len(<<>>) = 0 /\ DOMAIN <<>> = {}
    OBVIOUS
  <2> QED BY <2>1 DEF Range, IsInjective
<1>6. job \in JobRecords
  BY <1>2, <1>3, <1>5 DEF NewJob, JobRecords
<1>7. owner \in Owners /\ owner.witness = None
  BY <1>1, <1>3 DEF NewOwner, Owners
<1>8. server \in Servers /\ server.receipts = {}
  BY <1>1 DEF Servers
<1>9. Cardinality(journal) = 0 /\ IsFiniteSet(journal)
  BY <1>1, FS_EmptySet
<1>10. TypeInv
  BY <1>1, <1>3, <1>6, <1>7, <1>8, <1>9 DEF TypeInv, Steps
<1>11. ControlInv
  BY <1>1, <1>7 DEF ControlInv, Doing
<1>12. JobInv
  <2>1. Loadable(job)
    <3>1. CandidatesAdmitted(job)
      <4>1. Len(<<>>) <= MaxPending
        BY <1>5, JobAssumption
      <4>2. job.candidate_due = (job.pending_candidates # <<>>)
        BY <1>4
      <4> QED BY <1>4, <1>5, <4>1, <4>2 DEF CandidatesAdmitted
    <3> QED BY <1>4, <3>1 DEF Loadable, ShadowAdmitted
  <2> QED BY <1>1, <1>4, <1>5, <2>1 DEF JobInv
<1>13. DiskInv
  BY <1>1 DEF DiskInv
<1>14. RequestInv
  BY <1>1, <1>4, <1>8 DEF RequestInv, Recorded
<1>15. GivenInv
  BY <1>1 DEF GivenInv
<1>16. SavedInv
  BY <1>1 DEF SavedInv, Established
<1> QED BY <1>10, <1>11, <1>12, <1>13, <1>14, <1>15, <1>16 DEF IInv

LEMMA NextKeeps ==
    ASSUME IInv, [Next]_vars
    PROVE  IInv'
<1>1. CASE \/ SaveRefused \/ Stop \/ FetchNotDue \/ FetchFails \/ UpdateWaits \/ UpdatePaused
  BY <1>1, ReadingKeeps
<1>2. CASE Raised \/ CheckpointDue \/ Uploaded \/ ActivateFails \/ Finished \/ Die
  BY <1>2, PassingKeeps
<1>3. CASE Poll \/ Handoff \/ Update \/ UpdateFails \/ UpdateTrainsNothing
  BY <1>3, PollKeeps, HandoffKeeps, UpdateKeeps, UpdateFailsKeeps, UpdateTrainsNothingKeeps
<1>4. CASE Publish \/ Rotate \/ Resume
  BY <1>4, PublishKeeps, RotateKeeps, ResumeKeeps
<1>5. CASE Upload \/ UploadFails \/ StagePending \/ ActivateSend \/ ActivateReceipt
  BY <1>5, UploadKeeps, UploadFailsKeeps, StagePendingKeeps, ActivateSendKeeps,
     ActivateReceiptKeeps
<1>6. CASE ServerActivates
  BY <1>6, ServerActivatesKeeps
<1>7. CASE MailboxShows \/ OthersActivate \/ ServerRestarts \/ UNCHANGED vars
  BY <1>7, OutsideKeeps
<1> QED BY <1>1, <1>2, <1>3, <1>4, <1>5, <1>6, <1>7 DEF Next


-----------------------------------------------------------------------------
(* One request for each candidate of a shadow job.                         *)

(* What reads ShadowInv: requests, candidates, the newest snapshot.        *)
LEMMA ShadowKept ==
    ASSUME ShadowInv, UNCHANGED <<journal, disk>>, runs' = runs,
           job'.updates = job.updates, Unsent(job')
    PROVE  ShadowInv'
BY DEF ShadowInv, OneRequest, Earlier, Unsent, IsNewest

LEMMA SameJobShadow ==
    ASSUME ShadowInv, UNCHANGED <<journal, disk, runs, job>>
    PROVE  ShadowInv'
BY DEF ShadowInv, OneRequest, Earlier, Unsent, IsNewest

LEMMA PublishShadow ==
    ASSUME IInv, ShadowInv, Publish
    PROVE  ShadowInv'
<1>1. /\ journal' = journal \cup ({job.pending} \ {None}) /\ UNCHANGED <<runs, job>>
  BY DEF Publish
<1>2. PICK n, new: /\ n = Max(Serials \cup {owner.serial}) + 1
                   /\ disk' = disk \cup {new} /\ new.serial = n /\ new.job = job
  <2>1. PICK n: /\ n = Max(Serials \cup {owner.serial}) + 1
                /\ disk' = disk \cup {[serial |-> n, job |-> job,
                                       held |-> stored \cup Range(job.pending_candidates)]}
    BY DEF Publish
  <2>2. PICK new: new = [serial |-> n, job |-> job,
                         held |-> stored \cup Range(job.pending_candidates)]
    OBVIOUS
  <2>3. disk' = disk \cup {new} /\ new.serial = n /\ new.job = job
    BY <2>1, <2>2
  <2> QED BY <2>1, <2>3
<1>3. n \in Nat /\ \A f \in disk: f.serial \in Nat /\ f.serial < n
  <2>1. \A f \in disk: f.serial \in Nat
    BY FileFields DEF IInv, TypeInv
  <2> QED BY <1>2, <2>1, NextSerial DEF IInv
<1>4. \A f \in disk': IsNewest(f)' => f = new
  <2>1. \A f \in disk: ~(n <= f.serial)
    BY <1>3
  <2>2. \A f \in disk': IsNewest(f)' => n <= f.serial
    BY <1>2 DEF IsNewest
  <2> QED BY <1>2, <2>1, <2>2
<1>5. /\ job \in JobRecords /\ Loadable(job) /\ runs \in Nat
      /\ \A c \in Range(job.pending_candidates): c.run <= runs
  BY DEF IInv, TypeInv, JobInv
<1>6. \A r \in journal': r \in journal \/ (r = job.pending /\ r # None)
  BY <1>1
<1>7. job.pending # None => job.pending.artifact \in Range(job.pending_candidates)
  BY <1>5, LoadableIs
<1>8. OneRequest'
  <2>1. ASSUME NEW r \in journal, NEW s, s = job.pending, s # None, r.artifact = s.artifact
        PROVE  r = s
    BY <1>7, <2>1 DEF ShadowInv, Unsent
  <2> QED BY <1>6, <2>1 DEF ShadowInv, OneRequest
<1>9. Unsent(job)'
  BY <1>1, <1>6 DEF ShadowInv, Unsent
<1>10. Earlier'
  <2>1. ASSUME job.pending # None
        PROVE  /\ job.pending.artifact.run <= runs
               /\ job.pending.artifact.update <= job.updates
    <3>1. PICK a: a = job.pending.artifact /\ a \in Range(job.pending_candidates)
      BY <1>7, <2>1
    <3>2. a.update \in 1..job.updates /\ a.run <= runs /\ job.updates \in Nat
      BY <1>5, <3>1, LoadableIs, JobFields
    <3> QED BY <3>1, <3>2
  <2> QED BY <1>1, <1>6, <2>1 DEF ShadowInv, Earlier
<1>11. \A f \in disk': IsNewest(f)' => Unsent(f.job)'
  BY <1>1, <1>2, <1>4, <1>9 DEF Unsent
<1> QED BY <1>8, <1>9, <1>10, <1>11 DEF ShadowInv

LEMMA RotateShadow ==
    ASSUME IInv, ShadowInv, Rotate
    PROVE  ShadowInv'
<1>1. UNCHANGED <<journal, runs, job>> /\ disk' = Kept(disk) /\ disk # {}
  BY DEF Rotate, history, IInv, SavedInv
<1>2. disk' \subseteq disk /\ \A f \in disk': IsNewest(f)' => IsNewest(f)
  BY <1>1, KeptIs DEF IInv
<1>3. \A f \in disk': IsNewest(f)' => Unsent(f.job)'
  BY <1>1, <1>2 DEF ShadowInv, Unsent
<1>4. OneRequest' /\ Earlier' /\ Unsent(job)'
  BY <1>1 DEF ShadowInv, OneRequest, Earlier, Unsent
<1> QED BY <1>3, <1>4 DEF ShadowInv

(* A new candidate is named by an update that no request knows.            *)
LEMMA MovesShadow ==
    ASSUME IInv, ShadowInv, Moves(job, job'), UNCHANGED <<journal, disk, runs>>
    PROVE  ShadowInv'
<1>1. /\ job \in JobRecords /\ job.updates \in Nat /\ job'.updates \in Nat
      /\ job.updates <= job'.updates /\ runs \in Nat /\ journal \subseteq Requests
      /\ job'.pending = job.pending
  <2>1. job \in JobRecords /\ runs \in Nat /\ journal \subseteq Requests
    BY DEF IInv, TypeInv
  <2> QED BY <2>1, JobFields DEF Moves
<1>2. \A r \in journal: r.artifact.update \in Nat /\ r.artifact.run \in Nat
  BY <1>1, RequestFields, ArtifactFields
<1>3. Earlier'
  BY <1>1, <1>2 DEF ShadowInv, Earlier
<1>4. Unsent(job)'
  <2>1. ASSUME NEW r \in journal, r.artifact \in Range(job'.pending_candidates)
        PROVE  job.pending = r
    <3>1. CASE r.artifact \in Range(job.pending_candidates)
      BY <3>1 DEF ShadowInv, Unsent
    <3>2. CASE r.artifact.run = runs /\ r.artifact.update = job.updates + 1
      BY <1>1, <3>2 DEF ShadowInv, Earlier
    <3> QED BY <2>1, <3>1, <3>2 DEF Moves
  <2> QED BY <1>1, <2>1 DEF Unsent
<1>5. OneRequest' /\ \A f \in disk': IsNewest(f)' => Unsent(f.job)'
  BY DEF ShadowInv, OneRequest, Unsent, IsNewest
<1> QED BY <1>3, <1>4, <1>5 DEF ShadowInv

LEMMA UpdatesShadow ==
    ASSUME IInv, ShadowInv, Poll \/ Update \/ UpdateFails \/ UpdateTrainsNothing
    PROVE  ShadowInv'
<1>1. job \in JobRecords /\ Loadable(job) /\ runs \in 1..MaxRuns
  BY DEF IInv, TypeInv, JobInv
<1>2. UNCHANGED <<journal, disk, runs>>
  BY DEF Poll, Update, UpdateFails, UpdateTrainsNothing, history
<1>3. CASE Poll
  <2>1. UNCHANGED job \/ job' = [job EXCEPT !.snapshot = TRUE]
    BY <1>3 DEF Poll
  <2>2. /\ job'.pending = job.pending /\ job'.updates = job.updates
        /\ job'.pending_candidates = job.pending_candidates
    BY <1>1, <2>1 DEF JobRecords
  <2>3. Unsent(job')
    BY <2>2 DEF ShadowInv, Unsent
  <2> QED BY <1>2, <2>2, <2>3, ShadowKept
<1>4. CASE Update
  <2>1. Moves(job, job')
    BY <1>1, <1>4, CaptureMoves DEF Update
  <2> QED BY <1>2, <2>1, MovesShadow
<1>5. CASE UpdateFails
  <2>1. PICK j \in {job, Stepped, CandidateDue(CaptureIfDue(Stepped))}:
          job' = [j EXCEPT !.dirty = TRUE, !.status = "paused"]
    BY <1>5 DEF UpdateFails
  <2>2. job.attempted < MaxUpdates
    BY <1>5 DEF UpdateFails
  <2>3. j \in JobRecords /\ Loadable(j) /\ Moves(job, j)
    <3>1. CASE j = job
      BY <1>1, <3>1, Stays
    <3>2. CASE j = Stepped
      BY <1>1, <2>2, <3>2, SteppedIs
    <3>3. CASE j = CandidateDue(CaptureIfDue(Stepped))
      BY <1>1, <2>2, <3>3, CaptureMoves
    <3> QED BY <2>1, <3>1, <3>2, <3>3
  <2>4. Moves(job, job')
    BY <1>1, <2>1, <2>3, SpoiledIs
  <2> QED BY <1>2, <2>4, MovesShadow
<1>6. CASE UpdateTrainsNothing
  <2>1. PICK c: c = [job EXCEPT !.attempted = @ + 1, !.status = "paused"]
    OBVIOUS
  <2>2. /\ c.pending = job.pending /\ c.updates = job.updates
        /\ c.pending_candidates = job.pending_candidates
    BY <1>1, <2>1 DEF JobRecords
  <2>3. job' = [c EXCEPT !.candidate_due = c.pending_candidates # <<>>]
    BY <1>6, <2>1 DEF UpdateTrainsNothing, CandidateDue
  <2>4. /\ job'.pending = job.pending /\ job'.updates = job.updates
        /\ job'.pending_candidates = job.pending_candidates
    BY <1>1, <2>1, <2>2, <2>3 DEF JobRecords
  <2>5. Unsent(job')
    BY <2>4 DEF ShadowInv, Unsent
  <2> QED BY <1>2, <2>4, <2>5, ShadowKept
<1> QED BY <1>3, <1>4, <1>5, <1>6

LEMMA HandingShadow ==
    ASSUME IInv, ShadowInv, Upload \/ StagePending \/ ActivateReceipt
    PROVE  ShadowInv'
<1>1. job \in JobRecords /\ Loadable(job) /\ journal \subseteq Requests
  BY DEF IInv, TypeInv, JobInv
<1>2. UNCHANGED <<journal, disk, runs>>
  BY DEF Upload, StagePending, ActivateReceipt, history, outside
<1>3. /\ job.updates <= job.attempted /\ CandidatesAdmitted(job)
      /\ job.snapshot => job.receipt # None
  BY <1>1 DEF Loadable, ShadowAdmitted
<1>4. CASE Upload
  <2>1. PICK a: a = Head(job.pending_candidates) /\ job' = Acknowledged(job, a)
    BY <1>4 DEF Upload
  <2>2. job.pending_candidates # <<>> /\ job.pending = None /\ journal = {}
    BY <1>4 DEF Upload, IInv, ControlInv, Doing, JobInv
  <2>3. a \in Range(job.pending_candidates)
    BY <1>1, <2>1, <2>2, HeadIs
  <2>4. job'.updates = job.updates
    BY <1>1, <1>3, <2>1, <2>2, <2>3, AcknowledgedIs
  <2>5. Unsent(job')
    BY <2>2 DEF Unsent
  <2> QED BY <1>2, <2>4, <2>5, ShadowKept
<1>5. CASE StagePending
  <2>1. CASE job.pending # None /\ UNCHANGED job
    BY <1>2, <2>1, SameJobShadow
  <2>2. CASE job.pending = None /\ job' = Staged
    <3>1. PICK r: job' = [job EXCEPT !.pending = r]
      BY <2>2 DEF Staged
    <3>2. job'.updates = job.updates /\ job'.pending_candidates = job.pending_candidates
      BY <1>1, <3>1 DEF JobRecords
    <3>3. \A s \in journal: s.artifact \notin Range(job.pending_candidates)
      BY <1>1, <2>2, RequestFields DEF ShadowInv, Unsent
    <3>4. Unsent(job')
      BY <3>2, <3>3 DEF Unsent
    <3> QED BY <1>2, <3>2, <3>4, ShadowKept
  <2> QED BY <1>5, <2>1, <2>2, Zenon DEF StagePending
<1>6. CASE ActivateReceipt
  <2>1. PICK x \in server.receipts: job' = Confirmed(x)
    BY <1>6 DEF ActivateReceipt
  <2>2. job.pending \in sent /\ sent \subseteq journal /\ server \in Servers
    BY <1>6 DEF ActivateReceipt, IInv, ControlInv, TypeInv
  <2>3. job.pending \in Requests /\ job.pending # None
    BY <1>1, <2>2, RequestFields
  <2>4. PICK a: a = job.pending.artifact /\ a \in Range(job.pending_candidates)
    BY <1>1, <2>3, LoadableIs
  <2>5. PICK j: j = [job EXCEPT !.receipt = x, !.snapshot = FALSE, !.pending = None]
    OBVIOUS
  <2>6. x \in Receipts
    BY <2>2, ServerFields
  <2>7. /\ j \in JobRecords /\ j.pending = None /\ j.updates = job.updates
        /\ j.attempted = job.attempted /\ j.pending_candidates = job.pending_candidates
        /\ j.candidate_due = job.candidate_due /\ j.snapshot = FALSE
    BY <1>1, <2>5, <2>6 DEF JobRecords
  <2>8. j.updates <= j.attempted /\ CandidatesAdmitted(j) /\ a \in Range(j.pending_candidates)
    BY <1>3, <2>4, <2>7 DEF CandidatesAdmitted
  <2>9. job' = Acknowledged(j, a)
    BY <2>1, <2>4, <2>5 DEF Confirmed
  <2>10. /\ Range(job'.pending_candidates) = Range(job.pending_candidates) \ {a}
         /\ job'.updates = job.updates
    <3>1. j.snapshot => j.receipt # None
      BY <2>7
    <3>2. /\ Range(job'.pending_candidates) = Range(j.pending_candidates) \ {a}
          /\ job'.updates = j.updates
      BY <2>7, <2>8, <2>9, <3>1, AcknowledgedIs
    <3> QED BY <2>7, <3>2
  <2>11. Unsent(job')
    BY <2>4, <2>10 DEF ShadowInv, Unsent
  <2> QED BY <1>2, <2>10, <2>11, ShadowKept
<1> QED BY <1>4, <1>5, <1>6

LEMMA ResumeShadow ==
    ASSUME TRUE \notin ResumeAny, IInv, ShadowInv, Resume
    PROVE  ShadowInv'
<1>1. runs' = runs + 1 /\ UNCHANGED <<journal, disk>>
  BY DEF Resume
<1>2. PICK f \in disk: (f = Newest \/ f.job.shadow \in ResumeAny) /\ job' = f.job
  BY DEF Resume
<1>3. f.job.shadow \in BOOLEAN /\ f.job.shadow = job.shadow
  <2>1. f.job \in JobRecords
    BY FileFields DEF IInv, TypeInv
  <2> QED BY <2>1, JobFields DEF IInv, DiskInv
<1>4. CASE f.job.shadow = FALSE
  <2>1. journal' = {}
    BY <1>1, <1>3, <1>4 DEF IInv, JobInv
  <2> QED BY <2>1 DEF ShadowInv, OneRequest, Earlier, Unsent
<1>5. CASE f.job.shadow # FALSE
  <2>1. f = Newest
    BY <1>2, <1>3, <1>5
  <2>2. IsNewest(f)
    <3>1. \E g \in disk: \A h \in disk: h.serial <= g.serial
      BY DEF IInv, DiskInv, IsNewest
    <3> QED BY <2>1, <3>1 DEF Newest, IsNewest
  <2>3. Unsent(job)'
    BY <1>1, <1>2, <2>2 DEF ShadowInv, Unsent
  <2>4. Earlier'
    <3>1. runs \in Nat /\ \A r \in journal: r.artifact.run \in Nat /\ r.artifact.run <= runs
      <4>1. runs \in Nat /\ journal \subseteq Requests
        BY DEF IInv, TypeInv
      <4> QED BY <4>1, RequestFields, ArtifactFields DEF ShadowInv, Earlier
    <3>2. \A r \in journal: r.artifact.run <= runs + 1 /\ r.artifact.run # runs + 1
      BY <3>1
    <3> QED BY <1>1, <3>2 DEF Earlier
  <2>5. OneRequest' /\ \A g \in disk': IsNewest(g)' => Unsent(g.job)'
    BY <1>1 DEF ShadowInv, OneRequest, IsNewest, Unsent
  <2> QED BY <2>3, <2>4, <2>5 DEF ShadowInv
<1> QED BY <1>4, <1>5

LEMMA NextShadow ==
    ASSUME TRUE \notin ResumeAny, IInv, ShadowInv, [Next]_vars
    PROVE  ShadowInv'
<1>1. CASE \/ SaveRefused \/ Stop \/ FetchNotDue \/ FetchFails \/ UpdateWaits \/ UpdatePaused
           \/ Raised \/ Handoff \/ CheckpointDue \/ UploadFails \/ Uploaded \/ ActivateSend
           \/ ActivateFails \/ Finished \/ Die \/ ServerActivates \/ MailboxShows
           \/ OthersActivate \/ ServerRestarts \/ UNCHANGED vars
  <2>1. UNCHANGED <<journal, disk, runs, job>>
    BY <1>1 DEF SaveRefused, Stop, FetchNotDue, FetchFails, UpdateWaits, UpdatePaused, Raised,
       Handoff, CheckpointDue, UploadFails, Uploaded, ActivateSend, ActivateFails, Finished, Die,
       ServerActivates, MailboxShows, OthersActivate, ServerRestarts, vars, outside, history
  <2> QED BY <2>1, SameJobShadow
<1>2. CASE Publish \/ Rotate \/ Resume
  BY <1>2, PublishShadow, RotateShadow, ResumeShadow
<1>3. CASE Poll \/ Update \/ UpdateFails \/ UpdateTrainsNothing
  BY <1>3, UpdatesShadow
<1>4. CASE Upload \/ StagePending \/ ActivateReceipt
  BY <1>4, HandingShadow
<1> QED BY <1>1, <1>2, <1>3, <1>4 DEF Next

-----------------------------------------------------------------------------
(* The theorems.                                                           *)

THEOREM Invariance == Spec => []IInv
<1>1. Init => IInv
  BY InitEstablishes
<1>2. IInv /\ [Next]_vars => IInv'
  BY NextKeeps
<1> QED BY <1>1, <1>2, PTL DEF Spec

(* The snapshot that a resumption finds is the one with the highest serial. *)
LEMMA NewestIs ==
    ASSUME IInv, disk # {}
    PROVE  IsNewest(Newest)
<1>1. \E g \in disk: \A h \in disk: h.serial <= g.serial
  BY DEF IInv, DiskInv, IsNewest
<1> QED BY <1>1 DEF Newest, IsNewest

(* Every variable has its type, serials name snapshots uniquely, and a     *)
(* request is awaited or witnessed only after it was saved.                *)
THEOREM TypeCorrect == Spec => []TypeOK
<1>1. ASSUME IInv PROVE TypeOK
  <2>1. \A f \in disk: f.serial \in Nat \ {0} /\ f.job \in JobRecords /\ f.held \subseteq Artifacts
    BY <1>1, FileFields DEF IInv, TypeInv
  <2>2. /\ server.receipts \subseteq Receipts /\ server.admitted \subseteq Artifacts
        /\ server.slot \in Segments \cup {None}
    BY <1>1, ServerFields DEF IInv, TypeInv
  <2>3. owner.witness \in journal \cup {None} /\ (pc = "await" => job.pending \in sent)
    BY <1>1 DEF IInv, ControlInv
  <2>4. \A f, g \in disk: f.serial = g.serial => f = g
    BY <1>1 DEF IInv, DiskInv
  <2>5. /\ pc \in Steps
        /\ then \in {"first", "fetch", "upload", "activate", "due", "stop", "off"}
        /\ runs \in 1..MaxRuns /\ offline \in BOOLEAN /\ job \in JobRecords
        /\ owner \in [serial: Nat, last_save_update: 0..MaxUpdates,
                      witness: Requests \cup {None}, allowed: BOOLEAN]
        /\ mail \in Segments \cup {None} /\ net \subseteq sent /\ sent \subseteq Requests
        /\ journal \subseteq Requests
    BY <1>1 DEF IInv, TypeInv, Owners
  <2> QED BY <2>1, <2>2, <2>3, <2>4, <2>5 DEF TypeOK
<1> QED BY <1>1, Invariance, PTL

(* A candidate is released as handed over only after the server has        *)
(* admitted it and, for a shadow, activated it: Upload and ActivateReceipt *)
(* of distillation_run.py, whatever was lost, repeated or resumed.         *)
THEOREM HandoffIsConfirmed == Spec => []HandoffConfirmed
<1>1. IInv => HandoffConfirmed
  BY DEF IInv, GivenInv, HandoffConfirmed
<1> QED BY <1>1, Invariance, PTL

(* No crash, eviction, acknowledgement or failed operation loses a         *)
(* candidate that a snapshot ever held without counting it: it is in the   *)
(* snapshots that descend from that one, or handed over, or dropped.       *)
THEOREM NoCandidateIsLost == Spec => []NoCandidateLost
<1>1. ASSUME IInv PROVE NoCandidateLost
  <2>1. \A f \in disk:
          f.held \subseteq Range(f.job.pending_candidates) \cup given \cup f.job.dropped
    BY <1>1 DEF IInv, DiskInv
  <2>2. ASSUME Established PROVE Newest.held = stored
    <3>1. disk # {} /\ \A f \in disk: IsNewest(f) => f.held = stored
      BY <1>1, <2>2 DEF IInv, SavedInv
    <3>2. IsNewest(Newest)
      BY <1>1, <3>1, NewestIs
    <3> QED BY <3>1, <3>2 DEF IsNewest
  <2> QED BY <2>1, <2>2 DEF NoCandidateLost
<1> QED BY <1>1, Invariance, PTL

(* Whenever the process dies there is a snapshot that load_job_checkpoint  *)
(* accepts, at most SaveEvery updates old, and no snapshot holds what a    *)
(* failed operation left half done.                                        *)
THEOREM StaysRecoverable == Spec => []Recoverable
<1>1. ASSUME IInv PROVE Recoverable
  <2>1. \A f \in disk: Loadable(f.job) /\ ~f.job.dirty
    BY <1>1 DEF IInv, DiskInv
  <2>2. ASSUME Established PROVE job.updates - Newest.job.updates <= SaveEvery
    <3>1. /\ disk # {} /\ \A f \in disk: IsNewest(f) => f.job.updates = owner.last_save_update
          /\ job.updates - owner.last_save_update <= SaveEvery
      BY <1>1, <2>2 DEF IInv, SavedInv
    <3>2. IsNewest(Newest)
      BY <1>1, <3>1, NewestIs
    <3> QED BY <3>1, <3>2 DEF IsNewest
  <2> QED BY <2>1, <2>2 DEF Recoverable
<1> QED BY <1>1, Invariance, PTL

(* However often the job dies between staging a request, saving it,        *)
(* sending it and reading its receipt, all the requests that it ever sends *)
(* for a candidate are one, as long as the operator resumes the newest     *)
(* snapshot of a shadow job.                                               *)
THEOREM OneRequestEach ==
    ASSUME TRUE \notin ResumeAny
    PROVE  Spec => []SameRequest
<1>1. Init => ShadowInv
  BY DEF Init, ShadowInv, OneRequest, Earlier, Unsent
<1>2. IInv /\ ShadowInv /\ [Next]_vars => ShadowInv'
  BY NextShadow
<1>3. IInv /\ ShadowInv => SameRequest
  BY DEF IInv, TypeInv, ShadowInv, OneRequest, SameRequest
<1> QED BY <1>1, <1>2, <1>3, Invariance, PTL DEF Spec

-----------------------------------------------------------------------------
(* The handoff.  As long as only the newest snapshot of a shadow job is    *)
(* resumed, a request that may still be processed is the one in hand, and  *)
(* the newest snapshot has it; candidates are named by updates done.       *)

Answered(r) == \E x \in server.receipts: x.id = r.id
NewestHas(r) == disk # {} /\ \A f \in disk: IsNewest(f) => f.job.pending = r
Old(a) == a.run <= runs /\ (a.run = runs => a.update <= job.updates)
HandInv ==
    /\ \A r \in sent: Answered(r) \/ (job.pending = r /\ NewestHas(r))
    /\ pc = "rotate" => NewestHas(job.pending)
    /\ pc \notin {"rotate", "off"} /\ owner.witness # None => NewestHas(owner.witness)
    /\ \A a \in server.admitted \cup given: Old(a)
    /\ \A f \in disk: \A a \in Range(f.job.pending_candidates): Old(a)

LEMMA WaitingAre ==
    ASSUME IInv
    PROVE  /\ \A a \in Waiting: a \in Artifacts /\ Old(a)
           /\ server.admitted \subseteq Artifacts /\ given \subseteq Artifacts
           /\ \A f \in disk: Range(f.job.pending_candidates) \subseteq Artifacts
           /\ runs \in Nat /\ job.updates \in Nat
<1>1. /\ job \in JobRecords /\ Loadable(job) /\ server \in Servers /\ runs \in Nat
      /\ given \subseteq Artifacts /\ \A c \in Range(job.pending_candidates): c.run <= runs
  BY DEF IInv, TypeInv, JobInv
<1>2. job.updates \in Nat /\ job.pending_candidates \in Seq(Artifacts)
  BY <1>1, JobFields
<1>3. \A a \in Waiting: a \in Artifacts /\ a.update \in 1..job.updates /\ a.run <= runs
  BY <1>1, <1>2, SeqIs, LoadableIs DEF Waiting
<1>4. \A f \in disk: Range(f.job.pending_candidates) \subseteq Artifacts
  <2>1. ASSUME NEW f \in disk PROVE f.job.pending_candidates \in Seq(Artifacts)
    BY FileFields, JobFields DEF IInv, TypeInv
  <2> QED BY <2>1, SeqIs
<1>5. \A a \in Waiting: Old(a)
  BY <1>2, <1>3 DEF Old
<1> QED BY <1>1, <1>2, <1>3, <1>4, <1>5, ServerFields

(* What a step that publishes, rotates and resumes nothing must respect.   *)
HandStep ==
    /\ UNCHANGED <<disk, runs>> /\ job'.updates \in Nat /\ job.updates <= job'.updates
    /\ server.receipts \subseteq server'.receipts
    /\ \A a \in server'.admitted \cup given': a \in server.admitted \cup given \cup Waiting
    /\ pc' = "rotate" => pc = "rotate" /\ UNCHANGED job
    /\ pc' \notin {"rotate", "off"} /\ owner'.witness # None =>
         pc \notin {"rotate", "off"} /\ owner'.witness = owner.witness
    /\ \A r \in sent: job.pending = r => job'.pending = r \/ Answered(r)
    /\ \A r \in sent' \ sent: job'.pending = r /\ NewestHas(r)

LEMMA HandKept ==
    ASSUME IInv, HandInv, HandStep
    PROVE  HandInv'
<1>1. ASSUME NEW r \in sent' PROVE Answered(r)' \/ (job'.pending = r /\ NewestHas(r)')
  <2>1. NewestHas(r) => NewestHas(r)'
    BY DEF HandStep, NewestHas, IsNewest
  <2>2. Answered(r) => Answered(r)'
    BY DEF HandStep, Answered
  <2> QED BY <2>1, <2>2 DEF HandStep, HandInv
<1>2. pc' = "rotate" => NewestHas(job.pending)'
  BY DEF HandStep, HandInv, NewestHas, IsNewest
<1>3. pc' \notin {"rotate", "off"} /\ owner'.witness # None => NewestHas(owner.witness)'
  BY DEF HandStep, HandInv, NewestHas, IsNewest
<1>4. ASSUME NEW a \in Artifacts, Old(a) PROVE Old(a)'
  <2>1. a.update \in Nat /\ a.run \in Nat /\ runs \in Nat /\ job.updates \in Nat
    BY ArtifactFields, WaitingAre
  <2> QED BY <1>4, <2>1 DEF Old, HandStep
<1>5. \A a \in server'.admitted \cup given': Old(a)'
  BY <1>4, WaitingAre DEF HandStep, HandInv
<1>6. \A f \in disk': \A a \in Range(f.job.pending_candidates): Old(a)'
  BY <1>4, WaitingAre DEF HandStep, HandInv
<1> QED BY <1>1, <1>2, <1>3, <1>5, <1>6 DEF HandInv

(* The steps that leave the job and the requests alone.                    *)
LEMMA RunningHand ==
    ASSUME IInv, HandInv,
           \/ SaveRefused \/ Stop \/ FetchNotDue \/ FetchFails \/ UpdateWaits \/ UpdatePaused
           \/ Raised \/ Handoff \/ CheckpointDue \/ UploadFails \/ Uploaded
           \/ ActivateFails \/ Finished \/ Die
    PROVE  HandStep
<1>1. /\ UNCHANGED <<disk, runs, job, owner, sent, given>>
      /\ pc' # "rotate" /\ (pc' # "off" => pc \notin {"rotate", "off"})
  BY DEF SaveRefused, Stop, FetchNotDue, FetchFails, UpdateWaits, UpdatePaused, Raised, Raise,
     SaveThen, Handoff, CheckpointDue, UploadFails, Uploaded, ActivateFails, Finished, Die,
     outside, history
<1>2. server'.receipts = server.receipts
      /\ \A a \in server'.admitted: a \in server.admitted \cup Waiting
  <2>1. CASE UNCHANGED server
    BY <2>1
  <2>2. CASE UploadFails
    <3>1. PICK a: /\ a = Head(job.pending_candidates)
                  /\ server' \in {server, [server EXCEPT !.admitted = @ \cup {a}]}
      BY <2>2 DEF UploadFails
    <3>2. job \in JobRecords /\ server \in Servers /\ job.pending_candidates # <<>>
      BY <2>2 DEF IInv, TypeInv, UploadFails
    <3>3. a \in Artifacts /\ a \in Waiting
      BY <3>1, <3>2, HeadIs DEF Waiting
    <3>4. CASE UNCHANGED server
      BY <3>4
    <3>5. CASE server' = [server EXCEPT !.admitted = @ \cup {a}]
      BY <3>2, <3>3, <3>5, Admitting
    <3> QED BY <3>1, <3>4, <3>5
  <2>3. UNCHANGED server \/ UploadFails
    BY DEF SaveRefused, Stop, FetchNotDue, FetchFails, UpdateWaits, UpdatePaused, Raised, Handoff,
       CheckpointDue, Uploaded, ActivateFails, Finished, Die, outside
  <2> QED BY <2>1, <2>2, <2>3
<1>3. job'.updates \in Nat /\ job.updates <= job'.updates
  BY <1>1, WaitingAre
<1>4. \A a \in server'.admitted \cup given': a \in server.admitted \cup given \cup Waiting
  BY <1>1, <1>2
<1> QED BY <1>1, <1>2, <1>3, <1>4 DEF HandStep

(* What the server makes of a request.                                     *)
LEMMA ActivatingIs ==
    ASSUME IInv, ServerActivates
    PROVE  /\ UNCHANGED <<pc, runs, job, owner, disk, sent, given>>
           /\ \/ UNCHANGED server
              \/ \E r \in sent: \E x:
                   /\ ~Answered(r) /\ r.artifact \in server.admitted
                   /\ x.id = r.id /\ x.artifact = r.artifact
                   /\ server'.receipts = server.receipts \cup {x}
                   /\ server'.admitted = server.admitted
<1>1. PICK r \in net:
        /\ IF /\ \A x \in server.receipts: x.id # r.id
              /\ r.epoch = server.epoch /\ r.expected = SlotSequence
              /\ r.artifact \in server.admitted
           THEN server' = [server EXCEPT
                  !.commands = @ + 1, !.slot = Segment(r.id),
                  !.receipts = @ \cup {[id |-> r.id, artifact |-> r.artifact, epoch |-> r.epoch,
                                        sequence |-> server.commands + 1,
                                        previous |-> SlotSequence]}]
           ELSE UNCHANGED server
        /\ UNCHANGED <<pc, then, runs, offline, job, owner, disk, mail, history>>
  BY DEF ServerActivates
<1>2. server \in Servers /\ r \in sent /\ UNCHANGED <<pc, runs, job, owner, disk, sent, given>>
  BY <1>1 DEF IInv, TypeInv, history
<1>3. CASE /\ \A x \in server.receipts: x.id # r.id
           /\ r.artifact \in server.admitted
           /\ server' = [server EXCEPT
                !.commands = @ + 1, !.slot = Segment(r.id),
                !.receipts = @ \cup {[id |-> r.id, artifact |-> r.artifact, epoch |-> r.epoch,
                                      sequence |-> server.commands + 1,
                                      previous |-> SlotSequence]}]
  <2>1. PICK x: x = [id |-> r.id, artifact |-> r.artifact, epoch |-> r.epoch,
                     sequence |-> server.commands + 1, previous |-> SlotSequence]
    OBVIOUS
  <2>2. /\ server'.receipts = server.receipts \cup {x}
        /\ server'.admitted = server.admitted
    BY <1>2, <1>3, <2>1 DEF Servers
  <2>3. x.id = r.id /\ x.artifact = r.artifact /\ ~Answered(r)
    BY <1>3, <2>1 DEF Answered
  <2> QED BY <1>2, <1>3, <2>2, <2>3
<1>4. CASE UNCHANGED server
  BY <1>2, <1>4
<1> QED BY <1>1, <1>3, <1>4, Zenon

LEMMA ElsewhereIs ==
    ASSUME IInv, MailboxShows \/ OthersActivate \/ ServerRestarts \/ UNCHANGED vars
    PROVE  /\ UNCHANGED <<pc, runs, job, owner, disk, sent, given>>
           /\ server'.receipts = server.receipts /\ server'.admitted = server.admitted
<1>1. UNCHANGED <<pc, runs, job, owner, disk, sent, given>>
  BY DEF MailboxShows, OthersActivate, ServerRestarts, vars, history
<1>2. server \in Servers
  BY DEF IInv, TypeInv
<1>3. CASE UNCHANGED server
  BY <1>1, <1>3
<1>4. CASE OthersActivate
  <2>1. PICK n, k, s: server' = [server EXCEPT !.foreign = n, !.commands = k, !.slot = s]
    BY <1>4 DEF OthersActivate
  <2> QED BY <1>1, <1>2, <2>1 DEF Servers
<1>5. CASE ServerRestarts
  <2>1. PICK n, k, s: server' = [server EXCEPT !.foreign = n, !.epoch = k, !.slot = s]
    BY <1>5 DEF ServerRestarts
  <2> QED BY <1>1, <1>2, <2>1 DEF Servers
<1> QED BY <1>3, <1>4, <1>5 DEF MailboxShows, vars

LEMMA ServingHand ==
    ASSUME IInv, HandInv,
           ServerActivates \/ MailboxShows \/ OthersActivate \/ ServerRestarts \/ UNCHANGED vars
    PROVE  HandStep
<1>1. /\ UNCHANGED <<pc, runs, job, owner, disk, sent, given>>
      /\ server.receipts \subseteq server'.receipts /\ server'.admitted = server.admitted
  BY ActivatingIs, ElsewhereIs
<1>2. job'.updates \in Nat /\ job.updates <= job'.updates
  BY <1>1, WaitingAre
<1> QED BY <1>1, <1>2 DEF HandStep

(* An update, complete or not, and a poll move the job.                    *)
LEMMA MovingIs ==
    ASSUME IInv, Poll \/ Update \/ UpdateFails \/ UpdateTrainsNothing
    PROVE  /\ Moves(job, job') /\ job' \in JobRecords
           /\ UNCHANGED <<runs, disk, server, sent, given>> /\ owner'.witness = owner.witness
           /\ pc \notin {"rotate", "off"} /\ pc' # "rotate"
<1>1. /\ job \in JobRecords /\ Loadable(job) /\ runs \in 1..MaxRuns /\ owner \in Owners
      /\ Moves(job, job)
  <2>1. job \in JobRecords /\ Loadable(job) /\ runs \in 1..MaxRuns /\ owner \in Owners
    BY DEF IInv, TypeInv, JobInv
  <2> QED BY <2>1, Stays
<1>2. /\ UNCHANGED <<runs, disk, server, sent, given>> /\ owner'.witness = owner.witness
      /\ pc \notin {"rotate", "off"} /\ pc' # "rotate"
  <2>1. UNCHANGED owner \/ owner' = [owner EXCEPT !.allowed = FALSE]
    BY DEF Poll, Update, UpdateFails, UpdateTrainsNothing
  <2>2. owner'.witness = owner.witness
    BY <1>1, <2>1 DEF Owners
  <2> QED BY <2>2 DEF Poll, Update, UpdateFails, UpdateTrainsNothing, history, outside, Raise,
         SaveThen
<1>3. CASE Poll
  <2>1. UNCHANGED job \/ job' = [job EXCEPT !.snapshot = TRUE]
    BY <1>3 DEF Poll
  <2>2. /\ job' \in JobRecords /\ job'.pending = job.pending /\ job'.updates = job.updates
        /\ job'.pending_candidates = job.pending_candidates /\ job'.shadow = job.shadow
        /\ job'.dropped = job.dropped
    BY <1>1, <2>1 DEF JobRecords
  <2> QED BY <1>1, <1>2, <2>2 DEF Moves
<1>4. CASE Update
  BY <1>1, <1>2, <1>4, CaptureMoves DEF Update
<1>5. CASE UpdateFails
  <2>1. PICK j \in {job, Stepped, CandidateDue(CaptureIfDue(Stepped))}:
          job' = [j EXCEPT !.dirty = TRUE, !.status = "paused"]
    BY <1>5 DEF UpdateFails
  <2>2. job.attempted < MaxUpdates
    BY <1>5 DEF UpdateFails
  <2>3. j \in JobRecords /\ Loadable(j) /\ Moves(job, j)
    <3>1. CASE j = job
      BY <1>1, <3>1
    <3>2. CASE j = Stepped
      BY <1>1, <2>2, <3>2, SteppedIs
    <3>3. CASE j = CandidateDue(CaptureIfDue(Stepped))
      BY <1>1, <2>2, <3>3, CaptureMoves
    <3> QED BY <2>1, <3>1, <3>2, <3>3
  <2> QED BY <1>1, <1>2, <2>1, <2>3, SpoiledIs
<1>6. CASE UpdateTrainsNothing
  <2>1. PICK c: c = [job EXCEPT !.attempted = @ + 1, !.status = "paused"]
    OBVIOUS
  <2>2. /\ c.pending = job.pending /\ c.updates = job.updates /\ c.shadow = job.shadow
        /\ c.pending_candidates = job.pending_candidates /\ c.dropped = job.dropped
    BY <1>1, <2>1 DEF JobRecords
  <2>3. job' = [c EXCEPT !.candidate_due = c.pending_candidates # <<>>]
    BY <1>6, <2>1 DEF UpdateTrainsNothing, CandidateDue
  <2>4. /\ job'.pending = job.pending /\ job'.updates = job.updates
        /\ job'.shadow = job.shadow /\ job'.dropped = job.dropped
        /\ job'.pending_candidates = job.pending_candidates
    BY <1>1, <2>1, <2>2, <2>3 DEF JobRecords
  <2>5. job' \in JobRecords
    BY UpdateTrainsNothingKeeps, <1>6 DEF IInv, TypeInv
  <2> QED BY <1>1, <1>2, <2>4, <2>5 DEF Moves
<1> QED BY <1>3, <1>4, <1>5, <1>6

LEMMA MovingHand ==
    ASSUME IInv, HandInv, Poll \/ Update \/ UpdateFails \/ UpdateTrainsNothing
    PROVE  HandStep
<1>1. /\ Moves(job, job') /\ job' \in JobRecords
      /\ UNCHANGED <<runs, disk, server, sent, given>> /\ owner'.witness = owner.witness
      /\ pc \notin {"rotate", "off"} /\ pc' # "rotate"
  BY MovingIs
<1>2. job'.pending = job.pending /\ job'.updates \in Nat /\ job.updates <= job'.updates
  <2>1. job.updates \in Nat /\ job'.updates \in Nat
    BY <1>1, WaitingAre, JobFields
  <2> QED BY <1>1, <2>1 DEF Moves
<1> QED BY <1>1, <1>2 DEF HandStep

-----------------------------------------------------------------------------
(* What the steps of the handoff do.                                       *)

LEMMA UploadIs ==
    ASSUME IInv, Upload
    PROVE  /\ UNCHANGED <<runs, disk, sent, owner, pc>> /\ pc = "upload" /\ sent = {}
           /\ ~job.shadow /\ job'.shadow = job.shadow /\ job'.updates = job.updates
           /\ server'.receipts = server.receipts
           /\ \E a \in Waiting: /\ server'.admitted = server.admitted \cup {a}
                               /\ given' = given \cup {a} /\ Waiting' = Waiting \ {a}
<1>1. PICK a: /\ a = Head(job.pending_candidates)
              /\ server' = [server EXCEPT !.admitted = @ \cup {a}]
              /\ job' = Acknowledged(job, a) /\ given' = given \cup {a}
  BY DEF Upload
<1>2. /\ pc = "upload" /\ job.pending_candidates # <<>>
      /\ UNCHANGED <<pc, runs, owner, disk, sent>>
  BY DEF Upload
<1>3. /\ job \in JobRecords /\ server \in Servers /\ Loadable(job)
      /\ ~job.shadow /\ job.pending = None /\ sent = {}
  BY <1>2 DEF IInv, TypeInv, ControlInv, Doing, JobInv
<1>4. a \in Waiting /\ a \in Artifacts
  BY <1>1, <1>2, <1>3, HeadIs DEF Waiting
<1>5. server'.receipts = server.receipts /\ server'.admitted = server.admitted \cup {a}
  BY <1>1, <1>3, <1>4, Admitting
<1>6. Waiting' = Waiting \ {a} /\ job'.shadow = job.shadow /\ job'.updates = job.updates
  <2>1. /\ job.updates <= job.attempted /\ CandidatesAdmitted(job)
        /\ job.snapshot => job.receipt # None
    BY <1>3 DEF Loadable, ShadowAdmitted
  <2>2. a \in Range(job.pending_candidates)
    BY <1>4 DEF Waiting
  <2> QED BY <1>1, <1>3, <2>1, <2>2, AcknowledgedIs DEF Waiting
<1> QED BY <1>1, <1>2, <1>3, <1>4, <1>5, <1>6

LEMMA StagingIs ==
    ASSUME IInv, StagePending
    PROVE  /\ UNCHANGED <<runs, disk, sent, given>> /\ pc = "stage" /\ pc' = "save"
           /\ job'.shadow = job.shadow /\ job'.updates = job.updates /\ Waiting' = Waiting
           /\ server'.receipts = server.receipts
           /\ \/ UNCHANGED <<job, server, owner>>
              \/ /\ job.pending = None /\ owner'.witness = None
                 /\ \E a \in Waiting: server'.admitted = server.admitted \cup {a}
<1>1. UNCHANGED <<runs, disk, sent, given>> /\ pc = "stage" /\ pc' = "save"
  BY DEF StagePending, SaveThen, history
<1>2. /\ job \in JobRecords /\ server \in Servers /\ owner \in Owners
      /\ job.pending_candidates # <<>>
  BY <1>1 DEF IInv, TypeInv, ControlInv
<1>3. CASE UNCHANGED <<job, server, owner>>
  BY <1>1, <1>3 DEF Waiting
<1>4. CASE /\ job.pending = None /\ job' = Staged
           /\ server' = [server EXCEPT !.admitted = @ \cup {Head(job.pending_candidates)}]
           /\ owner' = [owner EXCEPT !.witness = None]
  <2>1. PICK a: a = Head(job.pending_candidates)
    OBVIOUS
  <2>2. a \in Waiting /\ a \in Artifacts
    BY <1>2, <2>1, HeadIs DEF Waiting
  <2>3. server'.receipts = server.receipts /\ server'.admitted = server.admitted \cup {a}
    BY <1>2, <1>4, <2>1, <2>2, Admitting
  <2>4. PICK r: job' = [job EXCEPT !.pending = r]
    BY <1>4 DEF Staged
  <2>5. /\ job'.shadow = job.shadow /\ job'.updates = job.updates
        /\ job'.pending_candidates = job.pending_candidates
    BY <1>2, <2>4 DEF JobRecords
  <2>6. owner'.witness = None
    BY <1>2, <1>4 DEF Owners
  <2> QED BY <1>1, <1>4, <2>2, <2>3, <2>5, <2>6 DEF Waiting
<1> QED BY <1>3, <1>4, Zenon DEF StagePending

LEMMA ReceivingIs ==
    ASSUME IInv, ActivateReceipt
    PROVE  /\ UNCHANGED <<runs, disk, sent, owner, server>> /\ pc = "await" /\ pc' = "save"
           /\ job.shadow /\ job'.shadow = job.shadow /\ job'.updates = job.updates
           /\ job.pending \in sent /\ Answered(job.pending)
           /\ job.pending.artifact \in Waiting /\ job.pending.artifact \in server.admitted
           /\ \E x \in server.receipts: x.artifact = job.pending.artifact
           /\ given' = given \cup {job.pending.artifact}
           /\ Waiting' = Waiting \ {job.pending.artifact}
<1>1. PICK x \in server.receipts: /\ x.id = job.pending.id /\ job' = Confirmed(x)
                                  /\ given' = given \cup {job.pending.artifact}
  BY DEF ActivateReceipt
<1>2. /\ UNCHANGED <<runs, disk, sent, owner, server>> /\ pc = "await" /\ pc' = "save"
      /\ job \in JobRecords /\ Loadable(job) /\ job.pending \in sent /\ sent \subseteq journal
      /\ journal \subseteq Requests /\ server \in Servers
  BY DEF ActivateReceipt, SaveThen, outside, IInv, TypeInv, ControlInv, JobInv
<1>3. job.pending \in Requests /\ job.pending # None /\ journal # {}
  BY <1>2, RequestFields
<1>4. job.shadow
  <2>1. job.shadow \in BOOLEAN
    BY <1>2, JobFields
  <2> QED BY <1>3, <2>1 DEF IInv, JobInv
<1>5. PICK a: a = job.pending.artifact /\ a \in Range(job.pending_candidates)
  BY <1>2, <1>3, LoadableIs
<1>6. x.artifact = a /\ a \in server.admitted
  <2>1. PICK r \in sent: r.id = x.id /\ r.artifact = x.artifact
    BY DEF IInv, RequestInv
  <2>2. r = job.pending
    BY <1>1, <1>2, <2>1 DEF IInv, RequestInv
  <2> QED BY <1>5, <2>1, <2>2 DEF IInv, RequestInv
<1>7. PICK j: j = [job EXCEPT !.receipt = x, !.snapshot = FALSE, !.pending = None]
  OBVIOUS
<1>8. /\ j \in JobRecords /\ j.pending = None /\ j.updates = job.updates
      /\ j.attempted = job.attempted /\ j.pending_candidates = job.pending_candidates
      /\ j.candidate_due = job.candidate_due /\ j.snapshot = FALSE /\ j.shadow = job.shadow
  <2>1. x \in Receipts
    BY <1>2, ServerFields
  <2> QED BY <1>2, <1>7, <2>1 DEF JobRecords
<1>9. /\ j.updates <= j.attempted /\ CandidatesAdmitted(j) /\ a \in Range(j.pending_candidates)
      /\ (j.snapshot => j.receipt # None)
  BY <1>2, <1>5, <1>8 DEF Loadable, CandidatesAdmitted
<1>10. job' = Acknowledged(j, a)
  BY <1>1, <1>5, <1>7 DEF Confirmed
<1>11. /\ Range(job'.pending_candidates) = Range(job.pending_candidates) \ {a}
       /\ job'.shadow = job.shadow /\ job'.updates = job.updates
  <2>1. /\ Range(job'.pending_candidates) = Range(j.pending_candidates) \ {a}
        /\ job'.shadow = j.shadow /\ job'.updates = j.updates
    BY <1>8, <1>9, <1>10, AcknowledgedIs
  <2> QED BY <1>8, <2>1
<1> QED BY <1>1, <1>2, <1>4, <1>5, <1>6, <1>11 DEF Waiting, Answered

LEMMA HandingHand ==
    ASSUME IInv, HandInv, Upload \/ StagePending \/ ActivateSend \/ ActivateReceipt
    PROVE  HandStep
<1>1. job.updates \in Nat
  BY WaitingAre
<1>2. CASE Upload
  <2>1. \A a \in server'.admitted \cup given': a \in server.admitted \cup given \cup Waiting
    BY <1>2, UploadIs
  <2> QED BY <1>1, <1>2, <2>1, UploadIs DEF HandStep
<1>3. CASE StagePending
  <2>1. \A a \in server'.admitted \cup given': a \in server.admitted \cup given \cup Waiting
    BY <1>3, StagingIs
  <2>2. \A r \in sent: r # None
    BY RequestFields DEF IInv, TypeInv
  <2> QED BY <1>1, <1>3, <2>1, <2>2, StagingIs DEF HandStep
<1>4. CASE ActivateSend
  <2>1. /\ UNCHANGED <<runs, job, owner, disk, server, given>> /\ pc = "activate"
        /\ pc' \in {"await", "raise"} /\ job.pending # None
    BY <1>4 DEF ActivateSend, IInv, ControlInv, Doing
  <2>2. \A r \in sent' \ sent: r = job.pending /\ owner.witness = r
    BY <1>4 DEF ActivateSend
  <2>3. \A r \in sent' \ sent: job'.pending = r /\ NewestHas(r)
    BY <2>1, <2>2 DEF HandInv
  <2> QED BY <1>1, <2>1, <2>3 DEF HandStep
<1>5. CASE ActivateReceipt
  <2>1. \A a \in server'.admitted \cup given': a \in server.admitted \cup given \cup Waiting
    BY <1>5, ReceivingIs
  <2>2. \A r \in sent: job.pending = r => Answered(r)
    BY <1>5, ReceivingIs
  <2> QED BY <1>1, <1>5, <2>1, <2>2, ReceivingIs DEF HandStep
<1> QED BY <1>2, <1>3, <1>4, <1>5

-----------------------------------------------------------------------------
(* What happens to the snapshots.                                          *)

(* Of snapshots with different serials one is the newest.                  *)
LEMMA NewestOf ==
    ASSUME NEW D, NEW f \in D, \A g \in D: g.serial \in Nat /\ g.serial <= f.serial,
           \A g, h \in D: g.serial = h.serial => g = h
    PROVE  (CHOOSE g \in D: \A h \in D: h.serial <= g.serial) = f
<1> DEFINE top(g) == g \in D /\ \A h \in D: h.serial <= g.serial
<1>1. top(f)
  OBVIOUS
<1>2. ASSUME NEW g, top(g) PROVE g = f
  <2>1. g.serial <= f.serial /\ f.serial <= g.serial /\ g.serial \in Nat /\ f.serial \in Nat
    BY <1>2
  <2> QED BY <1>2, <2>1
<1> HIDE DEF top
<1>3. (CHOOSE g: top(g)) = f
  BY <1>1, <1>2
<1> QED BY <1>3 DEF top

LEMMA OneNewest ==
    ASSUME TypeInv, DiskInv, NEW f, IsNewest(f)
    PROVE  Newest = f /\ \A g \in disk: IsNewest(g) => g = f
<1>1. f \in disk /\ \A g \in disk: g.serial \in Nat /\ g.serial <= f.serial
  BY FileFields DEF TypeInv, IsNewest
<1>2. \A g, h \in disk: g.serial = h.serial => g = h
  BY DEF DiskInv
<1>3. Newest = f
  BY <1>1, <1>2, NewestOf DEF Newest
<1>4. ASSUME NEW g \in disk, IsNewest(g) PROVE g = f
  <2>1. f.serial <= g.serial /\ g.serial <= f.serial
    BY <1>1, <1>4 DEF IsNewest
  <2> QED BY <1>1, <1>2, <2>1
<1> QED BY <1>3, <1>4

LEMMA PublishIs ==
    ASSUME IInv, Publish
    PROVE  /\ UNCHANGED <<runs, job, server, sent, given>> /\ pc' = "rotate"
           /\ owner'.witness = owner.witness
           /\ \E new: /\ disk' = disk \cup {new} /\ new.job = job
                      /\ \A f \in disk': IsNewest(f)' => f = new
<1>1. /\ UNCHANGED <<runs, job, server, sent, given>> /\ pc' = "rotate"
      /\ owner \in Owners
  BY DEF Publish, outside, IInv, TypeInv
<1>2. PICK n: /\ n = Max(Serials \cup {owner.serial}) + 1
              /\ disk' = disk \cup {[serial |-> n, job |-> job,
                                     held |-> stored \cup Range(job.pending_candidates)]}
              /\ owner' = [owner EXCEPT !.serial = n, !.last_save_update = job.updates]
  BY DEF Publish
<1>3. PICK new: new = [serial |-> n, job |-> job,
                       held |-> stored \cup Range(job.pending_candidates)]
  OBVIOUS
<1>4. disk' = disk \cup {new} /\ new.serial = n /\ new.job = job
  BY <1>2, <1>3
<1>5. n \in Nat /\ \A f \in disk: f.serial \in Nat /\ f.serial < n
  <2>1. \A f \in disk: f.serial \in Nat
    BY FileFields DEF IInv, TypeInv
  <2> QED BY <1>2, <2>1, NextSerial DEF IInv
<1>6. \A f \in disk': IsNewest(f)' => f = new
  <2>1. \A f \in disk: ~(n <= f.serial)
    BY <1>5
  <2>2. \A f \in disk': IsNewest(f)' => n <= f.serial
    BY <1>4 DEF IsNewest
  <2> QED BY <1>4, <2>1, <2>2
<1>7. owner'.witness = owner.witness
  BY <1>1, <1>2 DEF Owners
<1> QED BY <1>1, <1>4, <1>6, <1>7

LEMMA RotateIs ==
    ASSUME IInv, Rotate
    PROVE  /\ UNCHANGED <<runs, job, server, sent, given>> /\ pc = "rotate" /\ pc' # "rotate"
           /\ owner'.witness = job.pending /\ disk # {} /\ disk' # {} /\ disk' \subseteq disk
           /\ \A f \in disk: IsNewest(f) => f \in disk'
           /\ \A f \in disk': IsNewest(f)' => IsNewest(f)
<1>1. /\ UNCHANGED <<runs, job, server, sent, given>> /\ pc = "rotate"
      /\ owner' = [owner EXCEPT !.witness = job.pending] /\ pc' = AfterFirst(then)
      /\ disk' = Kept(disk) /\ disk # {} /\ then \in Thens /\ owner \in Owners
  BY DEF Rotate, outside, history, IInv, SavedInv, TypeInv, Thens
<1>2. pc' # "rotate"
  BY <1>1 DEF AfterFirst, Thens
<1>3. owner'.witness = job.pending
  BY <1>1 DEF Owners
<1> QED BY <1>1, <1>2, <1>3, KeptIs DEF IInv

LEMMA ResumeIs ==
    ASSUME TRUE \notin ResumeAny, IInv, Resume
    PROVE  /\ UNCHANGED <<disk, server, sent, given>> /\ runs' = runs + 1 /\ pc' = "save"
           /\ \E f \in disk:
                /\ job' = f.job /\ owner'.witness = f.job.pending /\ f.job.shadow = job.shadow
                /\ IF job.shadow THEN IsNewest(f) ELSE f.job.pending = None /\ sent = {}
<1>1. UNCHANGED <<disk, server, sent, given>> /\ runs' = runs + 1 /\ pc' = "save"
  BY DEF Resume, SaveThen, outside
<1>2. PICK f \in disk: /\ f = Newest \/ f.job.shadow \in ResumeAny
                       /\ job' = f.job
                       /\ owner' = [serial |-> f.serial, last_save_update |-> f.job.updates,
                                    witness |-> f.job.pending, allowed |-> TRUE]
  BY DEF Resume
<1>3. job.shadow \in BOOLEAN /\ f.job.shadow = job.shadow /\ Recorded(f.job)
  <2>1. job \in JobRecords
    BY DEF IInv, TypeInv
  <2> QED BY <2>1, JobFields DEF IInv, DiskInv
<1>4. CASE job.shadow
  <2>1. f = Newest
    BY <1>2, <1>3, <1>4
  <2>2. IsNewest(f)
    BY <2>1, NewestIs
  <2> QED BY <1>1, <1>2, <1>3, <1>4, <2>2
<1>5. CASE ~job.shadow
  <2>1. sent = {} /\ f.job.pending = None
    BY <1>3, <1>5 DEF IInv, TypeInv, JobInv, Recorded
  <2> QED BY <1>1, <1>2, <1>3, <1>5, <2>1
<1> QED BY <1>3, <1>4, <1>5

LEMMA SavingHand ==
    ASSUME TRUE \notin ResumeAny, IInv, HandInv, Publish \/ Rotate \/ Resume
    PROVE  HandInv'
<1>1. /\ server.admitted \subseteq Artifacts /\ given \subseteq Artifacts
      /\ \A f \in disk: Range(f.job.pending_candidates) \subseteq Artifacts
      /\ \A a \in Waiting: a \in Artifacts /\ Old(a)
      /\ \A a \in Artifacts: a.run \in Nat /\ a.update \in Nat
      /\ runs \in Nat /\ job.updates \in Nat
  BY WaitingAre, ArtifactFields
<1>2. CASE Publish
  <2>1. /\ UNCHANGED <<runs, job, server, sent, given>> /\ pc' = "rotate"
    BY <1>2, PublishIs
  <2>2. PICK new: /\ disk' = disk \cup {new} /\ new.job = job
                  /\ \A f \in disk': IsNewest(f)' => f = new
    BY <1>2, PublishIs
  <2>3. NewestHas(job.pending)'
    BY <2>1, <2>2 DEF NewestHas
  <2>4. \A a: Old(a) => Old(a)'
    BY <2>1 DEF Old
  <2>5. \A f \in disk': \A a \in Range(f.job.pending_candidates): Old(a)'
    <3>1. \A a \in Range(new.job.pending_candidates): Old(a)'
      BY <1>1, <2>2, <2>4 DEF Waiting
    <3> QED BY <2>2, <2>4, <3>1 DEF HandInv
  <2>6. \A r \in sent': Answered(r)' \/ (job'.pending = r /\ NewestHas(r)')
    <3>1. \A r \in sent: Answered(r) => Answered(r)'
      BY <2>1 DEF Answered
    <3>2. \A r: job'.pending = r => NewestHas(r)'
      BY <2>3
    <3> QED BY <2>1, <3>1, <3>2 DEF HandInv
  <2> QED BY <2>1, <2>3, <2>4, <2>5, <2>6 DEF HandInv
<1>3. CASE Rotate
  <2>1. /\ UNCHANGED <<runs, job, server, sent, given>> /\ pc = "rotate" /\ pc' # "rotate"
        /\ owner'.witness = job.pending /\ disk # {} /\ disk' # {} /\ disk' \subseteq disk
        /\ \A f \in disk': IsNewest(f)' => IsNewest(f)
    BY <1>3, RotateIs
  <2>2. \A r: NewestHas(r) => NewestHas(r)'
    BY <2>1 DEF NewestHas
  <2>3. \A a: Old(a) => Old(a)'
    BY <2>1 DEF Old
  <2>4. \A r \in sent: Answered(r) => Answered(r)'
    BY <2>1 DEF Answered
  <2> QED BY <2>1, <2>2, <2>3, <2>4 DEF HandInv
<1>4. CASE Resume
  <2>1. UNCHANGED <<disk, server, sent, given>> /\ runs' = runs + 1 /\ pc' = "save"
    BY <1>4, ResumeIs
  <2>2. PICK f \in disk:
          /\ job' = f.job /\ owner'.witness = f.job.pending /\ f.job.shadow = job.shadow
          /\ IF job.shadow THEN IsNewest(f) ELSE f.job.pending = None /\ sent = {}
    BY <1>4, ResumeIs
  <2>3. ASSUME NEW a \in Artifacts, Old(a) PROVE Old(a)'
    <3>1. a.run \in Nat /\ a.run <= runs
      BY <1>1, <2>3 DEF Old
    <3>2. a.run <= runs + 1 /\ a.run # runs + 1
      BY <1>1, <3>1
    <3> QED BY <2>1, <3>2 DEF Old
  <2>4. /\ \A a \in server'.admitted \cup given': Old(a)'
        /\ \A g \in disk': \A a \in Range(g.job.pending_candidates): Old(a)'
    BY <1>1, <2>1, <2>3 DEF HandInv
  <2>5. \A r: NewestHas(r) => NewestHas(r)'
    BY <2>1 DEF NewestHas, IsNewest
  <2>6. \A r \in sent: Answered(r) => Answered(r)'
    BY <2>1 DEF Answered
  <2>7. CASE job.shadow
    <3>1. NewestHas(f.job.pending)
      BY <2>2, <2>7, OneNewest DEF NewestHas, IInv
    <3>2. \A r: NewestHas(r) => f.job.pending = r
      BY <2>2, <2>7 DEF NewestHas
    <3> QED BY <2>1, <2>2, <2>4, <2>5, <2>6, <3>1, <3>2 DEF HandInv
  <2>8. CASE ~job.shadow
    BY <2>1, <2>2, <2>4, <2>8 DEF HandInv
  <2> QED BY <2>7, <2>8
<1> QED BY <1>2, <1>3, <1>4

LEMMA NextHand ==
    ASSUME TRUE \notin ResumeAny, IInv, HandInv, [Next]_vars
    PROVE  HandInv'
<1>1. CASE \/ SaveRefused \/ Stop \/ FetchNotDue \/ FetchFails \/ UpdateWaits \/ UpdatePaused
           \/ Raised \/ Handoff \/ CheckpointDue \/ UploadFails \/ Uploaded
           \/ ActivateFails \/ Finished \/ Die
  BY <1>1, RunningHand, HandKept
<1>2. CASE ServerActivates \/ MailboxShows \/ OthersActivate \/ ServerRestarts \/ UNCHANGED vars
  BY <1>2, ServingHand, HandKept
<1>3. CASE Poll \/ Update \/ UpdateFails \/ UpdateTrainsNothing
  BY <1>3, MovingHand, HandKept
<1>4. CASE Upload \/ StagePending \/ ActivateSend \/ ActivateReceipt
  BY <1>4, HandingHand, HandKept
<1>5. CASE Publish \/ Rotate \/ Resume
  BY <1>5, SavingHand
<1> QED BY <1>1, <1>2, <1>3, <1>4, <1>5 DEF Next

LEMMA InitHand ==
    ASSUME Init
    PROVE  HandInv
<1>1. /\ sent = {} /\ pc = "save" /\ owner.witness = None /\ given = {} /\ disk = {}
      /\ server.admitted = {}
  BY DEF Init, NewOwner
<1> QED BY <1>1 DEF HandInv

-----------------------------------------------------------------------------
(* Every step is a step of CandidateHandoff, or changes nothing of it.     *)

LEMMA InitHandoff ==
    ASSUME Init
    PROVE  Handoffs!Init
<1>1. /\ disk = {} /\ given = {} /\ server.receipts = {} /\ server.admitted = {}
      /\ \E shadow \in Shadows: job = NewJob(shadow)
  BY DEF Init
<1>2. job.shadow \in BOOLEAN /\ job.pending_candidates = <<>>
  BY <1>1, JobAssumption DEF NewJob
<1>3. Waiting = {}
  BY <1>2 DEF Waiting, Range
<1>4. Saved = {} /\ Copies = {} /\ Activations = {}
  BY <1>1 DEF Saved, Copies, Activations
<1> QED BY <1>1, <1>2, <1>3, <1>4 DEF Handoffs!Init

(* An activation is one of a request that was sent.                        *)
LEMMA ActivatedIs ==
    ASSUME IInv, NEW a
    PROVE  /\ a \in Handoffs!Activated <=> \E x \in server.receipts: x.artifact = a
           /\ a \in Handoffs!Activated => \E r \in sent: r.artifact = a
<1>1. a \in Handoffs!Activated <=> \E x \in server.receipts: x.artifact = a
  <2>1. ASSUME NEW x \in server.receipts, x.artifact = a PROVE a \in Handoffs!Activated
    <3>1. <<x.id, a>> \in Activations
      BY <2>1 DEF Activations
    <3> QED BY <3>1 DEF Handoffs!Activated
  <2>2. ASSUME a \in Handoffs!Activated PROVE \E x \in server.receipts: x.artifact = a
    <3>1. PICK y \in Activations: y[2] = a
      BY <2>2 DEF Handoffs!Activated
    <3> QED BY <3>1 DEF Activations
  <2> QED BY <2>1, <2>2
<1> QED BY <1>1 DEF IInv, RequestInv

LEMMA KnownAreOld ==
    ASSUME IInv, HandInv
    PROVE  \A a \in Handoffs!Known: Old(a)
<1>1. ASSUME NEW a \in UNION Copies PROVE Old(a)
  <2>1. PICK f \in disk: a \in Range(f.job.pending_candidates)
    BY DEF Copies
  <2> QED BY <2>1 DEF HandInv
<1> QED BY <1>1, WaitingAre DEF Handoffs!Known, HandInv

(* What is read from disk and server is unchanged.                         *)
LEMMA Unread ==
    ASSUME UNCHANGED <<disk, server>>
    PROVE  UNCHANGED <<Saved, Copies, Activations, server.admitted>>
BY DEF Saved, Copies, Activations, Newest

LEMMA MovingHandoff ==
    ASSUME IInv, ShadowInv, HandInv, Poll \/ Update \/ UpdateFails \/ UpdateTrainsNothing
    PROVE  [Handoffs!Next]_(Handoffs!vars)
<1>1. /\ Moves(job, job') /\ UNCHANGED <<disk, server, given>> /\ job \in JobRecords
  BY MovingIs DEF IInv, TypeInv
<1>2. UNCHANGED <<job.shadow, Saved, Copies, Activations, server.admitted, given>>
  BY <1>1, Unread DEF Moves
<1>3. CASE Waiting' = Waiting
  BY <1>2, <1>3 DEF Handoffs!vars
<1>4. CASE \E c \in Waiting' \ Waiting: Spares(Waiting, Waiting' \ {c}, job.pending)
  <2>1. PICK c \in Waiting' \ Waiting: Spares(Waiting, Waiting' \ {c}, job.pending)
    BY <1>4
  <2>2. c \in Waiting' \ Handoffs!Known
    <3>1. c.run = runs /\ c.update = job.updates + 1
      BY <1>1, <2>1 DEF Moves, Waiting
    <3>2. ~Old(c)
      BY <3>1, WaitingAre DEF Old
    <3> QED BY <2>1, <3>2, KnownAreOld
  <2>3. CASE Waiting' \ {c} = Waiting
    <3>1. Waiting' = Waiting \cup {c}
      BY <2>1, <2>3
    <3> QED BY <1>2, <2>2, <3>1
         DEF Handoffs!Next, Handoffs!Capture, Handoffs!durable, Handoffs!server
  <2>4. CASE /\ Cardinality(Waiting) >= MaxPending
             /\ \E d \in Waiting: /\ job.pending = None \/ d # job.pending.artifact
                                  /\ Waiting' \ {c} = Waiting \ {d}
    <3>1. PICK d \in Waiting: /\ job.pending = None \/ d # job.pending.artifact
                              /\ Waiting' \ {c} = Waiting \ {d}
      BY <2>4
    <3>2. Waiting' = (Waiting \ {d}) \cup {c}
      BY <2>1, <3>1
    <3>3. d \notin Handoffs!Activated
      <4>1. ASSUME NEW r \in sent, r.artifact = d PROVE FALSE
        <5>1. r \in journal /\ r # None
          BY RequestFields DEF IInv, TypeInv
        <5>2. job.pending = r
          BY <3>1, <4>1, <5>1 DEF ShadowInv, Unsent, Waiting
        <5> QED BY <3>1, <4>1, <5>1, <5>2
      <4> QED BY <4>1, ActivatedIs
    <3>4. Handoffs!Cardinality(Waiting) >= MaxPending
      BY <2>4 DEF Cardinality, Handoffs!Cardinality
    <3> QED BY <1>2, <2>2, <3>2, <3>3, <3>4
         DEF Handoffs!Next, Handoffs!Capture, Handoffs!durable, Handoffs!server
  <2> QED BY <2>1, <2>3, <2>4 DEF Spares
<1> QED BY <1>1, <1>3, <1>4 DEF Moves, Waiting

LEMMA SavingHandoff ==
    ASSUME TRUE \notin ResumeAny, IInv, Publish \/ Rotate \/ Resume
    PROVE  [Handoffs!Next]_(Handoffs!vars)
<1>1. CASE Publish
  <2>1. IInv'
    BY <1>1, PublishKeeps
  <2>2. UNCHANGED <<job, server, given>>
    BY <1>1, PublishIs
  <2>3. PICK new: /\ disk' = disk \cup {new} /\ new.job = job
                  /\ \A f \in disk': IsNewest(f)' => f = new
    BY <1>1, PublishIs
  <2>4. Newest' = new /\ disk' # {}
    <3>1. \E f \in disk': IsNewest(f)'
      BY <2>1, <2>3 DEF IInv, DiskInv
    <3>2. IsNewest(new)'
      BY <2>3, <3>1
    <3>3. \A g \in disk': g.serial \in Nat /\ g.serial <= new.serial
      BY <2>1, <3>2, FileFields DEF IInv, TypeInv, IsNewest
    <3>4. \A g, h \in disk': g.serial = h.serial => g = h
      BY <2>1 DEF IInv, DiskInv
    <3> QED BY <2>3, <3>3, <3>4, NewestOf DEF Newest
  <2>5. Saved' = Waiting
    BY <2>3, <2>4 DEF Saved, Waiting
  <2>6. Copies' = Copies \cup {Waiting}
    BY <2>3 DEF Copies, Waiting
  <2>7. UNCHANGED <<job.shadow, Waiting, server.admitted, Activations, given>>
    BY <2>2 DEF Waiting, Activations
  <2> QED BY <2>5, <2>6, <2>7 DEF Handoffs!Next, Handoffs!Save, Handoffs!server
<1>2. CASE Rotate
  <2>1. IInv'
    BY <1>2, RotateKeeps
  <2>2. /\ UNCHANGED <<job, server, given>> /\ disk # {} /\ disk' # {} /\ disk' \subseteq disk
        /\ \A f \in disk': IsNewest(f)' => IsNewest(f)
    BY <1>2, RotateIs
  <2>3. PICK f \in disk': IsNewest(f)'
    BY <2>1, <2>2 DEF IInv, DiskInv
  <2>4. Newest = f
    BY <2>2, <2>3, OneNewest DEF IInv
  <2>5. Newest' = f
    <3>1. \A g \in disk': g.serial \in Nat /\ g.serial <= f.serial
      BY <2>1, <2>3, FileFields DEF IInv, TypeInv, IsNewest
    <3>2. \A g, h \in disk': g.serial = h.serial => g = h
      BY <2>1 DEF IInv, DiskInv
    <3> QED BY <2>3, <3>1, <3>2, NewestOf DEF Newest
  <2>6. Saved = Range(f.job.pending_candidates) /\ Saved' = Saved
    BY <2>2, <2>4, <2>5 DEF Saved
  <2>7. Copies' \subseteq Copies /\ Saved \in Copies'
    BY <2>2, <2>3, <2>6 DEF Copies
  <2>8. UNCHANGED <<job.shadow, Waiting, server.admitted, Activations, given>>
    BY <2>2 DEF Waiting, Activations
  <2> QED BY <2>6, <2>7, <2>8 DEF Handoffs!Next, Handoffs!Forget, Handoffs!server
<1>3. CASE Resume
  <2>1. UNCHANGED <<disk, server, given>>
    BY <1>3, ResumeIs
  <2>2. PICK f \in disk: /\ job' = f.job /\ f.job.shadow = job.shadow
                         /\ job.shadow => IsNewest(f)
    BY <1>3, ResumeIs
  <2>3. Waiting' = Range(f.job.pending_candidates) /\ Waiting' \in Copies
    BY <2>2 DEF Waiting, Copies
  <2>4. job.shadow => Waiting' = Saved
    BY <2>2, <2>3, OneNewest DEF Saved, IInv
  <2>5. Copies # {} /\ Waiting' \in IF job.shadow THEN {Saved} ELSE Copies
    BY <2>3, <2>4
  <2>6. UNCHANGED <<job.shadow, Saved, Copies, Activations, server.admitted, given>>
    BY <2>1, <2>2, Unread
  <2> QED BY <2>5, <2>6 DEF Handoffs!Next, Handoffs!Resume, Handoffs!server, Handoffs!durable
<1> QED BY <1>1, <1>2, <1>3

LEMMA HandingHandoff ==
    ASSUME IInv, Upload \/ UploadFails \/ StagePending \/ ActivateReceipt
    PROVE  [Handoffs!Next]_(Handoffs!vars)
<1>1. ASSUME UNCHANGED disk, server'.receipts = server.receipts
      PROVE  UNCHANGED <<Saved, Copies, Activations>>
  BY <1>1 DEF Saved, Copies, Activations, Newest
<1>2. CASE Upload
  <2>1. PICK a \in Waiting: /\ server'.admitted = server.admitted \cup {a}
                            /\ given' = given \cup {a} /\ Waiting' = Waiting \ {a}
    BY <1>2, UploadIs
  <2>2. ~job.shadow /\ UNCHANGED <<job.shadow, Saved, Copies, Activations>>
    BY <1>1, <1>2, UploadIs
  <2> QED BY <2>1, <2>2 DEF Handoffs!Next, Handoffs!Upload, Handoffs!durable
<1>3. ASSUME UNCHANGED <<job.shadow, Waiting, Saved, Copies, Activations, given>>,
             \/ server'.admitted = server.admitted
             \/ \E a \in Waiting: server'.admitted = server.admitted \cup {a}
      PROVE  [Handoffs!Next]_(Handoffs!vars)
  <2>1. CASE server'.admitted = server.admitted
    BY <1>3, <2>1 DEF Handoffs!vars
  <2>2. CASE \E a \in Waiting: server'.admitted = server.admitted \cup {a}
    BY <1>3, <2>2 DEF Handoffs!Next, Handoffs!Admit, Handoffs!durable
  <2> QED BY <1>3, <2>1, <2>2
<1>4. CASE UploadFails
  <2>1. UNCHANGED <<disk, job, given>>
    BY <1>4 DEF UploadFails, history
  <2>2. PICK a: /\ a = Head(job.pending_candidates)
                /\ server' \in {server, [server EXCEPT !.admitted = @ \cup {a}]}
    BY <1>4 DEF UploadFails
  <2>3. job \in JobRecords /\ server \in Servers /\ job.pending_candidates # <<>>
    BY <1>4 DEF IInv, TypeInv, UploadFails
  <2>4. a \in Artifacts /\ a \in Waiting
    BY <2>2, <2>3, HeadIs DEF Waiting
  <2>5. /\ server'.receipts = server.receipts
        /\ server'.admitted \in {server.admitted, server.admitted \cup {a}}
    BY <2>2, <2>3, <2>4, Admitting
  <2>6. UNCHANGED <<job.shadow, Waiting, Saved, Copies, Activations, given>>
    BY <1>1, <2>1, <2>5 DEF Waiting
  <2> QED BY <1>3, <2>4, <2>5, <2>6
<1>5. CASE StagePending
  <2>1. UNCHANGED <<job.shadow, Waiting, Saved, Copies, Activations, given>>
    BY <1>1, <1>5, StagingIs
  <2> QED BY <1>3, <1>5, <2>1, StagingIs
<1>6. CASE ActivateReceipt
  <2>1. PICK a: a = job.pending.artifact
    OBVIOUS
  <2>2. /\ a \in Waiting /\ a \in Handoffs!Activated /\ job.shadow
        /\ given' = given \cup {a} /\ Waiting' = Waiting \ {a}
    BY <1>6, <2>1, ReceivingIs, ActivatedIs
  <2>3. UNCHANGED <<job.shadow, Saved, Copies, Activations, server.admitted>>
    BY <1>1, <1>6, ReceivingIs
  <2> QED BY <2>2, <2>3 DEF Handoffs!Next, Handoffs!Release, Handoffs!durable, Handoffs!server
<1> QED BY <1>2, <1>4, <1>5, <1>6

(* A request that was not answered is the one in hand, and its candidate   *)
(* is safe.                                                                *)
LEMMA ServingHandoff ==
    ASSUME IInv, ShadowInv, HandInv,
           ServerActivates \/ MailboxShows \/ OthersActivate \/ ServerRestarts \/ UNCHANGED vars
    PROVE  [Handoffs!Next]_(Handoffs!vars)
<1>1. UNCHANGED <<job, disk, sent, given>>
  BY ActivatingIs, ElsewhereIs
<1>2. UNCHANGED <<job.shadow, Waiting, Saved, Copies, given>>
  BY <1>1 DEF Waiting, Saved, Copies, Newest
<1>3. CASE server'.receipts = server.receipts /\ server'.admitted = server.admitted
  BY <1>2, <1>3 DEF Handoffs!vars, Activations
<1>4. ASSUME NEW r \in sent, NEW x, ~Answered(r), r.artifact \in server.admitted,
             x.id = r.id, x.artifact = r.artifact,
             server'.receipts = server.receipts \cup {x}, server'.admitted = server.admitted
      PROVE  [Handoffs!Next]_(Handoffs!vars)
  <2>1. job.pending = r /\ NewestHas(r)
    BY <1>4 DEF HandInv
  <2>2. /\ job \in JobRecords /\ Loadable(job) /\ r \in Requests /\ r # None /\ r \in journal
    BY RequestFields DEF IInv, TypeInv, JobInv
  <2>3. PICK a: a = r.artifact
    OBVIOUS
  <2>4. a \in Waiting
    BY <2>1, <2>2, <2>3, LoadableIs DEF Waiting
  <2>5. a \in Saved
    <3>1. disk # {} /\ IsNewest(Newest)
      BY <2>1, NewestIs DEF NewestHas
    <3>2. Newest \in disk /\ Newest.job.pending = r
      BY <2>1, <3>1 DEF NewestHas, IsNewest
    <3>3. Newest.job \in JobRecords /\ Loadable(Newest.job)
      BY <3>2, FileFields DEF IInv, TypeInv, DiskInv
    <3>4. a \in Range(Newest.job.pending_candidates)
      BY <2>2, <2>3, <3>2, <3>3, LoadableIs
    <3> QED BY <3>1, <3>4 DEF Saved
  <2>6. a \notin Handoffs!Activated
    <3>1. ASSUME NEW y \in server.receipts, y.artifact = a PROVE FALSE
      <4>1. PICK s \in sent: s.id = y.id /\ s.artifact = a
        BY <3>1 DEF IInv, RequestInv
      <4>2. s = r
        BY <2>2, <2>3, <4>1 DEF IInv, TypeInv, ShadowInv, OneRequest
      <4> QED BY <1>4, <4>1, <4>2 DEF Answered
    <3> QED BY <3>1, ActivatedIs
  <2>7. job.shadow
    <3>1. job.shadow \in BOOLEAN
      BY <2>2, JobFields
    <3> QED BY <2>2, <3>1 DEF IInv, JobInv
  <2>8. PICK e: e = <<x.id, a>>
    OBVIOUS
  <2>9. e[2] = a /\ Activations' = Activations \cup {e}
    BY <1>4, <2>3, <2>8 DEF Activations
  <2>10. a \in (Waiting \cap Saved \cap server.admitted) \ Handoffs!Activated
    BY <1>4, <2>3, <2>4, <2>5, <2>6
  <2>11. Handoffs!Activate
    BY <1>2, <1>4, <2>7, <2>9, <2>10 DEF Handoffs!Activate, Handoffs!durable
  <2> QED BY <2>11 DEF Handoffs!Next
<1> QED BY <1>3, <1>4, ActivatingIs, ElsewhereIs

LEMMA NextHandoff ==
    ASSUME TRUE \notin ResumeAny, IInv, ShadowInv, HandInv, [Next]_vars
    PROVE  [Handoffs!Next]_(Handoffs!vars)
<1>1. CASE \/ SaveRefused \/ Stop \/ FetchNotDue \/ FetchFails \/ UpdateWaits \/ UpdatePaused
           \/ Raised \/ Handoff \/ CheckpointDue \/ Uploaded \/ ActivateSend
           \/ ActivateFails \/ Finished \/ Die
  <2>1. UNCHANGED <<disk, job, server, given>>
    BY <1>1 DEF SaveRefused, Stop, FetchNotDue, FetchFails, UpdateWaits, UpdatePaused, Raised,
       Handoff, CheckpointDue, Uploaded, ActivateSend, ActivateFails, Finished, Die,
       outside, history
  <2>2. UNCHANGED <<job.shadow, Waiting, Saved, Copies, server.admitted, Activations, given>>
    BY <2>1, Unread DEF Waiting
  <2> QED BY <2>2 DEF Handoffs!vars
<1>2. CASE ServerActivates \/ MailboxShows \/ OthersActivate \/ ServerRestarts \/ UNCHANGED vars
  BY <1>2, ServingHandoff
<1>3. CASE Poll \/ Update \/ UpdateFails \/ UpdateTrainsNothing
  BY <1>3, MovingHandoff
<1>4. CASE Upload \/ UploadFails \/ StagePending \/ ActivateReceipt
  BY <1>4, HandingHandoff
<1>5. CASE Publish \/ Rotate \/ Resume
  BY <1>5, SavingHandoff
<1> QED BY <1>1, <1>2, <1>3, <1>4, <1>5 DEF Next

(* The job implements CandidateHandoff as long as the operator resumes the *)
(* newest snapshot of a shadow job: whatever dies, is lost, repeated or    *)
(* late, a candidate is activated at most once, when it is saved, admitted *)
(* and still held, and released only because the server has it.            *)
THEOREM JobImplementsHandoff ==
    ASSUME TRUE \notin ResumeAny
    PROVE  Spec => ImplementsHandoff
<1>1. Init => ShadowInv /\ HandInv
  BY InitHand DEF Init, ShadowInv, OneRequest, Earlier, Unsent
<1>2. IInv /\ ShadowInv /\ HandInv /\ [Next]_vars => ShadowInv' /\ HandInv'
  BY NextShadow, NextHand
<1>3. IInv /\ ShadowInv /\ HandInv /\ [Next]_vars => [Handoffs!Next]_(Handoffs!vars)
  BY NextHandoff
<1>4. Init => Handoffs!Init
  BY InitHandoff
<1> QED BY <1>1, <1>2, <1>3, <1>4, Invariance, PTL DEF Spec, ImplementsHandoff, Handoffs!Spec
===============================================================================
