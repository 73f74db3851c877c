----------------------- MODULE TaskSupervision_proofs -----------------------
(***************************************************************************)
(* How the trainer ends, for any tasks, any length of an update and any    *)
(* number of updates and cancellations.                                    *)
(***************************************************************************)
EXTENDS TaskSupervision, SequenceTheorems, TLAPS

(* Every task that ended badly is in the history.                          *)
EndedInv == \A t \in Bad: \E e \in Range(ended): e.task = t

(* As long as the learner runs, the thread's steps are all that separates  *)
(* the weights from those published; whoever finds a thread that has ended *)
(* well finds whole weights.                                               *)
TrainingInv ==
    /\ PublishedWhole
    /\ thread.phase \in {"stale", "done"} => weights \in whole
    /\ thread.phase \in {"idle", "measure", "stale"} => thread.steps = 0
    /\ status[Learner] = "running" => weights = published + thread.steps
    /\ status[Learner] = "running" /\ learner = "collect" => thread.phase = "idle"
    /\ status[Learner] = "returned" =>
         bounded /\ thread.phase = "idle" /\ saved = weights /\ published = weights

(* Where the owner can be, and with what.                                  *)
OwnerInv ==
    /\ owner \in {"judge", "drain", "returned"} => bounded
    /\ owner \in {"drain", "returned"} => status[Learner] = "returned"
    /\ owner \in {"watch", "judge"} => reported = None
    /\ owner = "settle" => reported # None
    /\ Over => Running = {}

(* Before anything was cancelled, whatever ended did so of itself.         *)
ReportInv ==
    interrupts = 0 =>
        /\ owner \in {"watch", "judge"} =>
             requested = {} /\ \A e \in Range(ended): ~e.asked
        /\ owner = "drain" => reported = None
        /\ owner \in {"settle", "raised"} =>
             \E e \in Range(ended): e.task = reported /\ ~e.asked

IInv == TypeOK /\ EndedInv /\ TrainingInv /\ OwnerInv /\ ReportInv

-----------------------------------------------------------------------------
LEMMA Names == None \notin Tasks /\ Interrupt \notin Tasks /\ None # Interrupt
               /\ Learner \in Tasks /\ Players \subseteq Tasks
BY SupervisionAssumption DEF None, Interrupt, Tasks

(* Appending to a sequence adds one element to its range.                  *)
LEMMA AppendRange ==
    ASSUME NEW S, NEW s \in Seq(S), NEW e \in S
    PROVE  Append(s, e) \in Seq(S) /\ Range(Append(s, e)) = Range(s) \cup {e}
<1>1. /\ Append(s, e) \in Seq(S) /\ Len(Append(s, e)) = Len(s) + 1
      /\ \A i \in 1..Len(s): Append(s, e)[i] = s[i]
      /\ Append(s, e)[Len(s) + 1] = e
  BY AppendProperties
<1>2. /\ DOMAIN s = 1..Len(s) /\ Len(s) \in Nat
      /\ DOMAIN Append(s, e) = 1..(Len(s) + 1)
  BY <1>1
<1>3. \A i \in 1..(Len(s) + 1): i \in 1..Len(s) \/ i = Len(s) + 1
  BY <1>2
<1>4. /\ 1..Len(s) \subseteq 1..(Len(s) + 1)
      /\ Len(s) + 1 \in 1..(Len(s) + 1)
  BY <1>2
<1> HIDE DEF Range
<1>5. \A x: x \in Range(Append(s, e)) <=> \E i \in 1..(Len(s) + 1): x = Append(s, e)[i]
  BY <1>2 DEF Range
<1>6. \A x: x \in Range(s) <=> \E i \in 1..Len(s): x = s[i]
  BY <1>2 DEF Range
<1> QED BY <1>1, <1>3, <1>4, <1>5, <1>6

(* What the end of one task changes.                                       *)
LEMMA EndsEffect ==
    ASSUME TypeOK, NEW t \in Running, NEW how \in {"returned", "failed", "cancelled"},
           Ends(t, how)
    PROVE  /\ status' \in [Tasks -> {"running", "returned", "failed", "cancelled"}]
           /\ status'[t] = how /\ \A u \in Tasks \ {t}: status'[u] = status[u]
           /\ Running' = Running \ {t} /\ requested' = requested \ {t}
           /\ ended' \in Seq([task: Tasks, asked: BOOLEAN])
           /\ Range(ended) \subseteq Range(ended')
           /\ \A e \in Range(ended'): e \in Range(ended) \/ e.asked = (t \in requested)
           /\ how # "returned" => \E e \in Range(ended'): e.task = t
<1>1. t \in Tasks
  BY DEF Running
<1>2. /\ status' = [status EXCEPT ![t] = how]
      /\ status \in [Tasks -> {"running", "returned", "failed", "cancelled"}]
      /\ requested' = requested \ {t}
  BY DEF Ends, TypeOK
<1>3. /\ status' \in [Tasks -> {"running", "returned", "failed", "cancelled"}]
      /\ status'[t] = how /\ \A u \in Tasks \ {t}: status'[u] = status[u]
  BY <1>1, <1>2
<1>4. Running' = Running \ {t}
  BY <1>1, <1>3 DEF Running
<1> DEFINE e == [task |-> t, asked |-> t \in requested]
<1>5. e \in [task: Tasks, asked: BOOLEAN] /\ e.task = t /\ e.asked = (t \in requested)
  BY <1>1
<1> HIDE DEF e
<1>6. CASE how = "returned" /\ ended' = ended
  BY <1>2, <1>3, <1>4, <1>6 DEF TypeOK
<1>7. CASE how # "returned" /\ ended' = Append(ended, e)
  <2> DEFINE S == [task: Tasks, asked: BOOLEAN]
  <2>1. ended \in Seq(S) /\ e \in S
    BY <1>5 DEF TypeOK
  <2> HIDE DEF S
  <2>2. Append(ended, e) \in Seq(S) /\ Range(Append(ended, e)) = Range(ended) \cup {e}
    BY <2>1, AppendRange
  <2>3. ended' \in Seq([task: Tasks, asked: BOOLEAN]) /\ Range(ended') = Range(ended) \cup {e}
    BY <1>7, <2>2 DEF S
  <2> QED BY <1>2, <1>3, <1>4, <1>5, <1>7, <2>3
<1>8. ended' = IF how = "returned" THEN ended ELSE Append(ended, e)
  BY Zenon DEF Ends, e
<1> QED BY <1>6, <1>7, <1>8

(* The exception that gather raises is that of a task in the history.      *)
LEMMA FirstEnded ==
    ASSUME TypeOK, EndedInv, Bad # {}
    PROVE  ended[1] \in Range(ended) /\ ended[1].task \in Tasks
<1>1. PICK t \in Bad: \E e \in Range(ended): e.task = t
  BY DEF EndedInv
<1> DEFINE S == [task: Tasks, asked: BOOLEAN]
<1>2. ended \in Seq(S)
  BY DEF TypeOK
<1> HIDE DEF S
<1>3. DOMAIN ended = 1..Len(ended) /\ Len(ended) \in Nat
  BY <1>2
<1>4. PICK i \in DOMAIN ended: TRUE
  BY <1>1 DEF Range
<1>5. 1 \in DOMAIN ended /\ ended[1] \in S
  BY <1>2, <1>3, <1>4
<1> QED BY <1>5 DEF Range, S

LEMMA FreeRuns == \A t: Free(t) => t \in Running /\ t \notin requested
BY DEF Free

(* Types are kept by every step.                                           *)
LEMMA TypeStep == TypeOK /\ EndedInv /\ [Next]_vars => TypeOK'
<1> SUFFICES ASSUME TypeOK, EndedInv, [Next]_vars PROVE TypeOK'
  OBVIOUS
<1> USE Names
<1>1. ASSUME NEW t \in Running, NEW how \in {"returned", "failed", "cancelled"}, Ends(t, how)
      PROVE  /\ status' \in [Tasks -> {"running", "returned", "failed", "cancelled"}]
             /\ ended' \in Seq([task: Tasks, asked: BOOLEAN])
             /\ requested' \subseteq Running' /\ judged \subseteq Tasks \ Running'
  <2>1. /\ status' \in [Tasks -> {"running", "returned", "failed", "cancelled"}]
        /\ Running' = Running \ {t} /\ requested' = requested \ {t}
        /\ ended' \in Seq([task: Tasks, asked: BOOLEAN])
    BY <1>1, EndsEffect
  <2> QED BY <2>1 DEF TypeOK
<1>2. ASSUME NEW t \in Players, PlayerFails(t) PROVE TypeOK'
  BY <1>1, <1>2, FreeRuns DEF PlayerFails, TypeOK, supervision, training
<1>3. ASSUME NEW t \in Tasks, Cancelled(t) PROVE TypeOK'
  BY <1>1, <1>3 DEF Cancelled, TypeOK, supervision, training
<1>4. ASSUME LearnerFails PROVE TypeOK'
  BY <1>1, <1>4, FreeRuns DEF LearnerFails, TypeOK, supervision, training
<1>5. ASSUME StartUpdate PROVE TypeOK'
  BY <1>5, SupervisionAssumption DEF StartUpdate, TypeOK, supervision, Phases, Running
<1>6. ASSUME Measure PROVE TypeOK'
  BY <1>6 DEF Measure, ThreadEnds, TypeOK, supervision, Phases, Running
<1>7. ASSUME Minibatch PROVE TypeOK'
  <2>1. thread \in [phase: Phases, left: 0..Minibatches, steps: Nat] /\ weights \in Nat
    BY DEF TypeOK
  <2>2. thread' \in [phase: Phases, left: 0..Minibatches, steps: Nat] /\ weights' \in Nat
    <3>1. CASE OptimizerStep
      <4>1. /\ thread.left - 1 \in 0..Minibatches /\ thread.steps + 1 \in Nat
            /\ weights' = weights + 1
        BY <2>1, <3>1, SupervisionAssumption DEF OptimizerStep
      <4>2. thread' = [thread EXCEPT !.left = thread.left - 1, !.steps = thread.steps + 1]
        BY <3>1, Zenon DEF OptimizerStep
      <4>3. /\ thread' = [phase |-> thread.phase, left |-> thread.left - 1,
                           steps |-> thread.steps + 1]
            /\ thread.phase \in Phases
        <5> HIDE DEF Phases
        <5> QED BY <2>1, <4>2
      <4>4. weights' \in Nat
        BY <2>1, <4>1
      <4> QED BY <4>1, <4>3, <4>4
    <3>2. CASE ThreadEnds("done") /\ UNCHANGED weights
      BY <2>1, <3>2 DEF ThreadEnds, Phases
    <3>3. CASE ThreadEnds("raised") /\ UNCHANGED weights
      BY <2>1, <3>3 DEF ThreadEnds, Phases
    <3>4. \/ OptimizerStep
          \/ ThreadEnds("done") /\ UNCHANGED weights
          \/ ThreadEnds("raised") /\ UNCHANGED weights
      BY <1>7, Zenon DEF Minibatch
    <3> QED BY <3>1, <3>2, <3>3, <3>4, Zenon
  <2> QED BY <1>7, <2>2 DEF Minibatch, TypeOK, supervision, Running
<1>8. ASSUME LearnerResumes PROVE TypeOK'
  <2>1. published' \in Nat /\ saved' \in Nat
    BY <1>8 DEF LearnerResumes, UpdateRaises, UpdateReturns, TypeOK
  <2>2. /\ status' \in [Tasks -> {"running", "returned", "failed", "cancelled"}]
        /\ ended' \in Seq([task: Tasks, asked: BOOLEAN])
        /\ requested' \subseteq Running' /\ judged \subseteq Tasks \ Running'
    BY <1>1, <1>8, FreeRuns DEF LearnerResumes, UpdateRaises, UpdateReturns, TypeOK, Running
  <2>3. Idle \in [phase: Phases, left: 0..Minibatches, steps: Nat]
    BY SupervisionAssumption DEF Idle, Phases
  <2> QED BY <1>8, <2>1, <2>2, <2>3 DEF LearnerResumes, TypeOK, supervision
<1>9. ASSUME GatherRaises PROVE TypeOK'
  <2>1. Bad # {} => ended[1].task \in Tasks
    BY FirstEnded
  <2> QED BY <1>9, <2>1 DEF GatherRaises, CancelAll, Unfinished, TypeOK, training, Running
<1>10. ASSUME WaitReturns PROVE TypeOK'
  BY <1>10 DEF WaitReturns, TypeOK, training, Running
<1>11. ASSUME Judge PROVE TypeOK'
  BY <1>11 DEF Judge, CancelAll, Unfinished, TypeOK, training, Running, Bad
<1>12. ASSUME InterruptOwner PROVE TypeOK'
  BY <1>12, SupervisionAssumption DEF InterruptOwner, CancelAll, Unfinished, TypeOK, training, Running
<1>13. ASSUME OwnerEnds PROVE TypeOK'
  BY <1>13 DEF OwnerEnds, Raised, TypeOK, training, Running
<1>14. ASSUME UNCHANGED vars PROVE TypeOK'
  BY <1>14 DEF vars, supervision, training, TypeOK, Running
<1> QED BY <1>2, <1>3, <1>4, <1>5, <1>6, <1>7, <1>8, <1>9, <1>10, <1>11, <1>12, <1>13, <1>14,
           Zenon DEF Next

-----------------------------------------------------------------------------
(* A step is one of a task or of the thread, which end one task or none,   *)
(* or one of the owner.                                                    *)
Hows == {"returned", "failed", "cancelled"}

TaskStep ==
    /\ UNCHANGED <<bounded, supervision>>
    /\ \/ UNCHANGED <<status, requested, ended>>
       \/ \E t \in Running, how \in Hows: Ends(t, how)

OwnerStep ==
    /\ UNCHANGED <<bounded, status, training, ended>>
    /\ GatherRaises \/ WaitReturns \/ Judge \/ InterruptOwner \/ OwnerEnds

LEMMA StepShape ==
    ASSUME TypeOK, Next
    PROVE  TaskStep \/ OwnerStep
<1> USE Names DEF TaskStep, Hows
<1>1. ASSUME NEW t \in Players, PlayerFails(t) PROVE TaskStep
  BY <1>1, FreeRuns, Zenon DEF PlayerFails
<1>2. ASSUME NEW t \in Tasks, Cancelled(t) PROVE TaskStep
  <2>1. t \in Running
    BY <1>2 DEF Cancelled, TypeOK
  <2> QED BY <1>2, <2>1 DEF Cancelled
<1>3. ASSUME LearnerFails PROVE TaskStep
  BY <1>3, FreeRuns, Zenon DEF LearnerFails
<1>4. ASSUME LearnerResumes PROVE TaskStep
  <2>1. Learner \in Running
    BY <1>4, FreeRuns DEF LearnerResumes
  <2>2. \/ UNCHANGED <<status, requested, ended>>
        \/ Ends(Learner, "failed") \/ Ends(Learner, "returned")
    BY <1>4, Zenon DEF LearnerResumes, UpdateRaises, UpdateReturns
  <2>3. UNCHANGED <<bounded, supervision>>
    BY <1>4 DEF LearnerResumes
  <2> QED BY <2>1, <2>2, <2>3
<1>5. CASE StartUpdate \/ Measure \/ Minibatch
  BY <1>5 DEF StartUpdate, Measure, Minibatch
<1>6. CASE GatherRaises \/ WaitReturns \/ Judge \/ InterruptOwner \/ OwnerEnds
  BY <1>6, Zenon DEF OwnerStep, GatherRaises, WaitReturns, Judge, InterruptOwner, OwnerEnds
<1> QED BY <1>1, <1>2, <1>3, <1>4, <1>5, <1>6, Zenon DEF Next

(* The history of what ended badly is complete.                            *)
LEMMA EndedStep == TypeOK /\ EndedInv /\ [Next]_vars => EndedInv'
<1> SUFFICES ASSUME TypeOK, EndedInv, [Next]_vars PROVE EndedInv'
  OBVIOUS
<1>1. CASE UNCHANGED <<status, ended>>
  BY <1>1 DEF EndedInv, Bad
<1>2. ASSUME NEW t \in Running, NEW how \in Hows, Ends(t, how) PROVE EndedInv'
  <2>1. /\ status'[t] = how /\ \A u \in Tasks \ {t}: status'[u] = status[u]
        /\ Range(ended) \subseteq Range(ended')
        /\ how # "returned" => \E e \in Range(ended'): e.task = t
    BY <1>2, EndsEffect DEF Hows
  <2>2. ASSUME NEW u \in Bad' PROVE \E e \in Range(ended'): e.task = u
    <3>1. u \in Tasks /\ status'[u] \in {"failed", "cancelled"}
      BY DEF Bad
    <3>2. CASE u = t
      BY <2>1, <3>1, <3>2
    <3>3. CASE u # t
      <4>1. u \in Bad
        BY <2>1, <3>1, <3>3 DEF Bad
      <4> QED BY <2>1, <4>1 DEF EndedInv
    <3> QED BY <3>2, <3>3
  <2> QED BY <2>2 DEF EndedInv
<1>3. CASE UNCHANGED vars
  BY <1>1, <1>3 DEF vars
<1>4. CASE TaskStep
  BY <1>1, <1>2, <1>4, Zenon DEF TaskStep
<1>5. CASE OwnerStep
  BY <1>1, <1>5, Zenon DEF OwnerStep
<1> QED BY <1>3, <1>4, <1>5, StepShape

-----------------------------------------------------------------------------
(* The weights that others see are whole in every state.                   *)
LEMMA TrainingStep == TypeOK /\ TrainingInv /\ [Next]_vars => TrainingInv'
<1> SUFFICES ASSUME TypeOK, TrainingInv, [Next]_vars PROVE TrainingInv'
  OBVIOUS
<1> USE Names
<1>1. ASSUME UNCHANGED <<bounded, training>>,
             status'[Learner] \in {status[Learner], "failed", "cancelled"}
      PROVE  TrainingInv'
  BY <1>1 DEF training, TrainingInv, PublishedWhole
<1>2. ASSUME NEW t \in Running, NEW how \in Hows, Ends(t, how)
      PROVE  status'[t] = how /\ \A u \in Tasks \ {t}: status'[u] = status[u]
  BY <1>2, EndsEffect DEF Hows
<1>3. ASSUME NEW t \in Players, PlayerFails(t) PROVE TrainingInv'
  <2>1. t \in Running /\ t # Learner /\ Ends(t, "failed") /\ UNCHANGED <<bounded, training>>
    BY <1>3, FreeRuns, SupervisionAssumption DEF PlayerFails
  <2> QED BY <1>1, <1>2, <2>1 DEF Hows
<1>4. ASSUME NEW t \in Tasks, Cancelled(t) PROVE TrainingInv'
  <2>1. PICK how \in {"cancelled", "failed"}: Ends(t, how)
    BY <1>4 DEF Cancelled
  <2>2. t \in Running /\ UNCHANGED <<bounded, training>>
    BY <1>4 DEF Cancelled, TypeOK
  <2>3. status'[t] = how /\ \A u \in Tasks \ {t}: status'[u] = status[u]
    BY <1>2, <2>1, <2>2 DEF Hows
  <2> QED BY <1>1, <2>2, <2>3
<1>5. ASSUME LearnerFails PROVE TrainingInv'
  <2>1. Learner \in Running /\ Ends(Learner, "failed") /\ UNCHANGED <<bounded, training>>
    BY <1>5, FreeRuns DEF LearnerFails
  <2> QED BY <1>1, <1>2, <2>1 DEF Hows
<1>6. ASSUME StartUpdate PROVE TrainingInv'
  <2>1. /\ status[Learner] = "running" /\ learner = "collect"
        /\ thread' = [phase |-> "measure", left |-> Minibatches, steps |-> 0]
        /\ UNCHANGED <<bounded, status, weights, published, saved, whole>>
        /\ learner' = "update"
    BY <1>6, FreeRuns DEF StartUpdate, Running
  <2> QED BY <2>1 DEF TrainingInv, PublishedWhole
<1>7. ASSUME Measure PROVE TrainingInv'
  <2>1. /\ thread.phase = "measure" /\ thread.steps = 0
        /\ UNCHANGED <<bounded, status, learner, weights, published, saved>>
        /\ thread'.steps = thread.steps
    BY <1>7 DEF Measure, ThreadEnds, TrainingInv, TypeOK
  <2>2. \/ thread'.phase = "stale" /\ whole' = whole \cup {weights}
        \/ thread'.phase = "minibatch" /\ whole' = whole
    BY <1>7 DEF Measure, ThreadEnds, TypeOK
  <2> QED BY <2>1, <2>2 DEF TrainingInv, PublishedWhole
<1>8. ASSUME Minibatch PROVE TrainingInv'
  <2>1. /\ thread.phase = "minibatch"
        /\ UNCHANGED <<bounded, status, learner, published, saved>>
    BY <1>8 DEF Minibatch
  <2>2. CASE OptimizerStep
    <3>1. /\ thread'.phase = "minibatch" /\ thread'.steps = thread.steps + 1
          /\ weights' = weights + 1 /\ whole' = whole
      BY <2>1, <2>2 DEF OptimizerStep, TypeOK
    <3>2. published + (thread.steps + 1) = published + thread.steps + 1
      BY DEF TypeOK
    <3> QED BY <2>1, <3>1, <3>2 DEF TrainingInv, PublishedWhole
  <2>3. CASE ThreadEnds("done") /\ whole' = whole \cup {weights} /\ UNCHANGED weights
    <3>1. thread'.phase = "done" /\ thread'.steps = thread.steps
      BY <2>3 DEF ThreadEnds, TypeOK
    <3> QED BY <2>1, <2>3, <3>1 DEF TrainingInv, PublishedWhole
  <2>4. CASE ThreadEnds("raised") /\ UNCHANGED <<weights, whole>>
    <3>1. thread'.phase = "raised" /\ thread'.steps = thread.steps
      BY <2>4 DEF ThreadEnds, TypeOK
    <3> QED BY <2>1, <2>4, <3>1 DEF TrainingInv, PublishedWhole
  <2> QED BY <1>8, <2>2, <2>3, <2>4, Zenon DEF Minibatch
<1>9. ASSUME LearnerResumes PROVE TrainingInv'
  <2>1. /\ Learner \in Running /\ status[Learner] = "running" /\ learner' = "collect"
        /\ thread' = Idle /\ UNCHANGED <<bounded, weights, whole>>
        /\ published' = IF Publishes THEN weights ELSE published
    BY <1>9, FreeRuns DEF LearnerResumes, Running
  <2>2. thread'.phase = "idle" /\ thread'.steps = 0
    BY <2>1 DEF Idle
  <2>3. published' \in whole
    BY <2>1 DEF Publishes, TrainingInv, PublishedWhole
  <2>4. CASE UpdateRaises
    <3>1. Ends(Learner, "failed") /\ saved' = saved
      BY <2>4 DEF UpdateRaises
    <3>2. status'[Learner] = "failed"
      BY <1>2, <2>1, <3>1 DEF Hows
    <3> QED BY <2>1, <2>2, <2>3, <3>1, <3>2 DEF TrainingInv, PublishedWhole
  <2>5. CASE UpdateReturns
    <3>1. thread.phase \in {"stale", "done"} /\ weights \in whole /\ weights = published'
      BY <2>1, <2>5 DEF UpdateReturns, Publishes, TrainingInv, TypeOK
    <3>2. /\ saved' \in {saved, weights}
          /\ \/ Ends(Learner, "failed")
             \/ Ends(Learner, "returned") /\ bounded /\ saved' = weights
             \/ status' = status
      BY <2>5 DEF UpdateReturns
    <3>3. /\ status'[Learner] \in {"failed", "returned", "running"}
          /\ status'[Learner] = "returned" => bounded /\ saved' = weights
      BY <1>2, <2>1, <3>2 DEF Hows
    <3> QED BY <2>1, <2>2, <2>3, <3>1, <3>2, <3>3 DEF TrainingInv, PublishedWhole, TypeOK
  <2> QED BY <1>9, <2>4, <2>5 DEF LearnerResumes
<1>10. CASE UNCHANGED <<bounded, status, training>>
  BY <1>1, <1>10
<1>11. CASE GatherRaises \/ WaitReturns \/ Judge \/ InterruptOwner \/ OwnerEnds
  BY <1>10, <1>11, Zenon DEF GatherRaises, WaitReturns, Judge, InterruptOwner, OwnerEnds
<1>12. CASE UNCHANGED vars
  BY <1>10, <1>12 DEF vars
<1> QED BY <1>3, <1>4, <1>5, <1>6, <1>7, <1>8, <1>9, <1>11, <1>12, Zenon DEF Next

(* Where the owner is agrees with what has become of the tasks.            *)
LEMMA OwnerMoves ==
    TypeOK /\ EndedInv /\ TrainingInv /\ OwnerInv /\ [Next]_vars => OwnerInv'
<1> SUFFICES ASSUME TypeOK, EndedInv, TrainingInv, OwnerInv, [Next]_vars PROVE OwnerInv'
  OBVIOUS
<1> USE Names
<1>1. CASE UNCHANGED <<bounded, supervision, status>>
  BY <1>1 DEF supervision, OwnerInv, Over, Running
<1>2. ASSUME NEW t \in Running, NEW how \in Hows, Ends(t, how),
             UNCHANGED <<bounded, supervision>>
      PROVE  OwnerInv'
  <2>1. /\ Running' = Running \ {t}
        /\ \A u \in Tasks \ {t}: status'[u] = status[u]
    BY <1>2, EndsEffect DEF Hows
  <2>2. status[Learner] = "returned" => t # Learner
    BY DEF Running
  <2> QED BY <1>2, <2>1, <2>2 DEF OwnerInv, Over, supervision
<1>3. ASSUME NEW why, CancelAll(why), why # None, UNCHANGED <<bounded, status>>
      PROVE  OwnerInv'
  BY <1>3 DEF CancelAll, OwnerInv, Over
<1>4. ASSUME OwnerStep PROVE OwnerInv'
  <2>1. UNCHANGED <<bounded, status>>
    BY <1>4 DEF OwnerStep
  <2>2. ASSUME GatherRaises PROVE OwnerInv'
    BY <1>3, <2>1, <2>2, FirstEnded DEF GatherRaises
  <2>3. ASSUME WaitReturns PROVE OwnerInv'
    BY <2>1, <2>3 DEF WaitReturns, OwnerInv, Over
  <2>4. ASSUME Judge PROVE OwnerInv'
    <3>1. CASE \E t \in judged \cap Bad: CancelAll(t)
      BY <1>3, <2>1, <3>1 DEF Bad
    <3>2. CASE judged \cap Bad = {} /\ Learner \in judged /\ owner' = "drain"
      <4>1. status[Learner] = "returned"
        BY <3>2 DEF TypeOK, Running, Bad
      <4> QED BY <2>1, <2>4, <3>2, <4>1 DEF Judge, OwnerInv, Over
    <3> QED BY <2>4, <3>1, <3>2 DEF Judge
  <2>5. ASSUME InterruptOwner PROVE OwnerInv'
    <3>1. CASE CancelAll(Interrupt)
      BY <1>3, <2>1, <3>1
    <3>2. CASE owner = "watch" /\ UNCHANGED <<owner, reported>>
      BY <2>1, <3>2 DEF OwnerInv, Over
    <3>3. CASE owner \in {"settle", "drain"} /\ reported' = Interrupt /\ UNCHANGED owner
      BY <2>1, <3>3 DEF OwnerInv, Over
    <3> QED BY <2>5, <3>1, <3>2, <3>3 DEF InterruptOwner
  <2>6. ASSUME OwnerEnds PROVE OwnerInv'
    BY <2>1, <2>6 DEF OwnerEnds, Settled, Raised, OwnerInv, Over, Running
  <2> QED BY <1>4, <2>2, <2>3, <2>4, <2>5, <2>6, Zenon DEF OwnerStep
<1>5. CASE TaskStep
  <2>1. CASE UNCHANGED <<status, requested, ended>>
    BY <1>1, <1>5, <2>1 DEF TaskStep
  <2> QED BY <1>2, <1>5, <2>1, Zenon DEF TaskStep
<1>6. CASE UNCHANGED vars
  BY <1>1, <1>6 DEF vars
<1> QED BY <1>4, <1>5, <1>6, StepShape

(* What is reported is the exception of a task that failed of itself.      *)
LEMMA ReportStep ==
    TypeOK /\ EndedInv /\ TrainingInv /\ OwnerInv /\ ReportInv /\ [Next]_vars => ReportInv'
<1> SUFFICES ASSUME TypeOK, EndedInv, TrainingInv, OwnerInv, ReportInv, [Next]_vars,
                    interrupts' = 0
             PROVE  ReportInv'
  BY DEF ReportInv
<1> USE Names
<1>1. CASE UNCHANGED <<supervision, requested, ended>>
  BY <1>1 DEF supervision, ReportInv
<1>2. ASSUME NEW t \in Running, NEW how \in Hows, Ends(t, how), UNCHANGED supervision
      PROVE  ReportInv'
  <2>1. /\ requested' = requested \ {t} /\ Range(ended) \subseteq Range(ended')
        /\ \A e \in Range(ended'): e \in Range(ended) \/ e.asked = (t \in requested)
    BY <1>2, EndsEffect DEF Hows
  <2> HIDE DEF Range
  <2> QED BY <1>2, <2>1 DEF supervision, ReportInv
<1>3. ASSUME OwnerStep PROVE ReportInv'
  <2> HIDE DEF Range
  <2>1. ended' = ended
    BY <1>3 DEF OwnerStep
  <2>2. ASSUME NEW e \in Range(ended), interrupts = 0, owner \in {"watch", "judge"},
               CancelAll(e.task)
        PROVE  ReportInv'
    BY <2>1, <2>2 DEF CancelAll, ReportInv
  <2>3. ASSUME GatherRaises PROVE ReportInv'
    <3>1. interrupts = 0 /\ owner = "watch" /\ ~bounded
      BY <2>3 DEF GatherRaises
    <3>2. Bad = {} => ~Settled
      BY <3>1 DEF Settled, Running, Bad, TypeOK, TrainingInv
    <3>3. Bad # {} /\ CancelAll(ended[1].task)
      BY <2>3, <3>2 DEF GatherRaises
    <3> QED BY <2>2, <3>1, <3>3, FirstEnded
  <2>4. ASSUME WaitReturns PROVE ReportInv'
    BY <2>1, <2>4 DEF WaitReturns, ReportInv
  <2>5. ASSUME Judge PROVE ReportInv'
    <3>1. interrupts = 0 /\ owner = "judge"
      BY <2>5 DEF Judge
    <3>2. ASSUME NEW t \in Bad, CancelAll(t) PROVE ReportInv'
      BY <2>2, <3>1, <3>2 DEF EndedInv
    <3>3. CASE owner' = "drain" /\ UNCHANGED reported
      BY <3>1, <3>3 DEF OwnerInv, ReportInv
    <3> QED BY <2>5, <3>2, <3>3 DEF Judge
  <2>6. ASSUME InterruptOwner PROVE ReportInv'
    BY <2>6 DEF InterruptOwner, TypeOK
  <2>7. ASSUME OwnerEnds PROVE ReportInv'
    BY <2>1, <2>7 DEF OwnerEnds, Raised, OwnerInv, ReportInv
  <2> QED BY <1>3, <2>3, <2>4, <2>5, <2>6, <2>7, Zenon DEF OwnerStep
<1>4. CASE TaskStep
  BY <1>1, <1>2, <1>4, Zenon DEF TaskStep, supervision
<1>5. CASE UNCHANGED vars
  BY <1>1, <1>5 DEF vars
<1> QED BY <1>3, <1>4, <1>5, StepShape

-----------------------------------------------------------------------------
LEMMA Invariance == Spec => []IInv
<1>1. Init => IInv
  <2> SUFFICES ASSUME Init PROVE IInv
    OBVIOUS
  <2>1. TypeOK
    BY Names, SupervisionAssumption DEF Init, TypeOK, Idle, Phases, Running
  <2>2. EndedInv
    BY DEF Init, EndedInv, Bad
  <2>3. TrainingInv
    BY Names DEF Init, TrainingInv, PublishedWhole, Idle
  <2>4. OwnerInv
    BY DEF Init, OwnerInv, Over
  <2>5. ReportInv
    BY DEF Init, ReportInv, Range
  <2> QED BY <2>1, <2>2, <2>3, <2>4, <2>5 DEF IInv
<1>2. IInv /\ [Next]_vars => IInv'
  BY TypeStep, EndedStep, TrainingStep, OwnerMoves, ReportStep DEF IInv
<1> QED BY <1>1, <1>2, PTL DEF Spec

(* Types, and who may be asked to cancel.                                  *)
THEOREM TypeCorrect == Spec => []TypeOK
BY Invariance, PTL DEF IInv

(* No task outlives its owner, which ends normally only after a bounded    *)
(* run whose learner has saved the weights it publishes.                   *)
THEOREM NoOrphanLeft == Spec => []NoOrphan
<1>1. IInv => NoOrphan
  BY DEF IInv, OwnerInv, TrainingInv, NoOrphan, Over
<1> QED BY <1>1, Invariance, PTL

(* Unless main was cancelled, what it raises is the exception of a task    *)
(* that failed of itself.                                                  *)
THEOREM PrimaryIsReported == Spec => []PrimaryReported
<1>1. IInv => PrimaryReported
  BY DEF IInv, ReportInv, PrimaryReported
<1> QED BY <1>1, Invariance, PTL

(* What actors and checkpoints get is the outcome of whole updates.        *)
THEOREM WholeIsPublished == Spec => []PublishedWhole
<1>1. IInv => PublishedWhole
  BY DEF IInv, TrainingInv
<1> QED BY <1>1, Invariance, PTL
=============================================================================
