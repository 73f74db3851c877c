------------------------ MODULE RewardStream_proofs ------------------------
(***************************************************************************)
(* Theorems about RewardStream, for any number of lives, steps, reports,   *)
(* commands, messages, gaps and faults.  The invariant follows what the    *)
(* server reported along the channel to the actor: every message on its    *)
(* way is one that an actor that has read the ones before it accepts.      *)
(***************************************************************************)
EXTENDS RewardStream, SequenceTheorems, TLAPS

Controls ==
    [acceptedCount: Nat, accepted: Nat, appliedCount: Nat, applied: Nat, first: Nat \cup {None},
     supersededCount: Nat, source: {"none", "neutral", "held"}, selected: Nat \cup {None}]
Kinds == {"initial", "live"} \cup Closures
Intervals ==
    [kind: Kinds, life: Lives, sequence: Nat, previous: Nat \cup {None}, from: Nat, to: Nat,
     length: Nat, growth: Int, control: Controls]
Assignments == [kind: {"assign"}, life: Lives, reclaimed: BOOLEAN]
Servers ==
    [life: 0..MaxLives, alive: BOOLEAN, step: 0..MaxStep, length: Nat, waiting: BOOLEAN,
     control: Controls, sequence: 0..MaxReports, reportedStep: Nat, reportedLength: Nat]
Streams ==
    [life: 0..MaxLives, sequence: Nat \cup {None}, step: Nat \cup {None}, closed: BOOLEAN,
     length: Nat \cup {None}, control: Controls]
Actors ==
    [snake: 0..MaxLives, stream: Streams, rebase: BOOLEAN, observed: BOOLEAN, closed: BOOLEAN,
     integrity: BOOLEAN, last: Controls, counter: 0..MaxId, fatal: BOOLEAN]

TypeInv ==
    /\ server \in Servers /\ socket \in {"up", "down", "refused"}
    /\ chan \in Seq(Intervals \cup Assignments \cup {Replaced})
    /\ gaps \in 0..MaxGaps /\ faults \in 0..MaxFaults
    /\ actor \in Actors /\ paid \in Seq(1..MaxReports)

-----------------------------------------------------------------------------
(* What holds of the commands the server reports: none is ahead of the     *)
(* actor's counter, and the first step a command was selected at is known  *)
(* only of an applied one.                                                 *)
Sound(c) == c.accepted <= actor.counter /\ (c.applied = 0 => c.first = None)

Counted(c, waiting) ==
    /\ c.acceptedCount = c.appliedCount + c.supersededCount + (IF waiting THEN 1 ELSE 0)
    /\ waiting => c.applied < c.accepted

ServerInv ==
    /\ ControlOK(server.control, server.step) /\ Sound(server.control)
    /\ Counted(server.control, server.waiting)
    /\ server.reportedStep <= server.step /\ (server.alive => server.life >= 1)
    /\ Replaced \in Range(chan) => ~server.alive
    /\ socket # "up" => chan = <<>>

(* What holds of a message on its way, lost or repeated ones or not: an    *)
(* interval is one the server reported, and a life is given back only to   *)
(* an actor that rebases.                                                  *)
Reported(m) ==
    /\ Parses(m) /\ Sound(m.control)
    /\ m.sequence \in 1..MaxReports /\ (m.kind = "initial" <=> m.sequence = 1)
    /\ m.kind # "initial" => m.previous = m.sequence - 1
    /\ m.life <= server.life
    /\ m.life = server.life =>
         /\ m.sequence <= server.sequence /\ ControlProgress(m.control, server.control)
         /\ server.alive => m.kind \notin Closures
IsInterval(m) == m.kind \in Kinds
MessageInv ==
    \A i \in DOMAIN chan:
      /\ IsInterval(chan[i]) => Reported(chan[i])
      /\ chan[i].kind = "assign" =>
           /\ chan[i].life <= server.life
           /\ chan[i].reclaimed =>
                i = 1 /\ actor.rebase /\ chan[i].life = actor.snake

(* The stream is that of the actor's snake, or knows nothing yet.          *)
ActorInv ==
    LET t == actor.stream IN
    /\ actor.last = t.control /\ actor.closed = t.closed
    /\ t.life = 0 => t = NewStream
    /\ t.life # 0 => t.sequence >= 1 /\ t.length # None /\ t.step # None
    /\ actor.snake # 0 => t.life \in {0, actor.snake}
    /\ actor.snake <= server.life
    /\ actor.rebase => ~actor.integrity
    /\ socket # "up" /\ actor.snake # 0 => actor.rebase
    /\ server.alive /\ server.life = actor.snake =>
         ~t.closed /\ ControlProgress(t.control, server.control)

PaidInv ==
    /\ AdmittedOnce
    /\ \A j \in DOMAIN paid: paid[j] <= actor.stream.sequence
    /\ server.life = actor.snake => \A j \in DOMAIN paid: paid[j] <= server.sequence
    /\ actor.rebase => \A i \in DOMAIN chan: \A j \in DOMAIN paid:
         IsInterval(chan[i]) /\ chan[i].life = actor.snake => paid[j] < chan[i].sequence
    /\ actor.integrity =>
         paid = [i \in 1..(actor.stream.sequence - 1) |-> i + 1]

-----------------------------------------------------------------------------
(* What the actor will know before it reads the i-th message.              *)
View(snake, stream, rebase) == [snake |-> snake, stream |-> stream, rebase |-> rebase]
ActorView == View(actor.snake, actor.stream, actor.rebase)
After(m) ==
    IF m.kind = "replaced" THEN View(0, NewStream, FALSE)
    ELSE IF m.kind = "assign" THEN IF m.reclaimed THEN ActorView ELSE View(m.life, NewStream, FALSE)
    ELSE View(m.life, Committed(m), FALSE)
Before(i) == IF i = 1 THEN ActorView ELSE After(chan[i - 1])

(* A message goes through with an actor that knows v.                      *)
Takes(v, e) ==
    /\ ~v.stream.closed
    /\ IF ~v.rebase THEN Accepts(v.stream, v.snake, e)
       ELSE IF e.kind \in Closures THEN Discards(v.stream, v.snake, e)
       ELSE Rebases(v.stream, v.snake, e)
Expects(v, m) ==
    /\ IsInterval(m) => Takes(v, m)
    /\ m.kind = "assign" => m.reclaimed \/ v.snake = 0 \/ v.stream.closed

(* An actor that knows v knows what the server reported of its life.       *)
Synced(v) ==
    /\ server.alive =>
         /\ v.snake = server.life /\ ~v.stream.closed
         /\ ControlProgress(v.stream.control, server.control)
         /\ v.stream.life = 0 => v.stream = NewStream
         /\ v.stream.life \in {0, v.snake}
         /\ ~v.rebase =>
              IF v.stream.life = 0 THEN server.sequence = 0
              ELSE /\ server.sequence = v.stream.sequence /\ server.sequence # 0
                   /\ server.reportedStep = v.stream.step
                   /\ server.reportedLength = v.stream.length
    /\ ~server.alive /\ Replaced \notin Range(chan) => v.stream.closed

ChainInv ==
    faults = 0 =>
      /\ ~actor.fatal
      /\ \A i \in DOMAIN chan: Expects(Before(i), chan[i])
      /\ socket = "up" => \A i \in {Len(chan) + 1}: Synced(Before(i))

IInv == TypeInv /\ ServerInv /\ MessageInv /\ ActorInv /\ PaidInv /\ ChainInv

Messages == Intervals \cup Assignments \cup {Replaced}

-----------------------------------------------------------------------------
(* Types, field by field.                                                  *)

LEMMA ServerFields ==
    ASSUME NEW s \in Servers
    PROVE  /\ s.life \in Nat /\ s.life <= MaxLives /\ s.alive \in BOOLEAN
           /\ s.step \in Nat /\ s.step <= MaxStep /\ s.length \in Nat /\ s.waiting \in BOOLEAN
           /\ s.control \in Controls /\ s.sequence \in Nat /\ s.sequence <= MaxReports
           /\ s.reportedStep \in Nat /\ s.reportedLength \in Nat
BY StreamAssumption DEF Servers

LEMMA ControlFields ==
    ASSUME NEW c \in Controls
    PROVE  /\ c.acceptedCount \in Nat /\ c.accepted \in Nat /\ c.appliedCount \in Nat
           /\ c.applied \in Nat /\ c.first \in Int /\ c.supersededCount \in Nat
           /\ c.selected \in Int /\ c.selected >= None
           /\ c.source \in {"none", "neutral", "held"}
BY DEF Controls, None

LEMMA StreamFields ==
    ASSUME NEW t \in Streams
    PROVE  /\ t.life \in Nat /\ t.life <= MaxLives /\ t.sequence \in Int /\ t.sequence >= None
           /\ t.step \in Int /\ t.closed \in BOOLEAN /\ t.length \in Int /\ t.control \in Controls
BY StreamAssumption DEF Streams, None

LEMMA IntervalFields ==
    ASSUME NEW m \in Intervals
    PROVE  /\ m.life \in Nat /\ m.life >= 1 /\ m.life <= MaxLives
           /\ m.sequence \in Nat /\ m.previous \in Int /\ m.previous >= None
           /\ m.from \in Nat /\ m.to \in Nat
           /\ m.length \in Nat /\ m.growth \in Int /\ m.control \in Controls /\ m.kind \in Kinds
BY StreamAssumption DEF Intervals, Lives, None

LEMMA ActorFields ==
    ASSUME NEW a \in Actors
    PROVE  /\ a.snake \in Nat /\ a.snake <= MaxLives /\ a.stream \in Streams
           /\ a.rebase \in BOOLEAN /\ a.observed \in BOOLEAN /\ a.closed \in BOOLEAN
           /\ a.integrity \in BOOLEAN /\ a.last \in Controls /\ a.fatal \in BOOLEAN
           /\ a.counter \in Nat /\ a.counter <= MaxId
BY StreamAssumption DEF Actors

LEMMA PaidFields ==
    ASSUME NEW p \in Seq(1..MaxReports)
    PROVE  /\ DOMAIN p = 1..Len(p) /\ Len(p) \in Nat
           /\ \A j \in DOMAIN p: p[j] \in Nat /\ p[j] >= 1 /\ p[j] <= MaxReports
<1>1. DOMAIN p = 1..Len(p) /\ Len(p) \in Nat
  OBVIOUS
<1>2. \A j \in 1..Len(p): p[j] \in 1..MaxReports
  BY ElementOfSeq
<1> QED BY <1>1, <1>2, StreamAssumption

-----------------------------------------------------------------------------
(* Messages and controls.                                                  *)

(* The kind of a message says what it is.                                  *)
LEMMA MessageKinds ==
    ASSUME NEW m \in Messages
    PROVE  /\ m \in Intervals \/ m \in Assignments \/ m = Replaced
           /\ m \in Intervals <=> IsInterval(m)
           /\ m \in Intervals <=> m.kind \notin {"assign", "replaced"}
           /\ m \in Assignments <=> m.kind = "assign"
           /\ m = Replaced <=> m.kind = "replaced"
<1>1. CASE m \in Intervals
  BY <1>1 DEF Intervals, Assignments, Replaced, IsInterval, Kinds, Closures
<1>2. CASE m \in Assignments
  BY <1>2 DEF Intervals, Assignments, Replaced, IsInterval, Kinds, Closures
<1>3. CASE m = Replaced
  <2>1. m.kind = "replaced"
    BY <1>3 DEF Replaced
  <2> QED BY <1>3, <2>1 DEF Intervals, Assignments, IsInterval, Kinds, Closures
<1> QED BY <1>1, <1>2, <1>3 DEF Messages

LEMMA ProgressReflexive ==
    ASSUME NEW c \in Controls
    PROVE  ControlProgress(c, c)
BY DEF ControlProgress, MarkerProgress, Controls, None

(* A control that has moved on twice has moved on.                         *)
LEMMA ProgressTransitive ==
    ASSUME NEW a \in Controls, NEW b \in Controls, NEW c \in Controls,
           ControlProgress(a, b), ControlProgress(b, c)
    PROVE  ControlProgress(a, c)
<1>1. MarkerProgress(a.acceptedCount, c.acceptedCount, a.accepted, c.accepted,
                     a.accepted, c.accepted)
  BY DEF ControlProgress, MarkerProgress, Controls
<1>2. MarkerProgress(a.appliedCount, c.appliedCount, <<a.applied, a.first>>,
                     <<c.applied, c.first>>, a.applied, c.applied)
  <2>1. /\ b.appliedCount >= a.appliedCount /\ c.appliedCount >= b.appliedCount
        /\ b.appliedCount = a.appliedCount => b.applied = a.applied /\ b.first = a.first
        /\ c.appliedCount = b.appliedCount => c.applied = b.applied /\ c.first = b.first
        /\ b.appliedCount > a.appliedCount /\ a.applied # 0 => b.applied > a.applied
        /\ c.appliedCount > b.appliedCount /\ b.applied # 0 => c.applied > b.applied
    BY DEF ControlProgress, MarkerProgress
  <2>2. /\ c.appliedCount >= a.appliedCount
        /\ c.appliedCount = a.appliedCount => c.applied = a.applied /\ c.first = a.first
        /\ c.appliedCount > a.appliedCount /\ a.applied # 0 => c.applied > a.applied
    BY <2>1 DEF Controls
  <2> QED BY <2>2 DEF MarkerProgress
<1>3. /\ c.supersededCount >= a.supersededCount
      /\ c.selected >= a.selected
      /\ c.selected = a.selected => c.source = a.source
  BY DEF ControlProgress, Controls, None
<1>4. a.selected # None /\ c.appliedCount > a.appliedCount => c.first > a.selected
  <2>1. /\ b.appliedCount >= a.appliedCount /\ c.appliedCount >= b.appliedCount
        /\ c.appliedCount = b.appliedCount => c.first = b.first
        /\ b.selected >= a.selected
        /\ a.selected # None /\ b.appliedCount > a.appliedCount => b.first > a.selected
        /\ b.selected # None /\ c.appliedCount > b.appliedCount => c.first > b.selected
    BY DEF ControlProgress, MarkerProgress
  <2> QED BY <2>1 DEF Controls, None
<1> QED BY <1>1, <1>2, <1>3, <1>4 DEF ControlProgress

(* Any control is progress for an actor that knows none.                   *)
LEMMA ProgressFromNone ==
    ASSUME NEW c \in Controls, NEW n \in Nat, ControlOK(c, n), c.applied = 0 => c.first = None
    PROVE  NoControl \in Controls /\ ControlProgress(NoControl, c)
<1>1. NoControl \in Controls
  BY DEF NoControl, Controls, None
<1> DEFINE o == NoControl
<1>2. /\ o.acceptedCount = 0 /\ o.accepted = 0 /\ o.appliedCount = 0 /\ o.applied = 0
      /\ o.first = None /\ o.supersededCount = 0 /\ o.source = "none" /\ o.selected = None
  BY DEF NoControl
<1>3. /\ (c.accepted = 0) = (c.acceptedCount = 0) /\ (c.applied = 0) = (c.appliedCount = 0)
      /\ (c.source = "none") = (c.selected = None)
  BY DEF ControlOK
<1> HIDE DEF o
<1>4. ControlProgress(o, c)
  BY <1>2, <1>3 DEF ControlProgress, MarkerProgress, Controls, None
<1> QED BY <1>1, <1>4 DEF o

(* A control that an actor knows only by what it progressed to echoes      *)
(* commands that the actor issued.                                         *)
LEMMA ProgressEchoes ==
    ASSUME TypeInv, NEW c \in Controls, NEW n \in Nat, ControlOK(c, n), Sound(c),
           ControlProgress(actor.last, c)
    PROVE  Echoes(actor, c)
<1>1. actor.last \in Controls /\ actor.counter \in Nat
  BY DEF TypeInv, Actors
<1>2. /\ (c.accepted = 0) = (c.acceptedCount = 0) /\ (c.applied = 0) = (c.appliedCount = 0)
      /\ c.applied # 0 => c.accepted # 0 /\ c.applied <= c.accepted
      /\ c.accepted <= actor.counter
  BY DEF ControlOK, Sound
<1> DEFINE l == actor.last
<1>3. /\ c.acceptedCount >= l.acceptedCount /\ c.appliedCount >= l.appliedCount
      /\ c.acceptedCount = l.acceptedCount => c.accepted = l.accepted
      /\ c.acceptedCount > l.acceptedCount /\ l.accepted # 0 => c.accepted > l.accepted
      /\ c.appliedCount = l.appliedCount => c.applied = l.applied
      /\ c.appliedCount > l.appliedCount /\ l.applied # 0 => c.applied > l.applied
  BY DEF ControlProgress, MarkerProgress
<1>4. l \in Controls
  BY <1>1
<1> HIDE DEF l
<1>5. c.accepted \notin {0, l.accepted} => c.accepted \in (l.accepted + 1)..actor.counter
  BY <1>1, <1>2, <1>3, <1>4 DEF Controls
<1>6. c.applied \notin {0, l.applied} => c.applied \in (l.applied + 1)..actor.counter
  BY <1>1, <1>2, <1>3, <1>4 DEF Controls
<1> QED BY <1>5, <1>6 DEF Echoes, l

-----------------------------------------------------------------------------
(* The channel.                                                            *)

LEMMA AppendIs ==
    ASSUME NEW S, NEW s \in Seq(S), NEW e \in S
    PROVE  /\ Append(s, e) \in Seq(S)
           /\ Len(Append(s, e)) = Len(s) + 1
           /\ DOMAIN Append(s, e) = 1..(Len(s) + 1)
           /\ \A i \in 1..Len(s): Append(s, e)[i] = s[i]
           /\ Append(s, e)[Len(s) + 1] = e
<1>1. Append(s, e) \in Seq(S) /\ Len(Append(s, e)) = Len(s) + 1
  OBVIOUS
<1>2. DOMAIN Append(s, e) = 1..Len(Append(s, e))
  BY <1>1
<1> QED BY <1>1, <1>2

LEMMA TailIs ==
    ASSUME NEW S, NEW s \in Seq(S), s # <<>>
    PROVE  /\ Tail(s) \in Seq(S) /\ Head(s) = s[1] /\ s[1] \in S
           /\ Len(s) \in Nat /\ Len(s) >= 1 /\ DOMAIN s = 1..Len(s)
           /\ Len(Tail(s)) = Len(s) - 1 /\ DOMAIN Tail(s) = 1..(Len(s) - 1)
           /\ \A i \in 1..(Len(s) - 1): Tail(s)[i] = s[i + 1]
<1>1. Tail(s) \in Seq(S) /\ Len(Tail(s)) = Len(s) - 1 /\ Head(s) = s[1]
  BY HeadTailProperties, EmptySeq
<1>2. DOMAIN Tail(s) = 1..Len(Tail(s)) /\ DOMAIN s = 1..Len(s) /\ Len(s) \in Nat
  BY <1>1
<1>3. Len(s) # 0
  BY EmptySeq
<1> QED BY <1>1, <1>2, <1>3

(* What the messages are.                                                  *)
LEMMA Members ==
    ASSUME TypeInv
    PROVE  /\ chan \in Seq(Messages) /\ Len(chan) \in Nat /\ DOMAIN chan = 1..Len(chan)
           /\ \A i \in 1..Len(chan): chan[i] \in Messages
<1>1. chan \in Seq(Messages)
  BY DEF TypeInv, Messages
<1> QED BY <1>1

(* A life is given back by the first message only.                         *)
LEMMA ReclaimsFirst ==
    ASSUME TypeInv, MessageInv, NEW i \in 1..Len(chan), i # 1, chan[i].kind = "assign"
    PROVE  ~chan[i].reclaimed
BY Members DEF MessageInv

(* The messages that follow the one just read stay as they were.           *)
LEMMA ReadMessages ==
    ASSUME TypeInv, MessageInv, chan # <<>>, chan' = Tail(chan), UNCHANGED server,
           actor'.counter = actor.counter
    PROVE  /\ MessageInv'
           /\ \A i \in DOMAIN chan': i + 1 \in DOMAIN chan /\ chan'[i] = chan[i + 1]
<1>1. /\ DOMAIN chan = 1..Len(chan) /\ DOMAIN chan' = 1..(Len(chan) - 1) /\ Len(chan) \in Nat
      /\ \A i \in 1..(Len(chan) - 1): chan'[i] = chan[i + 1]
  BY Members, TailIs
<1>2. \A i \in DOMAIN chan': i + 1 \in DOMAIN chan /\ chan'[i] = chan[i + 1] /\ i + 1 # 1
  BY <1>1
<1>3. ASSUME NEW m, Reported(m) PROVE Reported(m)'
  BY <1>3 DEF Reported, Sound
<1>4. ASSUME NEW i \in DOMAIN chan'
      PROVE  /\ IsInterval(chan'[i]) => Reported(chan[i])'
             /\ chan'[i].kind = "assign" => chan'[i].life <= server.life /\ ~chan'[i].reclaimed
  <2>1. PICK m: m = chan[i + 1]
    OBVIOUS
  <2>2. IsInterval(m) => Reported(m)
    BY <1>2, <2>1 DEF MessageInv
  <2>3. m.kind = "assign" => m.life <= server.life /\ ~m.reclaimed
    BY <1>1, <1>2, <2>1, ReclaimsFirst DEF MessageInv
  <2>4. chan'[i] = m
    BY <1>2, <2>1
  <2>5. IsInterval(m) => Reported(m)'
    BY <1>3, <2>2
  <2> QED BY <2>3, <2>4, <2>5
<1>5. MessageInv'
  BY <1>4 DEF MessageInv
<1> QED BY <1>2, <1>5

(* Reading a message takes the actor one place further along the chain.    *)
LEMMA ReadChain ==
    ASSUME TypeInv, MessageInv, ChainInv, chan # <<>>, chan' = Tail(chan),
           Head(chan) # Replaced, ActorView' = Before(2), faults = 0 => ~actor'.fatal,
           UNCHANGED <<server, socket, faults>>
    PROVE  ChainInv'
<1> SUFFICES ASSUME faults = 0 PROVE ChainInv'
  BY DEF ChainInv
<1>1. /\ DOMAIN chan = 1..Len(chan) /\ DOMAIN chan' = 1..(Len(chan) - 1) /\ Len(chan') = Len(chan) - 1
      /\ \A i \in 1..(Len(chan) - 1): chan'[i] = chan[i + 1]
      /\ Len(chan) \in Nat /\ Len(chan) >= 1 /\ Head(chan) = chan[1]
      /\ \A i \in 1..Len(chan): chan[i] \in Messages
  BY Members, TailIs
<1>2. ASSUME NEW i \in 1..Len(chan) PROVE Before(i)' = Before(i + 1)
  <2>1. CASE i = 1
    BY <2>1 DEF Before
  <2>2. CASE i # 1
    <3>1. i - 1 \in 1..(Len(chan) - 1) /\ (i - 1) + 1 = i
      BY <1>1, <2>2
    <3>2. PICK m: m = chan[i]
      OBVIOUS
    <3>3. chan'[i - 1] = m
      BY <1>1, <3>1, <3>2
    <3>4. m.kind = "assign" => ~m.reclaimed
      BY <2>2, <3>2, ReclaimsFirst
    <3>5. After(m)' = After(m)
      BY <3>4 DEF After
    <3>6. Before(i)' = After(m)'
      BY <2>2, <3>3 DEF Before
    <3>7. Before(i + 1) = After(m)
      BY <1>1, <3>2 DEF Before
    <3> QED BY <3>5, <3>6, <3>7
  <2> QED BY <2>1, <2>2
<1>3. \A i \in DOMAIN chan': Expects(Before(i), chan[i])'
  <2> TAKE i \in DOMAIN chan'
  <2>1. i \in 1..Len(chan) /\ i + 1 \in DOMAIN chan /\ chan'[i] = chan[i + 1]
    BY <1>1
  <2>2. Expects(Before(i + 1), chan[i + 1])
    BY <2>1 DEF ChainInv
  <2>3. Before(i)' = Before(i + 1)
    BY <1>2, <2>1
  <2> QED BY <2>1, <2>2, <2>3
<1>4. ASSUME socket = "up", NEW i \in {Len(chan) + 1}' PROVE Synced(Before(i))'
  <2>1. i = Len(chan) /\ i \in 1..Len(chan) /\ Before(i)' = Before(i + 1)
    BY <1>1, <1>2
  <2>2. PICK v: v = Before(i + 1)
    OBVIOUS
  <2>3. Synced(v)
    BY <1>4, <2>1, <2>2 DEF ChainInv
  <2>4. Replaced \notin Range(chan') => Replaced \notin Range(chan)
    <3> SUFFICES ASSUME Replaced \notin Range(chan'), NEW j \in 1..Len(chan)
                 PROVE  chan[j] # Replaced
      BY <1>1 DEF Range
    <3>1. CASE j = 1
      BY <1>1, <3>1
    <3>2. CASE j # 1
      <4>1. j - 1 \in DOMAIN chan' /\ (j - 1) + 1 = j
        BY <1>1, <3>2
      <4>2. chan'[j - 1] # Replaced
        BY <4>1 DEF Range
      <4> QED BY <1>1, <4>1, <4>2
    <3> QED BY <3>1, <3>2
  <2>5. Synced(v)'
    BY <2>3, <2>4 DEF Synced
  <2> QED BY <2>1, <2>2, <2>5
<1> QED BY <1>3, <1>4 DEF ChainInv

-----------------------------------------------------------------------------
(* Steps that leave what the actor knows as it is.                         *)

(* The server reports more of its life, or has begun another one.          *)
ServerGrows ==
    /\ server.life <= server'.life
    /\ server.life = server'.life =>
         /\ server.sequence <= server'.sequence
         /\ ControlProgress(server.control, server'.control)
         /\ server'.alive => server.alive

ActorKnows ==
    /\ actor'.snake = actor.snake /\ actor'.stream = actor.stream
    /\ actor'.rebase = actor.rebase /\ actor'.closed = actor.closed
    /\ actor'.integrity = actor.integrity /\ actor'.last = actor.last
    /\ actor'.counter >= actor.counter

LEMMA StillReported ==
    ASSUME TypeInv, TypeInv', ServerGrows, actor'.counter >= actor.counter,
           NEW m \in Intervals, Reported(m)
    PROVE  Reported(m)'
<1>1. /\ m.life \in Nat /\ server.life \in Nat /\ server'.life \in Nat /\ m.control \in Controls
      /\ server.control \in Controls /\ server'.control \in Controls
      /\ m.sequence \in Nat /\ server.sequence \in Nat /\ server'.sequence \in Nat
      /\ actor.counter \in Nat /\ actor'.counter \in Nat
  <2>1. server \in Servers /\ server' \in Servers /\ actor \in Actors /\ actor' \in Actors
    BY DEF TypeInv
  <2> QED BY <2>1, ServerFields, ActorFields, IntervalFields
<1>2. Sound(m.control)'
  BY <1>1 DEF Sound, Reported, Controls
<1>3. m.life <= server'.life
  BY <1>1 DEF Reported, ServerGrows
<1>4. ASSUME m.life = server'.life
      PROVE  /\ m.sequence <= server'.sequence /\ ControlProgress(m.control, server'.control)
             /\ server'.alive => m.kind \notin Closures
  <2>1. m.life = server.life /\ server.life = server'.life
    BY <1>1, <1>4 DEF Reported, ServerGrows
  <2>2. /\ ControlProgress(server.control, server'.control) /\ server.sequence <= server'.sequence
        /\ server'.alive => server.alive
    BY <2>1 DEF ServerGrows
  <2>3. /\ m.sequence <= server.sequence /\ ControlProgress(m.control, server.control)
        /\ server.alive => m.kind \notin Closures
    BY <2>1 DEF Reported
  <2>4. ControlProgress(m.control, server'.control)
    BY <1>1, <2>2, <2>3, ProgressTransitive
  <2> QED BY <1>1, <2>2, <2>3, <2>4
<1> QED BY <1>2, <1>3, <1>4 DEF Reported

LEMMA ActorKept ==
    ASSUME TypeInv, TypeInv', ActorInv, ServerGrows, ActorKnows,
           socket' # "up" /\ actor.snake # 0 => actor.rebase
    PROVE  ActorInv'
<1>1. /\ server.life \in Nat /\ server'.life \in Nat /\ actor.snake \in Nat
      /\ actor.stream.control \in Controls
      /\ server.control \in Controls /\ server'.control \in Controls
  <2>1. server \in Servers /\ server' \in Servers /\ actor \in Actors
    BY DEF TypeInv
  <2> QED BY <2>1, ServerFields, ActorFields, StreamFields
<1>2. ASSUME server'.alive, server'.life = actor.snake
      PROVE  ~actor.stream.closed /\ ControlProgress(actor.stream.control, server'.control)
  <2>1. server.life = server'.life
    BY <1>1, <1>2 DEF ActorInv, ServerGrows
  <2>2. /\ server.alive /\ ~actor.stream.closed
        /\ ControlProgress(actor.stream.control, server.control)
        /\ ControlProgress(server.control, server'.control)
    BY <1>2, <2>1 DEF ServerGrows, ActorInv
  <2> QED BY <1>1, <2>2, ProgressTransitive
<1>3. actor.snake <= server'.life
  BY <1>1 DEF ActorInv, ServerGrows
<1> QED BY <1>2, <1>3 DEF ActorInv, ActorKnows

LEMMA PaidKept ==
    ASSUME TypeInv, TypeInv', ActorInv, PaidInv, ServerGrows, ActorKnows, UNCHANGED paid,
           \A i \in DOMAIN chan': IsInterval(chan'[i]) =>
             \/ \E k \in DOMAIN chan: chan[k] = chan'[i]
             \/ chan'[i].life = server.life /\ chan'[i].sequence > server.sequence
    PROVE  PaidInv'
<1>1. /\ server.life \in Nat /\ server'.life \in Nat /\ actor.snake \in Nat
      /\ server.sequence \in Nat /\ server'.sequence \in Nat
      /\ \A j \in DOMAIN paid: paid[j] \in Nat
  <2>1. /\ server \in Servers /\ server' \in Servers /\ actor \in Actors
        /\ paid \in Seq(1..MaxReports)
    BY DEF TypeInv
  <2> QED BY <2>1, ServerFields, ActorFields, PaidFields
<1>2. ASSUME server'.life = actor.snake, NEW j \in DOMAIN paid PROVE paid[j] <= server'.sequence
  <2>1. server.life = server'.life
    BY <1>1, <1>2 DEF ActorInv, ServerGrows
  <2>2. server.sequence <= server'.sequence /\ paid[j] <= server.sequence
    BY <1>2, <2>1 DEF ServerGrows, PaidInv
  <2> QED BY <1>1, <2>2
<1>3. ASSUME actor.rebase, NEW i \in DOMAIN chan', NEW j \in DOMAIN paid, IsInterval(chan'[i]),
             chan'[i].life = actor.snake
      PROVE  paid[j] < chan'[i].sequence
  <2>1. CASE \E k \in DOMAIN chan: chan[k] = chan'[i]
    <3>1. PICK k \in DOMAIN chan: chan[k] = chan'[i]
      BY <2>1
    <3>2. PICK m: m = chan'[i]
      OBVIOUS
    <3>3. IsInterval(chan[k]) /\ chan[k].life = actor.snake
      BY <1>3, <3>1
    <3> QED BY <1>3, <3>1, <3>3 DEF PaidInv
  <2>2. CASE chan'[i].life = server.life /\ chan'[i].sequence > server.sequence
    <3>1. paid[j] <= server.sequence
      BY <1>3, <2>2 DEF PaidInv
    <3>2. chan'[i] \in Intervals
      <4>1. chan'[i] \in Messages
        BY DEF TypeInv, Messages
      <4> QED BY <1>3, <4>1, MessageKinds
    <3>3. chan'[i].sequence \in Nat
      BY <3>2 DEF Intervals
    <3> QED BY <1>1, <2>2, <3>1, <3>3
  <2> QED BY <1>3, <2>1, <2>2
<1>4. AdmittedOnce'
  BY DEF PaidInv, AdmittedOnce
<1> QED BY <1>2, <1>3, <1>4 DEF PaidInv, ActorKnows

(* A message joins those on their way.                                     *)
LEMMA AddMessage ==
    ASSUME TypeInv, TypeInv', MessageInv, ServerGrows, ActorKnows,
           NEW m \in Messages, chan' = Append(chan, m),
           IsInterval(m) => Reported(m)',
           m.kind = "assign" => m.life <= server'.life /\ ~m.reclaimed
    PROVE  MessageInv'
<1>1. /\ chan \in Seq(Messages) /\ DOMAIN chan = 1..Len(chan) /\ Len(chan) \in Nat
      /\ DOMAIN chan' = 1..(Len(chan) + 1) /\ chan'[Len(chan) + 1] = m
      /\ \A i \in 1..Len(chan): chan'[i] = chan[i] /\ chan[i] \in Messages
  BY Members, AppendIs
<1> SUFFICES ASSUME NEW i \in DOMAIN chan'
             PROVE  /\ IsInterval(chan'[i]) => Reported(chan[i])'
                    /\ chan'[i].kind = "assign" =>
                         /\ chan'[i].life <= server'.life
                         /\ chan'[i].reclaimed =>
                              i = 1 /\ actor'.rebase /\ chan'[i].life = actor'.snake
  BY DEF MessageInv
<1>2. CASE i = Len(chan) + 1
  BY <1>1, <1>2
<1>3. CASE i \in 1..Len(chan)
  <2>1. PICK n \in Messages: n = chan[i] /\ n = chan'[i]
    BY <1>1, <1>3
  <2>2. IsInterval(n) => Reported(n)'
    BY <1>1, <1>3, <2>1, MessageKinds, StillReported DEF MessageInv, ActorKnows
  <2>3. n.kind = "assign" =>
          n.life <= server'.life /\ (n.reclaimed => i = 1 /\ actor.rebase /\ n.life = actor.snake)
    <3>1. n.kind = "assign" =>
            n.life <= server.life /\ (n.reclaimed => i = 1 /\ actor.rebase /\ n.life = actor.snake)
      BY <1>1, <1>3, <2>1 DEF MessageInv
    <3>2. n.kind = "assign" => n.life \in Nat
      BY MessageKinds DEF Assignments, Lives
    <3>3. server.life \in Nat /\ server'.life \in Nat /\ server.life <= server'.life
      BY ServerFields DEF TypeInv, ServerGrows
    <3> QED BY <3>1, <3>2, <3>3
  <2> QED BY <2>1, <2>2, <2>3 DEF ActorKnows
<1> QED BY <1>1, <1>2, <1>3

LEMMA SameMessages ==
    ASSUME TypeInv, TypeInv', MessageInv, ServerGrows, ActorKnows, UNCHANGED chan
    PROVE  MessageInv'
<1> SUFFICES ASSUME NEW i \in DOMAIN chan
             PROVE  /\ IsInterval(chan[i]) => Reported(chan[i])'
                    /\ chan[i].kind = "assign" =>
                         /\ chan[i].life <= server'.life
                         /\ chan[i].reclaimed =>
                              i = 1 /\ actor'.rebase /\ chan[i].life = actor'.snake
  BY DEF MessageInv
<1>1. PICK n \in Messages: n = chan[i] /\ n = chan'[i]
  BY Members
<1>2. IsInterval(n) => Reported(n)'
  BY <1>1, MessageKinds, StillReported DEF MessageInv, ActorKnows
<1>3. n.kind = "assign" =>
        n.life <= server.life /\ (n.reclaimed => i = 1 /\ actor.rebase /\ n.life = actor.snake)
  BY <1>1 DEF MessageInv
<1>4. n.kind = "assign" => n.life \in Nat
  BY MessageKinds DEF Assignments, Lives
<1>5. server.life \in Nat /\ server'.life \in Nat /\ server.life <= server'.life
  BY ServerFields DEF TypeInv, ServerGrows
<1> QED BY <1>1, <1>2, <1>3, <1>4, <1>5 DEF ActorKnows

(* The chain grows by a message that the actor will expect.                *)
LEMMA AddChain ==
    ASSUME TypeInv, MessageInv, ChainInv, ActorKnows, actor'.fatal = actor.fatal,
           UNCHANGED faults, socket = "up", NEW m \in Messages, chan' = Append(chan, m),
           faults = 0 => \A v: Synced(v) => Expects(v, m),
           faults = 0 => Synced(After(m))'
    PROVE  ChainInv'
<1> SUFFICES ASSUME faults = 0 PROVE ChainInv'
  BY DEF ChainInv
<1>1. /\ DOMAIN chan' = 1..(Len(chan) + 1) /\ chan'[Len(chan) + 1] = m
      /\ DOMAIN chan = 1..Len(chan) /\ Len(chan) \in Nat /\ Len(chan') = Len(chan) + 1
      /\ \A i \in 1..Len(chan): chan'[i] = chan[i]
  BY Members, AppendIs
<1>2. \A n: After(n)' = After(n)
  BY DEF After, ActorView, ActorKnows
<1>3. ASSUME NEW i \in 1..(Len(chan) + 1) PROVE Before(i)' = Before(i)
  <2>1. CASE i = 1
    BY <2>1 DEF Before, ActorView, ActorKnows
  <2>2. CASE i # 1
    <3>1. PICK n: n = chan[i - 1]
      OBVIOUS
    <3>2. chan'[i - 1] = n
      BY <1>1, <2>2, <3>1
    <3>3. Before(i)' = After(n)' /\ Before(i) = After(n)
      BY <2>2, <3>1, <3>2 DEF Before
    <3> QED BY <1>2, <3>3
  <2> QED BY <2>1, <2>2
<1>4. \A i \in DOMAIN chan': Expects(Before(i), chan[i])'
  <2> TAKE i \in DOMAIN chan'
  <2>1. Before(i)' = Before(i)
    BY <1>1, <1>3
  <2>2. CASE i \in 1..Len(chan)
    BY <1>1, <2>1, <2>2 DEF ChainInv
  <2>3. CASE i = Len(chan) + 1
    <3>1. Synced(Before(i))
      BY <2>3 DEF ChainInv
    <3> QED BY <1>1, <2>1, <2>3, <3>1
  <2> QED BY <1>1, <2>2, <2>3
<1>5. ASSUME NEW i \in {Len(chan) + 1}' PROVE Synced(Before(i))'
  <2>1. i = Len(chan) + 2
    BY <1>1
  <2>2. Before(i)' = After(m)'
    BY <1>1, <2>1 DEF Before
  <2> QED BY <2>2
<1>6. ~actor'.fatal
  BY DEF ChainInv
<1> QED BY <1>4, <1>5, <1>6 DEF ChainInv

(* The only message on its way is the one just sent.                       *)
LEMMA FirstChain ==
    ASSUME ChainInv, ActorKnows, actor'.fatal = actor.fatal, UNCHANGED faults,
           NEW m, chan' = <<m>>,
           faults = 0 => Expects(ActorView, m) /\ Synced(After(m))'
    PROVE  ChainInv'
<1> SUFFICES ASSUME faults = 0 PROVE ChainInv'
  BY DEF ChainInv
<1>1. DOMAIN chan' = {1} /\ chan'[1] = m /\ Len(chan') = 1
  OBVIOUS
<1>2. ActorView' = ActorView
  BY DEF ActorView, ActorKnows
<1>3. ASSUME NEW i \in DOMAIN chan' PROVE Expects(Before(i), chan[i])'
  BY <1>1, <1>2 DEF Before
<1>4. ASSUME NEW i \in {Len(chan) + 1}' PROVE Synced(Before(i))'
  <2>1. i = 2
    BY <1>1
  <2>2. Before(i)' = After(m)'
    BY <1>1, <2>1 DEF Before
  <2> QED BY <2>2
<1>5. ~actor'.fatal
  BY DEF ChainInv
<1> QED BY <1>3, <1>4, <1>5 DEF ChainInv

(* The server's control moves on.                                          *)
LEMMA SameChain ==
    ASSUME TypeInv, TypeInv', ActorInv, MessageInv, ChainInv, ActorKnows,
           actor'.fatal = actor.fatal, UNCHANGED <<faults, socket, chan>>,
           server'.life = server.life, server'.alive = server.alive,
           server'.sequence = server.sequence, server'.reportedStep = server.reportedStep,
           server'.reportedLength = server.reportedLength,
           ControlProgress(server.control, server'.control)
    PROVE  ChainInv'
<1> SUFFICES ASSUME faults = 0 PROVE ChainInv'
  BY DEF ChainInv
<1>1. \A n: After(n)' = After(n)
  BY DEF After, ActorView, ActorKnows
<1>2. ASSUME NEW i PROVE Before(i)' = Before(i)
  BY <1>1 DEF Before, ActorView, ActorKnows
<1>3. \A i \in DOMAIN chan': Expects(Before(i), chan[i])'
  BY <1>2 DEF ChainInv
<1>4. ASSUME socket = "up", NEW i \in {Len(chan) + 1}' PROVE Synced(Before(i))'
  <2>1. i = Len(chan) + 1 /\ Before(i)' = Before(i)
    BY <1>2
  <2>2. PICK v: v = Before(i)
    OBVIOUS
  <2>3. Synced(v)
    BY <1>4, <2>1, <2>2 DEF ChainInv
  <2>4. v.stream.control \in Controls
    <3>1. ActorView.stream.control \in Controls /\ NoControl \in Controls
      BY DEF TypeInv, Actors, Streams, ActorView, View, NoControl, Controls, None
    <3>2. ASSUME NEW m \in Messages PROVE After(m).stream.control \in Controls
      <4>1. CASE m.kind \in {"assign", "replaced"}
        BY <3>1, <4>1 DEF After, View, NewStream
      <4>2. CASE m.kind \notin {"assign", "replaced"}
        <5>1. m.control \in Controls
          BY <4>2, MessageKinds DEF Intervals
        <5> QED BY <4>2, <5>1 DEF After, View, Committed
      <4> QED BY <4>1, <4>2
    <3> QED BY <2>1, <2>2, <3>1, <3>2, Members DEF Before
  <2>5. server.control \in Controls /\ server'.control \in Controls
    BY ServerFields DEF TypeInv
  <2>6. server.alive => ControlProgress(v.stream.control, server'.control)
    BY <2>3, <2>4, <2>5, ProgressTransitive DEF Synced
  <2>7. Synced(v)'
    BY <2>3, <2>6 DEF Synced
  <2> QED BY <2>1, <2>2, <2>7
<1>5. ~actor'.fatal
  BY DEF ChainInv
<1> QED BY <1>3, <1>4, <1>5 DEF ChainInv

-----------------------------------------------------------------------------
(* The server's control.                                                   *)

LEMMA PendingOne ==
    ASSUME NEW c \in Controls, Counted(c, TRUE)
    PROVE  CountsConserve(c)
<1>1. c.acceptedCount = c.appliedCount + c.supersededCount + 1 /\ c.applied < c.accepted
  BY DEF Counted
<1>2. c.accepted # 0 /\ c.applied # c.accepted
  BY <1>1, ControlFields
<1>3. c.acceptedCount - c.appliedCount - c.supersededCount = 1
  BY <1>1, ControlFields
<1> QED BY <1>2, <1>3 DEF CountsConserve

LEMMA PendingNone ==
    ASSUME NEW c \in Controls, Counted(c, FALSE),
           c.accepted # 0 /\ c.applied # c.accepted => c.supersededCount # 0
    PROVE  CountsConserve(c)
<1>1. c.acceptedCount = c.appliedCount + c.supersededCount
  BY ControlFields DEF Counted
<1>2. c.acceptedCount - c.appliedCount - c.supersededCount = 0
  BY <1>1, ControlFields
<1> QED BY <1>2 DEF CountsConserve

LEMMA LaterControl ==
    ASSUME NEW c \in Controls, NEW now \in Nat, ControlOK(c, now)
    PROVE  ControlOK(c, now + 1)
BY ControlFields DEF ControlOK

(* A command reaches the simulation, superseding one that waits.           *)
Accepted(c, superseded, n) ==
    [c EXCEPT !.acceptedCount = @ + 1, !.accepted = n + 1, !.supersededCount = superseded]

LEMMA AcceptedControl ==
    ASSUME NEW c \in Controls, NEW n \in Nat, NEW now \in Nat, ControlOK(c, now), c.accepted <= n,
           NEW superseded \in Nat, superseded >= c.supersededCount,
           c.acceptedCount = c.appliedCount + superseded,
           NEW d, d = Accepted(c, superseded, n)
    PROVE  /\ d \in Controls /\ ControlOK(d, now) /\ Counted(d, TRUE) /\ ControlProgress(c, d)
           /\ d.accepted = n + 1 /\ d.applied = c.applied /\ d.first = c.first
<1>1. /\ d \in Controls /\ d.acceptedCount = c.acceptedCount + 1 /\ d.accepted = n + 1
      /\ d.supersededCount = superseded
      /\ d.appliedCount = c.appliedCount /\ d.applied = c.applied /\ d.first = c.first
      /\ d.source = c.source /\ d.selected = c.selected
  <2>1. PICK count, last: count = c.acceptedCount + 1 /\ last = n + 1
    OBVIOUS
  <2>2. count \in Nat /\ last \in Nat
    BY <2>1, ControlFields
  <2>3. d = [c EXCEPT !.acceptedCount = count, !.accepted = last,
                      !.supersededCount = superseded]
    BY <2>1 DEF Accepted
  <2>4. /\ d \in Controls /\ d.acceptedCount = count /\ d.accepted = last
        /\ d.supersededCount = superseded
        /\ d.appliedCount = c.appliedCount /\ d.applied = c.applied /\ d.first = c.first
        /\ d.source = c.source /\ d.selected = c.selected
    BY <2>2, <2>3 DEF Controls
  <2> QED BY <2>1, <2>4
<1>2. /\ (c.source = "none") = (c.selected = None) /\ c.selected < now
      /\ (c.applied = 0) = (c.appliedCount = 0)
      /\ c.applied # 0 => c.selected # None /\ c.first <= c.selected
      /\ c.source = "held" => c.applied # 0
      /\ c.applied # 0 => c.applied <= c.accepted
  BY DEF ControlOK
<1>3. Counted(d, TRUE)
  BY <1>1, <1>2, ControlFields DEF Counted
<1>4. CountsConserve(d)
  BY <1>1, <1>3, PendingOne
<1>5. ControlOK(d, now)
  BY <1>1, <1>2, <1>4, ControlFields DEF ControlOK
<1>6. ControlProgress(c, d)
  BY <1>1, <1>2, ControlFields DEF ControlProgress, MarkerProgress
<1> QED BY <1>1, <1>3, <1>5, <1>6

(* A reclaim retires the command that waits.                               *)
Retired(c, superseded) == [c EXCEPT !.supersededCount = superseded]

LEMMA RetiredControl ==
    ASSUME NEW c \in Controls, NEW now \in Nat, ControlOK(c, now),
           NEW superseded \in Nat, superseded >= c.supersededCount,
           c.acceptedCount = c.appliedCount + superseded,
           NEW d, d = Retired(c, superseded)
    PROVE  /\ d \in Controls /\ ControlOK(d, now) /\ Counted(d, FALSE) /\ ControlProgress(c, d)
           /\ d.accepted = c.accepted /\ d.applied = c.applied /\ d.first = c.first
<1>1. /\ d \in Controls /\ d.acceptedCount = c.acceptedCount /\ d.accepted = c.accepted
      /\ d.supersededCount = superseded
      /\ d.appliedCount = c.appliedCount /\ d.applied = c.applied /\ d.first = c.first
      /\ d.source = c.source /\ d.selected = c.selected
  BY DEF Controls, Retired
<1>2. /\ (c.source = "none") = (c.selected = None) /\ c.selected < now
      /\ (c.accepted = 0) = (c.acceptedCount = 0)
      /\ (c.applied = 0) = (c.appliedCount = 0)
      /\ c.applied # 0 => c.selected # None /\ c.first <= c.selected
      /\ c.source = "held" => c.applied # 0
      /\ c.applied # 0 => c.accepted # 0 /\ c.applied <= c.accepted
      /\ CountsConserve(c)
  BY DEF ControlOK
<1>3. Counted(d, FALSE)
  BY <1>1, ControlFields DEF Counted
<1>4. c.accepted # 0 /\ c.applied # c.accepted => superseded # 0
  BY <1>2, ControlFields DEF CountsConserve
<1>5. CountsConserve(d)
  BY <1>1, <1>3, <1>4, PendingNone
<1>6. ControlOK(d, now)
  BY <1>1, <1>2, <1>5 DEF ControlOK
<1>7. ControlProgress(c, d)
  BY <1>1, <1>2, ControlFields DEF ControlProgress, MarkerProgress
<1> QED BY <1>1, <1>3, <1>6, <1>7

(* A step is taken under a neutral command or the one held.                *)
LEMMA SelectedControl ==
    ASSUME NEW c \in Controls, NEW waiting \in BOOLEAN, NEW now \in Nat,
           ControlOK(c, now), Counted(c, waiting),
           NEW source \in {"neutral", "held"}, source = "held" => c.applied # 0,
           NEW d, d = Selected(c, source, now)
    PROVE  /\ d \in Controls /\ ControlOK(d, now + 1) /\ Counted(d, waiting)
           /\ ControlProgress(c, d)
           /\ d.accepted = c.accepted /\ d.applied = c.applied /\ d.first = c.first
<1>1. /\ d \in Controls /\ d.acceptedCount = c.acceptedCount /\ d.accepted = c.accepted
      /\ d.supersededCount = c.supersededCount
      /\ d.appliedCount = c.appliedCount /\ d.applied = c.applied /\ d.first = c.first
      /\ d.source = source /\ d.selected = now
  BY DEF Controls, Selected
<1>2. /\ (c.source = "none") = (c.selected = None) /\ c.selected < now
      /\ (c.accepted = 0) = (c.acceptedCount = 0)
      /\ (c.applied = 0) = (c.appliedCount = 0)
      /\ c.applied # 0 => c.selected # None /\ c.first <= c.selected
      /\ c.applied # 0 => c.accepted # 0 /\ c.applied <= c.accepted
      /\ CountsConserve(c)
  BY DEF ControlOK
<1>3. Counted(d, waiting)
  BY <1>1, ControlFields DEF Counted
<1>4. CountsConserve(d)
  BY <1>1, <1>2 DEF CountsConserve
<1>5. ControlOK(d, now + 1)
  BY <1>1, <1>2, <1>4, ControlFields DEF ControlOK, None
<1>6. ControlProgress(c, d)
  BY <1>1, <1>2, ControlFields DEF ControlProgress, MarkerProgress
<1> QED BY <1>1, <1>3, <1>5, <1>6

(* The command that waits is applied.                                      *)
LEMMA AppliedControl ==
    ASSUME NEW c \in Controls, NEW now \in Nat, ControlOK(c, now), Counted(c, TRUE),
           NEW d, d = Applied(c, now)
    PROVE  /\ d \in Controls /\ ControlOK(d, now + 1) /\ Counted(d, FALSE)
           /\ ControlProgress(c, d)
           /\ d.accepted = c.accepted /\ d.applied # 0
<1>1. /\ d \in Controls /\ d.acceptedCount = c.acceptedCount /\ d.accepted = c.accepted
      /\ d.supersededCount = c.supersededCount
      /\ d.appliedCount = c.appliedCount + 1 /\ d.applied = c.accepted /\ d.first = now
      /\ d.source = "held" /\ d.selected = now
  <2>1. PICK count, last: count = c.appliedCount + 1 /\ last = c.accepted
    OBVIOUS
  <2>2. count \in Nat /\ last \in Nat
    BY <2>1, ControlFields
  <2>3. d = [c EXCEPT !.appliedCount = count, !.applied = last, !.first = now,
                      !.source = "held", !.selected = now]
    BY <2>1 DEF Applied
  <2>4. d \in Controls /\ d.acceptedCount = c.acceptedCount /\ d.accepted = c.accepted
        /\ d.supersededCount = c.supersededCount
        /\ d.appliedCount = count /\ d.applied = last /\ d.first = now
        /\ d.source = "held" /\ d.selected = now
    BY <2>2, <2>3 DEF Controls
  <2> QED BY <2>1, <2>4
<1>2. /\ (c.accepted = 0) = (c.acceptedCount = 0)
      /\ c.selected < now
      /\ c.applied # 0 => c.accepted # 0 /\ c.applied <= c.accepted
  BY DEF ControlOK
<1>3. c.acceptedCount = c.appliedCount + c.supersededCount + 1 /\ c.applied < c.accepted
  BY DEF Counted
<1>4. c.accepted # 0
  BY <1>3, ControlFields
<1>5. Counted(d, FALSE)
  BY <1>1, <1>3, ControlFields DEF Counted
<1>6. CountsConserve(d)
  BY <1>1, <1>5, PendingNone
<1>7. ControlOK(d, now + 1)
  BY <1>1, <1>2, <1>3, <1>4, <1>6, ControlFields DEF ControlOK, None
<1>8. ControlProgress(c, d)
  BY <1>1, <1>2, <1>3, ControlFields DEF ControlProgress, MarkerProgress
<1> QED BY <1>1, <1>4, <1>5, <1>7, <1>8

-----------------------------------------------------------------------------
(* The initial state and the server's steps.                               *)

LEMMA NoControlIs ==
    /\ NoControl \in Controls /\ ControlOK(NoControl, 0) /\ Counted(NoControl, FALSE)
    /\ NoControl.accepted = 0 /\ NoControl.applied = 0 /\ NoControl.first = None
    /\ NewStream \in Streams
<1>1. /\ NoControl.acceptedCount = 0 /\ NoControl.accepted = 0 /\ NoControl.appliedCount = 0
      /\ NoControl.applied = 0 /\ NoControl.first = None /\ NoControl.supersededCount = 0
      /\ NoControl.source = "none" /\ NoControl.selected = None
      /\ NoControl \in Controls
  BY DEF NoControl, Controls
<1>2. NewStream \in Streams
  BY <1>1, StreamAssumption DEF NewStream, Streams
<1> QED BY <1>1, <1>2 DEF ControlOK, CountsConserve, Counted, None

LEMMA NewLifeIs ==
    ASSUME NEW n \in 0..MaxLives, NEW alive \in BOOLEAN,
           NEW s, s = [NewLife(n) EXCEPT !.alive = alive]
    PROVE  /\ s \in Servers /\ s.life = n /\ s.alive = alive /\ s.step = 0 /\ s.sequence = 0
           /\ s.control = NoControl /\ s.waiting = FALSE /\ s.reportedStep = 0
           /\ s.reportedLength = 1
<1>1. 0 \in 0..MaxStep /\ 0 \in 0..MaxReports /\ NoControl \in Controls
  BY NoControlIs, StreamAssumption
<1>2. NewLife(n) \in Servers
  BY <1>1 DEF NewLife, Servers
<1>3. s \in Servers
  BY <1>2 DEF Servers
<1>4. /\ s.life = n /\ s.alive = alive /\ s.step = 0 /\ s.sequence = 0
      /\ s.control = NoControl /\ s.waiting = FALSE /\ s.reportedStep = 0
      /\ s.reportedLength = 1
  BY DEF NewLife
<1> QED BY <1>3, <1>4

LEMMA AssignedLifeIs ==
    ASSUME NEW n \in 0..MaxLives, NEW s, s = NewLife(n)
    PROVE  /\ s \in Servers /\ s.life = n /\ s.alive = TRUE /\ s.step = 0 /\ s.sequence = 0
           /\ s.control = NoControl /\ s.waiting = FALSE /\ s.reportedStep = 0
           /\ s.reportedLength = 1
<1>1. 0 \in 0..MaxStep /\ 0 \in 0..MaxReports /\ NoControl \in Controls
  BY NoControlIs, StreamAssumption
<1>2. s \in Servers
  BY <1>1 DEF NewLife, Servers
<1>3. /\ s.life = n /\ s.alive = TRUE /\ s.step = 0 /\ s.sequence = 0
      /\ s.control = NoControl /\ s.waiting = FALSE /\ s.reportedStep = 0
      /\ s.reportedLength = 1
  BY DEF NewLife
<1> QED BY <1>2, <1>3

LEMMA ResetIs ==
    ASSUME NEW n \in 0..MaxLives, NEW counter \in 0..MaxId,
           NEW a, a = [NewActor EXCEPT !.snake = n, !.counter = counter]
    PROVE  /\ a \in Actors /\ a.snake = n /\ a.stream = NewStream /\ a.rebase = FALSE
           /\ a.closed = FALSE /\ a.integrity = TRUE /\ a.last = NoControl
           /\ a.counter = counter /\ a.fatal = FALSE
<1>1. /\ NoControl \in Controls /\ NewStream \in Streams
      /\ 0 \in 0..MaxLives /\ 0 \in 0..MaxId
  BY NoControlIs, StreamAssumption
<1>2. NewActor \in Actors
  BY <1>1 DEF NewActor, Actors
<1>3. a \in Actors
  BY <1>2 DEF Actors
<1>4. /\ a.snake = n /\ a.stream = NewStream /\ a.rebase = FALSE
      /\ a.closed = FALSE /\ a.integrity = TRUE /\ a.last = NoControl
      /\ a.counter = counter /\ a.fatal = FALSE
  BY DEF NewActor
<1> QED BY <1>3, <1>4

LEMMA InitKeeps == Init => IInv
<1> SUFFICES ASSUME Init PROVE IInv
  OBVIOUS
<1>1. /\ server \in Servers /\ server.life = 0 /\ server.alive = FALSE /\ server.step = 0
      /\ server.control = NoControl /\ server.waiting = FALSE /\ server.reportedStep = 0
  <2>1. server = [NewLife(0) EXCEPT !.alive = FALSE] /\ 0 \in 0..MaxLives
    BY StreamAssumption DEF Init
  <2> QED BY <2>1, NewLifeIs
<1>2. /\ actor \in Actors /\ actor.snake = 0 /\ actor.stream = NewStream
      /\ actor.rebase = FALSE /\ actor.closed = FALSE /\ actor.integrity = TRUE
      /\ actor.last = NoControl /\ actor.counter = 0 /\ actor.fatal = FALSE
  <2>1. /\ NoControl \in Controls /\ NewStream \in Streams
        /\ 0 \in 0..MaxLives /\ 0 \in 0..MaxId
    BY NoControlIs, StreamAssumption
  <2>2. actor \in Actors
    BY <2>1 DEF Init, NewActor, Actors
  <2> QED BY <2>2 DEF Init, NewActor
<1>3. /\ TypeInv /\ socket = "down" /\ chan = <<>> /\ DOMAIN chan = {} /\ faults = 0
      /\ paid = <<>>
  BY <1>1, <1>2, StreamAssumption DEF Init, TypeInv
<1>4. ServerInv
  <2>1. Range(chan) = {}
    BY <1>3 DEF Range
  <2>2. Counted(server.control, server.waiting)
    BY <1>1, NoControlIs DEF Counted
  <2> QED BY <1>1, <1>2, <1>3, <2>1, <2>2, NoControlIs DEF ServerInv, Sound
<1>5. MessageInv
  BY <1>3 DEF MessageInv
<1>6. ActorInv
  <2>1. NewStream.life = 0 /\ NewStream.closed = FALSE /\ NewStream.control = NoControl
    BY DEF NewStream
  <2>2. ~server.alive /\ ~actor.rebase /\ actor.closed = actor.stream.closed
    BY <1>1, <1>2, <2>1
  <2> QED BY <1>1, <1>2, <1>3, <2>1, <2>2 DEF ActorInv
<1>7. PaidInv
  <2>1. actor.stream.sequence - 1 = -2
    BY <1>2 DEF NewStream, None
  <2>2. 1..(actor.stream.sequence - 1) = {}
    BY <2>1
  <2>3. [i \in 1..(actor.stream.sequence - 1) |-> i + 1] = <<>>
    BY <2>2
  <2> QED BY <1>2, <1>3, <2>3 DEF PaidInv, AdmittedOnce
<1>8. ChainInv
  BY <1>2, <1>3 DEF ChainInv
<1> QED BY <1>3, <1>4, <1>5, <1>6, <1>7, <1>8 DEF IInv

(* Nothing but the server's control moves on, and what the actor issued.   *)
LEMMA ControlMoves ==
    ASSUME IInv, TypeInv', ActorKnows, actor'.fatal = actor.fatal,
           UNCHANGED <<socket, chan, faults, paid>>,
           server'.life = server.life, server'.alive = server.alive,
           server'.sequence = server.sequence, server'.reportedStep = server.reportedStep,
           server'.reportedLength = server.reportedLength, server'.step >= server.step,
           ControlProgress(server.control, server'.control),
           ControlOK(server'.control, server'.step),
           Counted(server'.control, server'.waiting), Sound(server.control)'
    PROVE  IInv'
<1>1. server \in Servers /\ server' \in Servers
  BY DEF IInv, TypeInv
<1>2. ServerGrows
  BY <1>1, ServerFields DEF ServerGrows
<1>3. ServerInv'
  <2>1. server.reportedStep <= server.step
    BY DEF IInv, ServerInv
  <2>2. server'.reportedStep <= server'.step
    BY <1>1, <2>1, ServerFields
  <2> QED BY <2>2 DEF IInv, ServerInv
<1>4. MessageInv'
  BY <1>2, SameMessages DEF IInv
<1>5. ActorInv'
  BY <1>2, ActorKept DEF IInv, ActorInv
<1>6. PaidInv'
  BY <1>2, PaidKept DEF IInv
<1>7. ChainInv'
  BY SameChain DEF IInv
<1> QED BY <1>3, <1>4, <1>5, <1>6, <1>7 DEF IInv

LEMMA IssueKeeps ==
    ASSUME IInv, Issue
    PROVE  IInv'
<1>1. server \in Servers /\ actor \in Actors /\ actor.counter < MaxId
  BY DEF IInv, TypeInv, Issue
<1>2. /\ actor' \in Actors /\ ActorKnows /\ actor'.counter = actor.counter + 1
      /\ actor'.fatal = actor.fatal
  <2>1. actor' = [actor EXCEPT !.counter = @ + 1]
    BY DEF Issue
  <2>2. actor.counter + 1 \in 0..MaxId
    BY <1>1, ActorFields, StreamAssumption
  <2>3. actor.counter + 1 >= actor.counter
    BY <1>1, ActorFields
  <2> QED BY <1>1, <2>1, <2>2, <2>3 DEF Actors, ActorKnows
<1>3. UNCHANGED <<socket, chan, gaps, faults, paid>>
  BY DEF Issue
<1>4. CASE UNCHANGED server
  <2>1. TypeInv'
    BY <1>2, <1>3, <1>4 DEF IInv, TypeInv
  <2>2. Sound(server.control)'
    BY <1>1, <1>2, <1>4, ServerFields, ControlFields, ActorFields DEF IInv, ServerInv, Sound
  <2>3. ControlProgress(server.control, server'.control)
    BY <1>1, <1>4, ServerFields, ProgressReflexive
  <2>4. ControlOK(server'.control, server'.step) /\ Counted(server'.control, server'.waiting)
    BY <1>4 DEF IInv, ServerInv
  <2> QED BY <1>1, <1>2, <1>3, <1>4, <2>1, <2>2, <2>3, <2>4, ControlMoves, ServerFields
<1>5. CASE server' = [server EXCEPT !.waiting = TRUE,
                 !.control.acceptedCount = @ + 1, !.control.accepted = actor.counter + 1,
                 !.control.supersededCount = IF server.waiting THEN @ + 1 ELSE @]
  <2> DEFINE c == server.control
  <2>1. /\ c \in Controls /\ server.step \in Nat /\ actor.counter \in Nat
    BY <1>1, ServerFields, ActorFields
  <2>2. PICK superseded:
          superseded = IF server.waiting THEN c.supersededCount + 1 ELSE c.supersededCount
    OBVIOUS
  <2>3. /\ ControlOK(c, server.step) /\ c.accepted <= actor.counter
        /\ c.applied = 0 => c.first = None
        /\ superseded \in Nat /\ superseded >= c.supersededCount
        /\ c.acceptedCount = c.appliedCount + superseded
    <3>1. Counted(c, server.waiting) /\ ControlOK(c, server.step) /\ Sound(c)
      BY DEF IInv, ServerInv
    <3>2. superseded \in Nat /\ superseded >= c.supersededCount
      BY <2>1, <2>2, ControlFields
    <3>3. c.acceptedCount = c.appliedCount + superseded
      BY <2>1, <2>2, <3>1, ControlFields DEF Counted
    <3> QED BY <3>1, <3>2, <3>3 DEF Sound
  <2>4. PICK e: e = Accepted(c, superseded, actor.counter)
    OBVIOUS
  <2>5. /\ e \in Controls /\ ControlOK(e, server.step) /\ Counted(e, TRUE) /\ ControlProgress(c, e)
        /\ e.accepted = actor.counter + 1 /\ e.applied = c.applied /\ e.first = c.first
    <3> HIDE DEF c
    <3>1. PICK n \in Nat, now \in Nat: n = actor.counter /\ now = server.step
      BY <2>1
    <3>2. /\ c \in Controls /\ ControlOK(c, now) /\ c.accepted <= n
          /\ superseded \in Nat /\ superseded >= c.supersededCount
          /\ c.acceptedCount = c.appliedCount + superseded
          /\ e = Accepted(c, superseded, n) /\ n \in Nat /\ now \in Nat
      BY <2>1, <2>3, <2>4, <3>1
    <3>3. /\ e \in Controls /\ ControlOK(e, now) /\ Counted(e, TRUE) /\ ControlProgress(c, e)
          /\ e.accepted = n + 1 /\ e.applied = c.applied /\ e.first = c.first
      <4>1. e \in Controls /\ ControlOK(e, now) /\ Counted(e, TRUE) /\ ControlProgress(c, e)
        BY <3>2, AcceptedControl
      <4>2. e.accepted = n + 1 /\ e.applied = c.applied /\ e.first = c.first
        BY <3>2 DEF Accepted, Controls
      <4> QED BY <4>1, <4>2
    <3> QED BY <3>1, <3>3
  <2>6. server' = [server EXCEPT !.waiting = TRUE, !.control = e]
    BY <1>5, <2>1, <2>2, <2>4 DEF Controls, Accepted
  <2>7. /\ server' \in Servers /\ server'.control = e /\ server'.waiting = TRUE
        /\ server'.life = server.life /\ server'.alive = server.alive
        /\ server'.sequence = server.sequence /\ server'.reportedStep = server.reportedStep
        /\ server'.reportedLength = server.reportedLength /\ server'.step = server.step
    BY <1>1, <2>5, <2>6 DEF Servers
  <2>8. TypeInv'
    BY <1>2, <1>3, <2>7 DEF IInv, TypeInv
  <2>9. Sound(server.control)'
    BY <1>2, <2>1, <2>3, <2>5, <2>7 DEF Sound
  <2>10. /\ ControlProgress(server.control, server'.control) /\ server'.step >= server.step
         /\ ControlOK(server'.control, server'.step) /\ Counted(server'.control, server'.waiting)
    BY <2>1, <2>5, <2>7 DEF Counted
  <2> QED BY <1>2, <1>3, <2>7, <2>8, <2>9, <2>10, ControlMoves
<1> QED BY <1>4, <1>5 DEF Issue

LEMMA PhysicsKeeps ==
    ASSUME IInv, Physics
    PROVE  IInv'
<1> DEFINE c == server.control
<1>1. /\ server \in Servers /\ actor \in Actors /\ server.step < MaxStep
      /\ UNCHANGED <<socket, chan, gaps, faults, actor, paid>>
  BY DEF IInv, TypeInv, Physics
<1>2. /\ c \in Controls /\ server.waiting \in BOOLEAN /\ server.step \in Nat
      /\ ControlOK(c, server.step) /\ Counted(c, server.waiting) /\ Sound(c)
  BY <1>1, ServerFields DEF IInv, ServerInv
<1>3. PICK length \in 1..2, s \in
            {[server EXCEPT !.control = Selected(@, "neutral", server.step)]}
            \cup (IF server.control.applied # 0
                  THEN {server, [server EXCEPT !.control = Selected(@, "held", server.step)]}
                  ELSE {})
            \cup (IF server.waiting
                  THEN {[server EXCEPT !.control = Applied(@, server.step), !.waiting = FALSE]}
                  ELSE {}):
        server' = [s EXCEPT !.step = @ + 1, !.length = length]
  BY DEF Physics
<1> HIDE DEF c
<1>4. \E d \in Controls, waiting \in BOOLEAN:
        /\ s = [server EXCEPT !.control = d, !.waiting = waiting]
        /\ ControlOK(d, server.step + 1) /\ Counted(d, waiting) /\ ControlProgress(c, d)
        /\ d.accepted = c.accepted
        /\ d.applied # 0 \/ (d.applied = c.applied /\ d.first = c.first)
  <2>1. CASE s = [server EXCEPT !.control = Selected(c, "neutral", server.step)]
    <3>1. PICK d: d = Selected(c, "neutral", server.step)
      OBVIOUS
    <3>2. /\ d \in Controls /\ ControlOK(d, server.step + 1) /\ Counted(d, server.waiting)
          /\ ControlProgress(c, d)
          /\ d.accepted = c.accepted /\ d.applied = c.applied /\ d.first = c.first
      BY <1>2, <3>1, SelectedControl
    <3>3. s = [server EXCEPT !.control = d, !.waiting = server.waiting]
      BY <1>1, <2>1, <3>1 DEF Servers
    <3> QED BY <1>2, <3>2, <3>3
  <2>2. CASE c.applied # 0 /\ s = [server EXCEPT !.control = Selected(c, "held", server.step)]
    <3>1. PICK d: d = Selected(c, "held", server.step)
      OBVIOUS
    <3>2. /\ d \in Controls /\ ControlOK(d, server.step + 1) /\ Counted(d, server.waiting)
          /\ ControlProgress(c, d)
          /\ d.accepted = c.accepted /\ d.applied = c.applied /\ d.first = c.first
      BY <1>2, <2>2, <3>1, SelectedControl
    <3>3. s = [server EXCEPT !.control = d, !.waiting = server.waiting]
      BY <1>1, <2>2, <3>1 DEF Servers
    <3> QED BY <1>2, <3>2, <3>3
  <2>3. CASE s = server
    <3>1. s = [server EXCEPT !.control = c, !.waiting = server.waiting]
      BY <1>1, <2>3 DEF Servers, c
    <3>2. ControlOK(c, server.step + 1) /\ ControlProgress(c, c)
      BY <1>2, LaterControl, ProgressReflexive
    <3> QED BY <1>2, <3>1, <3>2
  <2>4. CASE /\ server.waiting
             /\ s = [server EXCEPT !.control = Applied(c, server.step), !.waiting = FALSE]
    <3>1. PICK d: d = Applied(c, server.step)
      OBVIOUS
    <3>2. Counted(c, TRUE)
      BY <1>2, <2>4 DEF Counted
    <3>3. /\ d \in Controls /\ ControlOK(d, server.step + 1) /\ Counted(d, FALSE)
          /\ ControlProgress(c, d) /\ d.accepted = c.accepted /\ d.applied # 0
      BY <1>2, <3>1, <3>2, AppliedControl
    <3>4. s = [server EXCEPT !.control = d, !.waiting = FALSE]
      BY <2>4, <3>1
    <3> QED BY <3>3, <3>4
  <2> QED BY <1>3, <2>1, <2>2, <2>3, <2>4 DEF c
<1>5. PICK d \in Controls, waiting \in BOOLEAN:
        /\ s = [server EXCEPT !.control = d, !.waiting = waiting]
        /\ ControlOK(d, server.step + 1) /\ Counted(d, waiting) /\ ControlProgress(c, d)
        /\ d.accepted = c.accepted
        /\ d.applied # 0 \/ (d.applied = c.applied /\ d.first = c.first)
  BY <1>4
<1>6. /\ server' \in Servers /\ server'.control = d /\ server'.waiting = waiting
      /\ server'.life = server.life /\ server'.alive = server.alive
      /\ server'.sequence = server.sequence /\ server'.reportedStep = server.reportedStep
      /\ server'.reportedLength = server.reportedLength /\ server'.step = server.step + 1
  <2>1. s \in Servers /\ s.step = server.step
    BY <1>1, <1>5 DEF Servers
  <2>2. server.step + 1 \in 0..MaxStep /\ length \in Nat
    BY <1>1, <1>2, StreamAssumption
  <2>3. server' = [s EXCEPT !.step = s.step + 1, !.length = length]
    BY <1>3
  <2>4. PICK now: now = server.step + 1
    OBVIOUS
  <2>5. server' = [[server EXCEPT !.control = d, !.waiting = waiting]
                     EXCEPT !.step = now, !.length = length]
    BY <1>5, <2>1, <2>3, <2>4
  <2> QED BY <1>1, <2>2, <2>4, <2>5 DEF Servers
<1>7. TypeInv'
  BY <1>1, <1>6 DEF IInv, TypeInv
<1>8. Sound(server.control)'
  BY <1>1, <1>2, <1>5, <1>6 DEF Sound
<1>9. ActorKnows
  BY <1>1, ActorFields DEF ActorKnows
<1> QED BY <1>1, <1>2, <1>5, <1>6, <1>7, <1>8, <1>9, ControlMoves DEF c

(* What an interval is, and why the actor takes it.                        *)
LEMMA IntervalIs ==
    ASSUME IInv, server.alive, NEW kind \in Kinds, NEW m, m = Interval(kind)
    PROVE  /\ m \in Intervals /\ m.kind = kind /\ m.life = server.life
           /\ m.sequence = server.sequence + 1
           /\ m.previous = IF kind = "initial" THEN None ELSE server.sequence
           /\ m.from = IF kind = "initial" THEN server.step ELSE server.reportedStep
           /\ m.to = server.step /\ m.length = server.length /\ m.control = server.control
           /\ m.growth = IF kind = "initial" THEN 0 ELSE server.length - server.reportedLength
<1>1. server \in Servers /\ server.life >= 1
  BY DEF IInv, TypeInv, ServerInv
<1>2. PICK sequence, previous, from, growth:
        /\ sequence = server.sequence + 1
        /\ previous = IF kind = "initial" THEN None ELSE server.sequence
        /\ from = IF kind = "initial" THEN server.step ELSE server.reportedStep
        /\ growth = IF kind = "initial" THEN 0 ELSE server.length - server.reportedLength
  OBVIOUS
<1>3. /\ sequence \in Nat /\ previous \in Nat \cup {None} /\ from \in Nat /\ growth \in Int
      /\ server.life \in Lives /\ server.step \in Nat /\ server.length \in Nat
      /\ server.control \in Controls
  BY <1>1, <1>2, ServerFields DEF Lives
<1>4. m = [kind |-> kind, life |-> server.life, sequence |-> sequence, previous |-> previous,
           from |-> from, to |-> server.step, length |-> server.length, growth |-> growth,
           control |-> server.control]
  BY <1>2 DEF Interval
<1>5. m \in Intervals
  BY <1>3, <1>4 DEF Intervals
<1>6. /\ m.kind = kind /\ m.life = server.life /\ m.sequence = sequence /\ m.previous = previous
      /\ m.from = from /\ m.to = server.step /\ m.length = server.length
      /\ m.control = server.control /\ m.growth = growth
  BY <1>4
<1> QED BY <1>2, <1>5, <1>6

LEMMA IntervalParses ==
    ASSUME IInv, server.alive, NEW kind \in Kinds, kind = "initial" <=> server.sequence = 0,
           NEW m, m = Interval(kind)
    PROVE  Parses(m) /\ Sound(m.control)
<1>1. /\ m \in Intervals /\ m.kind = kind /\ m.sequence = server.sequence + 1
      /\ m.previous = IF kind = "initial" THEN None ELSE server.sequence
      /\ m.from = IF kind = "initial" THEN server.step ELSE server.reportedStep
      /\ m.to = server.step /\ m.control = server.control
      /\ m.growth = IF kind = "initial" THEN 0 ELSE server.length - server.reportedLength
  BY IntervalIs
<1>2. /\ server \in Servers /\ server.reportedStep <= server.step
      /\ ControlOK(server.control, server.step) /\ Sound(server.control)
  BY DEF IInv, TypeInv, ServerInv
<1>3. m.from <= m.to
  BY <1>1, <1>2, ServerFields
<1>4. LifecycleOK(m)
  BY <1>1, <1>2, ServerFields DEF LifecycleOK, None
<1> QED BY <1>1, <1>2, <1>3, <1>4 DEF Parses

LEMMA IntervalExpected ==
    ASSUME IInv, server.alive, NEW kind \in Kinds, kind = "initial" <=> server.sequence = 0,
           NEW m, m = Interval(kind), NEW v, Synced(v)
    PROVE  Expects(v, m)
<1>1. /\ m \in Intervals /\ m.kind = kind /\ m.life = server.life
      /\ m.previous = IF kind = "initial" THEN None ELSE server.sequence
      /\ m.from = IF kind = "initial" THEN server.step ELSE server.reportedStep
      /\ m.length = server.length /\ m.control = server.control
      /\ m.growth = IF kind = "initial" THEN 0 ELSE server.length - server.reportedLength
  BY IntervalIs
<1>2. /\ v.snake = server.life /\ ~v.stream.closed
      /\ ControlProgress(v.stream.control, server.control)
      /\ v.stream.life = 0 => v.stream = NewStream
      /\ v.stream.life \in {0, v.snake}
      /\ ~v.rebase =>
           IF v.stream.life = 0 THEN server.sequence = 0
           ELSE /\ server.sequence = v.stream.sequence /\ server.sequence # 0
                /\ server.reportedStep = v.stream.step
                /\ server.reportedLength = v.stream.length
  BY DEF Synced
<1>3. Commits(v.stream, m)
  BY <1>1, <1>2 DEF Commits
<1>4. CASE v.rebase
  <2>1. kind \in Closures => Discards(v.stream, v.snake, m)
    BY <1>1, <1>2, <1>3 DEF Discards
  <2>2. kind \notin Closures => Rebases(v.stream, v.snake, m)
    BY <1>1, <1>2, <1>3 DEF Rebases
  <2>3. Takes(v, m)
    BY <1>1, <1>2, <1>4, <2>1, <2>2 DEF Takes
  <2> QED BY <1>1, <2>3, MessageKinds DEF Expects, Messages
<1>5. CASE ~v.rebase
  <2>1. v.stream.life = 0 => kind = "initial" /\ v.stream.length = None
    BY <1>2, <1>5 DEF NewStream
  <2>2. v.stream.life # 0 =>
          /\ kind # "initial" /\ v.stream.life = m.life /\ m.previous = v.stream.sequence
          /\ m.from = v.stream.step /\ m.growth = m.length - v.stream.length
    BY <1>1, <1>2, <1>5
  <2>3. v.stream.life # 0 => Follows(v.stream, m)
    BY <1>1, <2>2 DEF Follows
  <2>4. Accepts(v.stream, v.snake, m)
    BY <1>1, <1>2, <1>3, <2>1, <2>2, <2>3 DEF Accepts
  <2>5. Takes(v, m)
    BY <1>2, <1>5, <2>4 DEF Takes
  <2> QED BY <1>1, <2>5, MessageKinds DEF Expects, Messages
<1> QED BY <1>4, <1>5

LEMMA SameActor ==
    ASSUME TypeInv, UNCHANGED actor
    PROVE  ActorKnows /\ actor'.fatal = actor.fatal
<1>1. actor \in Actors
  BY DEF TypeInv
<1> QED BY <1>1, ActorFields DEF ActorKnows

(* Nothing is on its way to an actor without a socket.                     *)
LEMMA NoChain ==
    ASSUME ChainInv, UNCHANGED faults, actor'.fatal = actor.fatal, chan' = <<>>, socket' # "up"
    PROVE  ChainInv'
<1>1. DOMAIN chan' = {}
  OBVIOUS
<1> QED BY <1>1 DEF ChainInv

LEMMA ReportKeeps ==
    ASSUME IInv, NEW kind \in Kinds, Report(kind)
    PROVE  IInv'
<1>1. /\ server \in Servers /\ server.alive /\ server.sequence < MaxReports
      /\ kind = "initial" <=> server.sequence = 0
      /\ UNCHANGED <<socket, gaps, faults, actor, paid>>
      /\ TypeInv
  BY DEF IInv, TypeInv, Report
<1>2. /\ server' \in Servers /\ server'.life = server.life /\ server'.step = server.step
      /\ server'.control = server.control /\ server'.waiting = server.waiting
      /\ server'.sequence = server.sequence + 1 /\ server'.reportedStep = server.step
      /\ server'.reportedLength = server.length
      /\ server'.alive <=> kind \notin Closures
  <2>1. PICK sequence: sequence = server.sequence + 1
    OBVIOUS
  <2>2. PICK alive \in BOOLEAN: alive = (kind \notin Closures)
    OBVIOUS
  <2>3. /\ sequence \in 0..MaxReports /\ server.step \in Nat /\ server.length \in Nat
    BY <1>1, <2>1, ServerFields, StreamAssumption
  <2>4. server' = [server EXCEPT !.sequence = sequence, !.reportedStep = server.step,
                                 !.reportedLength = server.length, !.alive = alive]
    BY <2>1, <2>2 DEF Report
  <2> QED BY <1>1, <2>1, <2>2, <2>3, <2>4 DEF Servers
<1>3. PICK m: m = Interval(kind)
  OBVIOUS
<1>4. /\ m \in Intervals /\ m.kind = kind /\ m.life = server.life
      /\ m.sequence = server.sequence + 1
      /\ m.previous = IF kind = "initial" THEN None ELSE server.sequence
      /\ m.to = server.step /\ m.length = server.length /\ m.control = server.control
      /\ m \in Messages /\ IsInterval(m)
  BY <1>1, <1>3, IntervalIs, MessageKinds DEF Messages
<1>5. ActorKnows
  BY <1>1, SameActor DEF IInv
<1>6. ServerGrows
  <2>1. ControlProgress(server.control, server'.control)
    BY <1>1, <1>2, ServerFields, ProgressReflexive
  <2> QED BY <1>1, <1>2, <2>1, ServerFields DEF ServerGrows
<1>7. CASE socket = "up"
  <2>1. chan' = Append(chan, m)
    BY <1>3, <1>7 DEF Report
  <2>2. /\ chan' \in Seq(Messages) /\ DOMAIN chan' = 1..(Len(chan) + 1) /\ Len(chan) \in Nat
        /\ DOMAIN chan = 1..Len(chan)
        /\ chan'[Len(chan) + 1] = m /\ \A i \in 1..Len(chan): chan'[i] = chan[i]
    BY <1>1, <1>4, <2>1, Members, AppendIs
  <2>3. TypeInv'
    BY <1>1, <1>2, <2>2 DEF TypeInv, Messages
  <2>4. ServerInv'
    <3>1. Replaced \notin Range(chan')
      <4>1. Replaced \notin Range(chan)
        BY <1>1 DEF IInv, ServerInv
      <4>2. m # Replaced
        BY <1>4, MessageKinds DEF Replaced
      <4> QED BY <2>2, <4>1, <4>2 DEF Range
    <3>2. server'.reportedStep <= server'.step /\ server'.life >= 1
      BY <1>1, <1>2, ServerFields DEF IInv, ServerInv
    <3>3. Sound(server.control)'
      BY <1>1, <1>2 DEF IInv, ServerInv, Sound
    <3>4. ControlOK(server'.control, server'.step) /\ Counted(server'.control, server'.waiting)
      BY <1>2 DEF IInv, ServerInv
    <3> QED BY <1>1, <1>7, <3>1, <3>2, <3>3, <3>4 DEF ServerInv
  <2>5. Reported(m)'
    <3>1. Parses(m) /\ Sound(m.control)
      BY <1>1, <1>3, IntervalParses
    <3>2. Sound(m.control)'
      BY <1>1, <3>1 DEF Sound
    <3>3. /\ m.sequence \in 1..MaxReports /\ (m.kind = "initial" <=> m.sequence = 1)
          /\ m.kind # "initial" => m.previous = m.sequence - 1
          /\ m.life <= server'.life /\ m.sequence <= server'.sequence
      BY <1>1, <1>2, <1>4, ServerFields, StreamAssumption
    <3>4. ControlProgress(m.control, server'.control)
      BY <1>1, <1>2, <1>4, ServerFields, ProgressReflexive
    <3> QED BY <1>2, <1>4, <3>1, <3>2, <3>3, <3>4 DEF Reported
  <2>6. MessageInv'
    <3>1. m.kind # "assign"
      BY <1>4, MessageKinds
    <3> QED BY <1>1, <1>4, <1>5, <1>6, <2>1, <2>3, <2>5, <3>1, AddMessage DEF IInv
  <2>7. ActorInv'
    BY <1>1, <1>5, <1>6, <1>7, <2>3, ActorKept DEF IInv
  <2>8. PaidInv'
    <3>1. m.sequence > server.sequence
      BY <1>1, <1>4, ServerFields
    <3>2. \A i \in DOMAIN chan': IsInterval(chan'[i]) =>
             \/ \E k \in DOMAIN chan: chan[k] = chan'[i]
             \/ chan'[i].life = server.life /\ chan'[i].sequence > server.sequence
      BY <1>4, <2>2, <3>1
    <3> QED BY <1>1, <1>5, <1>6, <2>3, <3>2, PaidKept DEF IInv
  <2>9. ChainInv'
    <3>1. \A v: Synced(v) => Expects(v, m)
      BY <1>1, <1>3, IntervalExpected
    <3>2. Synced(After(m))'
      <4>1. PICK v: v = View(m.life, Committed(m), FALSE)
        OBVIOUS
      <4>2. /\ v.snake = m.life /\ v.rebase = FALSE /\ v.stream.life = m.life
            /\ v.stream.sequence = m.sequence /\ v.stream.step = m.to
            /\ v.stream.closed = (m.kind \in Closures) /\ v.stream.length = m.length
            /\ v.stream.control = m.control
        BY <4>1 DEF View, Committed
      <4>3. After(m)' = v
        BY <1>4, <4>1, MessageKinds DEF After
      <4>4. m.life # 0 /\ m.sequence = server'.sequence /\ server'.sequence # 0
        BY <1>1, <1>2, <1>4, ServerFields, IntervalFields
      <4>5. ControlProgress(v.stream.control, server'.control)
        BY <1>1, <1>2, <1>4, <4>2, ServerFields, ProgressReflexive
      <4>6. Synced(v)'
        BY <1>2, <1>4, <4>2, <4>4, <4>5 DEF Synced
      <4> QED BY <4>3, <4>6
    <3> QED BY <1>1, <1>4, <1>5, <1>7, <2>1, <3>1, <3>2, AddChain DEF IInv
  <2> QED BY <2>3, <2>4, <2>6, <2>7, <2>8, <2>9 DEF IInv
<1>8. CASE socket # "up"
  <2>1. chan' = chan /\ chan = <<>>
    BY <1>8 DEF Report, IInv, ServerInv
  <2>2. TypeInv'
    BY <1>1, <1>2, <2>1 DEF TypeInv
  <2>3. ServerInv'
    <3>1. server'.reportedStep <= server'.step /\ server'.life >= 1
      BY <1>1, <1>2, ServerFields DEF IInv, ServerInv
    <3>2. Sound(server.control)'
      BY <1>1, <1>2 DEF IInv, ServerInv, Sound
    <3>3. ControlOK(server'.control, server'.step) /\ Counted(server'.control, server'.waiting)
      BY <1>2 DEF IInv, ServerInv
    <3>4. Range(chan') = {}
      BY <2>1 DEF Range
    <3> QED BY <2>1, <3>1, <3>2, <3>3, <3>4 DEF ServerInv
  <2>4. MessageInv'
    BY <1>1, <1>5, <1>6, <2>1, <2>2, SameMessages DEF IInv
  <2>5. ActorInv'
    BY <1>1, <1>5, <1>6, <2>2, ActorKept DEF IInv, ActorInv
  <2>6. PaidInv'
    BY <1>1, <1>5, <1>6, <2>1, <2>2, PaidKept DEF IInv
  <2>7. ChainInv'
    BY <1>1, <1>8, <2>1, NoChain DEF IInv
  <2> QED BY <2>2, <2>3, <2>4, <2>5, <2>6, <2>7 DEF IInv
<1> QED BY <1>7, <1>8

LEMMA AssignLifeKeeps ==
    ASSUME IInv, AssignLife
    PROVE  IInv'
<1>1. /\ TypeInv /\ server \in Servers /\ actor \in Actors /\ server.life < MaxLives
      /\ UNCHANGED <<gaps, faults, actor, paid>> /\ socket' = "up"
  BY DEF IInv, TypeInv, AssignLife
<1>2. PICK n: n = server.life + 1
  OBVIOUS
<1>3. /\ n \in 0..MaxLives /\ n \in Lives /\ n > server.life /\ n \in Nat /\ n >= 1
      /\ server.life \in Nat
  BY <1>1, <1>2, ServerFields, StreamAssumption DEF Lives
<1>4. /\ server' \in Servers /\ server'.life = n /\ server'.alive = TRUE /\ server'.step = 0
      /\ server'.sequence = 0 /\ server'.control = NoControl /\ server'.waiting = FALSE
      /\ server'.reportedStep = 0 /\ server'.reportedLength = 1
  BY <1>2, <1>3, AssignedLifeIs DEF AssignLife
<1>5. PICK m: m = Assignment(n, FALSE)
  OBVIOUS
<1>6. /\ m \in Messages /\ m.kind = "assign" /\ m.life = n /\ m.reclaimed = FALSE
      /\ ~IsInterval(m) /\ m # Replaced
  <2>1. m \in Assignments
    BY <1>3, <1>5 DEF Assignment, Assignments
  <2>2. m.kind = "assign" /\ m.life = n /\ m.reclaimed = FALSE
    BY <1>5 DEF Assignment
  <2> QED BY <2>1, <2>2 DEF Messages, IsInterval, Kinds, Closures, Replaced
<1>7. chan' = Append(chan, m)
  BY <1>2, <1>5 DEF AssignLife
<1>8. /\ chan' \in Seq(Messages) /\ DOMAIN chan' = 1..(Len(chan) + 1) /\ Len(chan) \in Nat
      /\ DOMAIN chan = 1..Len(chan)
      /\ chan'[Len(chan) + 1] = m /\ \A i \in 1..Len(chan): chan'[i] = chan[i]
  BY <1>1, <1>6, <1>7, Members, AppendIs
<1>9. TypeInv'
  BY <1>1, <1>4, <1>8 DEF TypeInv, Messages
<1>10. ActorKnows /\ ServerGrows
  BY <1>1, <1>3, <1>4, SameActor DEF ServerGrows
<1>11. ServerInv'
  <2>1. Replaced \notin Range(chan')
    <3>1. Replaced \notin Range(chan)
      <4>1. CASE socket = "up"
        BY <4>1 DEF AssignLife
      <4>2. CASE socket # "up"
        BY <4>2 DEF IInv, ServerInv, Range
      <4> QED BY <4>1, <4>2
    <3> QED BY <1>6, <1>8, <3>1 DEF Range
  <2>2. /\ Sound(server.control)' /\ ControlOK(server'.control, server'.step)
        /\ Counted(server'.control, server'.waiting)
    BY <1>1, <1>4, ActorFields, NoControlIs DEF Sound, Counted
  <2> QED BY <1>1, <1>3, <1>4, <2>1, <2>2 DEF ServerInv
<1>12. MessageInv'
  BY <1>1, <1>3, <1>4, <1>6, <1>7, <1>9, <1>10, AddMessage DEF IInv
<1>13. ActorInv'
  BY <1>1, <1>9, <1>10, ActorKept DEF IInv
<1>14. PaidInv'
  <2>1. \A i \in DOMAIN chan': IsInterval(chan'[i]) => \E k \in DOMAIN chan: chan[k] = chan'[i]
    BY <1>6, <1>8
  <2> QED BY <1>1, <1>9, <1>10, <2>1, PaidKept DEF IInv
<1>15. Synced(After(m))'
  <2>1. PICK v: v = View(n, NewStream, FALSE)
    OBVIOUS
  <2>2. /\ v.snake = n /\ v.stream = NewStream /\ v.rebase = FALSE /\ v.stream.life = 0
        /\ v.stream.closed = FALSE /\ v.stream.control = NoControl
    BY <2>1 DEF View, NewStream
  <2>3. After(m)' = v
    BY <1>6, <2>1 DEF After
  <2>4. ControlProgress(v.stream.control, server'.control)
    BY <1>4, <2>2, NoControlIs, ProgressReflexive
  <2>5. Synced(v)'
    BY <1>4, <2>2, <2>4 DEF Synced
  <2> QED BY <2>3, <2>5
<1>16. ChainInv'
  <2>1. CASE socket = "up" /\ ~server.alive /\ Replaced \notin Range(chan)
    <3>1. \A v: Synced(v) => Expects(v, m)
      BY <1>6, <2>1 DEF Synced, Expects
    <3> QED BY <1>1, <1>6, <1>7, <1>10, <1>15, <2>1, <3>1, AddChain DEF IInv
  <2>2. CASE socket = "down" /\ actor.snake = 0
    <3>1. chan = <<>>
      BY <2>2 DEF IInv, ServerInv
    <3>2. chan' = <<m>>
      BY <1>7, <3>1
    <3>3. ActorView.snake = 0
      BY <2>2 DEF ActorView, View
    <3>4. Expects(ActorView, m)
      BY <1>6, <3>3 DEF Expects
    <3> QED BY <1>1, <1>10, <1>15, <3>2, <3>4, FirstChain DEF IInv
  <2> QED BY <2>1, <2>2 DEF AssignLife
<1> QED BY <1>9, <1>11, <1>12, <1>13, <1>14, <1>16 DEF IInv

LEMMA RejoinKeeps ==
    ASSUME IInv, Rejoin
    PROVE  IInv'
<1>1. /\ TypeInv /\ server \in Servers /\ actor \in Actors
      /\ socket = "down" /\ actor.snake # 0 /\ chan = <<>> /\ actor.rebase
      /\ UNCHANGED <<gaps, faults, actor, paid>>
  BY DEF IInv, TypeInv, ServerInv, ActorInv, Rejoin
<1>2. ActorKnows
  BY <1>1, SameActor
<1>3. CASE server.alive /\ server.life = actor.snake
  <2> DEFINE c == server.control
  <2>1. c \in Controls /\ server.step \in Nat
    BY <1>1, ServerFields
  <2>2. PICK superseded:
          superseded = IF server.waiting THEN c.supersededCount + 1 ELSE c.supersededCount
    OBVIOUS
  <2>3. /\ ControlOK(c, server.step) /\ Sound(c)
        /\ superseded \in Nat /\ superseded >= c.supersededCount
        /\ c.acceptedCount = c.appliedCount + superseded
    <3>1. Counted(c, server.waiting) /\ ControlOK(c, server.step) /\ Sound(c)
      BY DEF IInv, ServerInv
    <3>2. superseded \in Nat /\ superseded >= c.supersededCount
      BY <2>1, <2>2, ControlFields
    <3>3. c.acceptedCount = c.appliedCount + superseded
      BY <2>1, <2>2, <3>1, ControlFields DEF Counted
    <3> QED BY <3>1, <3>2, <3>3
  <2>4. PICK e: e = Retired(c, superseded)
    OBVIOUS
  <2>5. /\ e \in Controls /\ ControlOK(e, server.step) /\ Counted(e, FALSE)
        /\ ControlProgress(c, e)
    <3> HIDE DEF c
    <3> QED BY <2>1, <2>3, <2>4, RetiredControl
  <2>6. e.accepted = c.accepted /\ e.applied = c.applied /\ e.first = c.first
    BY <2>1, <2>4 DEF Retired, Controls
  <2>7. server' = [server EXCEPT !.waiting = FALSE, !.control = e]
    BY <1>3, <2>1, <2>2, <2>4 DEF Rejoin, Controls, Retired
  <2>8. /\ server' \in Servers /\ server'.control = e /\ server'.waiting = FALSE
        /\ server'.life = server.life /\ server'.alive = server.alive
        /\ server'.sequence = server.sequence /\ server'.reportedStep = server.reportedStep
        /\ server'.reportedLength = server.reportedLength /\ server'.step = server.step
    BY <1>1, <2>5, <2>7 DEF Servers
  <2>9. PICK m: m = Assignment(server.life, TRUE)
    OBVIOUS
  <2>10. socket' = "up" /\ chan' = <<m>> /\ DOMAIN chan' = {1} /\ chan'[1] = m
    <3>1. socket' = "up" /\ chan' = <<m>>
      BY <1>3, <2>9 DEF Rejoin
    <3> QED BY <3>1
  <2>11. /\ m \in Messages /\ m.kind = "assign" /\ m.life = server.life /\ m.reclaimed = TRUE
         /\ ~IsInterval(m) /\ m # Replaced
    <3>1. server.life \in Lives
      BY <1>1, <1>3, ServerFields, StreamAssumption DEF Lives
    <3>2. m \in Assignments
      BY <2>9, <3>1 DEF Assignment, Assignments
    <3>3. m.kind = "assign" /\ m.life = server.life /\ m.reclaimed = TRUE
      BY <2>9 DEF Assignment
    <3> QED BY <3>2, <3>3 DEF Messages, IsInterval, Kinds, Closures, Replaced
  <2>12. TypeInv'
    BY <1>1, <2>8, <2>10, <2>11 DEF TypeInv, Messages
  <2>13. ServerGrows
    BY <1>1, <2>5, <2>8, ServerFields DEF ServerGrows
  <2>14. ServerInv'
    <3>1. Replaced \notin Range(chan')
      BY <2>10, <2>11 DEF Range
    <3>2. Sound(server.control)'
      BY <1>1, <2>3, <2>6, <2>8 DEF Sound
    <3>3. server.reportedStep <= server.step /\ server.life >= 1
      BY <1>3 DEF IInv, ServerInv
    <3> QED BY <2>5, <2>8, <2>10, <3>1, <3>2, <3>3 DEF ServerInv
  <2>15. MessageInv'
    <3>1. m.life <= server'.life /\ m.life = actor'.snake /\ actor'.rebase
      BY <1>1, <1>3, <2>8, <2>11, ServerFields
    <3> QED BY <2>10, <2>11, <3>1 DEF MessageInv
  <2>16. ActorInv'
    BY <1>1, <1>2, <2>10, <2>12, <2>13, ActorKept DEF IInv
  <2>17. PaidInv'
    BY <1>1, <1>2, <2>10, <2>11, <2>12, <2>13, PaidKept DEF IInv
  <2>18. ChainInv'
    <3>1. Expects(ActorView, m)
      BY <2>11 DEF Expects
    <3>2. PICK v: v = ActorView
      OBVIOUS
    <3>3. After(m)' = v
      BY <1>1, <2>11, <3>2 DEF After, ActorView
    <3>4. v.snake = actor.snake /\ v.stream = actor.stream /\ v.rebase = actor.rebase
      BY <3>2 DEF ActorView, View
    <3>5. /\ ~actor.stream.closed /\ ControlProgress(actor.stream.control, server.control)
          /\ actor.stream.life = 0 => actor.stream = NewStream
          /\ actor.stream.life \in {0, actor.snake}
      BY <1>1, <1>3 DEF IInv, ActorInv
    <3>6. ControlProgress(actor.stream.control, server'.control)
      BY <1>1, <2>1, <2>5, <2>8, <3>5, ActorFields, StreamFields, ProgressTransitive
    <3>7. Synced(v)'
      BY <1>1, <1>3, <2>8, <3>4, <3>5, <3>6 DEF Synced
    <3> QED BY <1>1, <1>2, <2>10, <3>1, <3>3, <3>7, FirstChain DEF IInv
  <2> QED BY <2>12, <2>14, <2>15, <2>16, <2>17, <2>18 DEF IInv
<1>4. CASE ~(server.alive /\ server.life = actor.snake)
  <2>1. socket' = "refused" /\ UNCHANGED <<chan, server>>
    BY <1>4 DEF Rejoin
  <2>2. TypeInv'
    BY <1>1, <2>1 DEF TypeInv
  <2>3. ServerGrows
    BY <1>1, <2>1, ServerFields, ProgressReflexive DEF ServerGrows
  <2>4. ServerInv'
    BY <1>1, <2>1 DEF IInv, ServerInv, Sound
  <2>5. MessageInv'
    BY <1>1, <1>2, <2>1, <2>2, <2>3, SameMessages DEF IInv
  <2>6. ActorInv'
    BY <1>1, <1>2, <2>2, <2>3, ActorKept DEF IInv
  <2>7. PaidInv'
    BY <1>1, <1>2, <2>1, <2>2, <2>3, PaidKept DEF IInv
  <2>8. ChainInv'
    BY <1>1, <2>1, NoChain DEF IInv
  <2> QED BY <2>2, <2>4, <2>5, <2>6, <2>7, <2>8 DEF IInv
<1> QED BY <1>3, <1>4

LEMMA ReplaceStateKeeps ==
    ASSUME IInv, ReplaceState
    PROVE  IInv'
<1>1. /\ TypeInv /\ server \in Servers /\ actor \in Actors /\ socket = "up" /\ gaps < MaxGaps
      /\ gaps' = gaps + 1 /\ chan' = Append(chan, Replaced)
      /\ server' = [server EXCEPT !.alive = FALSE]
      /\ UNCHANGED <<socket, faults, actor, paid>>
  BY DEF IInv, TypeInv, ReplaceState
<1>2. /\ server' \in Servers /\ server'.alive = FALSE
      /\ server'.control = server.control /\ server'.waiting = server.waiting
      /\ server'.life = server.life /\ server'.step = server.step
      /\ server'.sequence = server.sequence /\ server'.reportedStep = server.reportedStep
  BY <1>1 DEF Servers
<1>3. /\ Replaced \in Messages /\ Replaced.kind = "replaced" /\ ~IsInterval(Replaced)
  BY DEF Messages, Replaced, IsInterval, Kinds, Closures
<1>4. PICK m: m = Replaced
  OBVIOUS
<1>5. /\ chan' \in Seq(Messages) /\ DOMAIN chan' = 1..(Len(chan) + 1) /\ Len(chan) \in Nat
      /\ DOMAIN chan = 1..Len(chan) /\ chan' = Append(chan, m)
      /\ chan'[Len(chan) + 1] = m /\ \A i \in 1..Len(chan): chan'[i] = chan[i]
  BY <1>1, <1>3, <1>4, Members, AppendIs
<1>6. TypeInv'
  <2>1. gaps' \in 0..MaxGaps
    BY <1>1, StreamAssumption DEF TypeInv
  <2> QED BY <1>1, <1>2, <1>5, <2>1 DEF TypeInv, Messages
<1>7. ActorKnows
  BY <1>1, SameActor
<1>8. ServerGrows
  BY <1>1, <1>2, ServerFields, ProgressReflexive DEF ServerGrows
<1>9. ServerInv'
  BY <1>1, <1>2 DEF IInv, ServerInv, Sound
<1>10. MessageInv'
  BY <1>1, <1>3, <1>4, <1>5, <1>6, <1>7, <1>8, AddMessage DEF IInv
<1>11. ActorInv'
  BY <1>1, <1>6, <1>7, <1>8, ActorKept DEF IInv
<1>12. PaidInv'
  <2>1. \A i \in DOMAIN chan': IsInterval(chan'[i]) => \E k \in DOMAIN chan: chan[k] = chan'[i]
    BY <1>3, <1>4, <1>5
  <2> QED BY <1>1, <1>6, <1>7, <1>8, <2>1, PaidKept DEF IInv
<1>13. ChainInv'
  <2>1. \A v: Synced(v) => Expects(v, m)
    BY <1>3, <1>4 DEF Expects
  <2>2. Replaced \in Range(chan')
    BY <1>4, <1>5 DEF Range
  <2>3. Synced(After(m))'
    BY <1>2, <2>2 DEF Synced
  <2> QED BY <1>1, <1>3, <1>4, <1>5, <1>7, <2>1, <2>3, AddChain DEF IInv
<1> QED BY <1>6, <1>9, <1>10, <1>11, <1>12, <1>13 DEF IInv

LEMMA RemoveIs ==
    ASSUME NEW S, NEW s \in Seq(S), NEW i \in 1..Len(s)
    PROVE  /\ RemoveAt(s, i) \in Seq(S) /\ DOMAIN RemoveAt(s, i) = 1..(Len(s) - 1)
           /\ \A k \in 1..(Len(s) - 1):
                RemoveAt(s, i)[k] = IF k < i THEN s[k] ELSE s[k + 1]
<1>1. Len(s) \in Nat /\ i \in 1..Len(s) /\ \A k \in 1..Len(s): s[k] \in S
  BY ElementOfSeq
<1> DEFINE p == SubSeq(s, 1, i - 1)
           q == SubSeq(s, i + 1, Len(s))
<1>2. p \in Seq(S) /\ Len(p) = i - 1 /\ \A k \in 1..(i - 1): p[k] = s[k]
  <2>1. PICK upto \in Int: upto = i - 1
    BY <1>1
  <2>2. \A k \in 1..upto: s[k] \in S
    BY <1>1, <2>1
  <2>3. /\ p \in Seq(S) /\ Len(p) = (IF 1 <= upto THEN upto - 1 + 1 ELSE 0)
        /\ \A k \in 1..(upto - 1 + 1): p[k] = s[1 + k - 1]
    BY <2>1, <2>2, SubSeqProperties
  <2> QED BY <1>1, <2>1, <2>3
<1>3. q \in Seq(S) /\ Len(q) = Len(s) - i /\ \A k \in 1..(Len(s) - i): q[k] = s[i + k]
  <2>1. PICK from \in Int: from = i + 1
    BY <1>1
  <2>2. \A k \in from..Len(s): s[k] \in S
    BY <1>1, <2>1
  <2>3. /\ q \in Seq(S) /\ Len(q) = (IF from <= Len(s) THEN Len(s) - from + 1 ELSE 0)
        /\ \A k \in 1..(Len(s) - from + 1): q[k] = s[from + k - 1]
    BY <1>1, <2>1, <2>2, SubSeqProperties
  <2>4. Len(q) = Len(s) - i /\ Len(s) - from + 1 = Len(s) - i
    BY <1>1, <2>1, <2>3
  <2>5. \A k \in 1..(Len(s) - i): from + k - 1 = i + k
    BY <1>1, <2>1
  <2> QED BY <2>3, <2>4, <2>5
<1> HIDE DEF p, q
<1>4. /\ p \o q \in Seq(S) /\ Len(p \o q) = Len(p) + Len(q)
      /\ \A k \in 1..(Len(p) + Len(q)):
           (p \o q)[k] = IF k <= Len(p) THEN p[k] ELSE q[k - Len(p)]
  BY <1>2, <1>3, ConcatProperties
<1>5. DOMAIN (p \o q) = 1..Len(p \o q)
  BY <1>4
<1>6. Len(p \o q) = Len(s) - 1
  BY <1>1, <1>2, <1>3, <1>4
<1>7. ASSUME NEW k \in 1..(Len(s) - 1)
      PROVE  (p \o q)[k] = IF k < i THEN s[k] ELSE s[k + 1]
  <2>1. (p \o q)[k] = IF k <= i - 1 THEN p[k] ELSE q[k - (i - 1)]
    BY <1>1, <1>2, <1>3, <1>4
  <2>2. CASE k < i
    <3>1. k \in 1..(i - 1) /\ k <= i - 1
      BY <1>1, <2>2
    <3> QED BY <1>2, <2>1, <2>2, <3>1
  <2>3. CASE ~(k < i)
    <3>1. k - (i - 1) \in 1..(Len(s) - i) /\ i + (k - (i - 1)) = k + 1 /\ ~(k <= i - 1)
      BY <1>1, <2>3
    <3> QED BY <1>3, <2>1, <2>3, <3>1
  <2> QED BY <2>2, <2>3
<1> QED BY <1>4, <1>5, <1>6, <1>7 DEF RemoveAt, p, q

LEMMA InsertIs ==
    ASSUME NEW S, NEW s \in Seq(S), NEW i \in 1..(Len(s) + 1), NEW e \in S
    PROVE  /\ InsertAt(s, i, e) \in Seq(S) /\ DOMAIN InsertAt(s, i, e) = 1..(Len(s) + 1)
           /\ \A k \in 1..(Len(s) + 1):
                InsertAt(s, i, e)[k] = IF k < i THEN s[k] ELSE IF k = i THEN e ELSE s[k - 1]
<1>1. Len(s) \in Nat /\ i \in 1..(Len(s) + 1) /\ \A k \in 1..Len(s): s[k] \in S
  BY ElementOfSeq
<1> DEFINE p == SubSeq(s, 1, i - 1)
           q == SubSeq(s, i, Len(s))
           r == p \o <<e>>
<1>2. p \in Seq(S) /\ Len(p) = i - 1 /\ \A k \in 1..(i - 1): p[k] = s[k]
  <2>1. PICK upto \in Int: upto = i - 1
    BY <1>1
  <2>2. \A k \in 1..upto: s[k] \in S
    BY <1>1, <2>1
  <2>3. /\ p \in Seq(S) /\ Len(p) = (IF 1 <= upto THEN upto - 1 + 1 ELSE 0)
        /\ \A k \in 1..(upto - 1 + 1): p[k] = s[1 + k - 1]
    BY <2>1, <2>2, SubSeqProperties
  <2> QED BY <1>1, <2>1, <2>3
<1>3. q \in Seq(S) /\ Len(q) = Len(s) - i + 1 /\ \A k \in 1..(Len(s) - i + 1): q[k] = s[i + k - 1]
  <2>1. \A k \in i..Len(s): s[k] \in S
    BY <1>1
  <2>2. /\ q \in Seq(S) /\ Len(q) = (IF i <= Len(s) THEN Len(s) - i + 1 ELSE 0)
        /\ \A k \in 1..(Len(s) - i + 1): q[k] = s[i + k - 1]
    BY <1>1, <2>1, SubSeqProperties
  <2> QED BY <1>1, <2>2
<1> HIDE DEF p, q
<1>4. r \in Seq(S) /\ Len(r) = i /\ r[i] = e /\ \A k \in 1..(i - 1): r[k] = s[k]
  <2>1. r = Append(p, e)
    BY <1>2
  <2>2. Len(p) + 1 = i
    BY <1>1, <1>2
  <2> HIDE DEF r
  <2>3. /\ Append(p, e) \in Seq(S) /\ Len(Append(p, e)) = Len(p) + 1
        /\ \A k \in 1..Len(p): Append(p, e)[k] = p[k]
        /\ Append(p, e)[Len(p) + 1] = e
    BY <1>2, AppendIs
  <2> QED BY <1>2, <2>1, <2>2, <2>3
<1> HIDE DEF r
<1>5. /\ r \o q \in Seq(S) /\ Len(r \o q) = Len(r) + Len(q)
      /\ \A k \in 1..(Len(r) + Len(q)):
           (r \o q)[k] = IF k <= Len(r) THEN r[k] ELSE q[k - Len(r)]
  BY <1>3, <1>4, ConcatProperties
<1>6. DOMAIN (r \o q) = 1..Len(r \o q)
  BY <1>5
<1>7. Len(r \o q) = Len(s) + 1
  BY <1>1, <1>3, <1>4, <1>5
<1>8. ASSUME NEW k \in 1..(Len(s) + 1)
      PROVE  (r \o q)[k] = IF k < i THEN s[k] ELSE IF k = i THEN e ELSE s[k - 1]
  <2>1. (r \o q)[k] = IF k <= i THEN r[k] ELSE q[k - i]
    BY <1>1, <1>3, <1>4, <1>5
  <2>2. CASE k < i
    <3>1. k \in 1..(i - 1) /\ k <= i
      BY <1>1, <2>2
    <3> QED BY <1>4, <2>1, <2>2, <3>1
  <2>3. CASE k = i
    BY <1>1, <1>4, <2>1, <2>3
  <2>4. CASE k > i
    <3>1. k - i \in 1..(Len(s) - i + 1) /\ i + (k - i) - 1 = k - 1 /\ ~(k <= i) /\ ~(k < i) /\ k # i
      BY <1>1, <2>4
    <3>2. (r \o q)[k] = q[k - i] /\ q[k - i] = s[i + (k - i) - 1]
      BY <1>3, <2>1, <3>1
    <3> QED BY <3>1, <3>2
  <2>5. k < i \/ k = i \/ k > i
    BY <1>1
  <2> QED BY <2>2, <2>3, <2>4, <2>5
<1> QED BY <1>5, <1>6, <1>7, <1>8 DEF InsertAt, p, q, r

(* A report that is lost or repeated leaves every assignment in its place. *)
LEMMA TamperedMessages ==
    ASSUME TypeInv, NEW i \in DOMAIN chan, chan[i].kind \notin {"assign", "replaced"},
           chan' \in {RemoveAt(chan, i)}
                     \cup {InsertAt(chan, j, chan[i]): j \in (i + 1)..(Len(chan) + 1)}
    PROVE  /\ chan' \in Seq(Messages)
           /\ \A k \in DOMAIN chan': \E l \in DOMAIN chan:
                chan'[k] = chan[l] /\ (l = 1 => k = 1 \/ IsInterval(chan[l]))
<1>1. /\ chan \in Seq(Messages) /\ DOMAIN chan = 1..Len(chan) /\ Len(chan) \in Nat
      /\ i \in 1..Len(chan) /\ chan[i] \in Messages /\ IsInterval(chan[i])
  BY Members, MessageKinds
<1>2. CASE chan' = RemoveAt(chan, i)
  <2>1. /\ chan' \in Seq(Messages) /\ DOMAIN chan' = 1..(Len(chan) - 1)
        /\ \A k \in 1..(Len(chan) - 1): chan'[k] = IF k < i THEN chan[k] ELSE chan[k + 1]
    BY <1>1, <1>2, RemoveIs
  <2>2. ASSUME NEW k \in DOMAIN chan'
        PROVE  \E l \in DOMAIN chan:
                 chan'[k] = chan[l] /\ (l = 1 => k = 1 \/ IsInterval(chan[l]))
    <3>1. CASE k < i
      <4>1. k \in DOMAIN chan /\ chan'[k] = chan[k]
        BY <1>1, <2>1, <3>1
      <4> QED BY <4>1
    <3>2. CASE ~(k < i)
      <4>1. k + 1 \in DOMAIN chan /\ chan'[k] = chan[k + 1] /\ k + 1 # 1
        BY <1>1, <2>1, <3>2
      <4> QED BY <4>1
    <3> QED BY <3>1, <3>2
  <2> QED BY <2>1, <2>2
<1>3. CASE \E j \in (i + 1)..(Len(chan) + 1): chan' = InsertAt(chan, j, chan[i])
  <2>1. PICK j \in (i + 1)..(Len(chan) + 1): chan' = InsertAt(chan, j, chan[i])
    BY <1>3
  <2>2. j \in 1..(Len(chan) + 1) /\ j >= 2
    BY <1>1
  <2>3. /\ chan' \in Seq(Messages) /\ DOMAIN chan' = 1..(Len(chan) + 1)
        /\ \A k \in 1..(Len(chan) + 1):
             chan'[k] = IF k < j THEN chan[k] ELSE IF k = j THEN chan[i] ELSE chan[k - 1]
    <3>1. PICK e \in Messages: e = chan[i]
      BY <1>1
    <3>2. chan' = InsertAt(chan, j, e)
      BY <2>1, <3>1
    <3>3. /\ InsertAt(chan, j, e) \in Seq(Messages)
          /\ DOMAIN InsertAt(chan, j, e) = 1..(Len(chan) + 1)
          /\ \A k \in 1..(Len(chan) + 1): InsertAt(chan, j, e)[k] =
               IF k < j THEN chan[k] ELSE IF k = j THEN e ELSE chan[k - 1]
      <4>1. PICK c \in Seq(Messages): c = chan
        BY <1>1
      <4>2. j \in 1..(Len(c) + 1)
        BY <2>2, <4>1
      <4>3. /\ InsertAt(c, j, e) \in Seq(Messages)
            /\ DOMAIN InsertAt(c, j, e) = 1..(Len(c) + 1)
            /\ \A k \in 1..(Len(c) + 1): InsertAt(c, j, e)[k] =
                 IF k < j THEN c[k] ELSE IF k = j THEN e ELSE c[k - 1]
        BY <4>2, InsertIs
      <4> QED BY <4>1, <4>3
    <3> QED BY <3>1, <3>2, <3>3
  <2>4. ASSUME NEW k \in DOMAIN chan'
        PROVE  \E l \in DOMAIN chan:
                 chan'[k] = chan[l] /\ (l = 1 => k = 1 \/ IsInterval(chan[l]))
    <3>1. CASE k < j
      <4>1. k \in DOMAIN chan /\ chan'[k] = chan[k]
        BY <1>1, <2>2, <2>3, <3>1
      <4> QED BY <4>1
    <3>2. CASE k = j
      BY <1>1, <2>2, <2>3, <3>2
    <3>3. CASE k > j
      <4>1. k - 1 \in DOMAIN chan /\ chan'[k] = chan[k - 1] /\ k - 1 # 1
        BY <1>1, <2>2, <2>3, <3>3
      <4> QED BY <4>1
    <3> QED BY <2>2, <2>3, <3>1, <3>2, <3>3
  <2> QED BY <2>3, <2>4
<1> QED BY <1>2, <1>3

LEMMA TamperKeeps ==
    ASSUME IInv, Tamper
    PROVE  IInv'
<1>1. /\ TypeInv /\ server \in Servers /\ actor \in Actors /\ faults < MaxFaults
      /\ faults' = faults + 1
      /\ UNCHANGED <<server, socket, gaps, actor, paid>>
  BY DEF IInv, TypeInv, Tamper
<1>2. PICK i \in DOMAIN chan:
        /\ chan[i].kind \notin {"assign", "replaced"}
        /\ chan' \in {RemoveAt(chan, i)}
                     \cup {InsertAt(chan, j, chan[i]): j \in (i + 1)..(Len(chan) + 1)}
  BY DEF Tamper
<1>3. /\ chan' \in Seq(Messages)
      /\ \A k \in DOMAIN chan': \E l \in DOMAIN chan:
           chan'[k] = chan[l] /\ (l = 1 => k = 1 \/ IsInterval(chan[l]))
  BY <1>1, <1>2, TamperedMessages
<1>4. TypeInv'
  <2>1. faults' \in 0..MaxFaults
    BY <1>1, StreamAssumption DEF TypeInv
  <2> QED BY <1>1, <1>3, <2>1 DEF TypeInv, Messages
<1>5. ActorKnows
  BY <1>1, SameActor
<1>6. ServerGrows
  BY <1>1, ServerFields, ProgressReflexive DEF ServerGrows
<1>7. ServerInv'
  <2>1. Replaced \in Range(chan') => Replaced \in Range(chan)
    BY <1>3 DEF Range
  <2>2. socket = "up"
    <3>1. chan # <<>>
      BY <1>2
    <3> QED BY <3>1 DEF IInv, ServerInv
  <2> QED BY <1>1, <2>1, <2>2 DEF IInv, ServerInv, Sound
<1>8. MessageInv'
  <2> SUFFICES ASSUME NEW k \in DOMAIN chan'
               PROVE  /\ IsInterval(chan'[k]) => Reported(chan[k])'
                      /\ chan'[k].kind = "assign" =>
                           /\ chan'[k].life <= server'.life
                           /\ chan'[k].reclaimed =>
                                k = 1 /\ actor'.rebase /\ chan'[k].life = actor'.snake
    BY DEF MessageInv
  <2>1. PICK l \in DOMAIN chan: chan'[k] = chan[l] /\ (l = 1 => k = 1 \/ IsInterval(chan[l]))
    BY <1>3
  <2>2. PICK n \in Messages: n = chan[l] /\ n = chan'[k]
    BY <1>1, <2>1, Members
  <2>3. IsInterval(n) => Reported(n)'
    BY <1>1, <2>2 DEF IInv, MessageInv, Reported, Sound
  <2>4. n.kind = "assign" =>
          n.life <= server.life /\ (n.reclaimed => l = 1 /\ actor.rebase /\ n.life = actor.snake)
    BY <2>2 DEF IInv, MessageInv
  <2>5. n.kind = "assign" => ~IsInterval(n)
    BY DEF IsInterval, Kinds, Closures
  <2> QED BY <1>1, <2>1, <2>2, <2>3, <2>4, <2>5
<1>9. ActorInv'
  BY <1>1, <1>4, <1>5, <1>6, ActorKept DEF IInv, ActorInv
<1>10. PaidInv'
  BY <1>1, <1>3, <1>4, <1>5, <1>6, PaidKept DEF IInv
<1>11. ChainInv'
  <2>1. faults' # 0
    BY <1>1 DEF TypeInv
  <2> QED BY <2>1 DEF ChainInv
<1> QED BY <1>4, <1>7, <1>8, <1>9, <1>10, <1>11 DEF IInv

-----------------------------------------------------------------------------
(* The actor's steps.                                                      *)

LEMMA TruncatedIs ==
    ASSUME NEW a \in Actors, NEW b, b = Truncated(a)
    PROVE  /\ b \in Actors /\ b.rebase = TRUE /\ b.integrity = FALSE
           /\ b.snake = a.snake /\ b.stream = a.stream /\ b.closed = a.closed
           /\ b.last = a.last /\ b.counter = a.counter /\ b.fatal = a.fatal
BY DEF Truncated, Actors

(* Without messages on their way, an actor that has given up its rollout   *)
(* may keep its stream, whether it keeps the snake or not.                 *)
LEMMA GivesUp ==
    ASSUME IInv, TypeInv', chan' = <<>>, socket' = "down", UNCHANGED <<server, faults, paid>>,
           actor'.rebase, ~actor'.integrity, actor'.snake \in {0, actor.snake},
           actor'.stream = actor.stream, actor'.closed = actor.closed,
           actor'.last = actor.last, actor'.counter = actor.counter,
           actor'.fatal = actor.fatal
    PROVE  IInv'
<1>1. /\ DOMAIN chan' = {} /\ Range(chan') = {} /\ server \in Servers /\ actor \in Actors
      /\ server.life \in Nat /\ actor.snake \in Nat
  <2>1. DOMAIN chan' = {}
    OBVIOUS
  <2> QED BY <2>1, ServerFields, ActorFields DEF Range, IInv, TypeInv
<1>2. ServerInv'
  BY <1>1 DEF IInv, ServerInv, Sound
<1>3. MessageInv'
  BY <1>1 DEF MessageInv
<1>4. ActorInv'
  <2>1. actor'.snake <= server.life
    BY <1>1 DEF IInv, ActorInv
  <2>2. server.alive /\ server.life = actor'.snake => server.life = actor.snake
    BY <1>1 DEF IInv, ServerInv
  <2> QED BY <2>1, <2>2 DEF IInv, ActorInv
<1>5. PaidInv'
  <2>1. server.life = actor'.snake => server.life = actor.snake
    BY <1>1 DEF IInv, ActorInv
  <2> QED BY <1>1, <2>1 DEF IInv, PaidInv, AdmittedOnce
<1>6. ChainInv'
  BY <1>1, NoChain DEF IInv
<1> QED BY <1>2, <1>3, <1>4, <1>5, <1>6 DEF IInv

LEMMA SocketFailsKeeps ==
    ASSUME IInv, SocketFails
    PROVE  IInv'
<1>1. /\ TypeInv /\ actor \in Actors /\ gaps < MaxGaps /\ gaps' = gaps + 1
      /\ socket' = "down" /\ chan' = <<>> /\ actor' = Truncated(actor)
      /\ UNCHANGED <<server, faults, paid>>
  BY DEF IInv, TypeInv, SocketFails
<1>2. /\ actor' \in Actors /\ actor'.rebase = TRUE /\ actor'.integrity = FALSE
      /\ actor'.snake = actor.snake /\ actor'.stream = actor.stream
      /\ actor'.closed = actor.closed /\ actor'.last = actor.last
      /\ actor'.counter = actor.counter /\ actor'.fatal = actor.fatal
  BY <1>1, TruncatedIs
<1>3. TypeInv'
  <2>1. gaps' \in 0..MaxGaps /\ chan' \in Seq(Messages)
    BY <1>1, StreamAssumption DEF TypeInv
  <2> QED BY <1>1, <1>2, <2>1 DEF TypeInv, Messages
<1> QED BY <1>1, <1>2, <1>3, GivesUp

LEMMA RefusedKeeps ==
    ASSUME IInv, Refused
    PROVE  IInv'
<1>1. /\ TypeInv /\ actor \in Actors /\ socket' = "down" /\ chan' = <<>>
      /\ actor' = [Truncated(actor) EXCEPT !.snake = 0]
      /\ UNCHANGED <<server, chan, gaps, faults, paid>>
  BY DEF IInv, TypeInv, ServerInv, Refused
<1>2. PICK b: b = Truncated(actor)
  OBVIOUS
<1>3. /\ b \in Actors /\ b.rebase = TRUE /\ b.integrity = FALSE
      /\ b.stream = actor.stream /\ b.closed = actor.closed
      /\ b.last = actor.last /\ b.counter = actor.counter /\ b.fatal = actor.fatal
  BY <1>1, <1>2, TruncatedIs
<1>4. /\ actor' \in Actors /\ actor'.rebase = TRUE /\ actor'.integrity = FALSE
      /\ actor'.snake = 0 /\ actor'.stream = actor.stream
      /\ actor'.closed = actor.closed /\ actor'.last = actor.last
      /\ actor'.counter = actor.counter /\ actor'.fatal = actor.fatal
  <2>1. actor' = [b EXCEPT !.snake = 0] /\ 0 \in 0..MaxLives
    BY <1>1, <1>2, StreamAssumption
  <2> QED BY <1>3, <2>1 DEF Actors
<1>5. TypeInv'
  BY <1>1, <1>4 DEF TypeInv
<1> QED BY <1>1, <1>4, <1>5, GivesUp

(* A new life is known to begin with nothing.                              *)
LEMMA Resets ==
    ASSUME IInv, TypeInv', NEW n \in 0..server.life, actor' = ResetLife(actor, n),
           paid' = <<>>, UNCHANGED server, socket' = "up" \/ n = 0
    PROVE  /\ actor' \in Actors /\ actor'.snake = n /\ actor'.stream = NewStream
           /\ actor'.rebase = FALSE /\ actor'.fatal = FALSE /\ actor'.counter = actor.counter
           /\ ActorInv' /\ PaidInv'
<1>1. /\ server \in Servers /\ actor \in Actors /\ n \in 0..MaxLives
      /\ actor.counter \in 0..MaxId /\ n \in Nat /\ n <= server.life
  <2>1. server \in Servers /\ actor \in Actors
    BY DEF IInv, TypeInv
  <2> QED BY <2>1, ServerFields, ActorFields, StreamAssumption
<1>2. actor' = [NewActor EXCEPT !.snake = n, !.counter = actor.counter]
  BY DEF ResetLife
<1>3. /\ actor' \in Actors /\ actor'.snake = n /\ actor'.stream = NewStream
      /\ actor'.rebase = FALSE /\ actor'.closed = FALSE /\ actor'.integrity = TRUE
      /\ actor'.last = NoControl /\ actor'.counter = actor.counter /\ actor'.fatal = FALSE
  <2>1. PICK a: a = [NewActor EXCEPT !.snake = n, !.counter = actor.counter]
    OBVIOUS
  <2>2. PICK life \in 0..MaxLives, counter \in 0..MaxId: life = n /\ counter = actor.counter
    BY <1>1
  <2>3. a = [NewActor EXCEPT !.snake = life, !.counter = counter]
    BY <2>1, <2>2
  <2>4. /\ a \in Actors /\ a.snake = life /\ a.stream = NewStream
        /\ a.rebase = FALSE /\ a.closed = FALSE /\ a.integrity = TRUE
        /\ a.last = NoControl /\ a.counter = counter /\ a.fatal = FALSE
    <3>1. a \in Actors
      BY <2>2, <2>3, ResetIs
    <3>2. /\ a.snake = life /\ a.stream = NewStream
          /\ a.rebase = FALSE /\ a.closed = FALSE /\ a.integrity = TRUE
          /\ a.last = NoControl /\ a.counter = counter /\ a.fatal = FALSE
      BY <2>3 DEF NewActor
    <3> QED BY <3>1, <3>2
  <2> QED BY <1>2, <2>1, <2>2, <2>4
<1>4. /\ NewStream.life = 0 /\ NewStream.closed = FALSE /\ NewStream.control = NoControl
      /\ NewStream.sequence = -1
  BY DEF NewStream, None
<1>5. ControlProgress(NoControl, server.control)
  BY <1>1, ServerFields, ProgressFromNone DEF IInv, ServerInv, Sound
<1>6. ActorInv'
  <2>1. ~actor'.rebase /\ ~NewStream.closed /\ actor'.closed = NewStream.closed
    BY <1>3, <1>4
  <2> QED BY <1>1, <1>3, <1>4, <1>5, <2>1 DEF ActorInv
<1>7. PaidInv'
  <2>1. DOMAIN paid' = {}
    OBVIOUS
  <2>2. paid' = [i \in 1..(actor'.stream.sequence - 1) |-> i + 1]
    <3>1. 1..(actor'.stream.sequence - 1) = {}
      BY <1>3, <1>4
    <3> QED BY <3>1
  <2>3. ~actor'.rebase
    BY <1>3
  <2> QED BY <2>1, <2>2, <2>3 DEF PaidInv, AdmittedOnce
<1> QED BY <1>3, <1>6, <1>7

LEMMA ResetType ==
    ASSUME TypeInv, NEW n \in 0..MaxLives
    PROVE  ResetLife(actor, n) \in Actors
<1>1. actor.counter \in 0..MaxId
  BY DEF TypeInv, Actors
<1>2. PICK a: a = [NewActor EXCEPT !.snake = n, !.counter = actor.counter]
  OBVIOUS
<1>3. a \in Actors
  BY <1>1, <1>2, ResetIs
<1> QED BY <1>2, <1>3 DEF ResetLife

LEMMA OnReplacedKeeps ==
    ASSUME IInv, OnReplaced
    PROVE  IInv'
<1>1. /\ TypeInv /\ server \in Servers /\ actor' = ResetLife(actor, 0) /\ paid' = <<>>
      /\ socket' = "down" /\ chan' = <<>> /\ UNCHANGED <<server, gaps, faults>>
      /\ ~actor.fatal
  BY DEF IInv, TypeInv, OnReplaced, Reading
<1>2. 0 \in 0..MaxLives /\ 0 \in 0..server.life
  BY <1>1, ServerFields, StreamAssumption
<1>3. TypeInv'
  <2>1. chan' \in Seq(Messages) /\ paid' \in Seq(1..MaxReports) /\ actor' \in Actors
    BY <1>1, <1>2, ResetType
  <2> QED BY <1>1, <2>1 DEF TypeInv, Messages
<1>4. /\ actor'.counter = actor.counter /\ actor'.fatal = FALSE /\ ActorInv' /\ PaidInv'
  BY <1>1, <1>2, <1>3, Resets
<1>5. DOMAIN chan' = {} /\ Range(chan') = {}
  <2>1. DOMAIN chan' = {}
    BY <1>1
  <2> QED BY <2>1 DEF Range
<1>6. ServerInv'
  BY <1>1, <1>4, <1>5 DEF IInv, ServerInv, Sound
<1>7. MessageInv'
  BY <1>5 DEF MessageInv
<1>8. ChainInv'
  BY <1>1, <1>4, <1>5 DEF ChainInv
<1> QED BY <1>3, <1>4, <1>6, <1>7, <1>8 DEF IInv

(* What reading a message leaves alone.                                    *)
LEMMA Handles ==
    ASSUME IInv, Reading, chan' = Tail(chan), UNCHANGED <<server, socket, gaps, faults>>,
           actor' \in Actors, actor'.counter = actor.counter, paid' \in Seq(1..MaxReports)
    PROVE  /\ TypeInv' /\ ServerInv' /\ MessageInv' /\ socket' = "up"
           /\ \A i \in DOMAIN chan': i + 1 \in DOMAIN chan /\ chan'[i] = chan[i + 1]
           /\ Head(chan) = chan[1] /\ 1 \in DOMAIN chan /\ chan[1] \in Messages
           /\ Before(2) = After(chan[1])
<1>1. /\ TypeInv /\ chan # <<>> /\ socket = "up"
  BY DEF IInv, Reading
<1>2. /\ chan' \in Seq(Messages) /\ Head(chan) = chan[1] /\ 1 \in DOMAIN chan
      /\ chan[1] \in Messages
  BY <1>1, Members, TailIs
<1>3. /\ MessageInv'
      /\ \A i \in DOMAIN chan': i + 1 \in DOMAIN chan /\ chan'[i] = chan[i + 1]
  BY <1>1, ReadMessages DEF IInv
<1>4. TypeInv'
  BY <1>1, <1>2 DEF TypeInv, Messages
<1>5. ServerInv'
  <2>1. Replaced \in Range(chan') => Replaced \in Range(chan)
    BY <1>3 DEF Range
  <2> QED BY <1>1, <2>1 DEF IInv, ServerInv, Sound
<1>6. Before(2) = After(chan[1])
  <2>1. 2 # 1 /\ 2 - 1 = 1
    OBVIOUS
  <2> QED BY <2>1 DEF Before
<1> QED BY <1>1, <1>2, <1>3, <1>4, <1>5, <1>6

(* The trainer has ended: a reason that only a fault gives.                *)
LEMMA EndsTrainer ==
    ASSUME IInv, Reading, faults # 0, Handled([actor EXCEPT !.fatal = TRUE]), UNCHANGED paid
    PROVE  IInv'
<1>1. /\ actor \in Actors /\ actor' = [actor EXCEPT !.fatal = TRUE] /\ chan' = Tail(chan)
      /\ UNCHANGED <<server, socket, gaps, faults, paid>> /\ paid \in Seq(1..MaxReports)
      /\ server \in Servers
  BY DEF IInv, TypeInv, Handled
<1>2. actor' \in Actors /\ ActorKnows
  <2>1. actor.counter >= actor.counter
    BY <1>1, ActorFields
  <2> QED BY <1>1, <2>1 DEF Actors, ActorKnows
<1>3. actor'.counter = actor.counter
  BY <1>1 DEF Actors
<1>4. /\ TypeInv' /\ ServerInv' /\ MessageInv' /\ socket' = "up"
      /\ \A i \in DOMAIN chan': i + 1 \in DOMAIN chan /\ chan'[i] = chan[i + 1]
  BY <1>1, <1>2, <1>3, Handles
<1>5. ServerGrows
  BY <1>1, ServerFields, ProgressReflexive DEF ServerGrows
<1>6. ActorInv'
  BY <1>2, <1>4, <1>5, ActorKept DEF IInv
<1>7. PaidInv'
  BY <1>1, <1>2, <1>4, <1>5, PaidKept DEF IInv
<1>8. ChainInv'
  BY <1>1 DEF ChainInv
<1> QED BY <1>4, <1>6, <1>7, <1>8 DEF IInv

LEMMA OnAssignKeeps ==
    ASSUME IInv, OnAssign
    PROVE  IInv'
<1>1. /\ TypeInv /\ server \in Servers /\ actor \in Actors /\ Reading /\ chan # <<>>
      /\ socket = "up" /\ ~actor.fatal /\ paid \in Seq(1..MaxReports)
  BY DEF IInv, TypeInv, OnAssign, Reading
<1>2. Head(chan) = chan[1] /\ 1 \in DOMAIN chan /\ chan[1] \in Messages
  BY <1>1, Members, TailIs
<1>3. PICK m \in Messages: m = chan[1]
  BY <1>2
<1>4. /\ m.kind = "assign" /\ m \in Assignments /\ m # Replaced /\ ~IsInterval(m)
  <2>1. m.kind = "assign"
    BY <1>2, <1>3 DEF OnAssign
  <2> QED BY <2>1, MessageKinds DEF IsInterval, Kinds, Closures
<1>5. m.life \in Lives /\ m.reclaimed \in BOOLEAN
  BY <1>4 DEF Assignments
<1>6. /\ m.life <= server.life
      /\ m.reclaimed => actor.rebase /\ m.life = actor.snake
  BY <1>2, <1>3, <1>4 DEF IInv, MessageInv
<1>7. CASE m.reclaimed
  <2>1. /\ actor' = Truncated(actor) /\ chan' = Tail(chan)
        /\ UNCHANGED <<server, socket, gaps, faults, paid>>
    BY <1>2, <1>3, <1>7 DEF OnAssign, Handled
  <2>2. actor.rebase /\ ~actor.integrity
    BY <1>6, <1>7 DEF IInv, ActorInv
  <2>3. /\ actor' \in Actors /\ actor'.rebase = TRUE /\ actor'.integrity = FALSE
        /\ actor'.snake = actor.snake /\ actor'.stream = actor.stream
        /\ actor'.closed = actor.closed /\ actor'.last = actor.last
        /\ actor'.counter = actor.counter /\ actor'.fatal = actor.fatal
    BY <1>1, <2>1, TruncatedIs
  <2>4. ActorKnows
    <3>1. actor.rebase = TRUE /\ actor.integrity = FALSE
      BY <1>1, <2>2, ActorFields
    <3>2. actor'.counter >= actor.counter
      BY <1>1, <2>3, ActorFields
    <3> QED BY <2>3, <3>1, <3>2 DEF ActorKnows
  <2>5. /\ TypeInv' /\ ServerInv' /\ MessageInv' /\ socket' = "up"
        /\ \A i \in DOMAIN chan': i + 1 \in DOMAIN chan /\ chan'[i] = chan[i + 1]
        /\ Before(2) = After(chan[1])
    BY <1>1, <2>1, <2>3, Handles
  <2>6. ServerGrows
    BY <1>1, <2>1, ServerFields, ProgressReflexive DEF ServerGrows
  <2>7. ActorInv'
    BY <2>4, <2>5, <2>6, ActorKept DEF IInv
  <2>8. PaidInv'
    BY <2>1, <2>4, <2>5, <2>6, PaidKept DEF IInv
  <2>9. ActorView' = Before(2)
    <3>1. After(m) = ActorView
      BY <1>4, <1>7 DEF After
    <3>2. ActorView' = ActorView
      BY <2>4 DEF ActorView, ActorKnows
    <3> QED BY <1>3, <2>5, <3>1, <3>2
  <2>10. ChainInv'
    BY <1>1, <1>2, <1>3, <1>4, <2>1, <2>3, <2>9, ReadChain DEF IInv
  <2> QED BY <2>5, <2>7, <2>8, <2>10 DEF IInv
<1>8. CASE ~m.reclaimed /\ actor.snake # 0 /\ ~actor.closed /\ actor.observed /\ actor.integrity
  <2>1. Handled([actor EXCEPT !.fatal = TRUE]) /\ UNCHANGED paid
    BY <1>2, <1>3, <1>8 DEF OnAssign
  <2>2. faults # 0
    <3> SUFFICES ASSUME faults = 0 PROVE FALSE
      OBVIOUS
    <3>1. Expects(Before(1), chan[1])
      BY <1>2 DEF IInv, ChainInv
    <3>2. PICK v: v = ActorView
      OBVIOUS
    <3>3. Before(1) = v
      BY <3>2 DEF Before
    <3>4. v.snake = 0 \/ v.stream.closed
      BY <1>3, <1>4, <1>8, <3>1, <3>3 DEF Expects
    <3>5. v.snake = actor.snake /\ v.stream = actor.stream
      BY <3>2 DEF ActorView, View
    <3> QED BY <1>8, <3>4, <3>5 DEF IInv, ActorInv
  <2> QED BY <1>1, <2>1, <2>2, EndsTrainer
<1>9. CASE /\ ~m.reclaimed
           /\ ~(actor.snake # 0 /\ ~actor.closed /\ actor.observed /\ actor.integrity)
  <2>1. /\ actor' = ResetLife(actor, m.life) /\ chan' = Tail(chan) /\ paid' = <<>>
        /\ UNCHANGED <<server, socket, gaps, faults>>
    BY <1>2, <1>3, <1>9 DEF OnAssign, Handled
  <2>2. m.life \in 0..MaxLives /\ m.life \in 0..server.life
    BY <1>1, <1>5, <1>6, ServerFields, StreamAssumption DEF Lives
  <2>3. actor' \in Actors /\ paid' \in Seq(1..MaxReports)
    BY <1>1, <2>1, <2>2, ResetType
  <2>4. actor'.counter = actor.counter
    <3>1. ResetLife(actor, m.life) = [NewActor EXCEPT !.snake = m.life, !.counter = actor.counter]
      BY DEF ResetLife
    <3> QED BY <2>1, <3>1 DEF NewActor
  <2>5. /\ TypeInv' /\ ServerInv' /\ MessageInv' /\ socket' = "up"
        /\ Before(2) = After(chan[1])
    BY <1>1, <2>1, <2>3, <2>4, Handles
  <2>6. /\ actor'.snake = m.life /\ actor'.stream = NewStream /\ actor'.rebase = FALSE
        /\ actor'.fatal = FALSE /\ ActorInv' /\ PaidInv'
    BY <2>1, <2>2, <2>5, Resets
  <2>7. ActorView' = Before(2)
    <3>1. After(m) = View(m.life, NewStream, FALSE)
      BY <1>4, <1>9 DEF After
    <3>2. ActorView' = View(m.life, NewStream, FALSE)
      BY <2>6 DEF ActorView
    <3> QED BY <1>3, <2>5, <3>1, <3>2
  <2>8. ChainInv'
    BY <1>1, <1>2, <1>3, <1>4, <2>1, <2>6, <2>7, ReadChain DEF IInv
  <2> QED BY <2>5, <2>6, <2>8 DEF IInv
<1> QED BY <1>5, <1>7, <1>8, <1>9

-----------------------------------------------------------------------------
(* The actor reads an interval.                                            *)

LEMMA CommittedIs ==
    ASSUME NEW e \in Intervals, NEW t, t = Committed(e)
    PROVE  /\ t \in Streams /\ t.life = e.life /\ t.sequence = e.sequence /\ t.step = e.to
           /\ t.length = e.length /\ t.control = e.control /\ t.closed = (e.kind \in Closures)
<1>1. PICK closed \in BOOLEAN: closed = (e.kind \in Closures)
  <2>1. (e.kind \in Closures) \in BOOLEAN
    OBVIOUS
  <2> QED BY <2>1, Zenon
<1>2. t = [life |-> e.life, sequence |-> e.sequence, step |-> e.to, closed |-> closed,
           length |-> e.length, control |-> e.control]
  BY <1>1 DEF Committed
<1> QED BY <1>1, <1>2, StreamAssumption DEF Streams, Intervals, Lives

(* The rewards of consecutive reports are consecutive.                     *)
LEMMA PaysNext ==
    ASSUME NEW p \in Seq(1..MaxReports), NEW n \in Nat, n >= 1,
           p = [i \in 1..(n - 1) |-> i + 1]
    PROVE  Append(p, n + 1) = [i \in 1..n |-> i + 1]
<1>1. Len(p) = n - 1
  <2>1. DOMAIN p = 1..(n - 1) /\ n - 1 \in Nat
    OBVIOUS
  <2> QED BY <2>1, LenProperties
<1>2. Append(p, n + 1) = [i \in 1..(Len(p) + 1) |-> IF i <= Len(p) THEN p[i] ELSE n + 1]
  BY AppendProperties
<1>3. Len(p) + 1 = n
  BY <1>1
<1>4. \A i \in 1..n: (IF i <= Len(p) THEN p[i] ELSE n + 1) = i + 1
  BY <1>1
<1> QED BY <1>2, <1>3, <1>4

(* What an actor does not refuse.                                          *)
LEMMA AdmitsIs ==
    ASSUME IInv, NEW e \in Intervals, Admits(e)
    PROVE  /\ e.life = actor.snake
           /\ ~actor.rebase => Accepts(actor.stream, actor.snake, e)
BY DEF Admits, Discards, Rebases, Accepts

LEMMA AdmitKeeps ==
    ASSUME IInv, Admit
    PROVE  IInv'
<1>1. /\ TypeInv /\ server \in Servers /\ actor \in Actors /\ Reading /\ chan # <<>>
      /\ socket = "up" /\ ~actor.fatal /\ paid \in Seq(1..MaxReports)
  BY DEF IInv, TypeInv, Admit, Reading
<1>2. Head(chan) = chan[1] /\ 1 \in DOMAIN chan /\ chan[1] \in Messages
  BY <1>1, Members, TailIs
<1>3. PICK e: e = Head(chan)
  OBVIOUS
<1>4. /\ e.kind \notin {"assign", "replaced"} /\ actor.snake # 0 /\ Admits(e)
      /\ Handled([actor EXCEPT !.stream = Committed(e), !.rebase = FALSE,
                           !.observed = @ \/ ~(actor.rebase /\ e.kind \in Closures),
                           !.last = e.control, !.closed = e.kind \in Closures])
      /\ paid' = IF actor.rebase \/ e.kind = "initial" THEN paid ELSE Append(paid, e.sequence)
  BY <1>3, Zenon DEF Admit
<1>5. e \in Intervals /\ IsInterval(e) /\ e = chan[1]
  BY <1>2, <1>3, <1>4, MessageKinds
<1>6. Reported(e)
  BY <1>2, <1>5 DEF IInv, MessageInv
<1>7. /\ e.life = actor.snake
      /\ ~actor.rebase => Accepts(actor.stream, actor.snake, e)
  BY <1>4, <1>5, AdmitsIs
<1>8. /\ chan' = Tail(chan) /\ UNCHANGED <<server, socket, gaps, faults>>
      /\ actor' \in Actors /\ actor'.snake = actor.snake /\ actor'.stream = Committed(e)
      /\ actor'.rebase = FALSE /\ actor'.closed = (e.kind \in Closures)
      /\ actor'.integrity = actor.integrity /\ actor'.last = e.control
      /\ actor'.counter = actor.counter /\ actor'.fatal = actor.fatal
  <2>1. PICK t \in Streams: t = Committed(e)
    BY <1>5, CommittedIs
  <2>2. PICK observed \in BOOLEAN:
          observed = (actor.observed \/ ~(actor.rebase /\ e.kind \in Closures))
    BY Zenon
  <2>3. PICK closed \in BOOLEAN: closed = (e.kind \in Closures)
    <3>1. (e.kind \in Closures) \in BOOLEAN
      OBVIOUS
    <3> QED BY <3>1, Zenon
  <2>4. PICK last \in Controls: last = e.control
    BY <1>5, IntervalFields
  <2>5. actor' = [actor EXCEPT !.stream = t, !.rebase = FALSE, !.observed = observed,
                               !.last = last, !.closed = closed]
    BY <1>4, <2>1, <2>2, <2>3, <2>4 DEF Handled
  <2>6. /\ actor' \in Actors /\ actor'.snake = actor.snake /\ actor'.stream = t
        /\ actor'.rebase = FALSE /\ actor'.closed = closed
        /\ actor'.integrity = actor.integrity /\ actor'.last = last
        /\ actor'.counter = actor.counter /\ actor'.fatal = actor.fatal
    BY <1>1, <2>1, <2>2, <2>3, <2>4, <2>5 DEF Actors
  <2>7. chan' = Tail(chan) /\ UNCHANGED <<server, socket, gaps, faults>>
    BY <1>4 DEF Handled
  <2> QED BY <2>1, <2>3, <2>4, <2>6, <2>7
<1>9. PICK t \in Streams: t = Committed(e)
  BY <1>5, CommittedIs
<1>10. /\ t.life = e.life /\ t.sequence = e.sequence /\ t.step = e.to
       /\ t.length = e.length /\ t.control = e.control /\ t.closed = (e.kind \in Closures)
  BY <1>5, <1>9, CommittedIs
<1>11. /\ e.sequence \in 1..MaxReports /\ (e.kind = "initial" <=> e.sequence = 1)
       /\ e.kind # "initial" => e.previous = e.sequence - 1
       /\ e.life = server.life =>
            /\ e.sequence <= server.sequence /\ ControlProgress(e.control, server.control)
            /\ server.alive => e.kind \notin Closures
  BY <1>6 DEF Reported
<1>12. e.sequence \in Nat /\ e.sequence >= 1 /\ e.sequence <= MaxReports /\ e.to # None /\ e.length # None
       /\ e.life >= 1
  BY <1>5, <1>11, IntervalFields, StreamAssumption DEF None
<1>13. paid' \in Seq(1..MaxReports)
  <2>1. paid' = paid \/ paid' = Append(paid, e.sequence)
    BY <1>4, Zenon
  <2>2. Append(paid, e.sequence) \in Seq(1..MaxReports)
    BY <1>1, <1>11, AppendIs
  <2> QED BY <1>1, <2>1, <2>2
<1>14. /\ TypeInv' /\ ServerInv' /\ MessageInv' /\ socket' = "up" /\ Before(2) = After(chan[1])
  BY <1>1, <1>8, <1>13, Handles
<1>15. ActorInv'
  <2>1. actor.snake <= server.life
    BY DEF IInv, ActorInv
  <2>2. t.life # 0 /\ t.sequence >= 1 /\ t.length # None /\ t.step # None
    BY <1>10, <1>12
  <2>3. server.alive /\ server.life = actor.snake =>
          ~t.closed /\ ControlProgress(t.control, server.control)
    BY <1>7, <1>10, <1>11
  <2>4. actor'.last = t.control /\ actor'.closed = t.closed /\ t.life = actor'.snake
    BY <1>7, <1>8, <1>10
  <2> QED BY <1>8, <1>9, <1>14, <2>1, <2>2, <2>3, <2>4 DEF ActorInv
<1>16. PaidInv'
  <2>1. /\ \A i, j \in DOMAIN paid: i < j => paid[i] < paid[j]
        /\ \A j \in DOMAIN paid: paid[j] <= actor.stream.sequence
        /\ server.life = actor.snake => \A j \in DOMAIN paid: paid[j] <= server.sequence
        /\ actor.rebase => \A j \in DOMAIN paid: paid[j] < e.sequence
        /\ actor.integrity => paid = [i \in 1..(actor.stream.sequence - 1) |-> i + 1]
        /\ actor.rebase => ~actor.integrity
    BY <1>2, <1>5, <1>7 DEF IInv, PaidInv, AdmittedOnce, ActorInv
  <2>2. /\ DOMAIN paid = 1..Len(paid) /\ Len(paid) \in Nat
        /\ \A j \in DOMAIN paid: paid[j] \in Nat /\ paid[j] >= 1 /\ paid[j] <= MaxReports
    BY <1>1, PaidFields
  <2>3. actor.stream.sequence \in Int /\ server.sequence \in Nat
    BY <1>1, ActorFields, StreamFields, ServerFields
  <2>4. SUFFICES /\ \A i, j \in DOMAIN paid': i < j => paid'[i] < paid'[j]
                 /\ \A j \in DOMAIN paid': paid'[j] <= e.sequence
                 /\ server.life = actor.snake => \A j \in DOMAIN paid': paid'[j] <= server.sequence
                 /\ actor.integrity => paid' = [i \in 1..(e.sequence - 1) |-> i + 1]
    BY <1>8, <1>9, <1>10 DEF PaidInv, AdmittedOnce
  <2>5. CASE actor.rebase
    <3>1. paid' = paid
      BY <1>4, <2>5
    <3> QED BY <1>12, <2>1, <2>2, <2>5, <3>1
  <2>6. CASE ~actor.rebase /\ e.kind = "initial"
    <3>1. actor.stream.life = 0
      BY <1>7, <2>6 DEF Accepts, Follows
    <3>2. actor.stream.sequence = -1
      BY <3>1 DEF IInv, ActorInv, NewStream, None
    <3>3. DOMAIN paid = {} /\ e.sequence = 1 /\ paid' = paid
      BY <1>4, <1>11, <2>1, <2>2, <2>6, <3>2
    <3>4. paid = [i \in 1..(e.sequence - 1) |-> i + 1]
      <4>1. 1..(e.sequence - 1) = {} /\ Len(paid) = 0
        BY <2>2, <3>3
      <4>2. paid = <<>>
        BY <1>1, <4>1, EmptySeq
      <4> QED BY <4>1, <4>2
    <3> QED BY <3>3, <3>4
  <2>7. CASE ~actor.rebase /\ e.kind # "initial"
    <3>1. actor.stream.life # 0 /\ e.previous = actor.stream.sequence
      BY <1>7, <2>7 DEF Accepts, Follows
    <3>2. actor.stream.sequence = e.sequence - 1 /\ actor.stream.sequence >= 1
      BY <1>11, <2>7, <3>1 DEF IInv, ActorInv
    <3>3. /\ DOMAIN paid' = 1..(Len(paid) + 1) /\ paid'[Len(paid) + 1] = e.sequence
          /\ \A i \in 1..Len(paid): paid'[i] = paid[i]
      <4>1. paid' = Append(paid, e.sequence)
        BY <1>4, <2>7
      <4> QED BY <1>1, <1>11, <4>1, AppendIs
    <3>4. \A j \in DOMAIN paid: paid[j] < e.sequence
      BY <1>12, <2>1, <2>2, <2>3, <3>2
    <3>5. \A i, j \in DOMAIN paid': i < j => paid'[i] < paid'[j]
      BY <2>1, <2>2, <3>3, <3>4
    <3>6. \A j \in DOMAIN paid': paid'[j] <= e.sequence
      BY <1>12, <2>2, <3>3, <3>4
    <3>7. server.life = actor.snake => \A j \in DOMAIN paid': paid'[j] <= server.sequence
      BY <1>7, <1>11, <1>12, <2>3, <3>6, <2>2, <3>3, <2>1
    <3>8. actor.integrity => paid' = [i \in 1..(e.sequence - 1) |-> i + 1]
      <4>1. PICK n \in Nat: n = actor.stream.sequence /\ n >= 1 /\ n + 1 = e.sequence
        BY <1>12, <3>2
      <4>2. paid' = Append(paid, n + 1) /\ e.sequence - 1 = n
        BY <1>4, <2>7, <4>1
      <4> QED BY <1>1, <2>1, <4>1, <4>2, PaysNext
    <3> QED BY <3>5, <3>6, <3>7, <3>8
  <2> QED BY <2>5, <2>6, <2>7
<1>17. ChainInv'
  <2>1. After(e) = View(e.life, Committed(e), FALSE)
    BY <1>4 DEF After
  <2>2. ActorView' = View(e.life, Committed(e), FALSE)
    BY <1>7, <1>8 DEF ActorView
  <2>3. ActorView' = Before(2)
    BY <1>5, <1>14, <2>1, <2>2
  <2>4. Head(chan) # Replaced
    BY <1>3, <1>4 DEF Replaced
  <2>5. ~actor'.fatal
    BY <1>1, <1>8
  <2> QED BY <1>1, <1>8, <2>3, <2>4, <2>5, ReadChain DEF IInv
<1> QED BY <1>14, <1>15, <1>16, <1>17 DEF IInv

(* An actor refuses no interval of a coherent server.                      *)
LEMMA AdmitsCoherent ==
    ASSUME IInv, Reading, faults = 0, NEW e, e = Head(chan),
           e.kind \notin {"assign", "replaced"}
    PROVE  Admits(e)
<1>1. /\ TypeInv /\ actor \in Actors /\ chan # <<>>
  BY DEF IInv, TypeInv, Reading
<1>2. e = chan[1] /\ 1 \in DOMAIN chan /\ e \in Messages
  BY <1>1, Members, TailIs
<1>3. e \in Intervals /\ IsInterval(e)
  BY <1>2, MessageKinds
<1>4. Reported(e)
  BY <1>2, <1>3 DEF IInv, MessageInv
<1>5. Takes(ActorView, e)
  <2>1. Expects(Before(1), chan[1])
    BY <1>2 DEF IInv, ChainInv
  <2>2. Before(1) = ActorView
    BY DEF Before
  <2> QED BY <1>2, <1>3, <2>1, <2>2 DEF Expects
<1>6. /\ ~actor.stream.closed
      /\ IF ~actor.rebase THEN Accepts(actor.stream, actor.snake, e)
         ELSE IF e.kind \in Closures THEN Discards(actor.stream, actor.snake, e)
         ELSE Rebases(actor.stream, actor.snake, e)
  BY <1>5 DEF Takes, ActorView, View
<1>7. e.life = actor.snake /\ Commits(actor.stream, e)
  BY <1>6 DEF Accepts, Discards, Rebases
<1>8. Parses(e) /\ ControlOK(e.control, e.to) /\ Sound(e.control)
  BY <1>4 DEF Reported, Parses
<1>9. Echoes(actor, e.control)
  <2>1. PICK c \in Controls, n \in Nat: c = e.control /\ n = e.to
    BY <1>3, IntervalFields
  <2>2. ControlOK(c, n) /\ Sound(c)
    BY <1>8, <2>1
  <2>3. ControlProgress(actor.last, c)
    <3>1. actor.last = actor.stream.control /\ (actor.stream.life = 0 => actor.stream = NewStream)
          /\ (actor.snake # 0 => actor.stream.life \in {0, actor.snake})
      BY DEF IInv, ActorInv
    <3>2. actor.snake # 0
      BY <1>3, <1>7, IntervalFields
    <3>3. CASE actor.stream.life = 0
      <4>1. actor.last = NoControl
        BY <3>1, <3>3 DEF NewStream
      <4>2. c.applied = 0 => c.first = None
        BY <2>2 DEF Sound
      <4> QED BY <2>2, <4>1, <4>2, ProgressFromNone
    <3>4. CASE actor.stream.life # 0
      BY <1>7, <2>1, <3>1, <3>2, <3>4 DEF Commits
    <3> QED BY <3>3, <3>4
  <2> QED BY <1>1, <2>1, <2>2, <2>3, ProgressEchoes
<1>10. ~actor.closed
  BY <1>6 DEF IInv, ActorInv
<1> QED BY <1>6, <1>8, <1>9, <1>10 DEF Admits

LEMMA RefuseKeeps ==
    ASSUME IInv, Refuse
    PROVE  IInv'
<1>1. PICK e: e = Head(chan)
  OBVIOUS
<1>2. /\ Reading /\ e.kind \notin {"assign", "replaced"} /\ ~Admits(e)
      /\ Handled([actor EXCEPT !.fatal = TRUE]) /\ UNCHANGED paid
  BY <1>1, Zenon DEF Refuse
<1>3. faults # 0
  BY <1>1, <1>2, AdmitsCoherent
<1> QED BY <1>2, <1>3, EndsTrainer

-----------------------------------------------------------------------------
(* The theorems.                                                           *)

(* Every step keeps the invariant.                                         *)
THEOREM Invariance == Spec => []IInv
<1>1. Init => IInv
  BY InitKeeps
<1>2. IInv /\ [Next]_vars => IInv'
  <2> SUFFICES ASSUME IInv, [Next]_vars PROVE IInv'
    OBVIOUS
  <2>1. CASE Next
    <3>1. CASE \E kind \in {"initial", "live"} \cup Closures: Report(kind)
      BY <3>1, ReportKeeps DEF Kinds
    <3> QED BY <2>1, <3>1, IssueKeeps, PhysicsKeeps, AssignLifeKeeps, RejoinKeeps,
               ReplaceStateKeeps, TamperKeeps, SocketFailsKeeps, RefusedKeeps, OnReplacedKeeps,
               OnAssignKeeps, AdmitKeeps, RefuseKeeps DEF Next
  <2>2. CASE UNCHANGED vars
    <3>1. UNCHANGED <<server, socket, chan, gaps, faults, actor, paid>>
      BY <2>2 DEF vars
    <3>2. TypeInv' /\ ServerInv' /\ ActorInv' /\ PaidInv'
      BY <3>1 DEF IInv, TypeInv, ServerInv, Sound, ActorInv, PaidInv, AdmittedOnce
    <3>3. MessageInv'
      <4>1. \A m: Reported(m)' <=> Reported(m)
        BY <3>1 DEF Reported, Sound
      <4> QED BY <3>1, <4>1 DEF IInv, MessageInv
    <3>4. ChainInv'
      <4>1. \A i: Before(i)' = Before(i)
        BY <3>1 DEF Before, After, ActorView
      <4>2. \A v: Synced(v)' <=> Synced(v)
        BY <3>1 DEF Synced
      <4> QED BY <3>1, <4>1, <4>2 DEF IInv, ChainInv
    <3> QED BY <3>2, <3>3, <3>4 DEF IInv
  <2> QED BY <2>1, <2>2
<1> QED BY <1>1, <1>2, PTL DEF Spec

(* The run's type invariant: the bounds of lives, steps, reports, gaps and *)
(* faults, and a server whose control conserves its counts.                *)
THEOREM TypeCorrect == Spec => []TypeOK
<1>1. IInv => TypeOK
  <2> SUFFICES ASSUME IInv PROVE TypeOK
    OBVIOUS
  <2>1. server \in Servers /\ actor \in Actors /\ TypeInv
    BY DEF IInv, TypeInv
  <2>2. /\ server.life \in 0..MaxLives /\ server.step \in 0..MaxStep
        /\ server.sequence \in 0..MaxReports
    BY <2>1 DEF Servers
  <2>3. actor.snake \in 0..MaxLives /\ actor.counter \in 0..MaxId
    BY <2>1 DEF Actors
  <2> QED BY <2>1, <2>2, <2>3 DEF TypeOK, TypeInv, IInv, ServerInv
<1> QED BY <1>1, Invariance, PTL

(* CoherentAccepted: without a report lost or repeated on a live           *)
(* connection, no interval, closure or assignment ends the trainer.        *)
THEOREM NeverRefusesCoherent == Spec => []CoherentAccepted
<1>1. IInv => CoherentAccepted
  BY DEF IInv, ChainInv, CoherentAccepted
<1> QED BY <1>1, Invariance, PTL

(* AdmittedOnce: whatever is lost, repeated or rebased over, an interval   *)
(* is paid once and in order.                                              *)
THEOREM AdmitsOnce == Spec => []AdmittedOnce
<1>1. IInv => AdmittedOnce
  BY DEF IInv, PaidInv
<1> QED BY <1>1, Invariance, PTL

(* IntegrityExact: an episode that keeps its integrity flag was paid every *)
(* report of its life.                                                     *)
THEOREM IntegrityIsExact == Spec => []IntegrityExact
<1>1. IInv => IntegrityExact
  BY DEF IInv, PaidInv, IntegrityExact
<1> QED BY <1>1, Invariance, PTL
=============================================================================
