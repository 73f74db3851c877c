--------------------------- MODULE RecurrentWindows ---------------------------
(***************************************************************************)
(* The recurrent streams that a replay retains, and the windows that the   *)
(* sampler may draw from them (distillation_replay.py _boundary,           *)
(* distillation_sampling.py _refresh and sample).                          *)
(*                                                                         *)
(* Neither the fetch nor the replay looks into a chunk, so its stream,     *)
(* life and ordinals are no state of TeacherIntake: a history gives them   *)
(* for every sequence number, and what is said of windows is said for all  *)
(* histories.  The rows themselves are left out.                           *)
(***************************************************************************)
EXTENDS Integers, Sequences, FiniteSets, SequencesExt, FiniteSetsExt

CONSTANTS
    Slots,        \* the streams that the capture multiplexes
    Transitions,  \* what may happen to a stream between two chunks
    Rows,         \* numbers of rows in a chunk (1..256)
    BurnIn,       \* burn_in_steps
    Bptt          \* bptt_steps

ASSUME WindowsAssumption ==
    /\ Slots # {}
    /\ Transitions \subseteq {"continuation", "generationStart", "gap", "lifeAfterGap"}
    /\ Rows \subseteq Nat \ {0} /\ BurnIn \in Nat /\ Bptt \in Nat \ {0}

-----------------------------------------------------------------------------
(* What the producer seals: the first chunk of a slot, or one that follows *)
(* its last.  Ordinals count every delivered row, also of lost chunks.     *)
FirstChunk(slot) == [slot |-> slot, generation |-> 1, life |-> 1, first |-> 1,
                     start |-> "captureStart"]
NextChunk(p, t) ==
    [slot |-> p.slot,
     generation |-> IF t = "generationStart" THEN p.generation + 1 ELSE p.generation,
     life |-> IF p.end = "lifeEnded" \/ t \in {"generationStart", "lifeAfterGap"}
              THEN p.life + 1 ELSE p.life,
     first |-> IF t \in {"gap", "lifeAfterGap"} THEN p.last + 2 ELSE p.last + 1,
     start |-> CASE t = "lifeAfterGap" -> "physicalLifeStart"
                 [] t = "continuation" /\ p.end = "lifeEnded" -> "physicalLifeStart"
                 [] OTHER -> t]

Heads(h, slot) ==
    LET owned == {m \in DOMAIN h: h[m].slot = slot}
    IN IF owned = {} THEN {FirstChunk(slot)} ELSE {NextChunk(h[Max(owned)], t): t \in Transitions}
Chunks(h) ==
    {[slot |-> c.slot, generation |-> c.generation, life |-> c.life, first |-> c.first,
      start |-> c.start, last |-> c.first + r - 1, end |-> e]:
         c \in UNION {Heads(h, slot): slot \in Slots}, r \in Rows, e \in {"sealed", "lifeEnded"}}
Histories(length) ==
    LET sealed[n \in 0..length] ==
            IF n = 0 THEN {<<>>}
            ELSE UNION {{Append(h, c): c \in Chunks(h)}: h \in sealed[n - 1]}
    IN sealed[length]

-----------------------------------------------------------------------------
(* What a retained chunk continues.  In the rest of the module ns are the  *)
(* sequence numbers retained, in order.                                    *)
Recorded == [captureStart |-> "CAPTURE_START", generationStart |-> "GENERATION"]

\* A defect of Joined: the ordinals are not compared.
JoinedAnyOrdinal(p, c) == p.generation = c.generation
Joined(p, c) == p.generation = c.generation /\ c.first = p.last + 1

KnownLife(p, c) ==
    /\ Joined(p, c) /\ c.start = "physicalLifeStart"
    /\ p.life # c.life /\ p.end = "lifeEnded"
Continues(p, c) ==
    /\ Joined(p, c) /\ c.start \notin {"physicalLifeStart", "gap"}
    /\ p.life = c.life /\ p.end = "sealed"

(* The boundary at the first row of the k-th retained chunk.               *)
Boundary(h, ns, k) ==
    LET c == h[ns[k]]
        previous == {j \in 1..(k - 1): h[ns[j]].slot = c.slot}
        p == h[ns[Max(previous)]]
    IN IF c.start \in DOMAIN Recorded THEN Recorded[c.start]
       ELSE IF previous = {} THEN "GAP"
       ELSE IF KnownLife(p, c) THEN "LIFE"
       ELSE IF Continues(p, c) THEN "CONTINUE" ELSE "GAP"

-----------------------------------------------------------------------------
(* The rows of the chunks of one slot and generation, in retained order.   *)
Stream(h, n) == <<h[n].slot, h[n].generation>>
RowsAt(h, ns, k) ==
    [r \in 1..(h[ns[k]].last - h[ns[k]].first + 1) |->
        [ordinal |-> h[ns[k]].first + r - 1, life |-> h[ns[k]].life,
         boundary |-> IF r = 1 THEN Boundary(h, ns, k) ELSE "CONTINUE"]]
StreamRows(h, ns, stream) ==
    LET rows[k \in 0..Len(ns)] ==
            IF k = 0 THEN <<>>
            ELSE rows[k - 1] \o (IF Stream(h, ns[k]) = stream THEN RowsAt(h, ns, k) ELSE <<>>)
    IN rows[Len(ns)]

Opened(b) == IF b \in {"CONTINUE", "LIFE"} THEN "GAP" ELSE b
(* Burn-in rows, then at least one and at most Bptt training rows.         *)
Window(rows, b) ==
    [SubSeq(rows, b, Min({b + BurnIn + Bptt - 1, Len(rows)})) EXCEPT ![1].boundary = Opened(@)]
Windows(h, ns) ==
    UNION {LET rows == StreamRows(h, ns, stream)
           IN {Window(rows, b): b \in 1..(Len(rows) - BurnIn)}:
               stream \in {Stream(h, n): n \in Range(ns)}}

-----------------------------------------------------------------------------
(* Recurrent state is carried from one row to the next exactly if the      *)
(* stream really did so, known lives are real, and no window claims a      *)
(* prefix that it does not hold.                                           *)
Sound(w) ==
    /\ w[1].boundary \notin {"CONTINUE", "LIFE"}
    /\ \A k \in 2..Len(w):
         LET adjacent == w[k].ordinal = w[k - 1].ordinal + 1
         IN /\ w[k].boundary = "CONTINUE" <=> adjacent /\ w[k].life = w[k - 1].life
            /\ w[k].boundary = "LIFE" => adjacent /\ w[k].life = w[k - 1].life + 1

(* What the loader of a snapshot demands of the windows last drawn.        *)
WindowAdmitted(w) ==
    LET first == w[1].ordinal
        train == w[BurnIn + 1].ordinal
        last == w[Len(w)].ordinal
        trained == Len(w) - BurnIn
    IN /\ trained \in 1..Bptt /\ first <= train /\ train <= last
       /\ train - first >= BurnIn /\ last - train >= trained - 1
       /\ BurnIn = 0 => train = first
       /\ trained = 1 => last = train
===============================================================================
