-------------------------- MODULE SequenceTraining --------------------------
(* A manifest is read, and windows of deliveries are unrolled through the  *)
(* graph it describes: burn-in without gradients, one cut, training rows,  *)
(* resets at declared boundaries, padding to one compiled shape            *)
(* (sequence_distillation.py over canonical_graph.py).                     *)
(*                                                                         *)
(* Values are symbolic.  An element of recurrent state is the record of    *)
(* the block it was computed for, the deliveries it has seen since it was  *)
(* last zeroed, and how many of them gradients reach.  Rows of a batch are *)
(* computed elementwise, so one row is followed; the batch size remains as *)
(* part of the compiled shape.                                             *)
EXTENDS GraphManifest, SequencesExt

CONSTANTS
  Graphs,       \* the graphs the native compiler is given
  LifeRules,    \* subset of {"reset", "preserve"}
  Boundaries,   \* subset of the members of SequenceBoundary
  BatchSizes,   \* batch sizes of windows
  BurnIn, Bptt, \* capacity: the trainer's first configuration
  MaxBurnIn, MaxBptt,   \* configurations windows are trained under
  MaxAlterations        \* departures of a manifest from the compiler's

ASSUME SequenceAssumption ==
  /\ LifeRules \subseteq {"reset", "preserve"}
  /\ Boundaries \subseteq {"CONTINUE", "GENERATION", "LIFE", "GAP", "CAPTURE_START"}
  /\ BurnIn \in Nat /\ Bptt \in Nat \ {0} /\ MaxBurnIn \in Nat /\ MaxBptt \in Nat \ {0}

VARIABLES
  pc,           \* "written", "loaded", "refused", "unroll"
  graph,        \* what the compiler was given
  manifest,
  altered,      \* number of alterations
  signature,    \* batch size of the compiled window, 0 when none is
  window,       \* the window being unrolled
  index,        \* its steps taken, padding included
  state,        \* recurrent state of the row
  outputs       \* predictions of the training steps

files == <<graph, manifest, altered>>
vars == <<pc, files, signature, window, index, state, outputs>>

-----------------------------------------------------------------------------
(* The native compiler: nodes and views laid out one after the other.      *)

Sizes(n) == [k \in 1..(Len(Widths(n)) - 1) |-> (Widths(n)[k] + 1) * Widths(n)[k + 1]]

AffineBlocks(n, base) ==
  LET layer(k) ==
        LET in == Widths(n)[k]
            out == Widths(n)[k + 1]
            start == base + Before(Sizes(n), k)
        IN <<[name |-> <<"W", k>>, offset |-> start, shape |-> <<out, in>>,
              strides |-> <<in + 1, 1>>],
             [name |-> <<"b", k>>, offset |-> start + in, shape |-> <<out>>,
              strides |-> <<in + 1>>]>>
  IN FlattenSeq([k \in DOMAIN Sizes(n) |-> layer(k)])

RecurrentBlocks(n, base) ==
  LET gates == Gates(n.op)
      w == n.hidden * n.inputSize
      u == n.hidden * n.hidden
      all == Len(gates)
      W == [g \in DOMAIN gates |->
              [name |-> <<"W", gates[g]>>, offset |-> base + (g - 1) * w,
               shape |-> <<n.hidden, n.inputSize>>, strides |-> <<n.inputSize, 1>>]]
      U == [g \in DOMAIN gates |->
              [name |-> <<"U", gates[g]>>, offset |-> base + all * w + (g - 1) * u,
               shape |-> <<n.hidden, n.hidden>>, strides |-> <<n.hidden, 1>>]]
      b == [g \in DOMAIN gates |->
              [name |-> <<"b", gates[g]>>, offset |-> base + all * (w + u) + (g - 1) * n.hidden,
               shape |-> <<n.hidden>>, strides |-> <<1>>]]
  IN W \o U \o b

Blocks(n, base) ==
  CASE n.op \in Affine -> AffineBlocks(n, base)
    [] n.op \in Recurrent -> RecurrentBlocks(n, base)
    [] OTHER -> <<>>

Compiled(g, rule) ==
  LET length == [i \in DOMAIN g.nodes |->
                   MapThenSumSet(LAMBDA v : Product(v[2]), ExpectedViews(g.nodes[i]))]
      stateLength == [i \in DOMAIN g.nodes |-> g.nodes[i].hidden * Len(StateNames(g.nodes[i].op))]
      node(i) ==
        LET n == g.nodes[i]
            at == Before(stateLength, i)
        IN n @@ [pOffset |-> Before(length, i), pLength |-> length[i],
                 blocks |-> Blocks(n, Before(length, i)),
                 sOffset |-> IF n.op \in Recurrent THEN at ELSE None,
                 sLength |-> stateLength[i],
                 states |-> [k \in DOMAIN StateNames(n.op) |->
                               [offset |-> at + (k - 1) * n.hidden, length |-> n.hidden]]]
  IN [nodes |-> [i \in DOMAIN g.nodes |-> node(i)],
      totalParameters |-> Total(length), totalStateSize |-> Total(stateLength),
      outputs |-> g.outputs, lifeRule |-> rule]

Init ==
  /\ graph \in Graphs
  /\ \E rule \in LifeRules : manifest = Compiled(graph, rule)
  /\ altered = 0
  /\ pc = "written"
  /\ signature = 0
  /\ window = <<>> /\ index = 0 /\ state = <<>> /\ outputs = <<>>

-----------------------------------------------------------------------------
(* A manifest that is not the compiler's: one number is off, the last     *)
(* range ends elsewhere, or the state of a node is placed elsewhere or     *)
(* exchanged with that of another node or block.                           *)

Shift == {-1, 1}
OffView(i) ==
  \E k \in DOMAIN manifest.nodes[i].blocks, s \in Shift :
    \/ manifest' = [manifest EXCEPT !.nodes[i].blocks[k].offset = @ + s]
    \/ /\ manifest.nodes[i].blocks[k].shape[1] > 1
       /\ manifest' = [manifest EXCEPT !.nodes[i].blocks[k].strides[1] = @ + s]
OffRange(i) ==
  \E s \in Shift :
    \/ manifest' = [manifest EXCEPT !.nodes[i].pOffset = @ + s]
    \/ manifest' = [manifest EXCEPT !.nodes[i].pLength = @ + s]
    \/ manifest' = [manifest EXCEPT !.nodes[i].sOffset = @ + s]
    \/ manifest' = [manifest EXCEPT !.nodes[i].sLength = @ + s]
OffTotal ==
  \E s \in Shift :
    \/ manifest' = [manifest EXCEPT !.totalParameters = @ + s]
    \/ manifest' = [manifest EXCEPT !.totalStateSize = @ + s]
    \/ manifest' = [manifest EXCEPT !.totalParameters = @ + s,
                                    !.nodes[Len(manifest.nodes)].pLength = @ + s]
OffEdge(i) ==
  \E e \in DOMAIN manifest.nodes[i].inputs, j \in DOMAIN manifest.nodes :
    manifest' = [manifest EXCEPT !.nodes[i].inputs[e].from = j]
Placed(n, at) ==
  [n EXCEPT !.sOffset = at,
            !.states = [k \in DOMAIN @ |-> [@[k] EXCEPT !.offset = @ - n.sOffset + at]]]
OffState(i) ==
  \E s \in Shift :
    /\ manifest.nodes[i].states # <<>>
    /\ manifest' = [manifest EXCEPT !.nodes[i] = Placed(@, @.sOffset + s)]
ExchangedNodes(i, j) ==
  LET first == manifest.nodes[i]
      second == manifest.nodes[j]
  IN /\ i < j /\ first.states # <<>> /\ second.states # <<>>
     /\ manifest' = [manifest EXCEPT
          !.nodes[i] = Placed(first, first.sOffset + second.sLength),
          !.nodes[j] = Placed(second, first.sOffset)]
ExchangedBlocks(i) ==
  /\ Len(manifest.nodes[i].states) = 2
  /\ manifest' = [manifest EXCEPT !.nodes[i].states = Reverse(@)]

Alter ==
  /\ pc = "written" /\ altered < MaxAlterations
  /\ \/ OffTotal
     \/ \E i \in DOMAIN manifest.nodes :
          \/ OffView(i) \/ OffRange(i) \/ OffEdge(i) \/ OffState(i) \/ ExchangedBlocks(i)
          \/ \E j \in DOMAIN manifest.nodes : ExchangedNodes(i, j)
  /\ manifest' # manifest
  /\ altered' = altered + 1
  /\ UNCHANGED <<pc, graph, signature, window, index, state, outputs>>

Load ==
  /\ pc = "written"
  /\ pc' = IF Admitted(manifest) THEN "loaded" ELSE "refused"
  /\ UNCHANGED <<files, signature, window, index, state, outputs>>

-----------------------------------------------------------------------------
(* CanonicalGraph._evaluate: recurrence, the part that is remembered.      *)

Zero == [of |-> <<>>, past |-> <<>>, tracked |-> 0]
Zeros == [p \in 1..manifest.totalStateSize |-> Zero]

(* What a node finds at its declared offset; an element computed for       *)
(* another place shows ever after.                                         *)
Read(from, i, k, l) == from[manifest.nodes[i].states[k].offset + l + 1]

Next1(value, place, delivery, traced) ==
  [of |-> IF value.of \in {<<>>, place} THEN place ELSE <<"mixed">>,
   past |-> Append(value.past, delivery),
   tracked |-> IF traced THEN value.tracked + 1 ELSE 0]

(* next_states is the concatenation in node order, hidden before cell.     *)
Recurrence(from, delivery, traced) ==
  LET block(i, k) == [l \in 1..manifest.nodes[i].hidden |->
                        Next1(Read(from, i, k, l - 1), <<i, k, l - 1>>, delivery, traced)]
      node(i) == FlattenSeq([k \in DOMAIN manifest.nodes[i].states |-> block(i, k)])
  IN FlattenSeq([i \in DOMAIN manifest.nodes |-> node(i)])

-----------------------------------------------------------------------------
(* One window.                                                             *)

Resets(boundary) ==
  \/ boundary \in {"GENERATION", "GAP", "CAPTURE_START"}
  \/ boundary = "LIFE" /\ manifest.lifeRule = "reset"

Training(w) == w.length - w.burnIn
Windows ==
  {w \in [length : 1..(MaxBurnIn + MaxBptt), burnIn : 0..MaxBurnIn,
          active : 0..(MaxBurnIn + MaxBptt), batch : BatchSizes] :
     w.burnIn < w.length /\ Training(w) <= MaxBptt /\ w.active <= w.length}

(* The state the caller hands over, detached: a history before delivery 1. *)
Initial == [p \in 1..manifest.totalStateSize |-> [Zero EXCEPT !.past = <<0>>]]

(* One compiled shape per owner; every other window runs eagerly.          *)
FitsCompiled(w) ==
  /\ w.burnIn <= BurnIn /\ Training(w) <= Bptt
  /\ signature \in {0, w.batch}

Start ==
  /\ pc = "loaded"
  /\ \E w \in Windows, boundary \in [1..(MaxBurnIn + MaxBptt) -> Boundaries] :
       /\ \A d \in (w.length + 1)..(MaxBurnIn + MaxBptt) : boundary[d] = "CONTINUE"
       /\ window' = w @@ [boundary |-> boundary, compiled |-> FitsCompiled(w)]
       /\ state' = Initial
       /\ signature' = IF FitsCompiled(w) THEN w.batch ELSE signature
  /\ index' = 0 /\ outputs' = <<>>
  /\ pc' = "unroll"
  /\ UNCHANGED files

(* A defect of Prefix: all padding is appended.                            *)
NoPrefix == 0

(* Padding before burn-in, so that the cut of the compiled function falls  *)
(* between burn-in and training.                                           *)
Prefix == IF window.compiled THEN BurnIn - window.burnIn ELSE 0

Cut == IF window.compiled THEN BurnIn ELSE window.burnIn
Steps == IF window.compiled THEN BurnIn + Bptt ELSE window.length

Delivery == index + 1 - Prefix
Active == Delivery \in 1..window.length /\ Delivery <= window.active
Boundary == IF Delivery \in 1..window.length THEN window.boundary[Delivery] ELSE "CONTINUE"

BeforeDelivery == IF Resets(Boundary) /\ Active THEN Zeros ELSE state

Deliver ==
  /\ pc = "unroll" /\ index < Steps
  /\ LET proposed == Recurrence(BeforeDelivery, Delivery, index >= Cut)
     IN /\ state' = IF Active THEN proposed ELSE state
        /\ outputs' = IF index < Cut THEN outputs
                      ELSE Append(outputs, [at |-> Delivery, state |-> proposed])
  /\ index' = index + 1
  /\ UNCHANGED <<pc, files, signature, window>>

Returned == SubSeq(outputs, 1, Training(window))

Return ==
  /\ pc = "unroll" /\ index = Steps
  /\ pc' = "loaded"
  /\ window' = <<>> /\ index' = 0 /\ state' = <<>> /\ outputs' = <<>>
  /\ UNCHANGED <<files, signature>>

Next == Alter \/ Load \/ Start \/ Deliver \/ Return

Spec == Init /\ [][Next]_vars

-----------------------------------------------------------------------------
(* The logical weights: element f of node i; and where each one is stored. *)
Weights == UNION {{i} \X Elements(manifest.nodes[i]) : i \in DOMAIN manifest.nodes}
WeightAddress ==
  [w \in Weights |-> Address(manifest.nodes[w[1]].blocks[w[2][1]], w[2][2])]

(* The logical state: element l of block k of node i; and where it is.     *)
States ==
  UNION {{<<i, k, l>> : k \in DOMAIN manifest.nodes[i].states,
                        l \in 0..(manifest.nodes[i].hidden - 1)} :
           i \in DOMAIN manifest.nodes}
StateAddress ==
  [place \in States |-> manifest.nodes[place[1]].states[place[2]].offset + place[3]]

Fills(address, size) == IsInjective(address) /\ Range(address) = 0..(size - 1)

(* What the compiler writes is admitted; and in whatever is admitted the   *)
(* floats of the weights file are the logical weights, one for one, those  *)
(* of the state vector are the elements of the nodes' blocks, one for one, *)
(* and every node reads only what was computed before it.                  *)
ManifestExact ==
  /\ pc = "refused" => altered > 0
  /\ pc \in {"loaded", "unroll"} =>
       /\ Fills(WeightAddress, manifest.totalParameters)
       /\ Fills(StateAddress, manifest.totalStateSize)
       /\ \A i \in DOMAIN manifest.nodes : \A e \in DOMAIN manifest.nodes[i].inputs :
            manifest.nodes[i].inputs[e].from < i

(* What is at position p of the state vector by the compiler's declaration. *)
Declared(p) == CHOOSE place \in States : StateAddress[place] + 1 = p

(* The last delivery up to d before which the state was zeroed.            *)
LastReset(d) == Max({0} \cup {j \in 1..d : Resets(window.boundary[j])})

Expected(d) ==
  LET since == LastReset(d)
      seen == [j \in 1..(d + 1 - Max({1, since})) |-> Max({1, since}) + j - 1]
  IN [p \in 1..manifest.totalStateSize |->
        [of |-> Declared(p),
         past |-> IF since = 0 THEN <<0>> \o seen ELSE seen,
         tracked |-> Cardinality({j \in DOMAIN seen : seen[j] > window.burnIn})]]

Ended == pc = "unroll" /\ index = Steps

(* The predictions handed to the loss are one for each training row, in    *)
(* order, and that of an active row is made from exactly the deliveries    *)
(* since its last declared reset, with gradients reaching back to the      *)
(* first training row and no further, whichever way the window was run.    *)
PredictionsExact ==
  Ended => /\ Len(Returned) = Training(window)
           /\ \A j \in 1..Training(window) :
                window.burnIn + j <= window.active =>
                  Returned[j] = [at |-> window.burnIn + j, state |-> Expected(window.burnIn + j)]

(* The continuation is the state after the last active delivery: neither   *)
(* padding nor a boundary on an inactive row moves it.                     *)
ContinuationExact ==
  Ended => state = IF window.active = 0 THEN Initial ELSE Expected(window.active)
=============================================================================
