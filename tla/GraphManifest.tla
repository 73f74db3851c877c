--------------------------- MODULE GraphManifest ---------------------------
(* The manifest of a canonical graph as canonical_graph.py admits it: flat *)
(* parameters addressed through strided views, recurrent state in blocks,  *)
(* and nodes in topological order.  Pure operators; a manifest is          *)
(*   [nodes, totalParameters, totalStateSize, outputs, lifeRule]           *)
(* and the identity of a node is its place in `nodes'.  Digests, equations *)
(* and upper ceilings are left out.                                        *)
EXTENDS Integers, Sequences, FiniteSets, FiniteSetsExt

None == -1

Affine == {"Dense", "MLP"}
Routing == {"Concat", "Split"}
Recurrent == {"GRU", "LSTM", "RRU"}

Gates(op) == CASE op = "GRU" -> <<"z", "r", "h">>
               [] op = "LSTM" -> <<"i", "f", "o", "g">>
               [] op = "RRU" -> <<"c", "r">>

StateNames(op) == IF op = "LSTM" THEN <<"hidden", "cell">>
                  ELSE IF op \in Recurrent THEN <<"hidden">> ELSE <<>>

Total(f) == MapThenSumSet(LAMBDA i : f[i], DOMAIN f)
Before(f, i) == MapThenSumSet(LAMBDA j : f[j], 1..(i - 1))
Product(shape) == IF Len(shape) = 1 THEN shape[1] ELSE shape[1] * shape[2]

(* The widths an affine node passes through, its input first.              *)
Widths(n) == <<n.inputSize>> \o n.hiddenSizes \o <<Total(n.outputSizes)>>

ExpectedViews(n) ==
  IF n.op \in Affine
    THEN UNION {{<<<<"W", k>>, <<Widths(n)[k + 1], Widths(n)[k]>>>>,
                 <<<<"b", k>>, <<Widths(n)[k + 1]>>>>} : k \in 1..(Len(Widths(n)) - 1)}
  ELSE IF n.op \in Recurrent
    THEN UNION {{<<<<"W", Gates(n.op)[g]>>, <<n.hidden, n.inputSize>>>>,
                 <<<<"U", Gates(n.op)[g]>>, <<n.hidden, n.hidden>>>>,
                 <<<<"b", Gates(n.op)[g]>>, <<n.hidden>>>>} : g \in DOMAIN Gates(n.op)}
  ELSE {}

(* The flat element behind a logical one.                                  *)
Address(view, l) ==
  IF Len(view.shape) = 1
    THEN view.offset + l * view.strides[1]
    ELSE view.offset + (l \div view.shape[2]) * view.strides[1]
                     + (l % view.shape[2]) * view.strides[2]

Addresses(view) == {Address(view, l) : l \in 0..(Product(view.shape) - 1)}

(* The logical elements of all views of a node.                            *)
Elements(n) ==
  UNION {{<<k, l>> : l \in 0..(Product(n.blocks[k].shape) - 1)} : k \in DOMAIN n.blocks}

OwnedParameters(n) == UNION {Addresses(n.blocks[k]) : k \in DOMAIN n.blocks}
OwnedStates(n) ==
  UNION {n.states[k].offset..(n.states[k].offset + n.states[k].length - 1) : k \in DOMAIN n.states}

(* A defect of ViewsDisjoint: a view may be written over another one.      *)
ViewsOverlap(n) == TRUE

(* _parameter_views: in range, and no element twice within the node.       *)
ViewsDisjoint(n) == Cardinality(OwnedParameters(n)) = Cardinality(Elements(n))

ParameterViews(m, n) ==
  /\ \A k \in DOMAIN n.blocks : \A d \in DOMAIN n.blocks[k].strides : n.blocks[k].strides[d] >= 1
  /\ n.pOffset >= 0 /\ n.pLength >= 0
  /\ OwnedParameters(n) \subseteq n.pOffset..(n.pOffset + n.pLength - 1)
  /\ OwnedParameters(n) \subseteq 0..(m.totalParameters - 1)
  /\ ViewsDisjoint(n)
  /\ {<<n.blocks[k].name, n.blocks[k].shape>> : k \in DOMAIN n.blocks} = ExpectedViews(n)

StateViews(m, n) ==
  LET names == StateNames(n.op)
  IN /\ Len(n.states) = Len(names)
     /\ names = <<>> => n.sOffset = None /\ n.sLength = 0
     /\ names # <<>> => n.sLength = n.hidden * Len(names)
     /\ \A k \in DOMAIN n.states :
          /\ n.states[k].length = n.hidden
          /\ n.states[k].offset = n.sOffset + (k - 1) * n.hidden
     /\ OwnedStates(n) \subseteq 0..(m.totalStateSize - 1)

Edges(m, i) ==
  \A e \in DOMAIN m.nodes[i].inputs :
    /\ m.nodes[i].inputs[e].from \in 1..(i - 1)
    /\ m.nodes[i].inputs[e].port \in DOMAIN m.nodes[m.nodes[i].inputs[e].from].outputSizes

Incoming(m, i) ==
  Total([e \in DOMAIN m.nodes[i].inputs |->
           m.nodes[m.nodes[i].inputs[e].from].outputSizes[m.nodes[i].inputs[e].port]])

Node(m, i) ==
  LET n == m.nodes[i]
  IN /\ n.op # "Split" => Len(n.outputSizes) = 1
     /\ n.op # "MLP" => n.hiddenSizes = <<>>
     /\ n.op \in Recurrent => n.outputSizes = <<n.hidden>>
     /\ Edges(m, i)
     /\ IF n.op = "Input" THEN n.inputs = <<>> /\ n.outputSizes = <<n.inputSize>>
                          ELSE n.inputs # <<>> /\ Incoming(m, i) = n.inputSize
     /\ n.op \in Routing => Total(n.outputSizes) = n.inputSize
     /\ ParameterViews(m, n)
     /\ StateViews(m, n)

(* No two nodes own an element, for `owners' spans the graph.              *)
Unshared(owned) == \A i, j \in DOMAIN owned : i # j => owned[i] \cap owned[j] = {}

Lengths(m) == [i \in DOMAIN m.nodes |-> m.nodes[i].pLength]
StateLengths(m) == [i \in DOMAIN m.nodes |-> m.nodes[i].sLength]

(* A defect of Contiguous: state ranges may come in any order.             *)
ContiguousParameters(m) ==
  \A i \in DOMAIN m.nodes : m.nodes[i].pOffset = Before(Lengths(m), i)

(* Each node's range begins where the one before it ends.                  *)
Contiguous(m) ==
  \A i \in DOMAIN m.nodes :
    /\ m.nodes[i].pOffset = Before(Lengths(m), i)
    /\ m.nodes[i].states # <<>> => m.nodes[i].sOffset = Before(StateLengths(m), i)

Complete(m) ==
  /\ Total(Lengths(m)) = m.totalParameters
  /\ Total(StateLengths(m)) = m.totalStateSize
  /\ UNION {OwnedParameters(m.nodes[i]) : i \in DOMAIN m.nodes} = 0..(m.totalParameters - 1)
  /\ UNION {OwnedStates(m.nodes[i]) : i \in DOMAIN m.nodes} = 0..(m.totalStateSize - 1)

Outputs(m) ==
  LET width(o) == m.nodes[m.outputs[o].node].outputSizes[m.outputs[o].port]
      widths == [o \in DOMAIN m.outputs |-> width(o)]
  IN /\ m.outputs # <<>>
     /\ \A o \in DOMAIN m.outputs :
          /\ m.outputs[o].node \in DOMAIN m.nodes
          /\ m.outputs[o].port \in DOMAIN m.nodes[m.outputs[o].node].outputSizes
          /\ m.outputs[o].offset = Before(widths, o)
     /\ Total(widths) = 2

(* A defect of Admitted: of the state only the totals are compared.        *)
AdmittedByTotals(m) ==
  /\ \A i \in DOMAIN m.nodes : Node(m, i)
  /\ Unshared([i \in DOMAIN m.nodes |-> OwnedParameters(m.nodes[i])])
  /\ ContiguousParameters(m)
  /\ Total(Lengths(m)) = m.totalParameters
  /\ Total(StateLengths(m)) = m.totalStateSize
  /\ UNION {OwnedParameters(m.nodes[i]) : i \in DOMAIN m.nodes} = 0..(m.totalParameters - 1)
  /\ Outputs(m)

Admitted(m) ==
  /\ \A i \in DOMAIN m.nodes : Node(m, i)
  /\ Unshared([i \in DOMAIN m.nodes |-> OwnedParameters(m.nodes[i])])
  /\ Unshared([i \in DOMAIN m.nodes |-> OwnedStates(m.nodes[i])])
  /\ Contiguous(m)
  /\ Complete(m)
  /\ Cardinality({i \in DOMAIN m.nodes : m.nodes[i].op = "Input"}) = 1
  /\ Outputs(m)
=============================================================================
