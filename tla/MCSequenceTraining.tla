------------------------- MODULE MCSequenceTraining -------------------------
(* SequenceTraining for TLC: graphs with one and two recurrent nodes, an   *)
(* interleaved affine head and a split.                                    *)
EXTENDS SequenceTraining

GraphNode(op, from, in, out, hidden) ==
  [op |-> op, inputs |-> from, inputSize |-> in, outputSizes |-> out, hiddenSizes |-> <<>>,
   hidden |-> hidden]
Edge(i) == [from |-> i, port |-> 1]
Output(i, port, at) == [node |-> i, port |-> port, offset |-> at]
Input == GraphNode("Input", <<>>, 1, <<1>>, 0)

Memories ==
  [nodes |-> <<Input, GraphNode("RRU", <<Edge(1)>>, 1, <<1>>, 1),
               GraphNode("LSTM", <<Edge(2)>>, 1, <<1>>, 1)>>,
   outputs |-> <<Output(3, 1, 0), Output(2, 1, 1)>>]
Motor ==
  [nodes |-> <<Input, GraphNode("RRU", <<Edge(1)>>, 1, <<1>>, 1),
               GraphNode("Dense", <<Edge(1), Edge(2)>>, 2, <<2>>, 0)>>,
   outputs |-> <<Output(3, 1, 0)>>]
Routed ==
  [nodes |-> <<Input, [GraphNode("MLP", <<Edge(1)>>, 1, <<2>>, 0) EXCEPT !.hiddenSizes = <<1>>],
               GraphNode("Split", <<Edge(2)>>, 2, <<1, 1>>, 0)>>,
   outputs |-> <<Output(3, 2, 0), Output(3, 1, 1)>>]

MCGraphs == {Memories, Motor, Routed}
=============================================================================
