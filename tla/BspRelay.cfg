\* Two graphs with two and one vertices, three steps each as in the test.  A graph
\* whose peer ended its run early waits for it for good, so the system may stop.
SPECIFICATION Spec
CONSTANTS
  g1 = g1  g2 = g2
  v1 = v1  v2 = v2  v3 = v3
  VertexIds <- Vertices
  Graphs = {g1, g2}
  Owner <- Parts
  NumSteps = 3
  MaxSends = 1
  MaxQueued = 2
SYMMETRY Symmetric
CHECK_DEADLOCK FALSE
PROPERTY ImplementsOneGraph
